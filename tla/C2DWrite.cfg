SPECIFICATION C2DSpec
CONSTANTS
  FileSizes = {0, 1, 128, 32767, 32768}
  FileBytes = {9, 175}
  ReplyLengths = {0, 8}
INVARIANTS NothingHeldOnReturn FileArrives
