SPECIFICATION Spec
CONSTANTS
  Commands <- All
  FileLengths = {0, 16909060}
  AnswerLengths = {0, 6, 7, 8, 18, 1019, 1024}
  MessageLengths = {0, 1018, 65535}
  CodeByte = 54
INVARIANTS
  AnnouncedLength ChecksumCoversFrame FrameNamesCommand
  FirmwareLengthArrives FieldsWereReceived ReadsStayInBuffer
