SPECIFICATION FairSpec
CONSTANTS
  CodeByte = 54
  Commands = {"send_poll_command", "GET_OP_STATE", "WRITE_UPLOAD_SECTOR_NUMBER"}
  Guard <- MCGuard
  LastRead <- MCLastRead
  Garbled = {"WRITE_UPLOAD_SECTOR_NUMBER"}
  AnswerLengths = {6, 7, 2048}
  MaxExchanges = 3
INVARIANTS NoForgottenAnswer AnsweredIsRead
PROPERTIES CommandReturns ImplementsExchange
