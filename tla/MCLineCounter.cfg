CONSTANTS
  BufSize = 5
  ReadSize = 3
  Given = {"zero"}
  Foreign = {"zero", "other", "newline"}
  MaxLine = 5
  MaxSent = 7
  MaxReplies = 3
SPECIFICATION ConnectionSpec
INVARIANTS ConnectionTypeOK AnswersAreLineLengths FirstBytesAnswered
PROPERTIES EveryLineAnswered
CHECK_DEADLOCK FALSE
