SPECIFICATION Spec
CONSTANTS
  Addr <- OneAddr
  DataLens <- Nine
  AnswerType <- ResponseOrError
  MaxTelegrams = 1
  MaxItems = 3
INVARIANT NoStrangeRead
