SPECIFICATION FairSpec
CONSTANTS
  Addr <- OneAddr
  DataLens <- Nine
  AnswerType <- ResponseOrError
  AnswerLens <- OneOrTwo
  Patterns <- WaitLines
  MaxReads = 3
  MaxTelegrams = 1
  MaxRequests = 2
  MaxItems = 2
INVARIANTS AlarmOnlyInReceive KWAnswerIsOwn
PROPERTY CallsReturn
