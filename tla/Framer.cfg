SPECIFICATION Spec
CONSTANTS
  Addr <- MixedAddrs
  DataLens <- NineAndMore
  AnswerType <- ResponseOrError
  MaxTelegrams = 2
  MaxItems = 2
INVARIANTS TypeOK OnlyOwnAnswers FreshAnswer IntactAnswer AddrIdle ModeIsKnown
