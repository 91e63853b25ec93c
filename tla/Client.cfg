SPECIFICATION FairSpec
CONSTANTS
  ErrMsgSize = 14
  MessageLen <- TwoLengths
  MaxCommands = 3
INVARIANTS TypeOK ErrorsOfOwnCommand ErrMsgFits
PROPERTIES ImplementsCalls ClientReturns SessionFollows
