SPECIFICATION FairSpec
CONSTANTS
  Name <- AllNames
  Cmd <- Configured
  Doc <- Document
  ICmd <- ProtocolCommands
  Macro <- KW2
  UnitOf <- UnitTable
  ParaLens <- OneTwoThree
  MaxCalls = 3
INVARIANTS TypeOK WholeParameter BadParameterSendsNothing RunsAsWritten RejectedIsNoResult
PROPERTY CommandReturns
