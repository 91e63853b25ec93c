SPECIFICATION Spec
CONSTANTS
  Name <- SetName
  Cmd <- Configured
  Doc <- Document
  ICmd <- ProtocolCommands
  Macro <- KW2
  UnitOf <- UnitTable
  ParaLens <- OneTwoThree
  MaxCalls = 2
INVARIANT HexLengthAgrees
