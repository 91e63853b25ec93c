SPECIFICATION Spec
CONSTANTS
  n1 = n1
  n2 = n2
  d1 = d1
  d2 = d2
  known = known
  unknown = unknown
  Name <- TwoNames
  Device <- TwoDevices
  Pcmd <- BothKinds
  DefinedPcmd <- OnlyKnown
  Given <- AddrUnitDescription
  MaxElements <- ThreeThenOne
SYMMETRY Symmetries
INVARIANTS TypeOK FreedWithItsConfiguration NothingDangles LookupFindsDefinition
CHECK_DEADLOCK FALSE
