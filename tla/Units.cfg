SPECIFICATION Spec
CONSTANTS
  Unit <- AllUnits
  Memory <- MemoryOf
  Typed <- TypedFor
  Rubbish <- Minutes
  MaxSets = 2
  Calculate <- execExpression
  CalculateInt <- execIExpression
INVARIANTS SetIsReadBack WriteBackNearby OneBitSet ShowsMeaning
