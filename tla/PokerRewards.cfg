SPECIFICATION Spec
CONSTANTS
  Tournaments = {"t1"}
  Miners = {1, 2}
  Unit <- MCUnit
  Bound = {1, 2}
  FieldSize = 2
  Projections <- MCProjections
  LegacyResults <- MCLegacy
  HiddenScores <- MCHidden
  Windows = {"daily", "weekly"}
  Covers <- MCCovers
  Pool <- MCPool
  Requested <- MCRequested
  Budget = 6
  LoopEnabled = TRUE
  Workers = {k1}
  MaxCrashes = 1
  None = None
INVARIANTS
  BudgetHolds
  AllocationAddsUp
  AnchoredIsReserved
PROPERTIES
  AnchoredIsFinal
CHECK_DEADLOCK FALSE
