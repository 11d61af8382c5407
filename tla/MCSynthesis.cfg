SPECIFICATION Spec
CONSTANTS
  Programs <- MCPrograms
  Samples <- MCSamples
  Options <- MCOptions
INVARIANTS
  ArenasOK
  LoweredMeansSource
  ReductionKeepsFunctions
  CheckerRight
  PlacementLegal
