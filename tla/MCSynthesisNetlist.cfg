SPECIFICATION Spec
CONSTANTS
  Programs <- MCPrograms
  Samples <- MCSamples
  Options <- MCOptions
INVARIANTS
  VerifiedNetlistMeansSource
