SPECIFICATION FairSpec
CONSTANTS
  Batch = {1, 2}
  Points = {1, 2, 3}
  Norm <- Norms3
  AbsTol = 1
  RelTolInv = 5
  MaxIts = 3
  MaxLineIts = 2
  Radius0 = 2
  MaxRadius = 2
  MaxCalls = 1
INVARIANTS IInv SolutionInGuess SystemAtIterate FlagRestored DerivativesAtOutput TrustRegionKeepsNumbers
PROPERTIES CallEnds ImplementsImplicitMap
