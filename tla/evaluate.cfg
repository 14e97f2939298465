SPECIFICATION Spec
CONSTANTS
  Inputs = {s, f}
  Unknowns = {s}
  Y = y
  Shapes = {grains}
  Scalar = scalar
  Undef = undef
  Dims = {0}
  Requests <- MCRequests
  Kinds = {"explicit", "AD", "composed"}
  JIT = {TRUE, FALSE}
  MaxCalls = 2
  MaxGuesses = 2
  MaxSets = 1
INVARIANTS ValuesOfArguments DerivativesOfArguments SecondDerivativesOfArguments
