SPECIFICATION Spec
CONSTANTS
  Inputs = {s, f}
  Unknowns = {s}
  Y = y
  Shapes = {grains}
  Scalar = scalar
  Undef = undef
  Dims = {0}
  Requests <- MCRequests
  Kinds = {"AD2"}
  JIT = {FALSE}
  MaxCalls = 2
  MaxGuesses = 2
  MaxSets = 1
INVARIANTS SecondDerivativesOfArguments
