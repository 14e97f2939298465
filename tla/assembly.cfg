SPECIFICATION Spec
CONSTANTS
  ra = ra
  rb = rb
  sa = sa
  sb = sb
  f = f
  fo = fo
  Outputs = {ra, rb}
  Inputs = {sa, sb, f, fo}
  Path <- MCPath
  Unknowns = 2
  Cases <- MCCases
  Derivs <- MCDerivs
  Undef = undef
  MaxAssign = 2
INVARIANTS DerivativeEntries JacobianOfResidual ImplicitDerivatives GuessInColumns
