CONSTANTS
  f = f
  g = g
  Flow = {f, g}
  Scenario <- MCScenario
  Reverts = TRUE
  ReadsFail = TRUE
  MaxNonce = 3
SPECIFICATION Spec
INVARIANT NoDoubleSelect
SYMMETRY Sym
