CONSTANTS
  KillLine = 8
  Costs = {1, 2}
  MaxCost = 2
  MaxVariants = 2
  Probes = 2
  Samples = 2
  Iterations = 2
  MaxLives = 2
SPECIFICATION Spec
INVARIANTS
  WasteBounded
  BillBounded
  PreflightFailsClosed
PROPERTIES
  AdoptsBelowLine
  ScriptEnds
