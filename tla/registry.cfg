SPECIFICATION Spec
CONSTANTS
  Iterations = {1, 2}
  NVariants = 2
  PreflightVersion = 10500
  MaxTexts = 2
  MaxBegun = 2
  MaxScripts = 2
  MaxRollbacks = 1
  MaxWipes = 1
INVARIANTS LiveWasAccepted ReDecidedTextWasScored SeedingRestores
PROPERTIES AdoptedKeepsText
