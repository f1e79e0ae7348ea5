SPECIFICATION Spec
CONSTANTS
  NVariants = 2
  NProbes = 2
  IterationsPerRun = 2
  PreflightVersions <- MCPreflightVersions
  MaxIterations = 3
  MaxTexts = 2
  MaxRollbacks = 1
  MaxConversations = 1
INVARIANTS BorrowersHearVettedText
