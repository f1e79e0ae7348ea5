SPECIFICATION Spec
CONSTANTS
  Sample1 = 4
  Sample3 = 5
  MaxOutcomes = 3
  MaxRuns = 2
  MaxHands = 2
INVARIANTS RetiredNeverLive AppliedMeansLive SwapOnEvidence AppliedAnswersHigh
