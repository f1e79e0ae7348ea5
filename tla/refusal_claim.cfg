CONSTANTS
  w1 = w1
  Workflows = {w1}
  Workers = {k1, k2}
  MaxAssessments = 1
  VoiceMode = TRUE
  MaxDeliveries = 1
  Outcome <- TwoOutcomes
  CallOutcomes = {"opt_out", "no_deal"}
SPECIFICATION Spec
PROPERTIES
  RefusalIsFinal
