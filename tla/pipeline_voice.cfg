CONSTANTS
  w1 = w1
  Workflows = {w1}
  Workers = {k1, k2}
  MaxAssessments = 1
  VoiceMode = TRUE
  MaxDeliveries = 2
  Outcome <- TwoOutcomes
  CallOutcomes = {"opt_out", "no_deal"}
SPECIFICATION Spec
INVARIANTS
  OneCallPerWorkflow
PROPERTIES
  EveryWorkflowCloses
