CONSTANTS
  w1 = w1
  Workflows = {w1}
  Workers = {k1, k2}
  MaxAssessments = 3
  VoiceMode = FALSE
  MaxDeliveries = 0
  Outcome <- FewOutcomes
  CallOutcomes = {"opt_out"}
SPECIFICATION Spec
INVARIANTS
  NoContactAfterOptOut
  RowsMatchHistory
  OneConversationAtATime
  HandoffComplete
PROPERTIES
  ImplementsPipeline
