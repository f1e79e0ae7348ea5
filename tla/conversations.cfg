CONSTANTS
  MaxTurns = 2
  MaxToolRounds = 1
  Batches <- MCBatches
SPECIFICATION Spec
INVARIANTS
  TranscriptPersisted
  OutcomeGrounded
  OptOutLostOnlyToEarlierEnd
PROPERTIES
  NothingAfterHardClose
  Termination
