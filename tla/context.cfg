CONSTANTS
  AgentBudget = 20
  HandoffBudget = 5
  MetaBudget = 1000
  SummarizerPrompt = 7
  Complaint = 1
  BorrowerPrompt = 4
  AgentPrompts = {7, 9, 15, 18}
  Excerpts = {2, 15}
  BadAnswers = {1, 6}
  AgentTurns = {1, 4}
  BorrowerTurns = {1, 9}
  Payloads <- MCPayloads
  Fallback <- MCFallback
  PayloadTokens <- MCPayloadTokens
  MaxTurns = 3
SPECIFICATION Spec
INVARIANTS
  WithinBudget
  LongestEndSent
  StartsWithUser
  TrimmedInOrder
  NothingTrimmedInVain
  RefusedOnlyForPrompts
