--------------------------- MODULE AgentContract ---------------------------
(***************************************************************************)
(* What the agents, the conversation runner and the workflow share: the    *)
(* agents, the reasons the end_conversation tool takes, and the words a    *)
(* conversation's outcome can be. Module Conversation shows that a         *)
(* conversation ends with no other word; module Collections lets the       *)
(* workflow receive every one of them.                                     *)
(***************************************************************************)

Agents == {"agent_1", "agent_2", "agent_3"}

(* The enum of the end_conversation tool.                                  *)
EndReasons == {"identity_unverified", "task_complete", "deal_agreed",
               "no_resolution", "borrower_unreachable", "other"}

(* The reasons the runner takes for the outcome as they are; the others    *)
(* are classified.                                                         *)
ReasonOutcomes == EndReasons \ {"task_complete", "other"}

(* The values of each agent's classify_outcome.                            *)
ClassifiedOutcomes ==
  [agent_1 |-> {"opt_out", "assessed", "partial", "no_response"},
   agent_2 |-> {"opt_out", "deal_agreed", "escalate_hardship", "no_deal"},
   agent_3 |-> {"opt_out", "resolved", "no_resolution"}]

(* What a conversation of the agent can end with.                          *)
ConversationOutcomes(agent) == ClassifiedOutcomes[agent] \cup ReasonOutcomes

NULL == "null"
=============================================================================
