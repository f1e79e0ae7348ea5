---------------------------- MODULE Conversation ----------------------------
(***************************************************************************)
(* One conversation between an agent and a borrower, as                    *)
(* run_chat_conversation drives it: the agent's reply is a tool-use loop   *)
(* (BaseAgent.reply), each turn is appended to the runner's history and    *)
(* then committed to the turns table before the other side is asked, and   *)
(* the outcome written on the conversation row comes from the tools the    *)
(* model called (classify_outcome).                                        *)
(*                                                                         *)
(* The language model and the borrower are the environment: a model        *)
(* response is any batch of tool calls or a text, a text is only known to  *)
(* contain a closing phrase or not, a borrower answers or stays silent.    *)
(***************************************************************************)
EXTENDS AgentContract, Naturals, Sequences, FiniteSets

CONSTANTS MaxTurns,       (* max_turns, the bound of the runner's loop         *)
          MaxToolRounds,  (* BaseAgent.max_tool_iterations                     *)
          Batches         (* what tool calls a response to each agent may hold *)

(* A tool call is its name and the part of its input the code looks at.    *)
Call(name, arg) == [name |-> name, arg |-> arg]

SharedTools == {Call("flag_opt_out", "")} \cup
               {Call("end_conversation", r) : r \in EndReasons}

Toolbox ==
  [agent_1 |-> SharedTools \cup {Call("record_disclosure", "")} \cup
               {Call("verify_identity", m) : m \in {"match", "mismatch"}},
   agent_2 |-> SharedTools \cup {Call("record_commitment", "")} \cup
               {Call("present_offer", o) : o \in {"settlement", "hardship_referral"}},
   agent_3 |-> SharedTools \cup {Call("flag_for_legal", ""), Call("flag_for_writeoff", "")} \cup
               {Call("issue_final_offer", a) : a \in {"pending", "accepted"}}]

ASSUME ConversationAssumption ==
  /\ MaxTurns \in Nat \ {0}
  /\ MaxToolRounds \in Nat
  /\ DOMAIN Batches = Agents
  /\ \A a \in Agents : Batches[a] \subseteq Seq(Toolbox[a]) \ {<<>>}

HardCloseTools == {"flag_opt_out", "flag_for_legal", "flag_for_writeoff", "end_conversation"}

Roles == {"assistant", "user"}

(* "silent" is the "(no response)" the code substitutes for an empty text, *)
(* "closing" a text with one of the closing hints in it.                   *)
AgentTexts    == {"plain", "closing", "silent"}
BorrowerTexts == {"plain", "silent"}
Turn(role, text) == [role |-> role, text |-> text]
Turns == [role : Roles, text : AgentTexts \cup BorrowerTexts]

VARIABLES
  agent,     (* the agent that runs this conversation                      *)
  pc,        (* where the runner is                                        *)
  history,   (* the turns in the runner's memory                           *)
  seq,       (* the runner's turn counter                                  *)
  round,     (* API calls made for the current reply                       *)
  calls,     (* ToolRecorder.calls of the current reply                    *)
  allCalls,  (* all_tool_calls                                             *)
  outcome,   (* the runner's local outcome                                 *)
  turns,     (* the turns table: rows of this conversation                 *)
  row        (* the conversations table: this row's outcome, or no row     *)

memory == <<history, seq, round, calls, allCalls, outcome>>
db     == <<turns, row>>
vars   == <<agent, pc, history, seq, round, calls, allCalls, outcome, turns, row>>

-----------------------------------------------------------------------------
(* classify_outcome of the three agents.                                   *)

Names(cs)      == {cs[i].name : i \in DOMAIN cs}
Has(cs, call)  == \E i \in DOMAIN cs : cs[i] = call
Disclosures(cs) == Cardinality({i \in DOMAIN cs : cs[i].name = "record_disclosure"})
BorrowerSpoke(hist) == \E i \in DOMAIN hist : hist[i].role = "user"

ClassifyAssessmentEarly(hist, cs) ==  \* mutant: two disclosures are enough
  IF "flag_opt_out" \in Names(cs) THEN "opt_out"
  ELSE IF "verify_identity" \in Names(cs) /\ Disclosures(cs) >= 2 THEN "assessed"
  ELSE "partial"
ClassifyAssessment(hist, cs) ==
  LET verified == "verify_identity" \in Names(cs)
  IN IF "flag_opt_out" \in Names(cs) THEN "opt_out"
     ELSE IF verified /\ Disclosures(cs) >= 3 THEN "assessed"
     ELSE IF verified \/ Disclosures(cs) >= 1 \/ BorrowerSpoke(hist) THEN "partial"
     ELSE "no_response"

ClassifyResolutionDealFirst(cs) ==  \* mutant: a commitment outranks the opt-out
  IF "record_commitment" \in Names(cs) THEN "deal_agreed"
  ELSE IF "flag_opt_out" \in Names(cs) THEN "opt_out"
  ELSE IF Has(cs, Call("present_offer", "hardship_referral")) THEN "escalate_hardship"
  ELSE "no_deal"
ClassifyResolution(cs) ==
  IF "flag_opt_out" \in Names(cs) THEN "opt_out"
  ELSE IF "record_commitment" \in Names(cs) THEN "deal_agreed"
  ELSE IF Has(cs, Call("present_offer", "hardship_referral")) THEN "escalate_hardship"
  ELSE "no_deal"

ClassifyFinalNotice(cs) ==
  IF "flag_opt_out" \in Names(cs) THEN "opt_out"
  ELSE IF Has(cs, Call("issue_final_offer", "accepted")) THEN "resolved"
  ELSE "no_resolution"

Classify(hist, cs) ==
  IF agent = "agent_1" THEN ClassifyAssessment(hist, cs)
  ELSE IF agent = "agent_2" THEN ClassifyResolution(cs)
  ELSE ClassifyFinalNotice(cs)

HardCloses(cs) == {i \in DOMAIN cs : cs[i].name \in HardCloseTools}

(* The hard close the runner honours is the first of the reply.            *)
FirstHardCloses(cs) == {i \in HardCloses(cs) : \A j \in HardCloses(cs) : i <= j}

HardOutcome(close, hist, cs) ==
  IF close.name = "flag_opt_out" THEN "opt_out"
  ELSE IF close.name = "end_conversation" /\ close.arg \in ReasonOutcomes THEN close.arg
  ELSE Classify(hist, cs)

-----------------------------------------------------------------------------
Init ==
  /\ agent \in Agents
  /\ pc = "start"
  /\ history = <<>> /\ seq = 0 /\ round = 0
  /\ calls = <<>> /\ allCalls = <<>>
  /\ outcome = "no_response"
  /\ turns = {} /\ row = "absent"

(* create_conversation commits a row with no outcome.                      *)
Create ==
  /\ pc = "start"
  /\ pc' = "reply"
  /\ row' = NULL
  /\ UNCHANGED <<memory, turns>>

(* A response with tool_use blocks: each call is recorded, and the results *)
(* go back to the model unless this was the last round.                    *)
UseToolsForEver ==  \* mutant: the reply starts over when its rounds are used up
  /\ pc = "reply"
  /\ \E batch \in Batches[agent] : calls' = IF round = MaxToolRounds THEN <<>> ELSE calls \o batch
  /\ round' = IF round = MaxToolRounds THEN 0 ELSE round + 1
  /\ UNCHANGED <<pc, history, seq, allCalls, outcome, db>>
UseTools ==
  /\ pc = "reply"
  /\ round < MaxToolRounds + 1
  /\ \E batch \in Batches[agent] : calls' = calls \o batch
  /\ round' = round + 1
  /\ UNCHANGED <<pc, history, seq, allCalls, outcome, db>>

(* The runner takes a turn into its memory under the next number ...       *)
TakeTurn(turn) ==
  /\ history' = Append(history, turn)
  /\ seq' = seq + 1

(* ... and add_turn commits it in a transaction of its own.                *)
AddTurnOrGoOn ==  \* mutant: a transaction that fails is passed over
  turns' \in {turns, turns \cup {[seq |-> seq, turn |-> history[Len(history)]]}}
AddTurn == turns' = turns \cup {[seq |-> seq, turn |-> history[Len(history)]]}

(* The reply ends with a text, or with none when the rounds are used up.   *)
Say(text) ==
  /\ pc = "reply"
  /\ text \in IF round = MaxToolRounds + 1 THEN {"silent"} ELSE AgentTexts
  /\ TakeTurn(Turn("assistant", text))
  /\ pc' = "said"
  /\ UNCHANGED <<round, calls, allCalls, outcome, db>>

CommitReply ==
  /\ pc = "said"
  /\ AddTurn
  /\ allCalls' = allCalls \o calls
  /\ UNCHANGED <<history, seq, round, calls, row>>

SoftCloses == BorrowerSpoke(history) /\ history[Len(history)].text = "closing"

HardClose ==
  /\ CommitReply
  /\ \E i \in FirstHardCloses(calls) : outcome' = HardOutcome(calls[i], history, allCalls')
  /\ pc' = "close"

SoftClose ==
  /\ CommitReply
  /\ HardCloses(calls) = {}
  /\ SoftCloses
  /\ outcome' = Classify(history, allCalls')
  /\ pc' = "close"

ListenAnyway ==  \* mutant: closing tools are not looked for
  /\ CommitReply
  /\ ~ SoftCloses
  /\ pc' = "listen"
  /\ UNCHANGED outcome
Listen ==
  /\ CommitReply
  /\ HardCloses(calls) = {}
  /\ ~ SoftCloses
  /\ pc' = "listen"
  /\ UNCHANGED outcome

BorrowerReplies(text) ==
  /\ pc = "listen"
  /\ TakeTurn(Turn("user", text))
  /\ pc' = "answered"
  /\ UNCHANGED <<round, calls, allCalls, outcome, db>>

(* The borrower's answer ends a turn of the loop; the last turn closes.    *)
CommitAnswer ==
  /\ pc = "answered"
  /\ AddTurn
  /\ round' = 0 /\ calls' = <<>>
  /\ IF seq < 2 * MaxTurns
     THEN pc' = "reply" /\ UNCHANGED outcome
     ELSE pc' = "close" /\ outcome' = Classify(history, allCalls)
  /\ UNCHANGED <<history, seq, allCalls, row>>

(* end_conversation commits the outcome.                                   *)
End ==
  /\ pc = "close"
  /\ pc' = "ended"
  /\ row' = outcome
  /\ UNCHANGED <<memory, turns>>

(* The API, the database, the token guard or the budget raises, or the     *)
(* process dies: what was committed stays, nothing marks the row. A turn   *)
(* whose add_turn did not commit is lost.                                  *)
Abort ==
  /\ pc \notin {"ended", "aborted"}
  /\ pc' = "aborted"
  /\ UNCHANGED <<memory, db>>

Over == pc \in {"ended", "aborted"} /\ UNCHANGED vars

Step ==
  \/ Create
  \/ UseTools
  \/ \E text \in AgentTexts : Say(text)
  \/ HardClose \/ SoftClose \/ Listen
  \/ \E text \in BorrowerTexts : BorrowerReplies(text)
  \/ CommitAnswer
  \/ End
  \/ Abort
  \/ Over

Next == Step /\ UNCHANGED agent

(* Neither the model nor the borrower's simulator blocks for ever: both    *)
(* are API calls with a timeout, after which the runner goes on or aborts. *)
Fairness == WF_vars(Next)

Spec == Init /\ [][Next]_vars /\ Fairness
-----------------------------------------------------------------------------
(* Properties.                                                             *)

(* Every variable stays in its type; the row holds an outcome the agent's  *)
(* classifier or the reason of end_conversation can produce.               *)
TypeOK ==
  /\ agent \in Agents
  /\ pc \in {"start", "reply", "said", "listen", "answered", "close", "ended", "aborted"}
  /\ history \in Seq(Turns)
  /\ seq \in Nat
  /\ round \in 0..(MaxToolRounds + 1)
  /\ calls \in Seq(Toolbox[agent])
  /\ allCalls \in Seq(Toolbox[agent])
  /\ outcome \in ConversationOutcomes(agent) \cup {"no_response"}
  /\ turns \subseteq [seq : Nat, turn : Turns]
  /\ row \in ConversationOutcomes(agent) \cup {NULL, "absent"}

(* The first n turns of the conversation, as the turns table holds them.   *)
FirstTurns(n) == {[seq |-> i, turn |-> history[i]] : i \in 1..n}

(* The rows of the turns table, read in the order of seq as load_turns     *)
(* does, are the conversation held so far, with no gap and no two rows     *)
(* under one number. They lack the last turn while its commit is under     *)
(* way, and for good if it fails: whoever is asked next, model or          *)
(* borrower, is asked only when the table has what was said before, and a  *)
(* conversation that ends is on record whole.                              *)
TranscriptPersisted ==
  \/ turns = FirstTurns(Len(history))
  \/ pc \in {"said", "answered", "aborted"} /\ turns = FirstTurns(Len(history) - 1)

(* Once a reply in which a closing tool fired is on record, nobody speaks  *)
(* again: the borrower is not asked and the agent adds no turn.            *)
NothingAfterHardClose == [][HardCloses(allCalls) # {} => UNCHANGED <<history, turns>>]_vars

(* The outcome on the row has the tool calls behind it that give it its    *)
(* meaning: an opt-out was flagged, a final offer accepted, three          *)
(* disclosures taken, a hardship referral made, and nobody answered when   *)
(* it says so.                                                             *)
OutcomeGrounded ==
  /\ row = "opt_out"    => "flag_opt_out" \in Names(allCalls)
  /\ row = "assessed"   => "verify_identity" \in Names(allCalls) /\ Disclosures(allCalls) >= 3
  /\ row = "no_response" => ~ BorrowerSpoke(history)
  /\ row = "escalate_hardship" => Has(allCalls, Call("present_offer", "hardship_referral"))
  /\ row = "resolved"   => Has(allCalls, Call("issue_final_offer", "accepted"))
  /\ row = "deal_agreed" => Names(allCalls) \cap {"record_commitment", "end_conversation"} # {}

(* A flagged opt-out is missing from the row of an ended conversation in   *)
(* one case only: in the same reply an end_conversation with a reason that *)
(* is an outcome came before it.                                           *)
OptOutLostOnlyToEarlierEnd ==
  pc = "ended" /\ "flag_opt_out" \in Names(allCalls) /\ row # "opt_out" =>
    \E i, j \in DOMAIN allCalls :
      /\ i < j
      /\ allCalls[i].name = "end_conversation" /\ allCalls[i].arg \in ReasonOutcomes
      /\ allCalls[j].name = "flag_opt_out"

(* Every conversation ends or is abandoned: the reply loop and the turn    *)
(* loop are both bounded.                                                  *)
Termination == (pc = "start") ~> (pc \in {"ended", "aborted"})
=============================================================================
