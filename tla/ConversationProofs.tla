------------------------- MODULE ConversationProofs -------------------------
(***************************************************************************)
(* What holds of a conversation for every agent, every bound on turns and  *)
(* tool rounds and whatever the language model answers.                    *)
(***************************************************************************)
EXTENDS Conversation, TLAPS

(* A turn was taken into memory and its transaction has yet to commit.     *)
Pending == pc \in {"said", "answered"}

(* What TypeOK and TranscriptPersisted need to be inductive: the counter   *)
(* is the length of the history, the table lacks the last turn exactly     *)
(* while that is pending (or since it was given up), and a decided outcome *)
(* is a proper one.                                                        *)
RecordInv ==
  /\ TypeOK
  /\ seq = Len(history)
  /\ Pending => history # <<>> /\ turns = FirstTurns(Len(history) - 1)
  /\ ~ Pending /\ pc # "aborted" => turns = FirstTurns(Len(history))
  /\ TranscriptPersisted
  /\ pc = "close" => outcome \in ConversationOutcomes(agent)

(* Whatever is classified, the word is one of the agent's own.             *)
LEMMA ClassifyType ==
  ASSUME agent \in Agents, NEW hist, NEW cs
  PROVE  Classify(hist, cs) \in ConversationOutcomes(agent)
  BY ConversationAssumption DEF Classify, ClassifyAssessment, ClassifyResolution,
     ClassifyFinalNotice, ConversationOutcomes, ClassifiedOutcomes, Agents

(* So is the word a closing tool leads to, classified or not.              *)
LEMMA HardOutcomeType ==
  ASSUME agent \in Agents, NEW close, NEW hist, NEW cs
  PROVE  HardOutcome(close, hist, cs) \in ConversationOutcomes(agent)
<1>1. CASE close.name = "flag_opt_out"
  BY <1>1, ConversationAssumption DEF HardOutcome, ConversationOutcomes, ClassifiedOutcomes, Agents
<1>2. CASE close.name # "flag_opt_out"
  BY <1>2, ClassifyType DEF HardOutcome, ConversationOutcomes
<1>3. QED  BY <1>1, <1>2

(* Taking a turn moves memory one ahead of the table.                      *)
LEMMA TakeTurnRunsAhead ==
  ASSUME NEW turn \in Turns, RecordInv, ~ Pending, pc # "aborted", TakeTurn(turn), UNCHANGED turns
  PROVE  /\ history' \in Seq(Turns) /\ history' # <<>>
         /\ seq' \in Nat /\ seq' = Len(history')
         /\ turns' = FirstTurns(Len(history) - 1)'
<1>1. history \in Seq(Turns) /\ seq = Len(history) /\ seq \in Nat
  BY DEF RecordInv, TypeOK
<1>2. history' \in Seq(Turns) /\ Len(history') = Len(history) + 1 /\ seq' = seq + 1
  BY <1>1 DEF TakeTurn
<1>3. \A i \in 1..Len(history) : history'[i] = history[i]
  BY <1>1 DEF TakeTurn
<1>4. turns = {[seq |-> i, turn |-> history[i]] : i \in 1..Len(history)}
  BY DEF RecordInv, FirstTurns
<1>5. turns' = {[seq |-> i, turn |-> history'[i]] : i \in 1..(Len(history') - 1)}
  BY <1>1, <1>2, <1>3, <1>4
<1>6. QED  BY <1>1, <1>2, <1>5 DEF FirstTurns

(* Committing it puts the row where the turn is, and the table catches up. *)
LEMMA AddTurnCatchesUp ==
  ASSUME RecordInv, Pending, AddTurn, UNCHANGED <<history, seq>>
  PROVE  /\ turns' \subseteq [seq : Nat, turn : Turns]
         /\ turns' = FirstTurns(Len(history))'
<1>1. history \in Seq(Turns) /\ seq = Len(history) /\ Len(history) \in Nat \ {0}
  BY DEF RecordInv, TypeOK
<1>2. history[Len(history)] \in Turns
  BY <1>1
<1>3. 1..Len(history) = 1..(Len(history) - 1) \cup {Len(history)}
  BY <1>1
<1>4. turns = {[seq |-> i, turn |-> history[i]] : i \in 1..(Len(history) - 1)}
  BY DEF RecordInv, FirstTurns
<1>5. turns' = {[seq |-> i, turn |-> history[i]] : i \in 1..Len(history)}
  BY <1>1, <1>3, <1>4 DEF AddTurn
<1>6. turns' \subseteq [seq : Nat, turn : Turns]
  BY <1>1, <1>2 DEF AddTurn, RecordInv, TypeOK
<1>7. QED  BY <1>5, <1>6 DEF FirstTurns

(* The same for the whole step: one step of the proof per action.          *)
LEMMA RecordInvStep == RecordInv /\ [Next]_vars => RecordInv'
<1> SUFFICES ASSUME RecordInv, [Next]_vars PROVE RecordInv'
  OBVIOUS
<1>a. agent' = agent /\ agent \in Agents
  BY DEF RecordInv, TypeOK, Next, vars
<1>0. /\ TypeOK /\ seq = Len(history) /\ TranscriptPersisted
      /\ ~ Pending /\ pc # "aborted" => turns = FirstTurns(Len(history))
      /\ pc = "close" => outcome \in ConversationOutcomes(agent)
  BY DEF RecordInv
<1>1. CASE Create
  BY <1>a, <1>0, <1>1
     DEF Create, RecordInv, TypeOK, TranscriptPersisted, FirstTurns, Pending, memory
<1>2. CASE UseTools
  <2>1. PICK batch \in Batches[agent] : calls' = calls \o batch
    BY <1>2 DEF UseTools
  <2>2. calls' \in Seq(Toolbox[agent])
    BY <1>a, <1>0, <2>1, ConversationAssumption DEF TypeOK
  <2>3. round' \in 0..(MaxToolRounds + 1)
    BY <1>a, <1>0, <1>2, ConversationAssumption DEF UseTools, TypeOK
  <2>4. QED
    BY <1>a, <1>0, <1>2, <2>2, <2>3
       DEF UseTools, RecordInv, TypeOK, TranscriptPersisted, FirstTurns, Pending, db
<1>3. ASSUME NEW turn \in Turns, pc \in {"reply", "listen"}, TakeTurn(turn),
             pc' \in {"said", "answered"},
             UNCHANGED <<round, calls, allCalls, outcome, db>>
      PROVE  RecordInv'
  <2>1. ~ Pending /\ pc # "aborted" /\ UNCHANGED turns /\ UNCHANGED row
    BY <1>3 DEF Pending, db
  <2>2. /\ history' \in Seq(Turns) /\ history' # <<>>
        /\ seq' \in Nat /\ seq' = Len(history')
        /\ turns' = FirstTurns(Len(history) - 1)'
    BY <1>3, <2>1, TakeTurnRunsAhead
  <2>3. TypeOK'
    BY <1>a, <1>0, <1>3, <2>1, <2>2 DEF TypeOK
  <2>4. QED  BY <1>3, <2>2, <2>3 DEF RecordInv, TranscriptPersisted, Pending
<1>4. ASSUME NEW text \in AgentTexts, Say(text)
      PROVE  RecordInv'
  <2>1. Turn("assistant", text) \in Turns
    BY <1>4 DEF Turn, Turns, Roles
  <2>2. QED  BY <1>3, <1>4, <2>1 DEF Say
<1>5. ASSUME NEW text \in BorrowerTexts, BorrowerReplies(text)
      PROVE  RecordInv'
  <2>1. Turn("user", text) \in Turns
    BY DEF Turn, Turns, Roles
  <2>2. QED  BY <1>3, <1>5, <2>1 DEF BorrowerReplies
<1>6. ASSUME Pending, AddTurn, UNCHANGED <<history, seq, row>>,
             round' \in 0..(MaxToolRounds + 1), calls' \in Seq(Toolbox[agent]),
             allCalls' \in Seq(Toolbox[agent]),
             \/ outcome' \in ConversationOutcomes(agent) /\ pc' = "close"
             \/ UNCHANGED outcome /\ pc' \in {"reply", "listen"}
      PROVE  RecordInv'
  <2>1. /\ turns' \subseteq [seq : Nat, turn : Turns]
        /\ turns' = FirstTurns(Len(history))'
    BY <1>6, AddTurnCatchesUp
  <2>2. TypeOK'
    BY <1>a, <1>0, <1>6, <2>1 DEF TypeOK
  <2>3. QED  BY <1>a, <1>0, <1>6, <2>1, <2>2 DEF RecordInv, TranscriptPersisted, Pending
<1>7. CASE HardClose \/ SoftClose \/ Listen
  <2>1. CommitReply
    BY <1>7 DEF HardClose, SoftClose, Listen
  <2>2. /\ Pending /\ AddTurn /\ UNCHANGED <<history, seq, row>>
        /\ round' \in 0..(MaxToolRounds + 1) /\ calls' \in Seq(Toolbox[agent])
        /\ allCalls' \in Seq(Toolbox[agent])
    BY <1>0, <2>1 DEF CommitReply, Pending, TypeOK
  <2>3. \/ outcome' \in ConversationOutcomes(agent) /\ pc' = "close"
        \/ UNCHANGED outcome /\ pc' \in {"reply", "listen"}
    BY <1>a, <1>7, ClassifyType, HardOutcomeType DEF HardClose, SoftClose, Listen
  <2>4. QED  BY <1>6, <2>2, <2>3
<1>8. CASE CommitAnswer
  <2>1. /\ Pending /\ AddTurn /\ UNCHANGED <<history, seq, row>>
        /\ round' \in 0..(MaxToolRounds + 1) /\ calls' \in Seq(Toolbox[agent])
        /\ allCalls' \in Seq(Toolbox[agent])
    BY <1>0, <1>8, ConversationAssumption DEF CommitAnswer, Pending, TypeOK
  <2>2. \/ outcome' \in ConversationOutcomes(agent) /\ pc' = "close"
        \/ UNCHANGED outcome /\ pc' \in {"reply", "listen"}
    BY <1>a, <1>8, ClassifyType DEF CommitAnswer
  <2>3. QED  BY <1>6, <2>1, <2>2
<1>9. CASE End
  BY <1>a, <1>0, <1>9
     DEF End, RecordInv, TypeOK, TranscriptPersisted, FirstTurns, Pending, memory
<1>10. CASE Abort
  BY <1>a, <1>0, <1>10
     DEF Abort, RecordInv, TypeOK, TranscriptPersisted, FirstTurns, Pending, memory, db
<1>11. CASE UNCHANGED vars
  BY <1>a, <1>0, <1>11
     DEF vars, RecordInv, TypeOK, TranscriptPersisted, FirstTurns, Pending
<1>12. QED
  BY <1>1, <1>2, <1>4, <1>5, <1>7, <1>8, <1>9, <1>10, <1>11 DEF Next, Step, Over

(* An empty history and an empty table agree.                              *)
LEMMA RecordInvInit == Init => RecordInv
<1> SUFFICES ASSUME Init PROVE RecordInv
  OBVIOUS
<1>1. TypeOK
  BY ConversationAssumption DEF Init, TypeOK
<1>2. turns = FirstTurns(Len(history))
  BY DEF Init, FirstTurns
<1>3. QED  BY <1>1, <1>2 DEF Init, RecordInv, TranscriptPersisted, Pending

(* The strengthened record invariant holds of every state of a             *)
(* conversation, whoever runs it.                                          *)
THEOREM RecordInvariant == Spec => []RecordInv
  BY RecordInvInit, RecordInvStep, PTL DEF Spec

(* Types hold; in particular no conversation's row gets an outcome that is *)
(* not one the workflow has been told of (AgentContract).                  *)
THEOREM TypeCorrect == Spec => []TypeOK
<1>1. RecordInv => TypeOK
  BY DEF RecordInv
<1>2. QED  BY <1>1, RecordInvariant, PTL

(* The turns table is the conversation, short of the last turn at most,    *)
(* and that only between a turn and its commit or where the conversation   *)
(* was given up between the two.                                           *)
THEOREM TranscriptIsPersisted == Spec => []TranscriptPersisted
<1>1. RecordInv => TranscriptPersisted
  BY DEF RecordInv
<1>2. QED  BY <1>1, RecordInvariant, PTL

-----------------------------------------------------------------------------
(* A closing tool on record means that the runner left its loop: this is   *)
(* what makes NothingAfterHardClose hold.                                  *)
ClosedInv == HardCloses(allCalls) # {} => pc \in {"close", "ended", "aborted"}

(* The calls of a reply are appended to those of the replies before.       *)
LEMMA HardClosesOfConcat ==
  ASSUME TypeOK, HardCloses(allCalls) = {}, HardCloses(calls) = {}
  PROVE  HardCloses(allCalls \o calls) = {}
  BY DEF TypeOK, HardCloses

(* Only a listening runner comes back to the reply, and it listens only    *)
(* when the reply had no closing tool.                                     *)
LEMMA ClosedInvStep == TypeOK /\ ClosedInv /\ [Next]_vars => ClosedInv'
<1> SUFFICES ASSUME TypeOK, ClosedInv, [Next]_vars PROVE ClosedInv'
  OBVIOUS
<1>1. CASE Create \/ UseTools \/ End \/ Abort \/ UNCHANGED vars
  BY <1>1 DEF Create, UseTools, End, Abort, vars, ClosedInv, memory, db, HardCloses
<1>2. CASE Listen
  <2>1. HardCloses(allCalls) = {}
    BY <1>2 DEF Listen, CommitReply, ClosedInv
  <2>2. HardCloses(allCalls') = {}
    BY <1>2, <2>1, HardClosesOfConcat DEF Listen, CommitReply
  <2>3. HardCloses(allCalls)' = {}
    BY <2>2 DEF HardCloses
  <2>4. QED  BY <2>3 DEF ClosedInv
<1>3. CASE HardClose \/ SoftClose
  BY <1>3 DEF HardClose, SoftClose, ClosedInv
<1>4. ASSUME NEW text, Say(text) \/ BorrowerReplies(text)
      PROVE  ClosedInv'
  BY <1>4 DEF Say, BorrowerReplies, ClosedInv, HardCloses
<1>5. CASE CommitAnswer
  BY <1>5 DEF CommitAnswer, ClosedInv, HardCloses
<1>6. QED
  BY <1>1, <1>2, <1>3, <1>4, <1>5 DEF Next, Step, Over

(* The runner's place tells whether a closing tool fired, in every state.  *)
LEMMA ClosedInvariant == Spec => [](TypeOK /\ ClosedInv)
<1>1. Init => ClosedInv
  BY DEF Init, ClosedInv, HardCloses
<1>2. QED  BY <1>1, ClosedInvStep, TypeCorrect, PTL DEF Spec

(* Once a closing tool is on record no turn is said or added, whatever the *)
(* model, the borrower or a failure does.                                  *)
THEOREM SilenceAfterHardClose == Spec => NothingAfterHardClose
<1>1. ClosedInv /\ [Next]_vars
        => [HardCloses(allCalls) # {} => UNCHANGED <<history, turns>>]_vars
  <2> SUFFICES ASSUME ClosedInv, Next, HardCloses(allCalls) # {}
               PROVE  UNCHANGED <<history, turns>>
    BY DEF vars
  <2>1. pc \in {"close", "ended", "aborted"}
    BY DEF ClosedInv
  <2>2. End \/ Abort \/ Over
    BY <2>1 DEF Next, Step, Create, UseTools, Say, HardClose, SoftClose, Listen,
       CommitReply, BorrowerReplies, CommitAnswer
  <2>3. QED  BY <2>2 DEF End, Abort, Over, memory, db, vars
<1>2. QED  BY <1>1, ClosedInvariant, PTL DEF Spec, NothingAfterHardClose

-----------------------------------------------------------------------------
(* An end_conversation whose reason is the outcome comes before an opt-out.*)
EndBeforeOptOut ==
  \E i, j \in DOMAIN allCalls :
    /\ i < j
    /\ allCalls[i].name = "end_conversation" /\ allCalls[i].arg \in ReasonOutcomes
    /\ allCalls[j].name = "flag_opt_out"

Overlooked(o) == "flag_opt_out" \in Names(allCalls) /\ o # "opt_out"

(* The runner's decision carries the property to the row.                  *)
OptOutInv ==
  /\ pc = "close" /\ Overlooked(outcome) => EndBeforeOptOut
  /\ pc = "ended" /\ Overlooked(row) => EndBeforeOptOut

(* Every classifier looks for the opt-out first.                           *)
LEMMA ClassifyOptOut ==
  ASSUME agent \in Agents, NEW hist, NEW cs, "flag_opt_out" \in Names(cs)
  PROVE  Classify(hist, cs) = "opt_out"
  BY ConversationAssumption DEF Classify, ClassifyAssessment, ClassifyResolution,
     ClassifyFinalNotice, Agents

(* The first closing call of the reply decides; if it is not the opt-out   *)
(* itself and not classified, it is an end_conversation before it.         *)
LEMMA HardCloseOverlooks ==
  ASSUME TypeOK, ClosedInv, HardClose, Overlooked(outcome)'
  PROVE  EndBeforeOptOut'
<1>1. PICK f \in FirstHardCloses(calls) : outcome' = HardOutcome(calls[f], history, allCalls')
  BY DEF HardClose
<1>2. /\ allCalls' = allCalls \o calls
      /\ allCalls \in Seq(Toolbox[agent]) /\ calls \in Seq(Toolbox[agent])
      /\ HardCloses(allCalls) = {}
  BY DEF HardClose, CommitReply, TypeOK, ClosedInv
<1>3. "flag_opt_out" \in Names(allCalls')
  BY DEF Overlooked, Names
<1>4. PICK j \in DOMAIN allCalls' : allCalls'[j].name = "flag_opt_out"
  BY <1>3 DEF Names
<1>5. j > Len(allCalls)
  BY <1>2, <1>4 DEF HardCloses, HardCloseTools
<1>6. j - Len(allCalls) \in HardCloses(calls)
      /\ calls[j - Len(allCalls)].name = "flag_opt_out"
  BY <1>2, <1>4, <1>5 DEF HardCloses, HardCloseTools
<1>7. f \in DOMAIN calls /\ f <= j - Len(allCalls)
  BY <1>2, <1>6 DEF FirstHardCloses, HardCloses
<1>8. outcome' # "opt_out" /\ Classify(history, allCalls') = "opt_out"
  BY <1>3, ClassifyOptOut DEF Overlooked, TypeOK
<1>9. calls[f].name = "end_conversation" /\ calls[f].arg \in ReasonOutcomes
  BY <1>1, <1>8 DEF HardOutcome
<1>10. /\ Len(allCalls) + f \in DOMAIN allCalls'
       /\ allCalls'[Len(allCalls) + f] = calls[f]
       /\ Len(allCalls) + f < j
  BY <1>2, <1>4, <1>5, <1>6, <1>7, <1>9
<1>11. QED  BY <1>4, <1>9, <1>10 DEF EndBeforeOptOut

(* Only the step that honours a closing tool can decide against an opt-out.*)
LEMMA OptOutInvStep == TypeOK /\ ClosedInv /\ OptOutInv /\ [Next]_vars => OptOutInv'
<1> SUFFICES ASSUME TypeOK, ClosedInv, OptOutInv, [Next]_vars PROVE OptOutInv'
  OBVIOUS
<1>a. agent \in Agents
  BY DEF TypeOK
<1>1. CASE Create \/ UseTools \/ Abort
  BY <1>1 DEF Create, UseTools, Abort, OptOutInv
<1>2. CASE End \/ UNCHANGED vars
  BY <1>2 DEF End, vars, memory, OptOutInv, Overlooked, EndBeforeOptOut, Names
<1>3. CASE HardClose
  <2>1. pc' = "close"
    BY <1>3 DEF HardClose
  <2>2. QED  BY <1>3, <2>1, HardCloseOverlooks DEF OptOutInv
<1>4. CASE SoftClose \/ Listen \/ CommitAnswer
  <2>1. pc' # "ended" /\ (pc' = "close" => outcome' = Classify(history, allCalls'))
    BY <1>4 DEF SoftClose, Listen, CommitAnswer
  <2>2. pc' = "close" => ~ Overlooked(outcome)'
    BY <1>a, <2>1, ClassifyOptOut DEF Overlooked, Names
  <2>3. QED  BY <2>1, <2>2 DEF OptOutInv
<1>5. ASSUME NEW text, Say(text) \/ BorrowerReplies(text)
      PROVE  OptOutInv'
  BY <1>5 DEF Say, BorrowerReplies, OptOutInv
<1>6. QED
  BY <1>1, <1>2, <1>3, <1>4, <1>5 DEF Next, Step, Over

(* For every agent: an opt-out the agent flagged is missing from the row   *)
(* of an ended conversation only if an end_conversation came before it.    *)
THEOREM OptOutLostOnlyThere == Spec => []OptOutLostOnlyToEarlierEnd
<1>1. Init => OptOutInv
  BY DEF Init, OptOutInv
<1>2. OptOutInv => OptOutLostOnlyToEarlierEnd
  BY DEF OptOutInv, Overlooked, EndBeforeOptOut, OptOutLostOnlyToEarlierEnd
<1>3. QED  BY <1>1, <1>2, OptOutInvStep, ClosedInvariant, PTL DEF Spec

-----------------------------------------------------------------------------
(* OutcomeGrounded of a word that is decided but not yet on the row.       *)
Grounded(o, hist, cs) ==
  /\ o = "opt_out"    => "flag_opt_out" \in Names(cs)
  /\ o = "assessed"   => "verify_identity" \in Names(cs) /\ Disclosures(cs) >= 3
  /\ o = "no_response" => ~ BorrowerSpoke(hist)
  /\ o = "escalate_hardship" => Has(cs, Call("present_offer", "hardship_referral"))
  /\ o = "resolved"   => Has(cs, Call("issue_final_offer", "accepted"))
  /\ o = "deal_agreed" => Names(cs) \cap {"record_commitment", "end_conversation"} # {}

(* The decision rests on the calls, and the row takes it over as it is; a  *)
(* row without a word stays without one unless the conversation ended.     *)
GroundedInv ==
  /\ pc = "close" => Grounded(outcome, history, allCalls)
  /\ \/ row \in {"absent", NULL} /\ pc # "ended"
     \/ pc = "ended" /\ Grounded(row, history, allCalls)

(* Every branch of a classifier looks at what its word stands for.         *)
LEMMA ClassifyGrounded ==
  ASSUME NEW hist, NEW cs
  PROVE  Grounded(Classify(hist, cs), hist, cs)
<1>1. Grounded(ClassifyAssessment(hist, cs), hist, cs)
  BY DEF Grounded, ClassifyAssessment
<1>2. Grounded(ClassifyResolution(cs), hist, cs)
  BY DEF Grounded, ClassifyResolution
<1>3. Grounded(ClassifyFinalNotice(cs), hist, cs)
  BY DEF Grounded, ClassifyFinalNotice
<1>4. QED  BY <1>1, <1>2, <1>3 DEF Classify

(* A closing tool decides by itself only for an opt-out that was flagged   *)
(* or for a reason that promises nothing but a deal.                       *)
LEMMA HardOutcomeGrounded ==
  ASSUME NEW close, NEW hist, NEW cs, close.name \in Names(cs)
  PROVE  Grounded(HardOutcome(close, hist, cs), hist, cs)
<1>1. CASE close.name = "flag_opt_out"
  <2>1. HardOutcome(close, hist, cs) = "opt_out"
    BY <1>1 DEF HardOutcome
  <2>2. QED  BY <1>1, <2>1 DEF Grounded
<1>2. CASE close.name = "end_conversation" /\ close.arg \in ReasonOutcomes
  <2>1. HardOutcome(close, hist, cs) = close.arg
    BY <1>2 DEF HardOutcome
  <2>2. close.arg \in {"identity_unverified", "deal_agreed", "no_resolution", "borrower_unreachable"}
    BY <1>2 DEF ReasonOutcomes, EndReasons
  <2>3. QED  BY <1>2, <2>1, <2>2 DEF Grounded
<1>3. CASE close.name # "flag_opt_out"
           /\ ~ (close.name = "end_conversation" /\ close.arg \in ReasonOutcomes)
  <2>1. HardOutcome(close, hist, cs) = Classify(hist, cs)
    BY <1>3 DEF HardOutcome
  <2>2. QED  BY <2>1, ClassifyGrounded
<1>4. QED  BY <1>1, <1>2, <1>3

(* The reply's calls are on record when the closing one among them decides.*)
LEMMA RecordedNames ==
  ASSUME TypeOK, NEW i \in DOMAIN calls
  PROVE  calls[i].name \in Names(allCalls \o calls)
<1>1. allCalls \in Seq(Toolbox[agent]) /\ calls \in Seq(Toolbox[agent])
  BY DEF TypeOK
<1>2. /\ Len(allCalls) + i \in DOMAIN (allCalls \o calls)
      /\ (allCalls \o calls)[Len(allCalls) + i] = calls[i]
  BY <1>1
<1>3. QED  BY <1>2 DEF Names

(* A decision is grounded when it is taken, and nothing is called or said  *)
(* between the decision and the row.                                       *)
LEMMA GroundedInvStep == TypeOK /\ GroundedInv /\ [Next]_vars => GroundedInv'
<1> SUFFICES ASSUME TypeOK, GroundedInv, [Next]_vars PROVE GroundedInv'
  OBVIOUS
<1>0. pc # "ended" => row \in {"absent", NULL}
  BY DEF GroundedInv
<1>1. CASE Create \/ UseTools \/ Abort
  BY <1>0, <1>1 DEF Create, UseTools, Abort, GroundedInv, db
<1>2. CASE End \/ UNCHANGED vars
  BY <1>2 DEF End, vars, memory, GroundedInv, Grounded, Names, Disclosures, BorrowerSpoke, Has
<1>3. CASE HardClose
  <2>1. PICK i \in FirstHardCloses(calls) : outcome' = HardOutcome(calls[i], history, allCalls')
    BY <1>3 DEF HardClose
  <2>2. calls[i].name \in Names(allCalls') /\ history' = history
    BY <1>3, <2>1, RecordedNames DEF HardClose, CommitReply, FirstHardCloses, HardCloses
  <2>3. Grounded(outcome', history', allCalls')
    BY <2>1, <2>2, HardOutcomeGrounded
  <2>4. pc' = "close" /\ row' \in {"absent", NULL}
    BY <1>0, <1>3 DEF HardClose, CommitReply
  <2>5. QED  BY <2>3, <2>4 DEF GroundedInv, Grounded, Names, Disclosures, BorrowerSpoke, Has
<1>4. CASE SoftClose \/ Listen \/ CommitAnswer
  <2>1. /\ pc' # "ended" /\ (pc' = "close" => outcome' = Classify(history', allCalls'))
        /\ row' \in {"absent", NULL}
    <3>1. history' = history /\ row' = row /\ pc # "ended" /\ pc' # "ended"
      BY <1>4 DEF SoftClose, Listen, CommitReply, CommitAnswer
    <3>2. pc' = "close" => outcome' = Classify(history, allCalls')
      BY <1>4 DEF SoftClose, Listen, CommitReply, CommitAnswer
    <3>3. QED  BY <1>0, <3>1, <3>2
  <2>2. pc' = "close" => Grounded(outcome', history', allCalls')
    BY <2>1, ClassifyGrounded DEF Classify
  <2>3. QED  BY <2>1, <2>2 DEF GroundedInv, Grounded, Names, Disclosures, BorrowerSpoke, Has
<1>5. ASSUME NEW text, Say(text) \/ BorrowerReplies(text)
      PROVE  GroundedInv'
  BY <1>0, <1>5 DEF Say, BorrowerReplies, db, GroundedInv
<1>6. QED
  BY <1>1, <1>2, <1>3, <1>4, <1>5 DEF Next, Step, Over

(* For every agent and whatever the model calls: the word on a row has     *)
(* the calls behind it that give it its meaning.                           *)
THEOREM OutcomesAreGrounded == Spec => []OutcomeGrounded
<1>1. Init => GroundedInv
  BY DEF Init, GroundedInv
<1>2. GroundedInv => OutcomeGrounded
  BY DEF GroundedInv, Grounded, OutcomeGrounded, NULL
<1>3. QED  BY <1>1, <1>2, GroundedInvStep, TypeCorrect, PTL DEF Spec
=============================================================================
