------------------------------ MODULE Learner -------------------------------
(***************************************************************************)
(* How one agent's prompt evolves: the rows of prompt_versions, the        *)
(* active_prompt pointer, and the learning loop (run_learning_loop,        *)
(* run_iteration) that evaluates the live prompt, has variants of it       *)
(* written, puts each one live for the compliance pre-flight, compares it  *)
(* with the baseline and adopts the first that passes the gate.            *)
(*                                                                         *)
(* Beside the loop, which is one process per agent, the workers start      *)
(* conversations with whatever prompt is live and an operator may move the *)
(* pointer by hand. The loop may raise, be interrupted or die at any step. *)
(* What a prompt says is abstracted to an identity: 0 is the seed prompt,  *)
(* the n-th proposal is n. What probes and gate find is any answer.        *)
(***************************************************************************)
EXTENDS Naturals, Sequences, FiniteSets

CONSTANTS NVariants,          (* n_variants, proposals asked for per iteration        *)
          NProbes,            (* the probes of the suite that target the agent        *)
          IterationsPerRun,   (* --iters                                              *)
          PreflightVersions,  (* what 10000 + timestamp % 10000 may give              *)
          MaxIterations,      (* bound: iterations begun over all runs of the script  *)
          MaxTexts,           (* bound: texts proposed over all runs                  *)
          MaxRollbacks,       (* bound: how often the pointer is moved by hand        *)
          MaxConversations    (* bound: the borrowers' conversations kept in spoken   *)

ASSUME LearnerAssumption ==
  /\ NVariants \in Nat /\ NProbes \in Nat \ {0} /\ IterationsPerRun \in Nat \ {0}
  /\ PreflightVersions \subseteq 10000..19999
  /\ MaxIterations \in 0..9998 /\ MaxTexts \in Nat
  /\ MaxRollbacks \in Nat /\ MaxConversations \in Nat

VARIABLES
  (* the database                                                          *)
  rows,       (* prompt_versions of the agent; the index is the row's id   *)
  active,     (* active_prompt: the id of the live row                     *)
  scored,     (* version and text of the conversations with an iteration   *)
  spoken,     (* version and text of the workflow's conversations          *)
  (* the loop                                                              *)
  pc,
  iter,       (* iteration_id, counted from 1 in each run                  *)
  mode,       (* eval_mode                                                 *)
  base,       (* the row get_active_prompt returned                        *)
  baseline,   (* the texts the baseline's scores come from                 *)
  proposals,  (* the texts propose_variants returned                       *)
  idx,        (* the variant at hand                                       *)
  (* the pre-flight suite                                                  *)
  cand,       (* cand_id                                                   *)
  prev,       (* prev_active                                               *)
  probed,     (* probes run                                                *)
  heard,      (* the texts they ran with                                   *)
  failed,     (* whether one failed                                        *)
  (* what happened so far, for the properties                              *)
  vetted,     (* the seed, and the texts the gate accepted                 *)
  stranded,   (* candidates whose pre-flight did not put the pointer back  *)
  moved,      (* the pointer was moved by hand during the last pre-flight  *)
  begun, rollbacks, written  (* iterations, rollbacks, texts proposed      *)

store  == <<rows, active, scored, spoken>>
run    == <<iter, mode>>
locals == <<base, baseline, proposals, idx>>
suite  == <<cand, prev, probed, heard, failed>>
notes  == <<vetted, stranded, begun, rollbacks, written>>
vars   == <<store, pc, run, locals, suite, moved, notes>>

Row(v, t, s) == [version |-> v, text |-> t, status |-> s]
Name(row)    == [version |-> row.version, text |-> row.text]
Live         == rows[active]
NoRow        == [id |-> 1, version |-> 1, text |-> 0]

-----------------------------------------------------------------------------
(* After seed_db: version 1 is the prompt on disk and is live.             *)
Init ==
  /\ rows = <<Row(1, 0, "active")>> /\ active = 1
  /\ scored = {} /\ spoken = {}
  /\ pc = "idle"
  /\ iter = 0 /\ mode = "full" /\ base = NoRow
  /\ baseline = {} /\ proposals = <<>> /\ idx = 0
  /\ cand = 1 /\ prev = 1 /\ probed = 0 /\ heard = {} /\ failed = FALSE
  /\ vetted = {0} /\ stranded = {} /\ moved = FALSE
  /\ begun = 0 /\ rollbacks = 0 /\ written = 0

(* The script starts its run; iteration ids start at 1 again.              *)
StartRun ==
  /\ pc = "idle" /\ begun < MaxIterations
  /\ pc' = "read" /\ iter' = 1
  /\ mode' \in {"full", "isolated"}
  /\ UNCHANGED <<store, locals, suite, moved, notes>>

(* get_active_prompt, read once for the whole iteration.                   *)
ReadActive ==
  /\ pc = "read"
  /\ base' = [id |-> active, version |-> Live.version, text |-> Live.text]
  /\ begun' = begun + 1
  /\ pc' = "baseline"
  /\ UNCHANGED <<store, run, baseline, proposals, idx, suite, moved,
                 vetted, stranded, rollbacks, written>>

(* The baseline prompt in fresh conversations, stored under its version.   *)
EvaluateBaseline ==
  /\ pc = "baseline"
  /\ baseline' = {base.text}
  /\ scored' = scored \cup {Name(base)}
  /\ pc' = "propose"
  /\ UNCHANGED <<rows, active, spoken, run, base, proposals, idx, suite, moved, notes>>

(* _load_baseline_from_db: stored ones of this version number, if enough.  *)
ReusableAny == {c.text : c \in scored}  \* mutant: of any version
Reusable == {c.text : c \in {c \in scored : c.version = base.version}}
ReuseBaseline ==
  /\ pc = "baseline" /\ mode = "isolated"
  /\ baseline' \in (SUBSET Reusable) \ {{}}
  /\ pc' = "propose"
  /\ UNCHANGED <<store, run, base, proposals, idx, suite, moved, notes>>

(* run_iteration or the script returns or is left: its locals are gone.    *)
Leave ==
  /\ base' = NoRow /\ baseline' = {} /\ proposals' = <<>> /\ idx' = 0
  /\ cand' = 1 /\ prev' = 1 /\ probed' = 0 /\ heard' = {} /\ failed' = FALSE
  /\ moved' = FALSE
ScriptEnds == pc' = "idle" /\ iter' = 0 /\ mode' = "full" /\ Leave
IterationEnds ==
  IF iter < IterationsPerRun /\ begun < MaxIterations
  THEN pc' = "read" /\ iter' = iter + 1 /\ UNCHANGED mode /\ Leave
  ELSE ScriptEnds

(* The next variant, or the next iteration of the run, or its end.         *)
NextVariant ==
  IF idx < Len(proposals)
  THEN idx' = idx + 1 /\ pc' = "install" /\ UNCHANGED <<run, base, baseline, proposals, suite, moved>>
  ELSE IterationEnds

(* propose_variants drops invalid, refused and oversized answers.          *)
Propose ==
  /\ pc = "propose"
  /\ \E n \in 1..NVariants :
       /\ written + n <= MaxTexts
       /\ proposals' = [i \in 1..n |-> written + i]
       /\ written' = written + n
  /\ idx' = 1
  /\ pc' = "install"
  /\ UNCHANGED <<store, run, base, baseline, suite, moved, vetted, stranded, begun, rollbacks>>

ProposeNothingAgain ==  \* mutant: the iteration starts over
  /\ pc = "propose" /\ pc' = "baseline"
  /\ UNCHANGED <<store, run, locals, suite, moved, notes>>
ProposeNothing ==
  /\ pc = "propose"
  /\ IterationEnds
  /\ UNCHANGED <<store, notes>>

-----------------------------------------------------------------------------
(* _compliance_preflight.                                                  *)

(* One transaction: the candidate's row, and the pointer moved to it.      *)
InstallRow ==
  /\ pc = "install"
  /\ \E v \in PreflightVersions :
       rows' = Append(rows, Row(v, proposals[idx], "candidate_preflight"))
  /\ cand' = Len(rows) + 1 /\ prev' = active
  /\ probed' = 0 /\ heard' = {} /\ failed' = FALSE /\ moved' = FALSE
  /\ pc' = "probe"
  /\ UNCHANGED <<scored, spoken, run, locals, notes>>
InstallAsideOnly == InstallRow /\ UNCHANGED active  \* mutant: the pointer is left alone
Install == InstallRow /\ active' = cand'

(* The transaction failed; run_iteration takes it for a failed pre-flight. *)
InstallFails ==
  /\ pc = "install"
  /\ NextVariant
  /\ UNCHANGED <<store, notes>>

(* A probe's agent reads the active prompt. A rule it breaks, or any       *)
(* exception on the way, makes it a failed probe.                          *)
Probe ==
  /\ pc = "probe" /\ probed < NProbes
  /\ heard' = heard \cup {Live.text}
  /\ \E passed \in BOOLEAN : failed' = (failed \/ ~ passed)
  /\ probed' = probed + 1
  /\ UNCHANGED <<store, pc, run, locals, cand, prev, moved, notes>>

(* The verdict of the suite.                                               *)
Judge ==
  IF failed THEN NextVariant
  ELSE pc' = "evaluate" /\ UNCHANGED <<run, locals, suite, moved>>

(* The finally block puts the pointer back to what it was.                 *)
RestoreIfFailed ==  \* mutant: a candidate that passed stays live
  /\ pc = "probe" /\ probed = NProbes
  /\ active' = IF failed THEN prev ELSE active
  /\ Judge
  /\ UNCHANGED <<rows, scored, spoken, notes>>
Restore ==
  /\ pc = "probe" /\ probed = NProbes
  /\ active' = prev
  /\ Judge
  /\ UNCHANGED <<rows, scored, spoken, notes>>

(* It also runs when the operator interrupts the script.                   *)
Interrupt ==
  /\ pc = "probe"
  /\ active' = prev
  /\ ScriptEnds
  /\ UNCHANGED <<rows, scored, spoken, notes>>

(* Its transaction fails: the pre-flight counts as failed, the loop goes   *)
(* on with the candidate still live.                                       *)
RestoreFails ==
  /\ pc = "probe" /\ probed = NProbes
  /\ stranded' = stranded \cup {cand}
  /\ NextVariant
  /\ UNCHANGED <<store, vetted, begun, rollbacks, written>>

(* The process dies with the candidate live.                               *)
DieInPreflight ==
  /\ pc = "probe"
  /\ stranded' = stranded \cup {cand}
  /\ ScriptEnds
  /\ UNCHANGED <<store, vetted, begun, rollbacks, written>>

-----------------------------------------------------------------------------
(* The paired evaluation, the gate and what is written.                    *)

(* The variant's own conversations are stored as version -1. In isolated   *)
(* mode the system check may run the live prompt too, under its version.   *)
Evaluate(verdict) ==
  /\ pc = "evaluate"
  /\ scored' \in IF mode = "isolated" THEN {scored, scored \cup {Name(Live)}} ELSE {scored}
  /\ vetted' = IF verdict = "adopt" THEN vetted \cup {proposals[idx]} ELSE vetted
  /\ pc' = verdict
  /\ UNCHANGED <<rows, active, spoken, run, locals, suite, moved,
                 stranded, begun, rollbacks, written>>

(* upsert_prompt_version: a row of that number is overwritten.             *)
Of(v) == {i \in DOMAIN rows : rows[i].version = v}
Upsert(v, text, status) ==
  \/ \E i \in Of(v) : Of(v) = {i} /\ rows' = [rows EXCEPT ![i] = Row(v, text, status)]
  \/ Of(v) = {} /\ rows' = Append(rows, Row(v, text, status))

AdoptedVersionInPlace == base.version  \* mutant: the number is not advanced
AdoptedVersion == base.version + 1
RejectedVersion == 10000 + iter * 100 + (idx - 1)

Adopt ==
  /\ pc = "adopt"
  /\ Upsert(AdoptedVersion, proposals[idx], "active")
  /\ pc' = "activate"
  /\ UNCHANGED <<active, scored, spoken, run, locals, suite, moved, notes>>

(* set_active_prompt with the id the upsert returned; the loop breaks.     *)
ActivateAndGoOn ==  \* mutant: the winner does not end the iteration
  /\ pc = "activate"
  /\ active' \in Of(AdoptedVersion)
  /\ NextVariant
  /\ UNCHANGED <<rows, scored, spoken, notes>>
Activate ==
  /\ pc = "activate"
  /\ active' \in Of(AdoptedVersion)
  /\ IterationEnds
  /\ UNCHANGED <<rows, scored, spoken, notes>>

Reject ==
  /\ pc = "reject"
  /\ Upsert(RejectedVersion, proposals[idx], "rejected")
  /\ NextVariant
  /\ UNCHANGED <<active, scored, spoken, notes>>

(* Two rows of the number, which pre-flights may have left, make           *)
(* scalar_one_or_none raise, and nobody catches it.                        *)
UpsertRaises ==
  /\ pc \in {"adopt", "reject"}
  /\ Cardinality(Of(IF pc = "adopt" THEN AdoptedVersion ELSE RejectedVersion)) > 1
  /\ ScriptEnds
  /\ UNCHANGED <<store, notes>>

(* Any other exception nobody catches, the end of the budget, or the process      *)
(* dies: the script ends between two transactions.                         *)
Stop ==
  /\ pc \in {"read", "baseline", "propose", "install", "evaluate", "adopt", "activate", "reject"}
  /\ ScriptEnds
  /\ UNCHANGED <<store, notes>>

-----------------------------------------------------------------------------
(* A worker's agent reads the active prompt for a borrower's conversation. *)
Converse ==
  /\ Name(Live) \notin spoken /\ Cardinality(spoken) < MaxConversations
  /\ spoken' = spoken \cup {Name(Live)}
  /\ UNCHANGED <<rows, active, scored, pc, run, locals, suite, moved, notes>>

(* "A one-row SQL update on active_prompt", to a version that was adopted. *)
Rollback(i) ==
  /\ rollbacks < MaxRollbacks
  /\ i # active /\ rows[i].status = "active"
  /\ active' = i
  /\ rollbacks' = rollbacks + 1
  /\ moved' = (moved \/ pc = "probe")
  /\ UNCHANGED <<rows, scored, spoken, pc, run, locals, suite, vetted, stranded, begun, written>>

(* What the loop does when every call it makes returns.                    *)
Loop ==
  \/ ReadActive \/ EvaluateBaseline \/ ReuseBaseline \/ Propose \/ ProposeNothing
  \/ Install \/ Probe \/ Restore
  \/ \E verdict \in {"adopt", "reject"} : Evaluate(verdict)
  \/ Adopt \/ Activate \/ Reject \/ UpsertRaises

Mishap == InstallFails \/ RestoreFails \/ Interrupt \/ DieInPreflight \/ Stop

Over == pc = "idle" /\ begun = MaxIterations /\ UNCHANGED vars

Next ==
  \/ StartRun \/ Loop \/ Mishap \/ Converse
  \/ \E i \in DOMAIN rows : Rollback(i)
  \/ Over

(* The script, once started, is run by its process: every call it makes    *)
(* returns or raises. Nobody has to start it, talk to borrowers or step    *)
(* in, and nothing has to fail.                                            *)
Fairness == WF_vars(Loop)

Spec == Init /\ [][Next]_vars /\ Fairness
-----------------------------------------------------------------------------
(* Properties.                                                             *)

Statuses == {"active", "candidate_preflight", "rejected"}
Named    == [version : Nat, text : Nat]

(* Every variable stays in its type, and the loop never handles a variant  *)
(* it does not have.                                                       *)
TypeOK ==
  /\ rows \in Seq([version : Nat, text : Nat, status : Statuses])
  /\ active \in 1..Len(rows)
  /\ scored \subseteq Named /\ spoken \subseteq Named
  /\ pc \in {"idle", "read", "baseline", "propose", "install", "probe", "evaluate",
             "adopt", "activate", "reject"}
  /\ pc = "read" => begun < MaxIterations
  /\ iter \in Nat /\ mode \in {"full", "isolated"}
  /\ base \in [id : 1..Len(rows), version : Nat, text : Nat]
  /\ baseline \subseteq Nat
  /\ proposals \in Seq(Nat)
  /\ pc \in {"install", "probe", "evaluate", "adopt", "activate", "reject"} => idx \in 1..Len(proposals)
  /\ cand \in 1..Len(rows) /\ prev \in 1..Len(rows) /\ probed \in 0..NProbes
  /\ heard \subseteq Nat /\ failed \in BOOLEAN
  /\ vetted \subseteq Nat /\ stranded \subseteq 1..Len(rows) /\ moved \in BOOLEAN
  /\ begun \in 0..MaxIterations /\ rollbacks \in Nat /\ written \in Nat

(* A text the gate did not accept is live only while its own pre-flight    *)
(* runs: however the loop raises, is interrupted or restarted and the      *)
(* pointer moved by hand, as long as every pre-flight came to its finally  *)
(* block and that could write.                                             *)
UnvettedOnlyInPreflight ==
  stranded = {} /\ Live.text \notin vetted => pc = "probe" /\ active = cand

(* "Compliance pre-flight is a hard gate": what goes on to the paired      *)
(* evaluation, and may be adopted, is the text every probe ran with, and   *)
(* none failed; unless the pointer was moved by hand during the suite.     *)
GatedTextWasProbed ==
  pc \in {"evaluate", "adopt", "activate"} /\ ~ moved =>
    heard = {proposals[idx]} /\ ~ failed

(* The scores a variant is compared with were made by the very prompt it   *)
(* revises, stored conversations taken over from earlier runs included:    *)
(* the version number they are found by stands for that text. Nobody moved *)
(* the pointer and no candidate was left live.                             *)
BaselineIsOfBase ==
  rollbacks = 0 /\ stranded = {} /\ pc \in {"propose", "install", "probe", "evaluate", "adopt", "activate"}
    => baseline = {base.text}

(* A prompt that is adopted takes the place of the one it was compared     *)
(* with: the pointer was not moved since the iteration read it, except by  *)
(* hand or by a pre-flight that could not put it back.                     *)
AdoptionReplacesBase ==
  [][pc = "activate" /\ active' # active => active = base.id \/ rollbacks > 0 \/ stranded # {}]_vars

(* A conversation can be traced to its prompt: the number stored with an   *)
(* evaluation's or a borrower's conversation is that of a row that still   *)
(* has the text it was held with. One kind of conversation is lost: held   *)
(* during a pre-flight, under a number of its clock that a rejected        *)
(* variant has taken over since. Nobody moved the pointer and no candidate *)
(* was left live.                                                          *)
TakenByReject(i) == rows[i].version >= 10000 /\ rows[i].status = "rejected"

ConversationsTraceable ==
  rollbacks = 0 /\ stranded = {} =>
    \A c \in scored \cup spoken :
      \E i \in Of(c.version) : rows[i].text = c.text \/ TakenByReject(i)

(* A run of the script ends: probes, variants and iterations are bounded.  *)
RunEnds == (pc # "idle") ~> (pc = "idle")

-----------------------------------------------------------------------------
(* Statements of the documentation that the code does not keep.            *)

(* "No prompt update may introduce compliance violations" (assignment) and *)
(* "any rule failure rejects the variant" (README): the prompt a borrower  *)
(* is talked to with passed the pre-flight and the gate.                   *)
BorrowersHearVettedText == \A c \in spoken : c.text \in vetted
=============================================================================
