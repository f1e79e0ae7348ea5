--------------------------- MODULE MetaEvaluator ----------------------------
(***************************************************************************)
(* run_meta_eval: three audits of the evaluation, each of which stores a   *)
(* finding, and the swap of the rubric judge's prompt from version 1 to    *)
(* version 2 when the first or the third is of high severity. The swap is  *)
(* four transactions, and the run may raise or die before each of them.    *)
(*                                                                         *)
(* Beside it the operator may move the judge's pointer by hand, seed the   *)
(* prompts again, or remove the database and start afresh. A conversation  *)
(* is only known by what the live judge and the strict check of rule 5 say *)
(* of it. Version 2's answer has no compliance_score, which the audits     *)
(* read as 0: it is never taken for lenient (prompts/judge/v0002.md).      *)
(***************************************************************************)
EXTENDS Integers, Sequences

CONSTANTS Sample1,        (* n_sample of audit_compliance_judge_strictness         *)
          Sample3,        (* n_sample of audit_inter_judge_agreement               *)
          MaxOutcomes,    (* bound: the conversations whose outcomes are counted   *)
          MaxRuns,        (* bound: runs of the script                             *)
          MaxHands        (* bound: what the operator does in between              *)

(* At most 6 in the third audit: see Kappa.                                *)
ASSUME MetaAssumption ==
  /\ Sample1 \in Nat /\ Sample3 \in 0..6 /\ MaxOutcomes \in Nat
  /\ MaxRuns \in Nat /\ MaxHands \in Nat

VARIABLES
  status,    (* of the judge's rows, by version                            *)
  live,      (* the version active_prompt points to                        *)
  findings,  (* meta_eval_findings; the index is the row's id              *)
  pc,
  apply,     (* auto_apply_fixes: not --no-apply                           *)
  left,      (* conversations of the sample still to be looked at          *)
  tally,     (* of those looked at: n, lenient a, strict passes b, alike g *)
             (* and misses, lenient ones that fail the strict check        *)
  fid1,      (* the id of this run's first finding                         *)
  (* what happened so far                                                  *)
  byHand,    (* the pointer was last moved by hand                         *)
  runs, hands

judge  == <<status, live>>
place  == <<pc, apply, left, tally, fid1>>
counts == <<runs, hands>>
vars   == <<judge, findings, place, byHand, counts>>

Severities == {"low", "medium", "high"}
Nothing    == [n |-> 0, a |-> 0, b |-> 0, g |-> 0, misses |-> 0]
None       == 0

(* Ghost of the evidence column: the finding's audit met a conversation    *)
(* the two judges differ on.                                               *)
Finding(type, severity, differ) ==
  [type |-> type, severity |-> severity, differ |-> differ, applied |-> FALSE]
Differ == tally.g < tally.n

-----------------------------------------------------------------------------
(* Severities, in whole numbers.                                           *)

(* fn_count >= 2 or fn_rate >= 0.30; the rate of none is 0.                *)
Strictness(t) ==
  IF t.misses >= 2 \/ (t.n > 0 /\ 100 * t.misses >= 30 * t.n) THEN "high"
  ELSE IF t.misses >= 1 THEN "medium" ELSE "low"

(* The commonest of n outcomes has m of them.                              *)
Skew(n, m) == IF n = 0 \/ 100 * m >= 85 * n THEN "low" ELSE "medium"

(* kappa = (po - pe) / (1 - pe), with po = g/n and pe = Chance/n^2, against *)
(* 0.40 and 0.60; it is 1 when pe is. For n <= 6 kappa is 0.4 in four cases, *)
(* (n, a, b, g) = (3, 1, 2, 2), (3, 2, 1, 2), (6, 2, 4, 4), (6, 4, 2, 4), in *)
(* all of which the code's doubles give 0.39999999999999986, and never 0.6. *)
Chance(t) == t.a * t.b + (t.n - t.a) * (t.n - t.b)
Above(t)  == t.g * t.n - Chance(t)
Room(t)   == t.n * t.n - Chance(t)
KappaUnguarded(t) ==  \* mutant: no guard against pe = 1
  IF 10 * Above(t) <= 4 * Room(t) THEN "high"
  ELSE IF 10 * Above(t) < 6 * Room(t) THEN "medium" ELSE "low"
Kappa(t) ==
  IF t.n < 2 \/ Room(t) <= 0 THEN "low"
  ELSE IF 10 * Above(t) <= 4 * Room(t) THEN "high"
  ELSE IF 10 * Above(t) < 6 * Room(t) THEN "medium" ELSE "low"

-----------------------------------------------------------------------------
(* Both prompts are on disk and seeded; the first one read is live.        *)
Init ==
  /\ status = [v \in {1, 2} |-> "active"] /\ live = 1
  /\ findings = <<>>
  /\ pc = "idle" /\ apply = TRUE /\ left = 0 /\ tally = Nothing /\ fid1 = None
  /\ byHand = FALSE
  /\ runs = 0 /\ hands = 0

(* The recent conversations of the kind the first audit is about.          *)
Start ==
  /\ pc = "idle" /\ runs < MaxRuns
  /\ pc' = "strictness"
  /\ apply' \in BOOLEAN
  /\ left' \in 0..Sample1 /\ tally' = Nothing /\ fid1' = None
  /\ runs' = runs + 1
  /\ UNCHANGED <<judge, findings, byHand, hands>>

(* One conversation is judged, by whichever prompt is live at that moment, *)
(* and checked; or it is passed over, having no turns or no valid answer.  *)
Lenient == IF live = 1 THEN BOOLEAN ELSE {FALSE}
Count(a, b) ==
  [n |-> tally.n + 1, a |-> tally.a + (IF a THEN 1 ELSE 0), b |-> tally.b + (IF b THEN 1 ELSE 0),
   g |-> tally.g + (IF a = b THEN 1 ELSE 0), misses |-> tally.misses + (IF a /\ ~ b THEN 1 ELSE 0)]
Look ==
  /\ pc \in {"strictness", "agreement"} /\ left > 0
  /\ left' = left - 1
  /\ \/ tally' = tally
     \/ \E a \in Lenient, b \in BOOLEAN : tally' = Count(a, b)
  /\ UNCHANGED <<judge, findings, pc, apply, fid1, byHand, counts>>

(* _persist_finding of each audit, before the next one begins.             *)
StoreStrictness ==
  /\ pc = "strictness" /\ left = 0
  /\ findings' = Append(findings, Finding(1, Strictness(tally), Differ))
  /\ fid1' = Len(findings')
  /\ pc' = "outcomes" /\ tally' = Nothing
  /\ UNCHANGED <<judge, apply, left, byHand, counts>>

StoreOutcomes ==
  /\ pc = "outcomes"
  /\ \E n \in 0..MaxOutcomes : \E m \in (IF n = 0 THEN {0} ELSE 1..n) :
       findings' = Append(findings, Finding(2, Skew(n, m), FALSE))
  /\ left' \in 0..Sample3
  /\ pc' = "agreement"
  /\ UNCHANGED <<judge, apply, tally, fid1, byHand, counts>>

(* The fixes are applied for the first and the third finding.              *)
CallsOnMedium(f1, f3) == "low" \notin {f1.severity, f3.severity}  \* mutant: medium will do
Calls(f1, f3) == "high" \in {f1.severity, f3.severity}
StoreAgreement ==
  /\ pc = "agreement" /\ left = 0
  /\ LET f3 == Finding(3, Kappa(tally), Differ) IN
       /\ findings' = Append(findings, f3)
       /\ pc' = IF apply /\ Calls(findings[fid1], f3) THEN "promote" ELSE "done"
  /\ tally' = Nothing
  /\ UNCHANGED <<judge, apply, left, fid1, byHand, counts>>

(* _promote_judge_v0002: the row, ...                                      *)
PromoteRowAndMark ==  \* mutant: the finding is marked before the pointer moves
  /\ pc = "promote"
  /\ status' = [status EXCEPT ![2] = "active"]
  /\ findings' = [findings EXCEPT ![fid1].applied = TRUE]
  /\ pc' = "switch"
  /\ UNCHANGED <<live, apply, left, tally, fid1, byHand, counts>>
PromoteRow ==
  /\ pc = "promote"
  /\ status' = [status EXCEPT ![2] = "active"]
  /\ pc' = "switch"
  /\ UNCHANGED <<live, findings, apply, left, tally, fid1, byHand, counts>>

(* ... the pointer; ...                                                    *)
RetireEarly ==  \* mutant: the old judge is retired before the new one is live
  /\ pc = "switch"
  /\ status' = [status EXCEPT ![1] = "retired_by_meta_eval"]
  /\ pc' = "retire"
  /\ UNCHANGED <<live, findings, apply, left, tally, fid1, byHand, counts>>
Switch ==
  /\ pc = "switch"
  /\ live' = 2 /\ byHand' = FALSE
  /\ pc' = "retire"
  /\ UNCHANGED <<status, findings, apply, left, tally, fid1, counts>>

(* ... run_meta_eval then retires version 1 ...                            *)
Retire ==
  /\ pc = "retire"
  /\ status' = [status EXCEPT ![1] = "retired_by_meta_eval"]
  /\ pc' = "mark"
  /\ UNCHANGED <<live, findings, apply, left, tally, fid1, byHand, counts>>

(* ... and marks the first finding as applied, be it the third that was    *)
(* high.                                                                   *)
Mark ==
  /\ pc = "mark"
  /\ findings' = [findings EXCEPT ![fid1].applied = TRUE]
  /\ pc' = "done"
  /\ UNCHANGED <<judge, apply, left, tally, fid1, byHand, counts>>

Leave == pc' = "idle" /\ apply' = TRUE /\ left' = 0 /\ tally' = Nothing /\ fid1' = None

Finish ==
  /\ pc = "done"
  /\ Leave
  /\ UNCHANGED <<judge, findings, byHand, counts>>

(* A call or a transaction raises, or the process dies.                    *)
Stop ==
  /\ pc \notin {"idle", "done"}
  /\ Leave
  /\ UNCHANGED <<judge, findings, byHand, counts>>

-----------------------------------------------------------------------------
(* The operator, also while a run is at work.                              *)
Hand == hands < MaxHands /\ hands' = hands + 1

(* The pointer is moved back by hand.                                      *)
Rollback ==
  /\ Hand /\ live = 2
  /\ live' = 1 /\ byHand' = TRUE
  /\ UNCHANGED <<status, findings, place, runs>>

(* _seed_one of one version: its row is active again, the pointer stays.   *)
Reseed(v) ==
  /\ Hand /\ status[v] # "active"
  /\ status' = [status EXCEPT ![v] = "active"]
  /\ UNCHANGED <<live, findings, place, byHand, runs>>

(* `make clean` and `make fresh-start`, while nothing runs.                *)
StartAfresh ==
  /\ Hand /\ pc = "idle"
  /\ status' = [v \in {1, 2} |-> "active"] /\ live' = 1 /\ findings' = <<>>
  /\ byHand' = FALSE
  /\ UNCHANGED <<place, runs>>

Over == pc = "idle" /\ runs = MaxRuns /\ UNCHANGED vars

Run ==
  \/ Look \/ StoreStrictness \/ StoreOutcomes \/ StoreAgreement
  \/ PromoteRow \/ Switch \/ Retire \/ Mark \/ Finish

Next ==
  \/ Start \/ Run \/ Stop
  \/ Rollback \/ (\E v \in {1, 2} : Reseed(v)) \/ StartAfresh
  \/ Over

Spec == Init /\ [][Next]_vars

-----------------------------------------------------------------------------
(* Properties.                                                             *)

Findings == [type : 1..3, severity : Severities, differ : BOOLEAN, applied : BOOLEAN]

(* Every variable stays in its type, and a run past its first audit knows  *)
(* the row it may have to mark.                                            *)
TypeOK ==
  /\ status \in [{1, 2} -> {"active", "retired_by_meta_eval"}] /\ live \in {1, 2}
  /\ findings \in Seq(Findings)
  /\ pc \in {"idle", "strictness", "outcomes", "agreement",
             "promote", "switch", "retire", "mark", "done"}
  /\ apply \in BOOLEAN /\ left \in Nat
  /\ tally \in [n : Nat, a : Nat, b : Nat, g : Nat, misses : Nat]
  /\ fid1 \in Nat
  /\ pc \notin {"idle", "strictness"} => fid1 \in 1..Len(findings)
  /\ byHand \in BOOLEAN /\ runs \in Nat /\ hands \in Nat

(* The judge that is live is not one the meta evaluator retired, at        *)
(* whatever transaction a run stopped and whatever was seeded again; only  *)
(* a rollback by hand can bring a retired one back.                        *)
RetiredNeverLive == status[live] # "active" => byHand

(* "Records a MetaEvalFinding row with applied=True": while a finding is   *)
(* marked applied the new judge is live, as long as nobody moved the       *)
(* pointer back, and no run leaves the mark without the swap.              *)
AppliedMeansLive ==
  (\E i \in DOMAIN findings : findings[i].applied) /\ ~ byHand => live = 2

(* The swap rests on stored evidence: while the new judge is live there is *)
(* a finding of high severity on file whose audit met a conversation the   *)
(* judges differ on, however few were judged and however one-sidedly.      *)
SwapOnEvidence ==
  live = 2 => \E i \in DOMAIN findings :
    findings[i].type \in {1, 3} /\ findings[i].severity = "high" /\ findings[i].differ

(* A mark answers a finding of its own run: the first audit's or, two rows *)
(* on, the third's was of high severity, whatever run was cut off before.  *)
AppliedAnswersHigh ==
  \A i \in DOMAIN findings : findings[i].applied =>
    /\ findings[i].type = 1
    /\ \/ findings[i].severity = "high"
       \/ /\ i + 2 \in DOMAIN findings
          /\ findings[i + 2].type = 3 /\ findings[i + 2].severity = "high"
=============================================================================
