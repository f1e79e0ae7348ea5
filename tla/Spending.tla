------------------------------ MODULE Spending ------------------------------
(***************************************************************************)
(* The kill switch of the budget tracker under the learning loop. Every    *)
(* model call is paid for first and recorded after; record raises when     *)
(* this process has spent as much as the kill line. Most of the loop lets  *)
(* that through and the script stops. A probe and a pipeline of the system *)
(* check catch every exception, and the loop goes on with the next one.    *)
(*                                                                         *)
(* Work is divided into units, each some calls and an end: a baseline, a   *)
(* round of proposals, a probe, an evaluation, a pipeline of the system    *)
(* check. Verdicts are any; what matters is which of them are reached.     *)
(***************************************************************************)
EXTENDS Integers

CONSTANTS KillLine,    (* BudgetTracker.kill_usd                               *)
          Costs,       (* what a call may cost                                 *)
          MaxCost,     (* the dearest call                                     *)
          MaxVariants, (* n_variants                                           *)
          Probes,      (* probes of the agent                                  *)
          Samples,     (* borrowers of the system check                        *)
          Iterations,  (* length of the schedule                               *)
          MaxLives     (* how often the script is started (bound)              *)

ASSUME SpendingAssumption ==
  /\ KillLine \in Nat \ {0}
  /\ Costs \subseteq 1..MaxCost /\ MaxCost \in Costs
  /\ {MaxVariants, Probes, Samples, Iterations, MaxLives} \subseteq Nat \ {0}

VARIABLES
  pc,         (* the unit that is worked on, or how the script ended       *)
  spent,      (* BudgetTracker._spent of this process                      *)
  answered,   (* has a call of this unit been answered and recorded?       *)
  isolated,   (* --eval-mode of this process                               *)
  downstream, (* does the iteration's agent have agents after it?          *)
  iteration,  (* the iterations begun                                      *)
  left,       (* proposals not yet handled, the current one included       *)
  unit,       (* the probe, or the pipeline of the system check            *)
  failures,   (* probes that failed in this suite                          *)
  scored,     (* pipelines of the system check that were scored            *)
  adopted,    (* variants adopted                                          *)
  (* history, not in the code *)
  passes,     (* probes of this suite that were run to the end and passed  *)
  late,       (* calls paid for after the one that crossed the line        *)
  lives,      (* processes there have been                                 *)
  bill        (* what the provider charged all of them                     *)

account  == <<spent, late, bill>>
mode     == <<isolated, downstream>>
suite    == <<failures, passes>>
place    == <<pc, answered, iteration, left, unit>>
vars     == <<place, mode, suite, scored, adopted, account, lives>>

Ended     == {"finished", "stopped", "dead"}
Guarded   == {"probe", "system"}
Open      == {"baseline", "propose", "evaluate"}
Units     == Guarded \cup Open
Pipelines == 2 * Samples

Init ==
  /\ pc = "baseline" /\ answered = FALSE
  /\ iteration = 1 /\ left = 0 /\ unit = 1
  /\ isolated \in BOOLEAN /\ downstream \in BOOLEAN
  /\ failures = 0 /\ passes = 0 /\ scored = {} /\ adopted = 0
  /\ spent = 0 /\ late = 0 /\ bill = 0 /\ lives = 1

-----------------------------------------------------------------------------
(* BudgetTracker.record.                                                   *)

CrossedPast(sum) == sum > KillLine  \* mutant: the line itself is still free
Crossed(sum) == sum >= KillLine

Pay(cost) ==
  /\ spent' = spent + cost
  /\ bill' = bill + cost
  /\ late' = IF Crossed(spent) THEN late + 1 ELSE late

(* A call that returns to the loop.                                        *)
Call ==
  /\ pc \in Units
  /\ \E cost \in Costs : Pay(cost) /\ ~Crossed(spent + cost)
  /\ answered' = TRUE
  /\ UNCHANGED <<pc, iteration, left, unit, mode, suite, scored, adopted, lives>>

Exhausts == \E cost \in Costs : Pay(cost) /\ Crossed(spent + cost)

(* A call may also be refused and cost nothing, or the database may fail.  *)
Raises == Exhausts \/ UNCHANGED account

-----------------------------------------------------------------------------
(* Where the loop goes. Each starts a unit.                                *)

To(where, n) == pc' = where /\ unit' = n /\ answered' = FALSE

(* run_iteration returns, and the script takes the next of its schedule.   *)
EndIteration ==
  /\ left' = 0
  /\ IF iteration < Iterations
     THEN To("baseline", 1) /\ iteration' = iteration + 1 /\ downstream' \in BOOLEAN
     ELSE To("finished", 1) /\ UNCHANGED <<iteration, downstream>>

BeginSuite == To("probe", 1) /\ failures' = 0 /\ passes' = 0

NextVariantAgain ==  \* mutant: the variant stays the current one
  IF left >= 1
  THEN BeginSuite /\ UNCHANGED <<left, iteration, downstream>>
  ELSE EndIteration /\ UNCHANGED suite
NextVariant ==
  IF left > 1
  THEN BeginSuite /\ left' = left - 1 /\ UNCHANGED <<iteration, downstream>>
  ELSE EndIteration /\ UNCHANGED suite

Adopt == adopted' = adopted + 1 /\ EndIteration

-----------------------------------------------------------------------------
(* run_iteration. Isolated mode may reuse stored conversations.            *)

BaselineDone ==
  /\ pc = "baseline" /\ (answered \/ isolated)
  /\ To("propose", 1)
  /\ UNCHANGED <<iteration, left, mode, suite, scored, adopted, account, lives>>

(* n of the proposals were JSON, no refusal and not too long.              *)
Proposed ==
  /\ pc = "propose" /\ answered
  /\ \E n \in 0..MaxVariants :
       IF n = 0
       THEN EndIteration /\ UNCHANGED suite
       ELSE BeginSuite /\ left' = n /\ UNCHANGED <<iteration, downstream>>
  /\ UNCHANGED <<isolated, scored, adopted, account, lives>>

(* The suite goes on until every probe has an outcome.                     *)
Outcome(failed, passed) ==
  IF unit < Probes
  THEN /\ To("probe", unit + 1)
       /\ failures' = failures + failed /\ passes' = passes + passed
       /\ UNCHANGED <<iteration, left, downstream>>
  ELSE IF failures + failed = 0
  THEN /\ To("evaluate", 1)
       /\ failures' = failures /\ passes' = passes + passed
       /\ UNCHANGED <<iteration, left, downstream>>
  ELSE NextVariant

ProbeDone ==
  /\ pc = "probe" /\ answered
  /\ \E passed \in {0, 1} : Outcome(1 - passed, passed)
  /\ UNCHANGED <<isolated, scored, adopted, account, lives>>

ProbeSkipped ==  \* mutant: a probe that raises has no outcome
  /\ pc = "probe"
  /\ Raises
  /\ Outcome(0, 0)
  /\ UNCHANGED <<isolated, scored, adopted, lives>>
ProbeRetried ==  \* mutant: a probe that raises is run again
  /\ pc = "probe"
  /\ Raises
  /\ UNCHANGED <<place, mode, suite, scored, adopted, lives>>
(* run_probe_suite: "don't let one probe kill the suite".                  *)
ProbeRaises ==
  /\ pc = "probe"
  /\ Raises
  /\ Outcome(1, 0)
  /\ UNCHANGED <<isolated, scored, adopted, lives>>

(* The candidate's row cannot be written: no probe is run.                 *)
PreflightRaises ==
  /\ pc = "probe" /\ unit = 1 /\ ~answered
  /\ NextVariant
  /\ UNCHANGED <<isolated, scored, adopted, account, lives>>

(* The gate's verdict on the evaluation.                                   *)
Evaluated ==
  /\ pc = "evaluate" /\ answered
  /\ \/ NextVariant /\ UNCHANGED <<scored, adopted>>
     \/ /\ ~(isolated /\ downstream)
        /\ Adopt /\ UNCHANGED <<suite, scored>>
     \/ /\ isolated /\ downstream
        /\ To("system", 1) /\ scored' = {}
        /\ UNCHANGED <<iteration, left, suite, downstream, adopted>>
  /\ UNCHANGED <<isolated, account, lives>>

-----------------------------------------------------------------------------
(* _system_level_check: the baseline's pipelines are the odd ones.         *)

Side(scores, odd) == {p \in scores : p % 2 = odd}

(* The gate again. Without scores of both sides it has nothing to compare  *)
(* and says of the variant what it said before.                            *)
Judged(scores) ==
  /\ scored' = {}
  /\ \/ Adopt /\ UNCHANGED suite
     \/ /\ Side(scores, 1) # {} /\ Side(scores, 0) # {}
        /\ NextVariant /\ UNCHANGED adopted

AfterPipeline(scores) ==
  IF unit < Pipelines
  THEN /\ To("system", unit + 1) /\ scored' = scores
       /\ UNCHANGED <<iteration, left, suite, downstream, adopted>>
  ELSE Judged(scores)

PipelineScored ==
  /\ pc = "system" /\ answered
  /\ AfterPipeline(scored \cup {unit})
  /\ UNCHANGED <<isolated, account, lives>>

(* The judge's answer has no handoff_seamlessness.                         *)
PipelineUnscored ==
  /\ pc = "system" /\ answered
  /\ AfterPipeline(scored)
  /\ UNCHANGED <<isolated, account, lives>>

PipelineRaises ==
  /\ pc = "system"
  /\ Raises
  /\ AfterPipeline(scored)
  /\ UNCHANGED <<isolated, lives>>

-----------------------------------------------------------------------------
(* Elsewhere nothing is caught before the script, which returns 1 on       *)
(* BudgetExhausted and ends of any other exception.                        *)

PayLater ==  \* mutant: the evaluation goes on with the samples it has
  /\ pc \in Open
  /\ Raises
  /\ IF pc = "evaluate"
     THEN answered' = TRUE /\ UNCHANGED <<pc, unit>>
     ELSE To("stopped", 1)
  /\ UNCHANGED <<iteration, left, mode, suite, scored, adopted, lives>>
Stop ==
  /\ pc \in Open
  /\ Raises
  /\ To("stopped", 1)
  /\ UNCHANGED <<iteration, left, mode, suite, scored, adopted, lives>>

(* The process dies, perhaps with a call that is paid for and not          *)
(* recorded. A new one starts with an empty ledger.                        *)
Die ==
  /\ pc \in Units
  /\ \E cost \in Costs \cup {0} : bill' = bill + cost
  /\ To("dead", 1)
  /\ UNCHANGED <<iteration, left, mode, suite, scored, adopted, spent, late, lives>>

StartAgain ==
  /\ pc \in Ended /\ lives < MaxLives
  /\ lives' = lives + 1
  /\ To("baseline", 1)
  /\ iteration' = 1 /\ left' = 0
  /\ isolated' \in BOOLEAN /\ downstream' \in BOOLEAN
  /\ failures' = 0 /\ passes' = 0 /\ scored' = {} /\ adopted' = 0
  /\ spent' = 0 /\ late' = 0
  /\ UNCHANGED bill

Over == pc \in Ended /\ UNCHANGED vars

Work ==
  \/ Call \/ BaselineDone \/ Proposed
  \/ ProbeDone \/ ProbeRaises \/ PreflightRaises
  \/ Evaluated
  \/ PipelineScored \/ PipelineUnscored \/ PipelineRaises
  \/ Stop

Next == Work \/ Die \/ StartAgain \/ Over

(* A running script goes on; nobody has to start it again.                 *)
Spec == Init /\ [][Next]_vars /\ WF_vars(Work)

-----------------------------------------------------------------------------
(* Properties.                                                             *)

(* Every variable holds what the code may put there; a ledger under its    *)
(* line has no late call; no more iterations are begun than scheduled.     *)
TypeOK ==
  /\ pc \in Units \cup Ended /\ answered \in BOOLEAN
  /\ isolated \in BOOLEAN /\ downstream \in BOOLEAN
  /\ iteration \in 1..Iterations /\ left \in 0..MaxVariants
  /\ unit \in 1..(Probes + Pipelines)
  /\ failures \in 0..Probes /\ passes \in 0..Probes
  /\ scored \subseteq 1..Pipelines /\ adopted \in 0..Iterations
  /\ spent \in Nat /\ bill \in Nat /\ late \in Nat /\ (late > 0 => Crossed(spent))
  /\ lives \in 1..MaxLives

Larger(m, n) == IF m >= n THEN m ELSE n

(* The most calls that are paid for after the crossing one. The rest of    *)
(* this iteration's suites and one call of the next iteration; or the rest *)
(* of a system check and that one; or, since only a check with scores of   *)
(* both sides rejects, the check from its third pipeline on, the suites of *)
(* the variants left, and that one.                                        *)
MaxLate ==
  Larger(MaxVariants * Probes,
         Larger(Pipelines, (Pipelines - 2) + (MaxVariants - 1) * Probes))

(* The kill line is not where the spending stops, but nearly: what the     *)
(* swallowed exceptions cost is bounded, whatever the schedule's length.   *)
WasteBounded == late <= MaxLate

(* What one process may cost, and so what all of them may. The ledger is   *)
(* the process's own and starts at zero: the line bounds the bill only in  *)
(* the number of times the script was started.                             *)
CostOfALife == KillLine - 1 + (MaxLate + 1) * MaxCost

BillBounded == bill <= lives * CostOfALife

(* A variant is evaluated only if every probe of its preflight ran to its  *)
(* end and passed, though the suite goes on over those that raise.         *)
PreflightFailsClosed == pc = "evaluate" => passes = Probes /\ failures = 0

(* Once the line is crossed nothing is adopted but by a system check, the  *)
(* only way to an adoption that catches the exhaustion.                    *)
AdoptsBelowLine ==
  [][ (adopted' > adopted /\ Crossed(spent)) => pc = "system" ]_vars

(* The loop ends, by its schedule or its line, whatever the model answers. *)
ScriptEnds == (pc \in Units) ~> (pc \in Ended)
=============================================================================
