--------------------------- MODULE SpendingProofs ---------------------------
(***************************************************************************)
(* What the kill line is worth, for every line, price, suite, check and    *)
(* schedule. IInv follows the loop's place (PlaceInv), what is known once  *)
(* the line is crossed (CrossedInv), how many calls can then still be paid *)
(* for from each place (WasteInv), and what they cost (MoneyInv).          *)
(***************************************************************************)
EXTENDS Spending, TLAPS

InVariant == {"probe", "evaluate", "system"}

PlaceInv ==
  /\ answered => pc \in Units /\ ~Crossed(spent)
  /\ adopted <= iteration /\ (pc \in Units => adopted < iteration)
  /\ pc \in InVariant => left >= 1
  /\ pc = "probe" => unit <= Probes /\ failures + passes = unit - 1
  /\ pc = "system" => unit <= Pipelines /\ \A p \in scored : p < unit

CrossedInv ==
  /\ ~Crossed(spent) => late = 0
  /\ pc = "evaluate" => ~Crossed(spent)
  /\ pc = "probe" /\ unit > 1 /\ Crossed(spent) => failures > 0

Compared == Side(scored, 1) # {} /\ Side(scored, 0) # {}

(* Past the line each unit left pays for one call: those of the suite or   *)
(* the check, the suites of the variants that may follow, and the next     *)
(* iteration's first.                                                      *)
WasteInv == Crossed(spent) =>
  /\ late <= MaxLate
  /\ pc \in Open => late + 1 <= MaxLate
  /\ pc = "probe" => late + (Probes - unit + 1) + (left - 1) * Probes + 1 <= MaxLate
  /\ pc = "system" => late + (Pipelines - unit + 1) + 1 <= MaxLate
  /\ pc = "system" /\ Compared
       => late + (Pipelines - unit + 1) + (left - 1) * Probes + 1 <= MaxLate

LedgerInv ==
  /\ Crossed(spent) => spent <= KillLine - 1 + (late + 1) * MaxCost
  /\ pc # "dead" => bill <= (lives - 1) * CostOfALife + spent

MoneyInv == LedgerInv /\ BillBounded

IInv == TypeOK /\ PreflightFailsClosed /\ PlaceInv /\ CrossedInv /\ WasteInv /\ MoneyInv

-----------------------------------------------------------------------------
(* Lemmas.                                                                 *)

(* What the assumption says of each constant.                              *)
LEMMA Bounds ==
  /\ KillLine \in Nat /\ KillLine >= 1
  /\ MaxCost \in Nat /\ MaxCost >= 1
  /\ \A cost \in Costs : cost \in Nat /\ cost >= 1 /\ cost <= MaxCost
  /\ MaxVariants \in Nat /\ MaxVariants >= 1
  /\ Probes \in Nat /\ Probes >= 1
  /\ Pipelines \in Nat /\ Pipelines >= 2
  /\ Iterations \in Nat /\ Iterations >= 1
  /\ MaxLives \in Nat /\ MaxLives >= 1
BY SpendingAssumption DEF SpendingAssumption, Pipelines

(* Products of naturals: what arithmetic with a fixed factor needs.        *)
LEMMA Times ==
  ASSUME NEW c \in Nat
  PROVE  /\ \A a \in Nat : a * c \in Nat
         /\ 0 * c = 0 /\ 1 * c = c
         /\ \A a \in Nat : (a + 1) * c = a * c + c
         /\ \A a, b \in Nat : a <= b => a * c <= b * c
<1>1. \A a \in Nat : a * c \in Nat
  BY Z3
<1>2. 0 * c = 0 /\ 1 * c = c
  BY Z3
<1>3. \A a \in Nat : (a + 1) * c = a * c + c
  BY Z3
<1>4. \A a, b \in Nat : a <= b => a * c <= b * c
  <2> SUFFICES ASSUME NEW a \in Nat, NEW b \in Nat, a <= b
               PROVE  a * c <= b * c
    OBVIOUS
  <2>1. b - a \in Nat
    OBVIOUS
  <2>2. b * c = a * c + (b - a) * c
    BY Z3
  <2>3. (b - a) * c \in Nat
    BY <1>1, <2>1
  <2>4. a * c \in Nat
    BY <1>1
  <2> QED
    BY <2>2, <2>3, <2>4
<1> QED
  BY <1>1, <1>2, <1>3, <1>4

(* The three bounds MaxLate is the largest of.                             *)
LEMMA LateBounds ==
  /\ MaxLate \in Nat
  /\ MaxVariants * Probes <= MaxLate
  /\ Pipelines <= MaxLate
  /\ (Pipelines - 2) + (MaxVariants - 1) * Probes <= MaxLate
  /\ MaxVariants * Probes = (MaxVariants - 1) * Probes + Probes
<1> DEFINE less == (MaxVariants - 1) * Probes
           all  == MaxVariants * Probes
<1>1. MaxVariants - 1 \in Nat
  BY Bounds
<1>2. less \in Nat /\ all \in Nat /\ all = less + Probes
  <2>1. ((MaxVariants - 1) + 1) * Probes = less + Probes
    BY <1>1, Times, Bounds
  <2>2. (MaxVariants - 1) + 1 = MaxVariants
    BY Bounds
  <2> QED
    BY <1>1, <2>1, <2>2, Times, Bounds
<1>3. MaxLate = Larger(all, Larger(Pipelines, (Pipelines - 2) + less))
  BY DEF MaxLate
<1> HIDE DEF less, all
<1>4. /\ MaxLate \in Nat /\ all <= MaxLate
      /\ Pipelines <= MaxLate /\ (Pipelines - 2) + less <= MaxLate
  BY <1>2, <1>3, Bounds DEF Larger
<1> QED
  BY <1>2, <1>4 DEF less, all

LEMMA Fewer ==
  ASSUME NEW a \in Nat, NEW b \in Nat, NEW m \in Nat, a + b + 1 <= m
  PROVE  a + 1 <= m /\ a <= m
OBVIOUS

LEMMA FewerStill ==
  ASSUME NEW a \in Nat, NEW b \in Nat, NEW c \in Nat, NEW m \in Nat, a + b + c + 1 <= m
  PROVE  a + c + 1 <= m
OBVIOUS

LEMMA LateIsNat == MaxLate \in Nat /\ MaxLate >= 2
BY LateBounds, Bounds

-----------------------------------------------------------------------------
(* The beginning.                                                          *)

LEMMA LifeIsNat == CostOfALife \in Nat /\ CostOfALife >= KillLine - 1 + MaxCost
<1>1. (MaxLate + 1) * MaxCost = MaxLate * MaxCost + MaxCost /\ MaxLate * MaxCost \in Nat
  BY Times, Bounds, LateBounds
<1> QED
  BY <1>1, Bounds DEF CostOfALife

LEMMA InitHolds == Init => IInv
<1> SUFFICES ASSUME Init PROVE IInv
  OBVIOUS
<1>1. TypeOK
  <2>1. pc \in Units \cup Ended /\ answered \in BOOLEAN
        /\ isolated \in BOOLEAN /\ downstream \in BOOLEAN
    BY DEF Init, Units, Open, Guarded, Ended
  <2>2. /\ iteration \in 1..Iterations /\ left \in 0..MaxVariants
        /\ unit \in 1..(Probes + Pipelines)
        /\ failures \in 0..Probes /\ passes \in 0..Probes
    BY Bounds DEF Init
  <2>3. scored \subseteq 1..Pipelines /\ adopted \in 0..Iterations
    BY Bounds DEF Init
  <2>4. /\ spent \in Nat /\ bill \in Nat /\ late \in Nat /\ (late > 0 => Crossed(spent))
        /\ lives \in 1..MaxLives
    BY Bounds DEF Init
  <2> QED
    BY <2>1, <2>2, <2>3, <2>4 DEF TypeOK
<1>2. PreflightFailsClosed /\ PlaceInv /\ CrossedInv
  BY Bounds DEF Init, PreflightFailsClosed, PlaceInv, CrossedInv, Units, Open, Guarded, InVariant, Crossed
<1>3. WasteInv
  BY Bounds DEF Init, WasteInv, Crossed
<1>4. MoneyInv
  <2>1. 1 * CostOfALife = CostOfALife /\ 0 * CostOfALife = 0
    BY LifeIsNat, Times
  <2> QED
    BY <2>1, Bounds, LifeIsNat DEF Init, MoneyInv, LedgerInv, BillBounded, Crossed
<1> QED
  BY <1>1, <1>2, <1>3, <1>4 DEF IInv
-----------------------------------------------------------------------------
(* Steps.                                                                  *)

(* What raising does to the account, and that a call leaves it below.      *)
LEMMA RaisesAccount ==
  ASSUME TypeOK, CrossedInv, Raises
  PROVE  /\ spent' \in Nat /\ bill' \in Nat /\ late' \in Nat /\ spent' >= spent
         /\ ~Crossed(spent') => late' = 0
BY Bounds DEF TypeOK, CrossedInv, Raises, Exhausts, Pay, Crossed, account

(* The place after a pipeline of the system check, scored or not.          *)
LEMMA PipelinePlace ==
  ASSUME TypeOK, PlaceInv, pc = "system", NEW scores,
         \A p \in scores : p < unit + 1, AfterPipeline(scores), ~Crossed(spent') => late' = 0
  PROVE  (PreflightFailsClosed /\ PlaceInv /\ CrossedInv)'
<1> USE Bounds DEF TypeOK, PreflightFailsClosed, PlaceInv, CrossedInv, InVariant, Crossed,
        Units, Open, Guarded, Ended, suite
<1>1. CASE unit < Pipelines
  BY <1>1 DEF AfterPipeline, To
<1>2. CASE ~(unit < Pipelines)
  <2>1. Judged(scores)
    BY <1>2 DEF AfterPipeline
  <2>2. CASE Adopt
    BY <2>1, <2>2 DEF Judged, Adopt, EndIteration, To
  <2>3. CASE NextVariant /\ UNCHANGED adopted
    <3>1. scored' = {}
      BY <2>1 DEF Judged
    <3>2. CASE left > 1
      BY <2>3, <3>1, <3>2 DEF NextVariant, BeginSuite, To
    <3>3. CASE ~(left > 1)
      BY <2>3, <3>1, <3>3 DEF NextVariant, EndIteration, To
    <3> QED
      BY <3>2, <3>3
  <2>4. Adopt \/ (NextVariant /\ UNCHANGED adopted)
    BY <2>1, Zenon DEF Judged
  <2> QED
    BY <2>2, <2>3, <2>4, Zenon
<1> QED
  BY <1>1, <1>2

LEMMA PlaceStep ==
  ASSUME TypeOK, PreflightFailsClosed, PlaceInv, CrossedInv, Next
  PROVE  (PreflightFailsClosed /\ PlaceInv /\ CrossedInv)'
<1> USE Bounds DEF TypeOK, PreflightFailsClosed, PlaceInv, CrossedInv, InVariant, Crossed,
        Units, Open, Guarded, Ended, account, mode, suite
<1>1. CASE Call
  BY <1>1 DEF Call, Pay
<1>2. CASE BaselineDone
  BY <1>2 DEF BaselineDone, To
<1>3. CASE Proposed
  BY <1>3 DEF Proposed, To, EndIteration, BeginSuite
<1>4. CASE ProbeDone
  BY <1>4 DEF ProbeDone, Outcome, To, NextVariant, EndIteration, BeginSuite
<1>5. CASE ProbeRaises
  BY <1>5 DEF ProbeRaises, Outcome, To, NextVariant, EndIteration, BeginSuite, Raises, Exhausts, Pay
<1>6. CASE PreflightRaises
  BY <1>6 DEF PreflightRaises, To, NextVariant, EndIteration, BeginSuite
<1>7. CASE Evaluated
  BY <1>7 DEF Evaluated, Adopt, To, NextVariant, EndIteration, BeginSuite
<1>8. CASE PipelineScored
  <2>1. \A p \in scored \cup {unit} : p < unit + 1
    BY <1>8 DEF PipelineScored
  <2>2. pc = "system" /\ AfterPipeline(scored \cup {unit})
    BY <1>8 DEF PipelineScored
  <2>3. ~Crossed(spent') => late' = 0
    BY <1>8 DEF PipelineScored
  <2> QED
    BY <2>1, <2>2, <2>3, PipelinePlace
<1>9. CASE PipelineUnscored
  <2>1. \A p \in scored : p < unit + 1
    BY <1>9 DEF PipelineUnscored
  <2>2. pc = "system" /\ AfterPipeline(scored)
    BY <1>9 DEF PipelineUnscored
  <2>3. ~Crossed(spent') => late' = 0
    BY <1>9 DEF PipelineUnscored
  <2> QED
    BY <2>1, <2>2, <2>3, PipelinePlace
<1>10. CASE PipelineRaises
  <2>1. \A p \in scored : p < unit + 1
    BY <1>10 DEF PipelineRaises
  <2>2. pc = "system" /\ AfterPipeline(scored)
    BY <1>10 DEF PipelineRaises
  <2>3. ~Crossed(spent') => late' = 0
    BY <1>10, RaisesAccount DEF PipelineRaises
  <2> QED
    BY <2>1, <2>2, <2>3, PipelinePlace
<1>11. CASE Stop
  BY <1>11 DEF Stop, To, Raises, Exhausts, Pay
<1>12. CASE Die
  BY <1>12 DEF Die, To
<1>13. CASE StartAgain
  BY <1>13 DEF StartAgain, To
<1>14. CASE Over
  BY <1>14 DEF Over, vars, place
<1> QED
  BY <1>1, <1>2, <1>3, <1>4, <1>5, <1>6, <1>7, <1>8, <1>9, <1>10, <1>11, <1>12, <1>13, <1>14 DEF Next, Work

ModeType ==
  /\ pc \in Units \cup Ended /\ answered \in BOOLEAN
  /\ isolated \in BOOLEAN /\ downstream \in BOOLEAN
CountType ==
  /\ iteration \in 1..Iterations /\ left \in 0..MaxVariants
  /\ unit \in 1..(Probes + Pipelines)
  /\ failures \in 0..Probes /\ passes \in 0..Probes
  /\ adopted \in 0..Iterations
ScoreType == scored \subseteq 1..Pipelines
AccountType ==
  /\ spent \in Nat /\ bill \in Nat /\ late \in Nat /\ (late > 0 => Crossed(spent))
  /\ lives \in 1..MaxLives

LEMMA TypeParts == TypeOK <=> ModeType /\ CountType /\ ScoreType /\ AccountType
BY DEF TypeOK, ModeType, CountType, ScoreType, AccountType

LEMMA ModeStep ==
  ASSUME ModeType, Next
  PROVE  ModeType'
<1> USE Bounds DEF Units, Open, Guarded, Ended, mode, ModeType
<1>1. CASE Call
  BY <1>1 DEF Call, Pay
<1>2. CASE BaselineDone
  BY <1>2 DEF BaselineDone, To
<1>3. CASE Proposed
  BY <1>3 DEF Proposed, To, EndIteration, BeginSuite
<1>4. CASE ProbeDone
  BY <1>4 DEF ProbeDone, Outcome, To, NextVariant, EndIteration, BeginSuite
<1>5. CASE ProbeRaises
  BY <1>5 DEF ProbeRaises, Outcome, To, NextVariant, EndIteration, BeginSuite, Raises, Exhausts, Pay
<1>6. CASE PreflightRaises
  BY <1>6 DEF PreflightRaises, To, NextVariant, EndIteration, BeginSuite
<1>7. CASE Evaluated
  BY <1>7 DEF Evaluated, Adopt, To, NextVariant, EndIteration, BeginSuite
<1>8. CASE PipelineScored
  BY <1>8 DEF PipelineScored, AfterPipeline, Judged, Adopt, To, NextVariant, EndIteration, BeginSuite
<1>9. CASE PipelineUnscored
  BY <1>9 DEF PipelineUnscored, AfterPipeline, Judged, Adopt, To, NextVariant, EndIteration, BeginSuite
<1>10. CASE PipelineRaises
  BY <1>10 DEF PipelineRaises, AfterPipeline, Judged, Adopt, To, NextVariant, EndIteration, BeginSuite, Raises, Exhausts, Pay
<1>11. CASE Stop
  BY <1>11 DEF Stop, To, Raises, Exhausts, Pay
<1>12. CASE Die
  BY <1>12 DEF Die, To
<1>13. CASE StartAgain
  BY <1>13 DEF StartAgain, To
<1>14. CASE Over
  BY <1>14 DEF Over, vars, place, account, mode, suite
<1> QED
  BY <1>1, <1>2, <1>3, <1>4, <1>5, <1>6, <1>7, <1>8, <1>9, <1>10, <1>11, <1>12, <1>13, <1>14 DEF Next, Work

LEMMA CountStep ==
  ASSUME CountType, PlaceInv, Next
  PROVE  CountType'
<1> USE Bounds DEF CountType, PlaceInv, InVariant, Units, Open, Guarded, mode, suite
<1>1. CASE Call
  BY <1>1 DEF Call, Pay
<1>2. CASE BaselineDone
  BY <1>2 DEF BaselineDone, To
<1>3. CASE Proposed
  BY <1>3 DEF Proposed, To, EndIteration, BeginSuite
<1>4. CASE ProbeDone
  BY <1>4 DEF ProbeDone, Outcome, To, NextVariant, EndIteration, BeginSuite
<1>5. CASE ProbeRaises
  BY <1>5 DEF ProbeRaises, Outcome, To, NextVariant, EndIteration, BeginSuite, Raises, Exhausts, Pay
<1>6. CASE PreflightRaises
  BY <1>6 DEF PreflightRaises, To, NextVariant, EndIteration, BeginSuite
<1>7. CASE Evaluated
  BY <1>7 DEF Evaluated, Adopt, To, NextVariant, EndIteration, BeginSuite
<1>8. CASE PipelineScored
  BY <1>8 DEF PipelineScored, AfterPipeline, Judged, Adopt, To, NextVariant, EndIteration, BeginSuite
<1>9. CASE PipelineUnscored
  BY <1>9 DEF PipelineUnscored, AfterPipeline, Judged, Adopt, To, NextVariant, EndIteration, BeginSuite
<1>10. CASE PipelineRaises
  BY <1>10 DEF PipelineRaises, AfterPipeline, Judged, Adopt, To, NextVariant, EndIteration, BeginSuite, Raises, Exhausts, Pay
<1>11. CASE Stop
  BY <1>11 DEF Stop, To, Raises, Exhausts, Pay
<1>12. CASE Die
  BY <1>12 DEF Die, To
<1>13. CASE StartAgain
  BY <1>13 DEF StartAgain, To
<1>14. CASE Over
  BY <1>14 DEF Over, vars, place, account, mode, suite
<1> QED
  BY <1>1, <1>2, <1>3, <1>4, <1>5, <1>6, <1>7, <1>8, <1>9, <1>10, <1>11, <1>12, <1>13, <1>14 DEF Next, Work

LEMMA ScoreStep ==
  ASSUME ScoreType, CountType, PlaceInv, Next
  PROVE  ScoreType'
<1> USE Bounds DEF ScoreType, CountType, PlaceInv
<1>1. CASE Call
  BY <1>1 DEF Call, Pay
<1>2. CASE BaselineDone
  BY <1>2 DEF BaselineDone, To
<1>3. CASE Proposed
  BY <1>3 DEF Proposed, To, EndIteration, BeginSuite
<1>4. CASE ProbeDone
  BY <1>4 DEF ProbeDone, Outcome, To, NextVariant, EndIteration, BeginSuite
<1>5. CASE ProbeRaises
  BY <1>5 DEF ProbeRaises, Outcome, To, NextVariant, EndIteration, BeginSuite, Raises, Exhausts, Pay
<1>6. CASE PreflightRaises
  BY <1>6 DEF PreflightRaises, To, NextVariant, EndIteration, BeginSuite
<1>7. CASE Evaluated
  BY <1>7 DEF Evaluated, Adopt, To, NextVariant, EndIteration, BeginSuite
<1>8. CASE PipelineScored
  <2>1. unit \in 1..Pipelines
    BY <1>8 DEF PipelineScored
  <2>2. scored' = scored \cup {unit} \/ scored' = {}
    BY <1>8 DEF PipelineScored, AfterPipeline, Judged
  <2> QED
    BY <2>1, <2>2
<1>9. CASE PipelineUnscored
  BY <1>9 DEF PipelineUnscored, AfterPipeline, Judged, Adopt, To, NextVariant, EndIteration, BeginSuite
<1>10. CASE PipelineRaises
  BY <1>10 DEF PipelineRaises, AfterPipeline, Judged, Adopt, To, NextVariant, EndIteration, BeginSuite, Raises, Exhausts, Pay
<1>11. CASE Stop
  BY <1>11 DEF Stop, To, Raises, Exhausts, Pay
<1>12. CASE Die
  BY <1>12 DEF Die, To
<1>13. CASE StartAgain
  BY <1>13 DEF StartAgain, To
<1>14. CASE Over
  BY <1>14 DEF Over, vars, place, account, mode, suite
<1> QED
  BY <1>1, <1>2, <1>3, <1>4, <1>5, <1>6, <1>7, <1>8, <1>9, <1>10, <1>11, <1>12, <1>13, <1>14 DEF Next, Work

LEMMA AccountStep ==
  ASSUME AccountType, CrossedInv, Next
  PROVE  AccountType'
<1> USE Bounds DEF AccountType, CrossedInv, Crossed, account
<1>1. CASE Call
  BY <1>1 DEF Call, Pay
<1>2. CASE BaselineDone
  BY <1>2 DEF BaselineDone, To
<1>3. CASE Proposed
  BY <1>3 DEF Proposed, To, EndIteration, BeginSuite
<1>4. CASE ProbeDone
  BY <1>4 DEF ProbeDone, Outcome, To, NextVariant, EndIteration, BeginSuite
<1>5. CASE ProbeRaises
  BY <1>5 DEF ProbeRaises, Outcome, To, NextVariant, EndIteration, BeginSuite, Raises, Exhausts, Pay
<1>6. CASE PreflightRaises
  BY <1>6 DEF PreflightRaises, To, NextVariant, EndIteration, BeginSuite
<1>7. CASE Evaluated
  BY <1>7 DEF Evaluated, Adopt, To, NextVariant, EndIteration, BeginSuite
<1>8. CASE PipelineScored
  BY <1>8 DEF PipelineScored, AfterPipeline, Judged, Adopt, To, NextVariant, EndIteration, BeginSuite
<1>9. CASE PipelineUnscored
  BY <1>9 DEF PipelineUnscored, AfterPipeline, Judged, Adopt, To, NextVariant, EndIteration, BeginSuite
<1>10. CASE PipelineRaises
  BY <1>10 DEF PipelineRaises, AfterPipeline, Judged, Adopt, To, NextVariant, EndIteration, BeginSuite, Raises, Exhausts, Pay
<1>11. CASE Stop
  BY <1>11 DEF Stop, To, Raises, Exhausts, Pay
<1>12. CASE Die
  BY <1>12 DEF Die, To
<1>13. CASE StartAgain
  BY <1>13 DEF StartAgain, To
<1>14. CASE Over
  BY <1>14 DEF Over, vars, place, account, mode, suite
<1> QED
  BY <1>1, <1>2, <1>3, <1>4, <1>5, <1>6, <1>7, <1>8, <1>9, <1>10, <1>11, <1>12, <1>13, <1>14 DEF Next, Work

(* How many calls are late after a raise that leaves the line crossed.     *)
LEMMA RaisesLate ==
  ASSUME AccountType, CrossedInv, Raises, Crossed(spent)'
  PROVE  \/ Crossed(spent) /\ late' \in Nat /\ late' <= late + 1
         \/ ~Crossed(spent) /\ late' = 0
BY Bounds DEF AccountType, CrossedInv, Raises, Exhausts, Pay, Crossed, account

(* The suites of the variants that may follow.                             *)
LEMMA SuitesLeft ==
  ASSUME CountType, left >= 1
  PROVE  /\ (left - 1) * Probes \in Nat
         /\ (left - 1) * Probes <= (MaxVariants - 1) * Probes
         /\ left > 1 => (left - 1) * Probes = ((left - 1) - 1) * Probes + Probes
<1>1. /\ left - 1 \in Nat /\ MaxVariants - 1 \in Nat /\ left - 1 <= MaxVariants - 1
      /\ left > 1 => (left - 1) - 1 \in Nat /\ ((left - 1) - 1) + 1 = left - 1
  BY Bounds DEF CountType
<1> DEFINE m == left - 1
           n == MaxVariants - 1
           k == (left - 1) - 1
<1>2. m \in Nat /\ n \in Nat /\ m <= n /\ (left > 1 => k \in Nat /\ k + 1 = m)
  BY <1>1
<1> HIDE DEF m, n, k
<1>3. /\ m * Probes \in Nat /\ m * Probes <= n * Probes
      /\ left > 1 => m * Probes = k * Probes + Probes
  BY <1>2, Times, Bounds
<1> QED
  BY <1>3 DEF m, n, k

(* After the last probe of a variant, or the last pipeline of one that was *)
(* rejected, the rest of the iteration and one call fit in what is left.   *)
LEMMA NextVariantWaste ==
  ASSUME CountType, left >= 1, NextVariant, late' \in Nat,
         late' + (left - 1) * Probes + 1 <= MaxLate
  PROVE  WasteInv'
<1>1. CASE left > 1
  <2>1. pc' = "probe" /\ unit' = 1 /\ left' = left - 1
    BY <1>1 DEF NextVariant, BeginSuite, To
  <2>2. /\ (left - 1) * Probes = ((left - 1) - 1) * Probes + Probes
        /\ ((left - 1) - 1) * Probes \in Nat
    BY <1>1, SuitesLeft, Times, Bounds DEF CountType
  <2>3. late' + (Probes - unit' + 1) + (left' - 1) * Probes + 1 <= MaxLate
    BY <2>1, <2>2, Bounds, LateBounds
  <2>4. late' <= MaxLate
    BY <2>2, Bounds, LateBounds
  <2> QED
    BY <2>1, <2>3, <2>4 DEF WasteInv, Open
<1>2. CASE ~(left > 1)
  <2>1. pc' \in {"baseline", "finished"}
    BY <1>2 DEF NextVariant, EndIteration, To
  <2> DEFINE suites == (left - 1) * Probes
  <2>2. suites \in Nat /\ late' + suites + 1 <= MaxLate
    BY SuitesLeft
  <2> HIDE DEF suites
  <2>3. late' + 1 <= MaxLate /\ late' <= MaxLate
    BY <2>2, LateIsNat, Fewer, Zenon
  <2> QED
    BY <2>1, <2>3 DEF WasteInv, Open
<1> QED
  BY <1>1, <1>2

LEMMA ProbeRaisesWaste ==
  ASSUME CountType, AccountType, PlaceInv, CrossedInv, WasteInv, ProbeRaises
  PROVE  WasteInv'
<1> SUFFICES ASSUME Crossed(spent)' PROVE WasteInv'
  BY DEF WasteInv
<1> DEFINE suites == (left - 1) * Probes
<1>1. /\ pc = "probe" /\ left >= 1 /\ unit <= Probes /\ unit \in Nat /\ unit >= 1
      /\ failures \in Nat /\ left \in Nat
  BY Bounds DEF ProbeRaises, PlaceInv, CountType, InVariant
<1>2. suites \in Nat /\ suites + Probes <= MaxLate
  BY <1>1, SuitesLeft, LateBounds, Bounds
<1>3. late' \in Nat /\ late' + (Probes - unit) + suites + 1 <= MaxLate
  <2>1. late \in Nat /\ (Crossed(spent) => late + (Probes - unit + 1) + suites + 1 <= MaxLate)
    BY <1>1 DEF WasteInv, AccountType
  <2>2. \/ Crossed(spent) /\ late' \in Nat /\ late' <= late + 1
        \/ ~Crossed(spent) /\ late' = 0
    BY RaisesLate DEF ProbeRaises
  <2> HIDE DEF suites
  <2> QED
    BY <1>1, <1>2, <2>1, <2>2, Bounds, LateBounds
<1>4. Outcome(1, 0)
  BY DEF ProbeRaises
<1>5. CASE unit < Probes
  <2>1. pc' = "probe" /\ unit' = unit + 1 /\ left' = left
    BY <1>4, <1>5 DEF Outcome, To
  <2>2. (left' - 1) * Probes = suites
    BY <2>1
  <2> HIDE DEF suites
  <2>3. Probes - unit' + 1 = Probes - unit /\ Probes - unit \in Nat
    BY <1>1, <2>1, Bounds
  <2>4. late' + (Probes - unit' + 1) + (left' - 1) * Probes + 1 <= MaxLate
    BY <1>3, <2>2, <2>3, Zenon
  <2>5. late' <= MaxLate
    <3>1. late' + ((Probes - unit) + suites) + 1 <= MaxLate /\ (Probes - unit) + suites \in Nat
      BY <1>2, <1>3, <2>3, LateIsNat
    <3> QED
      BY <1>3, <3>1, LateIsNat, Fewer, Zenon
  <2> QED
    BY <2>1, <2>4, <2>5 DEF WasteInv, Open
<1>6. CASE ~(unit < Probes)
  <2>1. NextVariant
    BY <1>1, <1>4, <1>6 DEF Outcome
  <2>2. late' + suites + 1 <= MaxLate
    <3> HIDE DEF suites
    <3> QED
      BY <1>1, <1>3, <1>6, Bounds, LateIsNat
  <2> QED
    BY <1>1, <1>3, <2>1, <2>2, NextVariantWaste
<1> QED
  BY <1>5, <1>6

(* Scores of both sides need two pipelines.                                *)
LEMMA ComparedLate ==
  ASSUME ScoreType, CountType, PlaceInv, pc = "system", Compared
  PROVE  unit >= 3
<1>1. PICK p \in scored : p % 2 = 0
  BY DEF Compared, Side
<1>2. p \in Nat /\ p >= 1 /\ p < unit /\ unit \in Nat
  BY <1>1, Bounds DEF ScoreType, CountType, PlaceInv
<1>3. p # 1
  BY <1>1
<1> QED
  BY <1>2, <1>3

LEMMA PipelineRaisesWaste ==
  ASSUME CountType, ScoreType, AccountType, PlaceInv, CrossedInv, WasteInv, PipelineRaises
  PROVE  WasteInv'
<1> SUFFICES ASSUME Crossed(spent)' PROVE WasteInv'
  BY DEF WasteInv
<1> DEFINE suites == (left - 1) * Probes
           rest   == Pipelines - unit
<1>1. /\ pc = "system" /\ left >= 1 /\ left \in Nat
      /\ unit <= Pipelines /\ unit \in Nat /\ unit >= 1
  BY Bounds DEF PipelineRaises, PlaceInv, CountType, InVariant
<1>2. suites \in Nat /\ (Pipelines - 2) + suites <= MaxLate
  BY <1>1, SuitesLeft, LateBounds, Bounds
<1>3. late \in Nat /\ rest \in Nat /\ rest + 1 <= Pipelines /\ Pipelines - unit + 1 = rest + 1
  BY <1>1, Bounds DEF AccountType
<1>4. Compared => rest + 1 <= Pipelines - 2
  BY <1>1, ComparedLate, Bounds
<1>5. /\ Crossed(spent) => late + (rest + 1) + 1 <= MaxLate
      /\ Crossed(spent) /\ Compared => late + (rest + 1) + suites + 1 <= MaxLate
  BY <1>1, <1>3 DEF WasteInv
<1>6. \/ Crossed(spent) /\ late' \in Nat /\ late' <= late + 1
      \/ ~Crossed(spent) /\ late' = 0
  BY RaisesLate DEF PipelineRaises
<1> HIDE DEF suites, rest
<1>7. late' \in Nat /\ late' + rest + 1 <= MaxLate
  BY <1>3, <1>5, <1>6, Bounds, LateIsNat, LateBounds
<1>8. Compared => late' + rest + suites + 1 <= MaxLate
  BY <1>2, <1>3, <1>4, <1>5, <1>6, Bounds, LateIsNat
<1>9. late' + 1 <= MaxLate /\ late' <= MaxLate
  BY <1>3, <1>7, LateIsNat, Fewer, Zenon
<1>10. AfterPipeline(scored)
  BY DEF PipelineRaises
<1>11. CASE unit < Pipelines
  <2>1. pc' = "system" /\ unit' = unit + 1 /\ left' = left /\ scored' = scored
    BY <1>10, <1>11 DEF AfterPipeline, To
  <2>2. (left' - 1) * Probes = suites /\ (Compared' => Compared)
    BY <2>1 DEF suites, Compared
  <2>3. Pipelines - unit' + 1 = rest
    BY <1>1, <2>1, Bounds DEF rest
  <2>4. Compared' => late' + (Pipelines - unit' + 1) + (left' - 1) * Probes + 1 <= MaxLate
    BY <1>8, <2>2, <2>3, Zenon
  <2>5. late' + (Pipelines - unit' + 1) + 1 <= MaxLate
    BY <1>7, <2>3, Zenon
  <2> QED
    BY <1>9, <2>1, <2>4, <2>5 DEF WasteInv, Open
<1>12. CASE ~(unit < Pipelines)
  <2>1. Adopt \/ (Compared /\ NextVariant)
    BY <1>10, <1>12 DEF AfterPipeline, Judged, Compared
  <2>2. CASE Adopt
    <3>1. pc' \in {"baseline", "finished"}
      BY <2>2 DEF Adopt, EndIteration, To
    <3> QED
      BY <1>9, <3>1 DEF WasteInv, Open
  <2>3. CASE Compared /\ NextVariant
    <3>1. late' + rest + suites + 1 <= MaxLate
      BY <1>8, <2>3, Zenon
    <3>2. suites \in Nat /\ rest \in Nat /\ late' \in Nat
      BY <1>2, <1>3, <1>7
    <3>3. late' + suites + 1 <= MaxLate
      BY <3>1, <3>2, LateIsNat, FewerStill, Zenon
    <3> QED
      BY <1>1, <1>7, <2>3, <3>3, NextVariantWaste DEF suites
  <2> QED
    BY <2>1, <2>2, <2>3
<1> QED
  BY <1>11, <1>12

LEMMA WasteStep ==
  ASSUME TypeOK, PlaceInv, CrossedInv, WasteInv, Next
  PROVE  WasteInv'
<1> USE TypeParts
<1>1. CASE Call
  BY <1>1 DEF Call, WasteInv, Crossed, Pay
<1>2. CASE BaselineDone
  BY <1>2 DEF BaselineDone, To, account, WasteInv, Open, Crossed
<1>3. CASE Proposed
  BY <1>3 DEF Proposed, account, WasteInv, PlaceInv, Crossed
<1>4. CASE ProbeDone
  BY <1>4 DEF ProbeDone, account, WasteInv, PlaceInv, Crossed
<1>5. CASE ProbeRaises
  BY <1>5, ProbeRaisesWaste
<1>6. CASE PreflightRaises
  <2> SUFFICES ASSUME Crossed(spent)' PROVE WasteInv'
    BY DEF WasteInv
  <2> DEFINE suites == (left - 1) * Probes
  <2>1. /\ pc = "probe" /\ unit = 1 /\ left >= 1 /\ NextVariant
        /\ late' = late /\ late \in Nat /\ Crossed(spent)
    BY <1>6 DEF PreflightRaises, PlaceInv, InVariant, AccountType, account, Crossed
  <2>2. late + (Probes - 1 + 1) + suites + 1 <= MaxLate
    BY <2>1 DEF WasteInv
  <2>3. suites \in Nat
    BY <2>1, SuitesLeft
  <2> HIDE DEF suites
  <2>4. late' + suites + 1 <= MaxLate
    BY <2>1, <2>2, <2>3, Bounds, LateIsNat
  <2> QED
    BY <2>1, <2>4, NextVariantWaste DEF suites
<1>7. CASE Evaluated
  BY <1>7 DEF Evaluated, account, WasteInv, PlaceInv, Crossed
<1>8. CASE PipelineScored
  BY <1>8 DEF PipelineScored, account, WasteInv, PlaceInv, Crossed
<1>9. CASE PipelineUnscored
  BY <1>9 DEF PipelineUnscored, account, WasteInv, PlaceInv, Crossed
<1>10. CASE PipelineRaises
  BY <1>10, PipelineRaisesWaste
<1>11. CASE Stop
  <2> SUFFICES ASSUME Crossed(spent)' PROVE WasteInv'
    BY DEF WasteInv
  <2>1. pc \in Open /\ pc' = "stopped" /\ Raises
    BY <1>11 DEF Stop, To
  <2>2. late \in Nat /\ (Crossed(spent) => late + 1 <= MaxLate)
    BY <2>1 DEF WasteInv, AccountType
  <2>3. late' <= MaxLate
    BY <2>1, <2>2, RaisesLate, LateIsNat
  <2> QED
    BY <2>1, <2>3 DEF WasteInv, Open
<1>12. CASE Die
  BY <1>12 DEF Die, To, WasteInv, Open, Crossed
<1>13. CASE StartAgain
  BY <1>13, Bounds DEF StartAgain, WasteInv, Crossed
<1>14. CASE Over
  BY <1>14 DEF Over, vars, place, account, WasteInv, Compared, Crossed
<1> QED
  BY <1>1, <1>2, <1>3, <1>4, <1>5, <1>6, <1>7, <1>8, <1>9, <1>10, <1>11, <1>12, <1>13, <1>14
  DEF Next, Work

(* The dearest calls, one more late call at a time.                        *)
LEMMA DearCalls ==
  /\ \A n \in Nat : (n + 1) * MaxCost \in Nat
  /\ (0 + 1) * MaxCost = MaxCost
  /\ \A n \in Nat : ((n + 1) + 1) * MaxCost = (n + 1) * MaxCost + MaxCost
  /\ \A n \in Nat : n <= MaxLate => KillLine - 1 + (n + 1) * MaxCost <= CostOfALife
<1>1. \A n \in Nat : n + 1 \in Nat
  OBVIOUS
<1>2. /\ \A n \in Nat : (n + 1) * MaxCost \in Nat
      /\ \A n \in Nat : ((n + 1) + 1) * MaxCost = (n + 1) * MaxCost + MaxCost
  BY <1>1, Times, Bounds
<1>3. (0 + 1) * MaxCost = MaxCost
  BY Times, Bounds
<1>4. ASSUME NEW n \in Nat, n <= MaxLate
      PROVE  KillLine - 1 + (n + 1) * MaxCost <= CostOfALife
  <2>1. n + 1 \in Nat /\ MaxLate + 1 \in Nat /\ n + 1 <= MaxLate + 1
    BY <1>4, LateIsNat
  <2>2. (n + 1) * MaxCost <= (MaxLate + 1) * MaxCost
    BY <2>1, Times, Bounds
  <2> DEFINE some == (n + 1) * MaxCost
             most == (MaxLate + 1) * MaxCost
  <2>3. some \in Nat /\ most \in Nat /\ some <= most
    BY <2>1, <2>2, Times, Bounds
  <2>4. CostOfALife = KillLine - 1 + most
    BY DEF CostOfALife
  <2> HIDE DEF some, most
  <2>5. KillLine - 1 + some <= CostOfALife
    BY <2>3, <2>4, Bounds
  <2> QED
    BY <2>5 DEF some
<1> QED
  BY <1>2, <1>3, <1>4

(* The lives before, and this one.                                         *)
LEMMA Lives ==
  ASSUME NEW n \in Nat \ {0}
  PROVE  /\ (n - 1) * CostOfALife \in Nat /\ n * CostOfALife \in Nat
         /\ n * CostOfALife = (n - 1) * CostOfALife + CostOfALife
<1>1. n - 1 \in Nat /\ (n - 1) + 1 = n
  OBVIOUS
<1> QED
  BY <1>1, Times, LifeIsNat

(* What a life has spent is not more than it may cost.                     *)
LEMMA SpentBounded ==
  ASSUME TypeOK, WasteInv, LedgerInv
  PROVE  spent <= CostOfALife
<1>1. spent \in Nat /\ late \in Nat
  BY TypeParts DEF AccountType
<1>2. CASE Crossed(spent)
  <2>1. late <= MaxLate
    BY <1>2 DEF WasteInv
  <2> DEFINE dear == (late + 1) * MaxCost
  <2>2. dear \in Nat /\ KillLine - 1 + dear <= CostOfALife
    BY <1>1, <2>1, DearCalls
  <2>3. spent <= KillLine - 1 + dear
    BY <1>2 DEF LedgerInv
  <2> HIDE DEF dear
  <2> QED
    BY <1>1, <2>2, <2>3, Bounds, LifeIsNat
<1>3. CASE ~Crossed(spent)
  BY <1>1, <1>3, Bounds, LifeIsNat DEF Crossed
<1> QED
  BY <1>2, <1>3

LEMMA LivingBill == TypeOK /\ WasteInv /\ LedgerInv /\ pc # "dead" => BillBounded
<1> SUFFICES ASSUME TypeOK, WasteInv, LedgerInv, pc # "dead"
             PROVE  BillBounded
  OBVIOUS
<1> DEFINE before == (lives - 1) * CostOfALife
           all    == lives * CostOfALife
<1>1. bill <= before + spent
  BY DEF LedgerInv
<1>2. lives \in Nat \ {0} /\ bill \in Nat /\ spent \in Nat
  BY TypeParts, Bounds DEF AccountType
<1>3. before \in Nat /\ all \in Nat /\ all = before + CostOfALife
  BY <1>2, Lives
<1> HIDE DEF before, all
<1>4. bill <= all
  BY <1>1, <1>2, <1>3, SpentBounded, LifeIsNat
<1> QED
  BY <1>4 DEF BillBounded, all

LEMMA PayLedger ==
  ASSUME TypeOK, CrossedInv, LedgerInv, pc # "dead", NEW cost \in Costs, Pay(cost), UNCHANGED lives,
         pc' # "dead"
  PROVE  LedgerInv'
<1>1. /\ cost \in Nat /\ cost <= MaxCost /\ late \in Nat /\ spent \in Nat /\ bill \in Nat
      /\ spent' = spent + cost /\ bill' = bill + cost
  BY TypeParts, Bounds DEF AccountType, Pay
<1>2. Crossed(spent)' => spent' <= KillLine - 1 + (late' + 1) * MaxCost
  <2> DEFINE dear == (late + 1) * MaxCost
  <2>1. CASE Crossed(spent)
    <3>1. late' = late + 1 /\ spent <= KillLine - 1 + dear
      BY <2>1 DEF Pay, LedgerInv
    <3>2. (late' + 1) * MaxCost = dear + MaxCost /\ dear \in Nat
      BY <1>1, <3>1, DearCalls
    <3> HIDE DEF dear
    <3> QED
      BY <1>1, <3>1, <3>2, Bounds
  <2>2. CASE ~Crossed(spent)
    <3>1. late' = 0
      BY <2>2 DEF Pay, CrossedInv
    <3>2. (late' + 1) * MaxCost = MaxCost
      BY <3>1, DearCalls
    <3> QED
      BY <1>1, <2>2, <3>2, Bounds DEF Crossed
  <2> QED
    BY <2>1, <2>2
<1> DEFINE before == (lives - 1) * CostOfALife
<1>3. bill' <= before + spent'
  <2>1. bill <= before + spent
    BY DEF LedgerInv
  <2>2. before \in Nat
    <3>1. lives \in Nat \ {0}
      BY TypeParts, Bounds DEF AccountType
    <3> QED
      BY <3>1, Lives
  <2> HIDE DEF before
  <2> QED
    BY <1>1, <2>1, <2>2
<1>4. before' = before
  OBVIOUS
<1> QED
  BY <1>2, <1>3, <1>4 DEF LedgerInv

(* A step that charges nothing in a process that lives.                    *)
LEMMA FreeLedger ==
  ASSUME LedgerInv, UNCHANGED <<account, lives>>, pc # "dead" \/ pc' = "dead"
  PROVE  LedgerInv'
BY DEF LedgerInv, account, Crossed

(* In a unit the line is far enough for one call more.                     *)
LEMMA OneMore ==
  ASSUME TypeOK, PlaceInv, CrossedInv, WasteInv, pc \in Units, Crossed(spent)
  PROVE  late + 1 <= MaxLate
<1>1. late \in Nat
  BY TypeParts DEF AccountType
<1>2. CASE pc \in Open
  BY <1>2 DEF WasteInv
<1>3. CASE pc = "probe"
  <2> DEFINE suites == (left - 1) * Probes
             rest   == Probes - unit + 1
  <2>1. suites \in Nat
    BY <1>3, TypeParts, SuitesLeft DEF PlaceInv, InVariant
  <2>2. rest \in Nat
    BY <1>3, TypeParts, Bounds DEF PlaceInv, CountType
  <2>3. late + rest + suites + 1 <= MaxLate
    BY <1>3 DEF WasteInv
  <2> HIDE DEF suites, rest
  <2> QED
    BY <1>1, <2>1, <2>2, <2>3, LateIsNat
<1>4. CASE pc = "system"
  <2> DEFINE rest == Pipelines - unit + 1
  <2>1. rest \in Nat
    BY <1>4, TypeParts, Bounds DEF PlaceInv, CountType
  <2>2. late + rest + 1 <= MaxLate
    BY <1>4 DEF WasteInv
  <2> HIDE DEF rest
  <2> QED
    BY <1>1, <2>1, <2>2, LateIsNat
<1> QED
  BY <1>2, <1>3, <1>4 DEF Units, Guarded

LEMMA DieBill ==
  ASSUME TypeOK, PlaceInv, CrossedInv, WasteInv, LedgerInv, Die
  PROVE  BillBounded'
<1>1. PICK cost \in Costs \cup {0} : bill' = bill + cost
  BY DEF Die
<1>2. /\ cost \in Nat /\ cost <= MaxCost /\ bill \in Nat /\ spent \in Nat /\ late \in Nat
      /\ lives \in Nat \ {0} /\ lives' = lives /\ pc \in Units /\ pc # "dead"
  BY TypeParts, Bounds DEF AccountType, Die, Units, Open, Guarded
<1>3. spent + MaxCost <= CostOfALife
  <2>1. CASE Crossed(spent)
    <3> DEFINE dear == (late + 1) * MaxCost
    <3>1. late + 1 <= MaxLate /\ late + 1 \in Nat
      BY <1>2, <2>1, OneMore
    <3>2. ((late + 1) + 1) * MaxCost = dear + MaxCost /\ dear \in Nat
      BY <1>2, DearCalls
    <3>3. KillLine - 1 + ((late + 1) + 1) * MaxCost <= CostOfALife
      BY <3>1, DearCalls
    <3>4. KillLine - 1 + (dear + MaxCost) <= CostOfALife
      BY <3>2, <3>3, Zenon
    <3>5. spent <= KillLine - 1 + dear
      BY <2>1 DEF LedgerInv
    <3>6. dear \in Nat
      BY <3>2
    <3> HIDE DEF dear
    <3> QED
      BY <1>2, <3>4, <3>5, <3>6, Bounds, LifeIsNat
  <2>2. CASE ~Crossed(spent)
    BY <1>2, <2>2, Bounds, LifeIsNat DEF Crossed
  <2> QED
    BY <2>1, <2>2
<1> DEFINE before == (lives - 1) * CostOfALife
           all    == lives * CostOfALife
<1>4. bill <= before + spent
  BY <1>2 DEF LedgerInv
<1>5. before \in Nat /\ all \in Nat /\ all = before + CostOfALife
  BY <1>2, Lives
<1>6. lives' * CostOfALife = all
  BY <1>2
<1> HIDE DEF before, all
<1>7. bill' <= all
  BY <1>1, <1>2, <1>3, <1>4, <1>5, Bounds, LifeIsNat
<1> QED
  BY <1>6, <1>7 DEF BillBounded

(* The steps of the loop that may charge something, and those that do not. *)
LEMMA PaidOrFree ==
  ASSUME TypeOK, Work
  PROVE  /\ pc \in Units /\ pc # "dead" /\ pc' # "dead" /\ lives' = lives
         /\ (\E cost \in Costs : Pay(cost)) \/ UNCHANGED account
<1> USE DEF Units, Open, Guarded
<1>1. CASE Call
  BY <1>1 DEF Call
<1>2. CASE BaselineDone
  BY <1>2 DEF BaselineDone, To
<1>3. CASE Proposed
  BY <1>3 DEF Proposed, To, EndIteration, BeginSuite
<1>4. CASE ProbeDone
  BY <1>4 DEF ProbeDone, Outcome, To, NextVariant, EndIteration, BeginSuite
<1>5. CASE ProbeRaises
  <2>1. pc' \in {"probe", "evaluate", "baseline", "finished"} /\ pc = "probe" /\ lives' = lives
    BY <1>5 DEF ProbeRaises, Outcome, To, NextVariant, EndIteration, BeginSuite
  <2>2. (\E cost \in Costs : Pay(cost)) \/ UNCHANGED account
    BY <1>5 DEF ProbeRaises, Raises, Exhausts
  <2> QED
    BY <2>1, <2>2
<1>6. CASE PreflightRaises
  BY <1>6 DEF PreflightRaises, To, NextVariant, EndIteration, BeginSuite
<1>7. CASE Evaluated
  BY <1>7 DEF Evaluated, Adopt, To, NextVariant, EndIteration, BeginSuite
<1>8. CASE PipelineScored
  BY <1>8 DEF PipelineScored, AfterPipeline, Judged, Adopt, To, NextVariant, EndIteration, BeginSuite
<1>9. CASE PipelineUnscored
  BY <1>9 DEF PipelineUnscored, AfterPipeline, Judged, Adopt, To, NextVariant, EndIteration, BeginSuite
<1>10. CASE PipelineRaises
  <2>1. pc' \in {"system", "probe", "baseline", "finished"} /\ pc = "system" /\ lives' = lives
    BY <1>10 DEF PipelineRaises, AfterPipeline, Judged, Adopt, To, NextVariant, EndIteration, BeginSuite
  <2>2. (\E cost \in Costs : Pay(cost)) \/ UNCHANGED account
    BY <1>10 DEF PipelineRaises, Raises, Exhausts
  <2> QED
    BY <2>1, <2>2
<1>11. CASE Stop
  <2>1. (\E cost \in Costs : Pay(cost)) \/ UNCHANGED account
    BY <1>11 DEF Stop, Raises, Exhausts
  <2> QED
    BY <1>11, <2>1 DEF Stop, To
<1> QED
  BY <1>1, <1>2, <1>3, <1>4, <1>5, <1>6, <1>7, <1>8, <1>9, <1>10, <1>11 DEF Work

(* A new process: what all the others cost is in the bill, and its own     *)
(* ledger is empty.                                                        *)
LEMMA NewLedger ==
  ASSUME TypeOK, BillBounded, StartAgain
  PROVE  LedgerInv'
<1> DEFINE others == lives * CostOfALife
<1>1. /\ lives \in Nat \ {0} /\ bill \in Nat
      /\ lives' = lives + 1 /\ spent' = 0 /\ bill' = bill
  BY TypeParts, Bounds DEF AccountType, StartAgain
<1>2. others \in Nat /\ bill <= others
  BY <1>1, Lives DEF BillBounded
<1>3. lives' - 1 = lives
  BY <1>1
<1>4. (lives' - 1) * CostOfALife = others
  BY <1>3
<1>5. ~Crossed(spent)'
  BY <1>1, Bounds DEF Crossed
<1> HIDE DEF others
<1>6. bill' <= (lives' - 1) * CostOfALife + spent'
  <2>1. bill <= others + 0
    BY <1>1, <1>2
  <2> QED
    BY <1>1, <1>4, <2>1, Zenon
<1> QED
  BY <1>5, <1>6 DEF LedgerInv

LEMMA MoneyStep ==
  ASSUME TypeOK, PlaceInv, CrossedInv, WasteInv, MoneyInv, Next, TypeOK', WasteInv'
  PROVE  MoneyInv'
<1>0. LedgerInv /\ BillBounded
  BY DEF MoneyInv
<1>1. ASSUME LedgerInv', pc' # "dead"
      PROVE  MoneyInv'
  <2>1. (pc # "dead")'
    BY <1>1
  <2>2. BillBounded'
    BY <1>1, <2>1, LivingBill, PTL
  <2> QED
    BY <1>1, <2>2 DEF MoneyInv
<1>2. CASE Work
  <2>1. /\ pc # "dead" /\ pc' # "dead" /\ lives' = lives
        /\ (\E cost \in Costs : Pay(cost)) \/ UNCHANGED account
    BY <1>2, PaidOrFree
  <2>2. CASE \E cost \in Costs : Pay(cost)
    <3>1. PICK cost \in Costs : Pay(cost)
      BY <2>2
    <3>2. LedgerInv'
      BY <1>0, <2>1, <3>1, PayLedger
    <3> QED
      BY <1>1, <2>1, <3>2
  <2>3. CASE UNCHANGED account
    <3>1. LedgerInv'
      BY <1>0, <2>1, <2>3, FreeLedger
    <3> QED
      BY <1>1, <2>1, <3>1
  <2> QED
    BY <2>1, <2>2, <2>3
<1>3. CASE Die
  <2>1. LedgerInv'
    BY <1>0, <1>3 DEF Die, To, LedgerInv, Crossed
  <2>2. BillBounded'
    BY <1>0, <1>3, DieBill
  <2> QED
    BY <2>1, <2>2 DEF MoneyInv
<1>4. CASE StartAgain
  <2>1. LedgerInv'
    BY <1>0, <1>4, NewLedger
  <2>2. pc' # "dead"
    BY <1>4 DEF StartAgain, To
  <2> QED
    BY <1>1, <2>1, <2>2
<1>5. CASE Over
  BY <1>5 DEF Over, vars, account, place, MoneyInv, LedgerInv, BillBounded, Crossed
<1> QED
  BY <1>2, <1>3, <1>4, <1>5 DEF Next

-----------------------------------------------------------------------------
(* The invariant and what follows from it.                                 *)

LEMMA TypeStep ==
  ASSUME TypeOK, PlaceInv, CrossedInv, Next
  PROVE  TypeOK'
<1>1. ModeType /\ CountType /\ ScoreType /\ AccountType
  BY TypeParts
<1>2. (ModeType /\ CountType /\ ScoreType /\ AccountType)'
  BY <1>1, ModeStep, CountStep, ScoreStep, AccountStep
<1> QED
  BY <1>2 DEF TypeOK, ModeType, CountType, ScoreType, AccountType

LEMMA Inductive == IInv /\ [Next]_vars => IInv'
<1> SUFFICES ASSUME IInv, [Next]_vars PROVE IInv'
  OBVIOUS
<1>1. TypeOK /\ PreflightFailsClosed /\ PlaceInv /\ CrossedInv /\ WasteInv /\ MoneyInv
  BY DEF IInv
<1>2. CASE Next
  <2>1. TypeOK'
    BY <1>1, <1>2, TypeStep
  <2>2. (PreflightFailsClosed /\ PlaceInv /\ CrossedInv)'
    BY <1>1, <1>2, PlaceStep
  <2>3. WasteInv'
    BY <1>1, <1>2, WasteStep
  <2>4. MoneyInv'
    BY <1>1, <1>2, <2>1, <2>3, MoneyStep
  <2> QED
    BY <2>1, <2>2, <2>3, <2>4 DEF IInv
<1>3. CASE UNCHANGED vars
  <2> USE <1>1, <1>3 DEF vars, place, mode, suite, account
  <2>1. TypeOK'
    BY DEF TypeOK, Crossed
  <2>2. (PreflightFailsClosed /\ PlaceInv /\ CrossedInv)'
    BY DEF PreflightFailsClosed, PlaceInv, CrossedInv, Crossed
  <2>3. WasteInv'
    BY DEF WasteInv, Compared, Crossed
  <2>4. MoneyInv'
    BY DEF MoneyInv, LedgerInv, BillBounded, Crossed
  <2> QED
    BY <2>1, <2>2, <2>3, <2>4 DEF IInv
<1> QED
  BY <1>2, <1>3

LEMMA Invariant == Spec => []IInv
BY InitHolds, Inductive, PTL DEF Spec

(* No ledger is ever outside its type, and a process under its line has    *)
(* paid for no late call.                                                  *)
THEOREM TypeCorrect == Spec => []TypeOK
<1>1. IInv => TypeOK
  BY DEF IInv
<1> QED
  BY <1>1, Invariant, PTL

(* However long the schedule, what the swallowed exceptions let a process  *)
(* pay for past its kill line is at most MaxLate calls.                    *)
THEOREM WasteIsBounded == Spec => []WasteBounded
<1>1. IInv => WasteBounded
  <2> SUFFICES ASSUME IInv PROVE late <= MaxLate
    BY DEF WasteBounded
  <2>1. CASE Crossed(spent)
    BY <2>1 DEF IInv, WasteInv
  <2>2. CASE ~Crossed(spent)
    BY <2>2, LateIsNat DEF IInv, CrossedInv
  <2> QED
    BY <2>1, <2>2
<1> QED
  BY <1>1, Invariant, PTL

(* What all the processes cost is bounded in their number alone.           *)
THEOREM BillIsBounded == Spec => []BillBounded
<1>1. IInv => BillBounded
  BY DEF IInv, MoneyInv
<1> QED
  BY <1>1, Invariant, PTL

(* No variant is evaluated with a probe that failed, raised or was not     *)
(* run.                                                                    *)
THEOREM FailsClosed == Spec => []PreflightFailsClosed
<1>1. IInv => PreflightFailsClosed
  BY DEF IInv
<1> QED
  BY <1>1, Invariant, PTL

(* A process past its line adopts nothing but at the end of a system       *)
(* check.                                                                  *)
THEOREM AdoptsOnlyBelowLine == Spec => AdoptsBelowLine
<1> DEFINE Below == (adopted' > adopted /\ Crossed(spent)) => pc = "system"
<1>1. IInv /\ [Next]_vars => [Below]_vars
  <2> SUFFICES ASSUME IInv, Next, adopted' > adopted, Crossed(spent)
               PROVE  pc = "system"
    BY DEF vars
  <2>1. TypeOK /\ PlaceInv /\ CrossedInv
    BY DEF IInv
  <2>2. adopted' # adopted
    BY <2>1, TypeParts DEF CountType
  <2> HIDE DEF Below
  <2>3. ~(answered /\ pc = "evaluate")
    BY <2>1 DEF CrossedInv
  <2> USE <2>2, <2>3 DEF Call, BaselineDone, Proposed, ProbeDone, ProbeRaises, PreflightRaises,
          Evaluated, PipelineScored, PipelineUnscored, PipelineRaises, Stop
  <2>4. CASE Work
    BY <2>4, Zenon DEF Work
  <2>5. CASE Die \/ Over
    BY <2>5 DEF Die, Over, vars
  <2>6. CASE StartAgain
    <3>1. adopted' = 0 /\ adopted \in Nat
      BY <2>1, <2>6, TypeParts DEF StartAgain, CountType
    <3> QED
      BY <3>1
  <2> QED
    BY <2>4, <2>5, <2>6 DEF Next
<1> QED
  BY <1>1, Invariant, PTL DEF Spec, AdoptsBelowLine

=============================================================================
