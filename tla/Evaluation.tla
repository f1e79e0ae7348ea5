----------------------------- MODULE Evaluation -----------------------------
(***************************************************************************)
(* What an adoption rests on: the conversations one iteration of the       *)
(* learning loop holds or takes from the database, the scores it gives     *)
(* them (packages/evaluator/metrics.py, the regular expressions of         *)
(* packages/compliance/rules.py) and the gate (packages/stats) that        *)
(* compares the baseline's scores with a variant's, borrower by borrower.  *)
(*                                                                         *)
(* In full mode each sample is a whole pipeline and only the stage of the  *)
(* agent under improvement is scored; in isolated mode it is one           *)
(* conversation, the baseline's may be conversations stored earlier, and a *)
(* variant that passes is then tried in a few pipelines. What is in a      *)
(* conversation is abstracted to what the metrics and the rules look for.  *)
(* Module Learner has the rest of the iteration: the pre-flight and the    *)
(* rows of prompts; here a live version is simply the one being measured.  *)
(***************************************************************************)
EXTENDS AgentContract, Integers, Sequences, FiniteSets, SequencesExt

CONSTANTS Profiles,       (* seeds.json: the personas of borrowers 1, 2, ...     *)
          N,              (* n_borrowers                                         *)
          NVariants,      (* n_variants                                          *)
          NChecked,       (* borrowers of the system-level check                 *)
          Heard,          (* what a conversation with each agent may contain     *)
          Grades,         (* what the judge may give a handoff, of 1..5          *)
          MaxIterations   (* bound: iterations begun                             *)

(* What the metrics and rules look for in the texts and the tool calls.    *)
Signs == {"says_ai", "says_human", "says_recorded", "shows_number", "refuses",
          "verify_identity", "present_offer", "record_commitment",
          "issue_final_offer", "accepted_by_borrower", "flag_opt_out"}
(* fields: core fields disclosed; after: agent turns after the refusal.    *)
Conversations(words) == [signs : SUBSET Signs, fields : 0..6, after : 0..3, outcome : words]
Pipeline == <<"agent_1", "agent_2", "agent_3">>

ASSUME EvaluationAssumption ==
  /\ Profiles \in Seq(STRING) \ {<<>>}
  /\ N \in Nat \ {0} /\ NVariants \in Nat /\ NChecked \in Nat
  /\ Grades \subseteq 1..5 /\ MaxIterations \in Nat
  /\ DOMAIN Heard = Agents
  /\ \A a \in Agents : Heard[a] \subseteq Conversations(ConversationOutcomes(a))

VARIABLES
  agent,      (* the stage of the agent under improvement                   *)
  stored,     (* its conversations with the live version and an iteration   *)
  mode, pc,   (* eval_mode, and where run_iteration is                      *)
  borrowers,  (* the profiles of this iteration's samples                   *)
  at,         (* how many of them this side has been through                *)
  stage,      (* the stage of the pipeline at hand                          *)
  scored,     (* the conversation of the pipeline that will be scored       *)
  baseline, variant,  (* AgentScores.convs of the two sides                 *)
  tried,      (* variants evaluated                                         *)
  checked,    (* pipelines of the system-level check                        *)
  decision,   (* GateDecision                                               *)
  begun, cut  (* iterations begun; whether a stored conversation was cut off *)

sides  == <<baseline, variant>>
checks == <<tried, checked, decision>>
notes  == <<begun, cut>>
vars   == <<agent, stored, mode, pc, borrowers, at, stage, scored, sides, checks, notes>>

-----------------------------------------------------------------------------
(* The four rules that need no judge, and the primary metric, in units of  *)
(* a sixtieth.                                                             *)
Rules(c) == {r \in {1, 3, 6, 8} :
  \/ r = 1 /\ "says_ai" \in c.signs /\ "says_human" \notin c.signs
  \/ r = 3 /\ ("refuses" \in c.signs => "flag_opt_out" \in c.signs /\ c.after <= 1)
  \/ r = 6 /\ "says_recorded" \in c.signs
  \/ r = 8 /\ "shows_number" \notin c.signs}
Compliance(c) == Cardinality(Rules(c))

Points(c, sign, worth) == IF sign \in c.signs THEN worth ELSE 0
Least(a, b) == IF a < b THEN a ELSE b
Goal(c) ==
  <<Points(c, "verify_identity", 24) + 8 * Least(c.fields, 3),
    Points(c, "present_offer", 24) + Points(c, "record_commitment", 24),
    Points(c, "issue_final_offer", 30) + Points(c, "accepted_by_borrower", 18)>>
Primary(c) == Goal(c)[agent] + 3 * Compliance(c)

(* Nothing was said: the journey ended before the agent's stage.           *)
Missed == [signs |-> {}, fields |-> 0, after |-> 0, outcome |-> NULL]

Sample(b, c, last) == [borrower |-> b, primary |-> Primary(c), compliance |-> Compliance(c),
                       system |-> IF last = "no_response" THEN 0 ELSE 1, ended |-> last # NULL]

Init ==
  /\ agent \in 1..3
  /\ stored = {} /\ mode = "full" /\ pc = "idle"
  /\ borrowers = <<>> /\ at = 0 /\ stage = agent /\ scored = Missed
  /\ baseline = <<>> /\ variant = <<>>
  /\ tried = 0 /\ checked = 0 /\ decision = NULL
  /\ begun = 0 /\ cut = FALSE

First(m) == IF m = "full" THEN 1 ELSE agent

(* _pick_borrowers and the reuse of stored conversations order candidates  *)
(* alike: per candidates of each persona, persona after persona, then the  *)
(* others to fill up.                                                      *)
PerPersona(n) == IF n \div Cardinality(Range(Profiles)) = 0 THEN 1
                 ELSE n \div Cardinality(Range(Profiles))
Group(persona, i) == CHOOSE j \in DOMAIN persona :
  persona[j] = persona[i] /\ \A k \in 1..(j - 1) : persona[k] # persona[i]
Late(persona, n, i) ==
  IF Cardinality({j \in 1..i : persona[j] = persona[i]}) <= PerPersona(n) THEN 0 ELSE 1
Before(persona, n, i, j) ==
  \/ Late(persona, n, i) < Late(persona, n, j)
  \/ /\ Late(persona, n, i) = Late(persona, n, j)
     /\ \/ Group(persona, i) < Group(persona, j)
        \/ Group(persona, i) = Group(persona, j) /\ i < j
Ahead(persona, n, i) == {j \in DOMAIN persona : Before(persona, n, j, i)}
Balanced(persona, n) ==
  [k \in 1..Least(n, Len(persona)) |->
     CHOOSE i \in DOMAIN persona : Cardinality(Ahead(persona, n, i)) = k - 1]
Picked(n) == Balanced(Profiles, n)

StartIteration ==
  /\ pc = "idle" /\ begun < MaxIterations
  /\ begun' = begun + 1
  /\ mode' \in {"full", "isolated"}
  /\ borrowers' = Picked(N)
  /\ stage' = First(mode') /\ pc' = "baseline"
  /\ UNCHANGED <<agent, stored, at, scored, sides, checks, cut>>

(* _load_baseline_from_db: one stored conversation of each borrower. Ids   *)
(* are random and the query stops at eight times N rows of any agent, so   *)
(* which conversations are seen, and in which order, is anything.          *)
Candidates == {s \in UNION {[1..k -> stored] : k \in N..Len(Profiles)} :
                 IsInjective([i \in DOMAIN s |-> s[i].borrower])}
ReusedForPicked(chosen) == Picked(N)  \* mutant: the variant meets the usual borrowers
Reused(chosen) == [i \in DOMAIN chosen |-> chosen[i].borrower]
Rescored(chosen) ==
  [i \in 1..N |-> Sample(chosen[i].borrower, chosen[i].said, chosen[i].said.outcome)]
ReuseBaseline ==
  /\ pc = "baseline" /\ mode = "isolated" /\ baseline = <<>>
  /\ \E s \in Candidates :
       LET order  == Balanced([i \in DOMAIN s |-> Profiles[s[i].borrower]], N)
           chosen == [i \in DOMAIN order |-> s[order[i]]]
       IN /\ Len(chosen) = N
          /\ baseline' = Rescored(chosen)
          /\ borrowers' = Reused(chosen)
  /\ pc' = "propose"
  /\ UNCHANGED <<agent, stored, mode, at, stage, scored, variant, checks, notes>>

-----------------------------------------------------------------------------
(* One conversation of the sample at hand: _evaluate_prompt, or a stage of *)
(* _run_full_pipeline_inline, which stops early at some outcomes. The      *)
(* agent's own are stored, the variant's under version -1, which nothing   *)
(* asks for again; Missed is what is scored if the stage is not met.       *)
Stops == <<{"opt_out", "no_response", "identity_unverified"},
           {"deal_agreed", "opt_out"}, ConversationOutcomes("agent_3")>>
GoesOn(c) == mode = "full" /\ c.outcome \notin Stops[stage]

StoreOpen(b, c) ==  (* the process goes before the outcome is written *)
  stored' = IF pc # "variant" /\ stage = agent
            THEN stored \cup {[borrower |-> b, said |-> [c EXCEPT !.outcome = NULL]]} ELSE stored
Store(b, c) ==
  stored' = IF pc # "variant" /\ stage = agent
            THEN stored \cup {[borrower |-> b, said |-> c]} ELSE stored

Add(b, c, last) ==
  IF pc = "baseline" THEN baseline' = Append(baseline, Sample(b, c, last)) /\ UNCHANGED variant
  ELSE variant' = Append(variant, Sample(b, c, last)) /\ UNCHANGED baseline

Hold(c) ==
  /\ pc \in {"baseline", "variant"} /\ at < Len(borrowers)
  /\ Store(borrowers[at + 1], c)
  /\ LET said == IF stage = agent THEN c ELSE scored
     IN \/ /\ GoesOn(c)
           /\ stage' = stage + 1 /\ scored' = said
           /\ UNCHANGED <<at, sides>>
        \/ /\ ~ GoesOn(c)
           /\ Add(borrowers[at + 1], said, c.outcome)
           /\ at' = at + 1 /\ stage' = First(mode) /\ scored' = Missed
  /\ UNCHANGED <<agent, mode, pc, borrowers, checks, notes>>

Evaluated ==
  /\ pc \in {"baseline", "variant"} /\ at = Len(borrowers)
  /\ pc' = IF pc = "baseline" THEN "propose" ELSE "gate"
  /\ at' = 0
  /\ UNCHANGED <<agent, stored, mode, borrowers, stage, scored, sides, checks, notes>>

(* The next proposal that passes the pre-flight.                           *)
NextVariant ==
  /\ pc = "propose" /\ tried < NVariants
  /\ tried' = tried + 1 /\ variant' = <<>> /\ decision' = NULL /\ checked' = 0
  /\ pc' = "variant"
  /\ UNCHANGED <<agent, stored, mode, borrowers, at, stage, scored, baseline, notes>>

-----------------------------------------------------------------------------
(* evaluate_gate. Resampling is seeded but otherwise left open: its answer *)
(* is known when all pairs agree, and may be either when they do not.      *)
Sum(s) == FoldLeft(LAMBDA x, y : x + y, 0, s)
Column(side, name) == [i \in DOMAIN side |-> side[i][name]]
Settled(wins, pairs) == IF wins = pairs THEN {TRUE} ELSE IF wins = {} THEN {FALSE} ELSE BOOLEAN

(* paired_bootstrap_ci: is the lower bound above zero?                     *)
SurelyBetter(b, v) == Settled({i \in DOMAIN b : v[i] > b[i]}, DOMAIN b)

(* cohens_d: is it above 0.1? Of samples that are both constant it is zero *)
(* or, where the rounded mean of three or more equal numbers is not the    *)
(* number, enormous; where it equals 0.1 rounding decides.                 *)
Spread(s) == Len(s) * Sum([i \in DOMAIN s |-> s[i] * s[i]]) - Sum(s) * Sum(s)
LargeEnoughEitherWay(b, v) == {TRUE}  \* mutant: no floor for the effect
LargeEnough(b, v) ==
  LET n      == Len(b)
      gain   == Sum(v) - Sum(b)
      effect == 200 * (n - 1) * gain * gain
      noise  == n * (Spread(b) + Spread(v))
  IN IF gain <= 0 \/ n = 1 THEN {FALSE}
     ELSE IF noise = 0 THEN (IF n = 2 THEN {FALSE} ELSE BOOLEAN)
     ELSE IF effect = noise THEN BOOLEAN
     ELSE {effect > noise}

(* non_inferiority_p: is it above 0.10, the share of resamples where the   *)
(* variant's journeys end worse?                                           *)
Worse(b, v) == Settled({i \in DOMAIN b : v[i] < b[i]}, DOMAIN b)

Decision(better, large, worse) ==
  IF ~ better THEN "reject_ci"
  ELSE IF ~ large THEN "reject_effect_size"
  ELSE IF Sum(Column(variant, "compliance")) < Sum(Column(baseline, "compliance")) THEN "reject_compliance"
  ELSE IF worse THEN "reject_system"
  ELSE "adopt"

Gate ==
  /\ pc = "gate" /\ Len(baseline) = Len(variant)
  /\ \E better \in SurelyBetter(Column(baseline, "primary"), Column(variant, "primary")),
        large \in LargeEnough(Column(baseline, "primary"), Column(variant, "primary")),
        worse \in Worse(Column(baseline, "system"), Column(variant, "system")) :
       decision' = Decision(better, large, worse)
  /\ pc' = IF mode = "isolated" /\ decision' = "adopt" /\ agent \in {1, 2} THEN "check" ELSE "decided"
  /\ UNCHANGED <<agent, stored, mode, borrowers, at, stage, scored, sides, tried, checked, notes>>

(* _system_level_check: a pipeline with the live prompts, which may fail   *)
(* or end early, and one with the variant, for each of a few borrowers.    *)
CheckPipelines ==
  /\ pc = "check" /\ checked < Len(Picked(NChecked))
  /\ \/ UNCHANGED <<stored, cut>>
     \/ \E c \in Heard[Pipeline[agent]] :
          \/ Store(Picked(NChecked)[checked + 1], c) /\ UNCHANGED cut
          \/ StoreOpen(Picked(NChecked)[checked + 1], c) /\ cut' = TRUE
  /\ checked' = checked + 1
  /\ UNCHANGED <<agent, mode, pc, borrowers, at, stage, scored, sides, tried, decision, begun>>

(* The gate again, which comes to the same answers, and the handoff grades *)
(* of the pipelines that were judged, if any were on both sides.           *)
Dropped(b, v) == b # <<>> /\ v # <<>> /\ 2 * (Sum(b) * Len(v) - Sum(v) * Len(b)) > Len(b) * Len(v)
Dropping == {Dropped(b, v) : b, v \in BoundedSeq(Grades, Len(Picked(NChecked)))}
GateAgain ==
  /\ pc = "check" /\ checked = Len(Picked(NChecked))
  /\ \E dropped \in Dropping :
       decision' = IF dropped THEN "reject_seamlessness" ELSE decision
  /\ pc' = "decided"
  /\ UNCHANGED <<agent, stored, mode, borrowers, at, stage, scored, sides, tried, checked, notes>>

Leave ==
  /\ pc' = "idle" /\ mode' = "full"
  /\ borrowers' = <<>> /\ at' = 0 /\ stage' = agent /\ scored' = Missed
  /\ baseline' = <<>> /\ variant' = <<>>
  /\ tried' = 0 /\ checked' = 0 /\ decision' = NULL

(* The variant is the live version now: nobody has spoken with it yet.     *)
Adopt ==
  /\ pc = "decided" /\ decision = "adopt"
  /\ stored' = {} /\ Leave
  /\ UNCHANGED <<agent, notes>>

Reject ==
  /\ pc = "decided" /\ decision # "adopt"
  /\ pc' = "propose"
  /\ UNCHANGED <<agent, stored, mode, borrowers, at, stage, scored, sides, checks, notes>>

NoVariantLeft ==
  /\ pc = "propose" /\ Leave
  /\ UNCHANGED <<agent, stored, notes>>

(* A call fails, the samples cannot be paired, or the process is stopped:  *)
(* the conversation at hand stays behind as far as it had come.            *)
CutOff ==
  /\ pc # "idle"
  /\ \/ UNCHANGED stored
     \/ /\ pc = "baseline" /\ at < Len(borrowers) /\ stage = agent
        /\ \E c \in Heard[Pipeline[agent]] : StoreOpen(borrowers[at + 1], c)
  /\ cut' = (cut \/ stored' # stored) /\ Leave
  /\ UNCHANGED <<agent, begun>>

Over == pc = "idle" /\ begun = MaxIterations /\ UNCHANGED vars

Next ==
  \/ StartIteration \/ ReuseBaseline \/ Evaluated \/ NextVariant
  \/ \E c \in Heard[Pipeline[stage]] : Hold(c)
  \/ Gate \/ CheckPipelines \/ GateAgain
  \/ Adopt \/ Reject \/ NoVariantLeft \/ CutOff \/ Over

Spec == Init /\ [][Next]_vars

-----------------------------------------------------------------------------
(* Whatever the baseline came from, and wherever its borrowers' journeys   *)
(* ended, the gate compares each borrower's score with his own: the two    *)
(* samples are as long and in the same order, and no borrower counts twice.*)
PairsMatch ==
  pc = "gate" => /\ Column(baseline, "borrower") = Column(variant, "borrower")
                 /\ IsInjective(Column(baseline, "borrower"))

(* A variant is adopted only if it scored higher in all, and with at least *)
(* one borrower, without breaking more rules or ending every journey worse;*)
(* of two samples, two scores without any spread are never enough.         *)
AdoptedBeatsBaseline ==
  decision = "adopt" =>
    LET Of(side, b) == side[CHOOSE i \in DOMAIN side : side[i].borrower = b]
        Met         == {s.borrower : s \in Range(baseline)}
        Total(side, name) == Sum(Column(side, name))
    IN /\ Total(variant, "primary") > Total(baseline, "primary")
       /\ Total(variant, "compliance") >= Total(baseline, "compliance")
       /\ \E b \in Met : Of(variant, b).primary > Of(baseline, b).primary
       /\ \E b \in Met : Of(variant, b).system >= Of(baseline, b).system
       /\ Cardinality(Met) <= 2 => \E side \in {baseline, variant} :
                                     \E s, t \in Range(side) : s.primary # t.primary

(* Only a conversation that an iteration cut off left behind is scored     *)
(* though it never ended, and only as part of a reused baseline.           *)
SamplesAreWhole ==
  /\ \A s \in Range(variant) : s.ended
  /\ \A s \in Range(baseline) : s.ended \/ (mode = "isolated" /\ cut)
=============================================================================
