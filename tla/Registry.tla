------------------------------ MODULE Registry ------------------------------
(***************************************************************************)
(* The prompt versions of one agent and the operator's scripts that write  *)
(* them: seed_db, lift_active_prompts and re_decide, beside an iteration   *)
(* of the learning loop, a rollback by hand and `make clean`.              *)
(*                                                                         *)
(* Versions are kept in three places that name them by numbers only: rows  *)
(* of the database, files on disk, and the csv files of the iterations'    *)
(* scores. The scripts copy between them in several transactions, and      *)
(* nothing locks. Learner has the loop in detail; here its steps are those *)
(* that read or write what the scripts read or write.                      *)
(***************************************************************************)
EXTENDS Naturals, Sequences, FiniteSets

CONSTANTS Iterations,        (* the iteration ids the loop may give this agent     *)
          NVariants,         (* variants proposed per iteration                    *)
          PreflightVersion,  (* what 10000 + timestamp % 10000 gives               *)
          MaxTexts,          (* bound: texts proposed in all                       *)
          MaxBegun,          (* bound: iterations begun in all                     *)
          MaxScripts,        (* bound: scripts the operator starts                 *)
          MaxRollbacks,      (* bound: how often the pointer is moved by hand      *)
          MaxWipes           (* bound: how often the database is removed           *)

ASSUME RegistryAssumption ==
  /\ Iterations \subseteq 1..99 /\ NVariants \in 1..100
  /\ PreflightVersion \in 10000..19999
  /\ MaxTexts \in Nat /\ MaxBegun \in 0..9000 /\ MaxScripts \in Nat
  /\ MaxRollbacks \in Nat /\ MaxWipes \in Nat

VARIABLES
  rows,      (* prompt_versions: number, text, status, adoption_data's iteration *)
  active,    (* active_prompt: the id of the live row, 0 for no pointer          *)
  files,     (* prompts/<agent>/vNNNN.md: number and text                        *)
  csv,       (* raw_evaluations: iteration, variant, and the text that was scored*)
  (* the loop, in one iteration                                                  *)
  lpc, iter, base, idx, text, prev, scores,
  (* the operator's script                                                       *)
  spc, todo, found, num, arg,
  (* what happened so far, for the properties and the bounds                     *)
  accepted,  (* the seed's text and those a gate or a consensus accepted         *)
  used,      (* iteration ids begun, reused: one of them twice                   *)
  reused,
  stranded,  (* a candidate stayed live because its pre-flight died              *)
  crossed,   (* a script and an iteration were at work at the same time          *)
  mistaken,  (* re_decide took another text than the one the scores are of       *)
  written, begun, scripts, rollbacks, wipes

db       == <<rows, active>>
disk     == <<files, csv>>
loop     == <<lpc, iter, base, idx, text, prev, scores>>
script   == <<spc, todo, found, num, arg>>
verdicts == <<accepted, used, reused, stranded, mistaken>>
counts   == <<written, begun, scripts, rollbacks, wipes>>
vars     == <<db, disk, loop, script, verdicts, crossed, counts>>

Row(v, t, s, i) == [version |-> v, text |-> t, status |-> s, iter |-> i]
Live    == rows[active]
Of(v)   == {i \in DOMAIN rows : rows[i].version = v}
IdOf(v) == CHOOSE i \in Of(v) : TRUE
Put(fs, v, t) == {f \in fs : f.version # v} \cup {[version |-> v, text |-> t]}

(* upsert_prompt_version: it raises if two rows have the number, and keeps *)
(* the adoption data of a row when it is given none (i = 0).               *)
Upsert(v, t, s, i) ==
  /\ Cardinality(Of(v)) <= 1
  /\ rows' = IF Of(v) = {} THEN Append(rows, Row(v, t, s, i))
             ELSE [rows EXCEPT ![IdOf(v)] = Row(v, t, s, IF i = 0 THEN @.iter ELSE i)]

-----------------------------------------------------------------------------
(* After the first `make seed`.                                            *)
Init ==
  /\ rows = <<Row(1, 0, "active", 0)>> /\ active = 1
  /\ files = {[version |-> 1, text |-> 0]} /\ csv = {}
  /\ lpc = "idle" /\ iter = 0 /\ base = 0 /\ idx = 0 /\ text = 0 /\ prev = 0 /\ scores = {}
  /\ spc = "idle" /\ todo = {} /\ found = 0 /\ num = 0 /\ arg = [iter |-> 0, idx |-> 0, text |-> 0]
  /\ accepted = {0} /\ used = {} /\ reused = FALSE /\ stranded = FALSE
  /\ crossed = FALSE /\ mistaken = FALSE
  /\ written = 0 /\ begun = 0 /\ scripts = 0 /\ rollbacks = 0 /\ wipes = 0

-----------------------------------------------------------------------------
(* An iteration of the loop. Text n is the n-th proposal.                  *)
LoopIdle ==
  /\ lpc' = "idle" /\ iter' = 0 /\ base' = 0 /\ idx' = 0 /\ text' = 0
  /\ prev' = 0 /\ scores' = {}
LoopAt(at) == lpc' = at /\ UNCHANGED <<iter, base, idx, text, prev, scores>>

(* run_iteration reads the live prompt. Ids start at 1 in every run, and   *)
(* other agents of a rotation may have had the lower ones.                 *)
BeginIteration ==
  /\ lpc = "idle" /\ begun < MaxBegun /\ active # 0
  /\ \E i \in Iterations :
       /\ iter' = i
       /\ used' = used \cup {i} /\ reused' = (reused \/ i \in used)
  /\ base' = Live.version /\ idx' = 0 /\ text' = 0 /\ prev' = 0 /\ scores' = {}
  /\ lpc' \in {"install", "csv"}
  /\ begun' = begun + 1
  /\ crossed' = (crossed \/ spc # "idle")
  /\ UNCHANGED <<db, disk, script, accepted, stranded, mistaken,
                 written, scripts, rollbacks, wipes>>

(* The candidate becomes a row without adoption data, and is live.         *)
Install ==
  /\ lpc = "install" /\ written < MaxTexts /\ active # 0
  /\ text' = written + 1 /\ written' = written + 1
  /\ rows' = Append(rows, Row(PreflightVersion, text', "candidate_preflight", 0))
  /\ prev' = active /\ active' = Len(rows')
  /\ lpc' = "probe"
  /\ UNCHANGED <<disk, iter, base, idx, scores, script, verdicts, crossed,
                 begun, scripts, rollbacks, wipes>>

(* The next variant, or the end of the loop over them: the prompt engineer *)
(* may have come up with fewer than it was asked for, or with none.        *)
NextVariant ==
  \/ /\ idx + 1 < NVariants
     /\ lpc' = "install" /\ idx' = idx + 1 /\ UNCHANGED <<iter, base, text, prev, scores>>
  \/ LoopAt("csv")

(* The finally block of the pre-flight.                                    *)
RestoreIfFailed(passed) ==  \* mutant: a candidate that passed stays live
  /\ lpc = "probe"
  /\ active' = IF passed THEN active ELSE prev
  /\ IF passed THEN LoopAt("evaluate") ELSE NextVariant
  /\ UNCHANGED <<rows, disk, script, verdicts, crossed, counts>>
Restore(passed) ==
  /\ lpc = "probe"
  /\ active' = prev
  /\ IF passed THEN LoopAt("evaluate") ELSE NextVariant
  /\ UNCHANGED <<rows, disk, script, verdicts, crossed, counts>>

(* The variant is scored and the gate decides.                             *)
Evaluate(verdict) ==
  /\ lpc = "evaluate"
  /\ scores' = scores \cup {[iter |-> iter, idx |-> idx, text |-> text]}
  /\ accepted' = IF verdict = "adopt" THEN accepted \cup {text} ELSE accepted
  /\ lpc' = verdict
  /\ UNCHANGED <<db, disk, iter, base, idx, text, prev, script,
                 used, reused, stranded, mistaken, crossed, counts>>

AdoptRow ==
  /\ lpc = "adopt"
  /\ Upsert(base + 1, text, "active", iter)
  /\ LoopAt("activate")
  /\ UNCHANGED <<active, disk, script, verdicts, crossed, counts>>

(* The first winner ends the iteration's loop.                             *)
Activate ==
  /\ lpc = "activate"
  /\ active' \in Of(base + 1)
  /\ LoopAt("csv")
  /\ UNCHANGED <<rows, disk, script, verdicts, crossed, counts>>

RejectRow ==
  /\ lpc = "reject"
  /\ Upsert(10000 + iter * 100 + idx, text, "rejected", iter)
  /\ NextVariant
  /\ UNCHANGED <<active, disk, script, verdicts, crossed, counts>>

(* _write_iteration_csv replaces the file of that iteration id.            *)
WriteCsv ==
  /\ lpc = "csv"
  /\ csv' = {c \in csv : c.iter # iter} \cup scores
  /\ LoopIdle
  /\ UNCHANGED <<db, files, script, verdicts, crossed, counts>>

(* The loop is interrupted, raises or dies; in a pre-flight its finally    *)
(* block may run or not.                                                   *)
LoopStops ==
  /\ lpc # "idle"
  /\ \/ UNCHANGED active
     \/ lpc = "probe" /\ active' = prev
  /\ stranded' = (stranded \/ (lpc = "probe" /\ active' = active))
  /\ LoopIdle
  /\ UNCHANGED <<rows, disk, script, accepted, used, reused, mistaken, crossed, counts>>

Loop ==
  \/ BeginIteration \/ Install \/ AdoptRow \/ Activate \/ RejectRow \/ WriteCsv
  \/ \E passed \in BOOLEAN : Restore(passed)
  \/ \E verdict \in {"adopt", "reject"} : Evaluate(verdict)
  \/ LoopStops

-----------------------------------------------------------------------------
(* The operator's scripts, one at a time.                                  *)
Starts == spc = "idle" /\ scripts < MaxScripts /\ scripts' = scripts + 1
          /\ crossed' = (crossed \/ lpc # "idle")
ScriptIdle ==
  /\ spc' = "idle" /\ todo' = {} /\ found' = 0 /\ num' = 0
  /\ arg' = [iter |-> 0, idx |-> 0, text |-> 0]
NoStart == UNCHANGED <<crossed, counts>>

(* seed_prompts: the glob, then each file in the order of the names.       *)
StartSeed ==
  /\ Starts
  /\ spc' = "seed" /\ todo' = {f.version : f \in files}
  /\ UNCHANGED <<db, disk, loop, found, num, arg, verdicts, written, begun, rollbacks, wipes>>

First == CHOOSE v \in todo : \A w \in todo : v <= w
TextOnDisk(v) == (CHOOSE f \in files : f.version = v).text

(* _seed_one: the row takes the text on disk and the status active, ...    *)
SeedRow ==
  /\ spc = "seed"
  /\ Upsert(First, TextOnDisk(First), "active", 0)
  /\ spc' = "pointer"
  /\ UNCHANGED <<active, disk, loop, todo, found, num, arg, verdicts>> /\ NoStart

(* ... and it goes live if nothing is.                                     *)
SeedPointerNever ==  \* mutant: after a wipe nothing goes live
  /\ spc = "pointer"
  /\ todo' = todo \ {First}
  /\ spc' = IF todo' = {} THEN "seeded" ELSE "seed"
  /\ UNCHANGED <<db, disk, loop, found, num, arg, verdicts>> /\ NoStart
SeedPointer ==
  /\ spc = "pointer"
  /\ active' = IF active = 0 THEN IdOf(First) ELSE active
  /\ todo' = todo \ {First}
  /\ spc' = IF todo' = {} THEN "seeded" ELSE "seed"
  /\ UNCHANGED <<rows, disk, loop, found, num, arg, verdicts>> /\ NoStart

Seeded ==
  /\ spc = "seeded"
  /\ ScriptIdle
  /\ UNCHANGED <<db, disk, loop, verdicts>> /\ NoStart

(* lift_one reads the live prompt, ...                                     *)
StartLift ==
  /\ Starts /\ active # 0
  /\ spc' = "lift" /\ found' = Live.text /\ num' = Live.version
  /\ UNCHANGED <<db, disk, loop, todo, arg, verdicts, written, begun, rollbacks, wipes>>

(* ... and writes its file; so does re_decide at its end (lift_to_disk).   *)
LiftFile ==
  /\ spc = "lift"
  /\ files' = Put(files, num, found)
  /\ ScriptIdle
  /\ UNCHANGED <<db, csv, loop, verdicts>> /\ NoStart

(* re_decide: the scores of a variant are read and the consensus accepts   *)
(* it; if it does not, nothing is written.                                 *)
StartReDecide ==
  /\ Starts
  /\ \E c \in csv : arg' = c /\ accepted' = accepted \cup {c.text}
  /\ spc' = "find"
  /\ UNCHANGED <<db, disk, loop, todo, found, num, used, reused, stranded, mistaken,
                 written, begun, rollbacks, wipes>>

(* find_proposal_metadata: the newest row of the agent that was not        *)
(* adopted and names the iteration; else the live prompt is copied.        *)
CandidatesOfAny ==  \* mutant: of any iteration
  {i \in DOMAIN rows : rows[i].status = "rejected"}
Candidates ==
  {i \in DOMAIN rows : rows[i].status \in {"candidate_preflight", "rejected"}
                       /\ rows[i].iter = arg.iter}
Found ==
  IF Candidates # {} THEN rows[CHOOSE i \in Candidates : \A j \in Candidates : j <= i].text
  ELSE Live.text
Find ==
  /\ spc = "find" /\ (Candidates = {} => active # 0)
  /\ found' = Found
  /\ mistaken' = (mistaken \/ Found # arg.text)
  /\ spc' = "number"
  /\ UNCHANGED <<db, disk, loop, todo, num, arg, accepted, used, reused, stranded>> /\ NoStart

(* The next number after the adopted ones.                                 *)
Adopted == {rows[i].version : i \in {j \in DOMAIN rows : rows[j].version < 1000}}
NextNumberTaken ==  \* mutant: the largest number, not the next
  IF Adopted = {} THEN 2 ELSE CHOOSE v \in Adopted : \A w \in Adopted : w <= v
NextNumber ==
  IF Adopted = {} THEN 2 ELSE 1 + CHOOSE v \in Adopted : \A w \in Adopted : w <= v
Number ==
  /\ spc = "number"
  /\ num' = NextNumber
  /\ spc' = "write"
  /\ UNCHANGED <<db, disk, loop, todo, found, arg, verdicts>> /\ NoStart

WriteRow ==
  /\ spc = "write"
  /\ Upsert(num, found, "active", arg.iter)
  /\ spc' = "point"
  /\ UNCHANGED <<active, disk, loop, todo, found, num, arg, verdicts>> /\ NoStart

Point ==
  /\ spc = "point"
  /\ active' \in Of(num)
  /\ spc' = "lift"
  /\ UNCHANGED <<rows, disk, loop, todo, found, num, arg, verdicts>> /\ NoStart

(* A script raises or is left between two steps.                           *)
ScriptStops ==
  /\ spc # "idle"
  /\ ScriptIdle
  /\ UNCHANGED <<db, disk, loop, verdicts>> /\ NoStart

Script ==
  \/ StartSeed \/ SeedRow \/ SeedPointer \/ Seeded
  \/ StartLift \/ LiftFile
  \/ StartReDecide \/ Find \/ Number \/ WriteRow \/ Point
  \/ ScriptStops

-----------------------------------------------------------------------------
(* "A one-row SQL update on active_prompt", to a version that was adopted. *)
Rollback(i) ==
  /\ rollbacks < MaxRollbacks
  /\ active # 0 /\ i # active /\ rows[i].status = "active"
  /\ active' = i
  /\ rollbacks' = rollbacks + 1
  /\ UNCHANGED <<rows, disk, loop, script, verdicts, crossed, written, begun, scripts, wipes>>

(* `make clean` removes the database and leaves the files, while nothing   *)
(* runs; the schema is created empty by the next script.                   *)
Clean ==
  /\ wipes < MaxWipes /\ lpc = "idle" /\ spc = "idle"
  /\ rows' = <<>> /\ active' = 0
  /\ wipes' = wipes + 1
  /\ UNCHANGED <<disk, loop, script, verdicts, crossed, written, begun, scripts, rollbacks>>

Over == lpc = "idle" /\ spc = "idle" /\ UNCHANGED vars

Next ==
  \/ Loop \/ Script \/ Clean
  \/ \E i \in DOMAIN rows : Rollback(i)
  \/ Over

Spec == Init /\ [][Next]_vars

-----------------------------------------------------------------------------
(* Properties.                                                             *)

Statuses == {"active", "candidate_preflight", "rejected"}
Score    == [iter : Nat, idx : Nat, text : Nat]

(* Every variable stays in its type; the pointer is at a row or nowhere.   *)
TypeOK ==
  /\ rows \in Seq([version : Nat, text : Nat, status : Statuses, iter : Nat])
  /\ active \in 0..Len(rows)
  /\ files \subseteq [version : Nat, text : Nat] /\ csv \subseteq Score
  /\ lpc \in {"idle", "install", "probe", "evaluate", "adopt", "activate", "reject", "csv"}
  /\ iter \in Nat /\ base \in Nat /\ idx \in Nat /\ text \in Nat
  /\ prev \in 0..Len(rows) /\ scores \subseteq Score
  /\ spc \in {"idle", "seed", "pointer", "seeded", "lift", "find", "number", "write", "point"}
  /\ todo \subseteq {f.version : f \in files} /\ (spc \in {"seed", "pointer"} => todo # {})
  /\ found \in Nat /\ num \in Nat /\ arg \in Score
  /\ accepted \subseteq Nat /\ used \subseteq Iterations
  /\ {reused, stranded, crossed, mistaken} \subseteq BOOLEAN
  /\ {written, begun, scripts, rollbacks, wipes} \subseteq Nat

(* Outside a pre-flight the live text is the seed's or one that a gate or  *)
(* a consensus accepted on scores of its own, whatever was rolled back,    *)
(* lifted, wiped and seeded again: what can go wrong is a pre-flight that  *)
(* dies, a script beside an iteration, and a text re_decide mistook.       *)
LiveWasAccepted ==
  ~ stranded /\ ~ crossed /\ ~ mistaken /\ active # 0 /\ lpc # "probe" => Live.text \in accepted

(* re_decide adopts the text whose scores it read, if the iteration's id   *)
(* was given once and this variant is the only one scored and the row of   *)
(* its rejection is there: then neither a wipe nor an iteration beside it  *)
(* matters. Without one of these it may adopt another (see the README).    *)
OnlyReject ==
  /\ {c \in csv : c.iter = arg.iter} = {arg}
  /\ \E i \in DOMAIN rows : rows[i].status = "rejected" /\ rows[i].iter = arg.iter
ReDecidedTextWasScored ==
  spc = "number" /\ OnlyReject /\ ~ reused => found = arg.text

(* The live version and those before it keep their texts, also when files  *)
(* are lifted and seeded again and iterations are cut short: as long as    *)
(* nobody rolled back, wiped the database or ran a script beside an        *)
(* iteration, no candidate stayed live, and the live number is below the   *)
(* 1000 that re_decide counts up to, each of which makes a number stand    *)
(* for two texts.                                                          *)
AdoptedKeepsText ==
  [][rollbacks' = 0 /\ wipes' = 0 /\ ~ crossed' /\ ~ stranded' /\ Live.version < 1000 =>
       \A i \in DOMAIN rows : rows[i].status = "active" /\ rows[i].version <= Live.version
                              => rows'[i].text = rows[i].text]_vars

(* When a seeding is through, the agent has a live prompt and each file is *)
(* the row of its number, also after the database was removed; unless an   *)
(* iteration ran beside it.                                                *)
SeedingRestores ==
  spc = "seeded" /\ ~ crossed =>
    active # 0 /\ \A f \in files : \E i \in Of(f.version) : rows[i].text = f.text

-----------------------------------------------------------------------------
(* A statement of the documentation that the code does not keep.           *)

(* "Preserves loop adoptions" (_seed_one) and "Without that guard, every   *)
(* `make fresh-start` would silently revert all adoptions" (seed_db):      *)
(* seeding leaves the adopted text that is live as it was.                 *)
SeedingPreservesAdoptions ==
  [][SeedRow /\ lpc = "idle" /\ active # 0 /\ Live.version < 1000
       => rows'[active].text = rows[active].text]_vars
=============================================================================
