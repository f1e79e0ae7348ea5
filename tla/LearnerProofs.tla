--------------------------- MODULE LearnerProofs ----------------------------
(***************************************************************************)
(* Theorems about Learner for every number of variants, probes, iterations *)
(* and texts and every set of pre-flight version numbers.                  *)
(*                                                                         *)
(* TypeOK is inductive. The invariants that say which row is live and what *)
(* the probes ran with (StoreInv, SuiteInv, PointerInv) are inductive      *)
(* relative to it. StoreInv needs the version numbers: a rejected          *)
(* variant's is at least 10100, and an adopted one's at most one more than *)
(* the iterations begun, so a reject never overwrites an adopted row.      *)
(***************************************************************************)
EXTENDS Learner, TLAPS

Rows == [version : Nat, text : Nat, status : Statuses]
(* The bounds as numbers.                                                  *)
LEMMA Bounds ==
  /\ MaxIterations \in Nat /\ MaxIterations <= 9998
  /\ NProbes \in Nat /\ NProbes >= 1 /\ NVariants \in Nat /\ IterationsPerRun \in Nat
PROOF
  BY LearnerAssumption

Held == {"install", "probe", "evaluate", "adopt", "activate", "reject"}

(* A row of the table and the fields of one.                               *)
LEMMA RowFields ==
  ASSUME TypeOK, NEW i \in 1..Len(rows)
  PROVE  /\ rows[i] \in Rows /\ rows[i].version \in Nat /\ rows[i].text \in Nat
         /\ Name(rows[i]) \in Named
PROOF
  <1>1. rows \in Seq(Rows)
    BY DEF TypeOK, Rows
  <1>2. rows[i] \in Rows
    BY <1>1
  <1>3. rows[i].version \in Nat /\ rows[i].text \in Nat
    BY <1>2 DEF Rows
  <1> QED
    BY <1>2, <1>3 DEF Named, Name

(* What is left of the locals when an iteration or the script is left.     *)
LEMMA LeaveTypes ==
  ASSUME TypeOK, IterationEnds \/ ScriptEnds
  PROVE  /\ pc' \in {"read", "idle"} /\ iter' \in Nat /\ mode' \in {"full", "isolated"}
         /\ base' = NoRow /\ baseline' = {} /\ proposals' = <<>>
         /\ cand' = 1 /\ prev' = 1 /\ probed' = 0 /\ heard' = {} /\ failed' = FALSE
         /\ moved' = FALSE /\ (pc' = "read" => begun < MaxIterations)
PROOF
  <1>1. CASE pc' = "read" /\ iter' = iter + 1 /\ UNCHANGED mode /\ Leave /\ begun < MaxIterations
    <2>1. iter' \in Nat /\ mode' \in {"full", "isolated"}
      BY <1>1 DEF TypeOK
    <2> QED
      BY <1>1, <2>1 DEF Leave
  <1>2. CASE ScriptEnds
    BY <1>2 DEF ScriptEnds, Leave
  <1> QED
    BY <1>1, <1>2 DEF IterationEnds

(* The types of the database, of the loop and of the notes.                *)
StoreTypes ==
  /\ rows \in Seq(Rows)
  /\ active \in 1..Len(rows)
  /\ scored \subseteq Named /\ spoken \subseteq Named
LoopTypes ==
  /\ pc \in {"idle", "read", "baseline", "propose"} \cup Held
  /\ pc = "read" => begun < MaxIterations
  /\ iter \in Nat /\ mode \in {"full", "isolated"}
  /\ base \in [id : 1..Len(rows), version : Nat, text : Nat]
  /\ baseline \subseteq Nat
  /\ proposals \in Seq(Nat)
  /\ pc \in Held => idx \in 1..Len(proposals)
  /\ cand \in 1..Len(rows) /\ prev \in 1..Len(rows) /\ probed \in 0..NProbes
  /\ heard \subseteq Nat /\ failed \in BOOLEAN /\ moved \in BOOLEAN
NoteTypes ==
  /\ vetted \subseteq Nat /\ stranded \subseteq 1..Len(rows)
  /\ begun \in 0..MaxIterations /\ rollbacks \in Nat /\ written \in Nat

(* The type invariant in three parts, so that a step cites what it needs.  *)
LEMMA TypeParts == TypeOK <=> StoreTypes /\ LoopTypes /\ NoteTypes
PROOF
  BY DEF TypeOK, StoreTypes, LoopTypes, NoteTypes, Rows, Held

(* The same of the next state.                                             *)
LEMMA TypePartsNext == TypeOK' <=> StoreTypes' /\ LoopTypes' /\ NoteTypes'
PROOF
  BY DEF TypeOK, StoreTypes, LoopTypes, NoteTypes, Rows, Held

(* Leaving keeps the types of the loop, whether or not rows were added.    *)
LEMMA LeaveKeepsTypes ==
  ASSUME TypeOK, IterationEnds \/ ScriptEnds, Len(rows') \in Nat, Len(rows') >= Len(rows),
         UNCHANGED begun
  PROVE  LoopTypes'
PROOF
  <1>1. Len(rows) >= 1 /\ Len(rows) \in Nat
    BY TypeParts DEF StoreTypes
  <1>2. 1 \in 1..Len(rows')
    BY <1>1
  <1>3. base' \in [id : 1..Len(rows'), version : Nat, text : Nat]
    <2>1. base' = [id |-> 1, version |-> 1, text |-> 0]
      BY LeaveTypes DEF NoRow
    <2> QED
      BY <1>2, <2>1
  <1>4. cand' \in 1..Len(rows') /\ prev' \in 1..Len(rows') /\ probed' \in 0..NProbes
    <2>1. cand' = 1 /\ prev' = 1 /\ probed' = 0
      BY LeaveTypes
    <2>2. 0 \in 0..NProbes
      BY LearnerAssumption
    <2> QED
      BY <1>2, <2>1, <2>2
  <1>5. pc' \notin Held /\ pc' \in {"idle", "read"}
    BY LeaveTypes DEF Held
  <1>6. /\ iter' \in Nat /\ mode' \in {"full", "isolated"} /\ baseline' = {} /\ proposals' = <<>>
        /\ heard' = {} /\ failed' = FALSE /\ moved' = FALSE
        /\ (pc' = "read" => begun' < MaxIterations)
    BY LeaveTypes
  <1>7. /\ baseline' \subseteq Nat /\ heard' \subseteq Nat /\ proposals' \in Seq(Nat)
        /\ failed' \in BOOLEAN /\ moved' \in BOOLEAN
        /\ pc' \in {"idle", "read", "baseline", "propose"} \cup Held
    <2>1. <<>> \in Seq(Nat)
      OBVIOUS
    <2>2. proposals' \in Seq(Nat)
      BY <2>1, <1>6
    <2>3. baseline' \subseteq Nat /\ heard' \subseteq Nat
      BY <1>6
    <2>4. failed' \in BOOLEAN /\ moved' \in BOOLEAN
      BY <1>6
    <2>5. pc' \in {"idle", "read", "baseline", "propose"} \cup Held
      BY <1>5
    <2> QED
      BY <2>2, <2>3, <2>4, <2>5
  <1> QED
    BY <1>3, <1>4, <1>5, <1>6, <1>7 DEF LoopTypes

(* So does going on to the next variant.                                   *)
LEMMA NextVariantKeepsTypes ==
  ASSUME TypeOK, pc \in Held, NextVariant, Len(rows') \in Nat, Len(rows') >= Len(rows),
         UNCHANGED begun
  PROVE  LoopTypes'
PROOF
  <1>1. CASE idx < Len(proposals)
    <2>0. LoopTypes /\ Len(rows) \in Nat /\ Len(rows') \in Nat /\ Len(rows) <= Len(rows')
      BY TypeParts DEF StoreTypes
    <2>1. /\ idx' = idx + 1 /\ pc' = "install"
          /\ UNCHANGED <<run, base, baseline, proposals, suite, moved>>
      BY <1>1 DEF NextVariant
    <2>2. idx' \in 1..Len(proposals')
      <3>1. idx \in 1..Len(proposals) /\ Len(proposals) \in Nat
        BY <2>0 DEF LoopTypes
      <3>2. QED  BY <1>1, <2>1, <3>1
    <2>3. base' \in [id : 1..Len(rows'), version : Nat, text : Nat]
      BY <2>1, <2>0 DEF LoopTypes
    <2>4. cand' \in 1..Len(rows') /\ prev' \in 1..Len(rows')
      BY <2>1, <2>0 DEF LoopTypes, suite
    <2> QED
      BY <2>0, <2>1, <2>2, <2>3, <2>4 DEF LoopTypes, run, suite, Held
  <1>2. CASE ~ (idx < Len(proposals))
    BY <1>2, LeaveKeepsTypes DEF NextVariant
  <1> QED
    BY <1>1, <1>2

(* An upsert leaves the rows of other numbers alone and makes the one of   *)
(* its number what it says.                                                *)
LEMMA UpsertRows ==
  ASSUME TypeOK, NEW v \in Nat, NEW t \in Nat, NEW s \in Statuses, Upsert(v, t, s)
  PROVE  /\ rows' \in Seq(Rows) /\ Len(rows') \in Nat /\ Len(rows') >= Len(rows)
         /\ \A i \in 1..Len(rows') :
              \/ rows'[i] = Row(v, t, s)
              \/ i \in 1..Len(rows) /\ rows'[i] = rows[i] /\ rows[i].version # v
         /\ \A i \in 1..Len(rows) :
              rows'[i] = rows[i] \/ (rows[i].version = v /\ rows'[i] = Row(v, t, s))
PROOF
  <1>1. rows \in Seq(Rows) /\ Row(v, t, s) \in Rows
    BY TypeParts DEF StoreTypes, Row, Rows
  <1>2. CASE \E i \in Of(v) : Of(v) = {i} /\ rows' = [rows EXCEPT ![i] = Row(v, t, s)]
    <2>1. PICK i \in Of(v) : Of(v) = {i} /\ rows' = [rows EXCEPT ![i] = Row(v, t, s)]
      BY <1>2
    <2>2. i \in 1..Len(rows) /\ rows[i].version = v
      BY <2>1, <1>1 DEF Of
    <2>3. \A j \in 1..Len(rows) : rows[j].version = v => j = i
      BY <2>1, <1>1 DEF Of
    <2>4. rows' \in Seq(Rows) /\ Len(rows') = Len(rows) /\ rows'[i] = Row(v, t, s)
          /\ \A j \in 1..Len(rows) : j # i => rows'[j] = rows[j]
      BY <2>1, <2>2, <1>1
    <2> QED
      BY <2>2, <2>3, <2>4, <1>1
  <1>3. CASE Of(v) = {} /\ rows' = Append(rows, Row(v, t, s))
    <2>1. rows' \in Seq(Rows) /\ Len(rows') = Len(rows) + 1 /\ rows'[Len(rows) + 1] = Row(v, t, s)
          /\ \A j \in 1..Len(rows) : rows'[j] = rows[j]
      BY <1>1, <1>3
    <2>2. \A j \in 1..Len(rows) : rows[j].version # v
      BY <1>1, <1>3 DEF Of
    <2> QED
      BY <2>1, <2>2, <1>1
  <1> QED
    BY <1>2, <1>3 DEF Upsert

(* A pre-flight's install appends the candidate's row.                     *)
LEMMA InstallRows ==
  ASSUME TypeOK, Install
  PROVE  \E v \in PreflightVersions :
         LET row == Row(v, proposals[idx], "candidate_preflight")
         IN /\ row \in Rows /\ proposals[idx] \in Nat
            /\ rows' \in Seq(Rows) /\ Len(rows') = Len(rows) + 1 /\ Len(rows) \in Nat
            /\ rows'[Len(rows) + 1] = row
            /\ \A i \in 1..Len(rows) : rows'[i] = rows[i]
            /\ cand' = Len(rows) + 1 /\ active' = cand' /\ prev' = active
PROOF
  <1>1. PICK v \in PreflightVersions :
          rows' = Append(rows, Row(v, proposals[idx], "candidate_preflight"))
    BY DEF Install, InstallRow
  <1>2. rows \in Seq(Rows) /\ proposals \in Seq(Nat) /\ idx \in 1..Len(proposals)
    BY TypeParts DEF Install, InstallRow, StoreTypes, LoopTypes, Held
  <1>3. v \in Nat /\ proposals[idx] \in Nat
    <2>1. v \in 10000..19999
      BY LearnerAssumption
    <2>2. v \in Nat
      BY <2>1
    <2> QED
      BY <1>2, <2>2
  <1>4. Row(v, proposals[idx], "candidate_preflight") \in Rows
    BY <1>3 DEF Row, Rows, Statuses
  <1>5. cand' = Len(rows) + 1 /\ active' = cand' /\ prev' = active
    BY DEF Install, InstallRow
  <1> QED
    BY <1>1, <1>2, <1>3, <1>4, <1>5

(* What the type invariant says of the loop's counters.                    *)
LEMMA LoopNumbers ==
  ASSUME TypeOK, pc \in Held
  PROVE  AdoptedVersion \in Nat /\ RejectedVersion \in Nat /\ proposals[idx] \in Nat
         /\ RejectedVersion >= 10000 + iter * 100
PROOF
  <1>1. base.version \in Nat /\ idx \in 1..Len(proposals) /\ iter \in Nat /\ proposals \in Seq(Nat)
    BY TypeParts DEF LoopTypes
  <1> QED
    BY <1>1 DEF AdoptedVersion, RejectedVersion

(* The types are an inductive invariant: one case per action.              *)
LEMMA InitTypes == Init => TypeOK
PROOF
  <1> SUFFICES ASSUME Init PROVE TypeOK
    OBVIOUS
  <1>1. rows \in Seq(Rows) /\ Len(rows) = 1
    BY DEF Init, Row, Rows, Statuses
  <1>2. StoreTypes
    BY <1>1 DEF Init, StoreTypes
  <1>3. LoopTypes
    <2>1. <<>> \in Seq(Nat) /\ 0 \in 0..NProbes
      BY LearnerAssumption
    <2>2. base \in [id : 1..Len(rows), version : Nat, text : Nat]
      BY <1>1 DEF Init, NoRow
    <2>3. /\ pc = "idle" /\ iter = 0 /\ mode = "full" /\ baseline = {} /\ proposals = <<>>
          /\ cand = 1 /\ prev = 1 /\ probed = 0 /\ heard = {} /\ failed = FALSE /\ moved = FALSE
      BY DEF Init
    <2>4. proposals \in Seq(Nat) /\ baseline \subseteq Nat /\ heard \subseteq Nat
      BY <2>1, <2>3
    <2>5. failed \in BOOLEAN /\ moved \in BOOLEAN /\ pc \notin Held /\ pc # "read"
      BY <2>3 DEF Held
    <2>6. cand \in 1..Len(rows) /\ prev \in 1..Len(rows) /\ probed \in 0..NProbes
      BY <1>1, <2>1, <2>3
    <2> QED
      BY <2>2, <2>3, <2>4, <2>5, <2>6 DEF LoopTypes
  <1>4. NoteTypes
    BY <1>1, LearnerAssumption DEF Init, NoteTypes
  <1> QED
    BY <1>2, <1>3, <1>4, TypeParts

(* Every step keeps the types: one step of the proof per action.           *)
LEMMA NextTypes == TypeOK /\ [Next]_vars => TypeOK'
PROOF
  <1> SUFFICES ASSUME TypeOK, [Next]_vars PROVE TypeOK'
    OBVIOUS
  <1>0. StoreTypes /\ LoopTypes /\ NoteTypes /\ Len(rows) \in Nat
    BY TypeParts DEF StoreTypes
  <1> SUFFICES StoreTypes' /\ LoopTypes' /\ NoteTypes'
    BY TypePartsNext
  <1>1. CASE StartRun
    BY <1>0, <1>1 DEF StartRun, StoreTypes, LoopTypes, NoteTypes, store, locals, suite, notes, Held
  <1>2. CASE ReadActive
    <2>1. base' \in [id : 1..Len(rows), version : Nat, text : Nat]
      BY <1>0, <1>2, RowFields DEF ReadActive, StoreTypes, Live
    <2>2. begun' \in 0..MaxIterations
      <3>1. begun \in Nat /\ begun < MaxIterations /\ begun' = begun + 1
        BY <1>0, <1>2, Bounds DEF ReadActive, NoteTypes, LoopTypes
      <3> QED
        BY <3>1, Bounds
    <2> QED
      BY <1>0, <1>2, <2>1, <2>2 DEF ReadActive, StoreTypes, LoopTypes, NoteTypes, store, run, suite, Held
  <1>3. CASE EvaluateBaseline
    <2>1. Name(base) \in Named /\ base.text \in Nat
      BY <1>0 DEF LoopTypes, Name, Named
    <2> QED
      BY <1>0, <1>3, <2>1 DEF EvaluateBaseline, StoreTypes, LoopTypes, NoteTypes, run, suite, notes, Held
  <1>4. CASE ReuseBaseline
    <2>1. Reusable \subseteq Nat
      BY <1>0 DEF Reusable, StoreTypes, Named
    <2>2. baseline' \subseteq Nat
      BY <1>4, <2>1 DEF ReuseBaseline
    <2> QED
      BY <1>0, <1>4, <2>2 DEF ReuseBaseline, StoreTypes, LoopTypes, NoteTypes, store, run, suite, notes, Held
  <1>5. CASE Propose
    <2>1. PICK n \in 1..NVariants :
            proposals' = [i \in 1..n |-> written + i] /\ written' = written + n
      BY <1>5 DEF Propose
    <2>2. n \in Nat /\ n >= 1
      BY <2>1, LearnerAssumption
    <2>3. proposals' \in Seq(Nat) /\ Len(proposals') = n /\ written' \in Nat
      BY <1>0, <2>1, <2>2 DEF NoteTypes
    <2>4. idx' \in 1..Len(proposals')
      BY <1>5, <2>2, <2>3 DEF Propose
    <2> QED
      BY <1>0, <1>5, <2>3, <2>4 DEF Propose, StoreTypes, LoopTypes, NoteTypes, store, run, suite, Held
  <1>6. CASE ProposeNothing
    <2>1. LoopTypes'
      BY <1>0, <1>6, LeaveKeepsTypes DEF ProposeNothing, store, notes
    <2> QED
      BY <1>0, <1>6, <2>1 DEF ProposeNothing, StoreTypes, NoteTypes, store, notes
  <1>7. CASE Install
    <2>1. /\ rows' \in Seq(Rows) /\ Len(rows') = Len(rows) + 1
          /\ cand' = Len(rows) + 1 /\ active' = cand' /\ prev' = active
      BY <1>7, InstallRows
    <2>2. StoreTypes'
      BY <1>0, <1>7, <2>1 DEF Install, InstallRow, StoreTypes
    <2>3. probed' \in 0..NProbes
      <3>1. probed' = 0
        BY <1>7 DEF Install, InstallRow
      <3>2. QED  BY <3>1, Bounds
    <2>4. cand' \in 1..Len(rows') /\ prev' \in 1..Len(rows')
      BY <1>0, <2>1 DEF StoreTypes
    <2>5. base' \in [id : 1..Len(rows'), version : Nat, text : Nat]
      BY <1>0, <1>7, <2>1 DEF Install, InstallRow, LoopTypes, locals
    <2>6. LoopTypes'
      BY <1>0, <1>7, <2>3, <2>4, <2>5 DEF Install, InstallRow, LoopTypes, run, locals, Held
    <2>7. NoteTypes'
      BY <1>0, <1>7, <2>1 DEF Install, InstallRow, NoteTypes, notes
    <2> QED
      BY <2>2, <2>6, <2>7
  <1>8. CASE InstallFails
    <2>1. LoopTypes'
      BY <1>0, <1>8, NextVariantKeepsTypes DEF InstallFails, store, notes, Held
    <2> QED
      BY <1>0, <1>8, <2>1 DEF InstallFails, StoreTypes, NoteTypes, store, notes
  <1>9. CASE Probe
    <2>1. Live.text \in Nat
      BY <1>0, RowFields DEF Live, StoreTypes
    <2>2. probed' \in 0..NProbes
      <3>1. probed \in Nat /\ probed < NProbes /\ probed' = probed + 1
        BY <1>0, <1>9, Bounds DEF Probe, LoopTypes
      <3> QED
        BY <3>1, Bounds
    <2>3. failed' \in BOOLEAN
      BY <1>0, <1>9 DEF Probe, LoopTypes
    <2> QED
      BY <1>0, <1>9, <2>1, <2>2, <2>3 DEF Probe, StoreTypes, LoopTypes, NoteTypes, store, run, locals, notes, Held
  <1>10. CASE Restore
    <2>1. active' \in 1..Len(rows)
      BY <1>0, <1>10 DEF Restore, LoopTypes
    <2>2. LoopTypes'
      <3>1. CASE failed
        BY <1>0, <1>10, <3>1, NextVariantKeepsTypes DEF Restore, Judge, notes, Held
      <3>2. CASE ~ failed
        BY <1>0, <1>10, <3>2 DEF Restore, Judge, LoopTypes, run, locals, suite, notes, Held
      <3> QED
        BY <3>1, <3>2
    <2> QED
      BY <1>0, <1>10, <2>1, <2>2 DEF Restore, StoreTypes, NoteTypes, notes
  <1>11. CASE Interrupt
    <2>1. LoopTypes'
      BY <1>0, <1>11, LeaveKeepsTypes DEF Interrupt, notes
    <2>2. active' \in 1..Len(rows)
      BY <1>0, <1>11 DEF Interrupt, LoopTypes
    <2> QED
      BY <1>0, <1>11, <2>1, <2>2 DEF Interrupt, StoreTypes, NoteTypes, notes
  <1>12. CASE RestoreFails \/ DieInPreflight
    <2>1. LoopTypes'
      <3>1. CASE RestoreFails
        BY <1>0, <3>1, NextVariantKeepsTypes DEF RestoreFails, store, Held
      <3>2. CASE DieInPreflight
        BY <1>0, <3>2, LeaveKeepsTypes DEF DieInPreflight, store
      <3> QED
        BY <1>12, <3>1, <3>2
    <2>2. stranded' \subseteq 1..Len(rows)
      <3>1. cand \in 1..Len(rows)
        BY <1>0, <1>12 DEF LoopTypes, RestoreFails, DieInPreflight
      <3> QED
        BY <1>0, <1>12, <3>1 DEF NoteTypes, RestoreFails, DieInPreflight
    <2>3. UNCHANGED <<store, vetted, begun, rollbacks, written>>
      BY <1>12 DEF RestoreFails, DieInPreflight
    <2> QED
      BY <1>0, <2>1, <2>2, <2>3 DEF StoreTypes, NoteTypes, store
  <1>13. CASE \E verdict \in {"adopt", "reject"} : Evaluate(verdict)
    <2>1. PICK verdict \in {"adopt", "reject"} : Evaluate(verdict)
      BY <1>13
    <2>2. Name(Live) \in Named /\ proposals[idx] \in Nat
      BY <1>0, <2>1, RowFields, LoopNumbers DEF Live, StoreTypes, Evaluate, Held
    <2>3. scored' \subseteq Named
      BY <1>0, <2>1, <2>2 DEF Evaluate, StoreTypes
    <2>4. vetted' \subseteq Nat
      BY <1>0, <2>1, <2>2 DEF Evaluate, NoteTypes
    <2>5. UNCHANGED <<rows, active, spoken, run, locals, suite, moved, stranded, begun, rollbacks, written>>
          /\ pc' \in {"adopt", "reject"} /\ pc = "evaluate"
      BY <2>1 DEF Evaluate
    <2> QED
      BY <1>0, <2>3, <2>4, <2>5 DEF StoreTypes, LoopTypes, NoteTypes, run, locals, suite, Held
  <1>14. CASE Adopt
    <2>1. rows' \in Seq(Rows) /\ Len(rows') \in Nat /\ Len(rows') >= Len(rows)
      BY <1>14, UpsertRows, LoopNumbers DEF Adopt, Held, Statuses
    <2>2. /\ pc = "adopt" /\ pc' = "activate"
          /\ UNCHANGED <<active, scored, spoken, run, locals, suite, moved, notes>>
      BY <1>14 DEF Adopt
    <2>3. StoreTypes'
      BY <1>0, <2>1, <2>2 DEF StoreTypes
    <2>4. LoopTypes'
      <3>1. base' \in [id : 1..Len(rows'), version : Nat, text : Nat]
        BY <1>0, <2>1, <2>2 DEF LoopTypes, locals
      <3>2. cand' \in 1..Len(rows') /\ prev' \in 1..Len(rows')
        BY <1>0, <2>1, <2>2 DEF LoopTypes, suite
      <3> QED
        BY <1>0, <2>2, <3>1, <3>2 DEF LoopTypes, run, locals, suite, notes, Held
    <2>5. NoteTypes'
      BY <1>0, <2>1, <2>2 DEF NoteTypes, notes
    <2> QED
      BY <2>3, <2>4, <2>5
  <1>15. CASE Activate
    <2>1. active' \in 1..Len(rows)
      BY <1>0, <1>15 DEF Activate, Of, StoreTypes
    <2>2. LoopTypes'
      BY <1>0, <1>15, LeaveKeepsTypes DEF Activate, notes
    <2> QED
      BY <1>0, <1>15, <2>1, <2>2 DEF Activate, StoreTypes, NoteTypes, notes
  <1>16. CASE Reject
    <2>1. rows' \in Seq(Rows) /\ Len(rows') \in Nat /\ Len(rows') >= Len(rows)
      BY <1>16, UpsertRows, LoopNumbers DEF Reject, Held, Statuses
    <2>2. LoopTypes'
      BY <1>0, <1>16, <2>1, NextVariantKeepsTypes DEF Reject, notes, Held
    <2> QED
      BY <1>0, <1>16, <2>1, <2>2 DEF Reject, StoreTypes, NoteTypes, notes
  <1>17. CASE UpsertRaises \/ Stop
    <2>1. /\ ScriptEnds /\ UNCHANGED <<store, notes>>
      BY <1>17 DEF UpsertRaises, Stop
    <2>2. LoopTypes'
      BY <1>0, <2>1, LeaveKeepsTypes DEF store, notes
    <2> QED
      BY <1>0, <2>1, <2>2 DEF StoreTypes, NoteTypes, store, notes
  <1>18. CASE Converse
    <2>1. Name(Live) \in Named
      BY <1>0, RowFields DEF Live, StoreTypes
    <2> QED
      BY <1>0, <1>18, <2>1 DEF Converse, StoreTypes, LoopTypes, NoteTypes, run, locals, suite, notes
  <1>19. CASE \E i \in DOMAIN rows : Rollback(i)
    <2>1. PICK i \in DOMAIN rows : Rollback(i)
      BY <1>19
    <2>2. active' \in 1..Len(rows) /\ rollbacks' \in Nat /\ moved' \in BOOLEAN
      BY <1>0, <2>1 DEF Rollback, StoreTypes, NoteTypes, LoopTypes
    <2> QED
      BY <1>0, <2>1, <2>2 DEF Rollback, StoreTypes, LoopTypes, NoteTypes, run, locals, suite
  <1>20. CASE UNCHANGED vars
    BY <1>0, <1>20 DEF vars, StoreTypes, LoopTypes, NoteTypes, store, run, locals, suite, notes
  <1> QED
    BY <1>1, <1>2, <1>3, <1>4, <1>5, <1>6, <1>7, <1>8, <1>9, <1>10, <1>11, <1>12, <1>13, <1>14,
       <1>15, <1>16, <1>17, <1>18, <1>19, <1>20 DEF Next, Loop, Mishap, Over

(* Every variable keeps its type, and the loop handles no variant it does  *)
(* not have, for all constants.                                            *)
THEOREM TypeCorrect == Spec => []TypeOK
PROOF
  BY InitTypes, NextTypes, PTL DEF Spec

-----------------------------------------------------------------------------
(* Which rows are live, as long as no candidate was stranded: one that was *)
(* adopted or seeded, or the candidate whose pre-flight runs. A row that   *)
(* says "active" has a text the gate accepted, and a number too small to   *)
(* be that of a rejected variant.                                          *)
StoreInv ==
  /\ pc # "idle" => iter >= 1
  /\ stranded = {} =>
       /\ \A i \in 1..Len(rows) : rows[i].status = "active" =>
            rows[i].text \in vetted /\ rows[i].version <= begun + 1
       /\ pc # "probe" => rows[active].status = "active"
       /\ pc = "probe" => /\ active = cand \/ rows[active].status = "active"
                          /\ rows[prev].status = "active"
       /\ pc \in {"baseline", "propose"} \cup Held => base.version <= begun
       /\ pc \in {"adopt", "activate"} => proposals[idx] \in vetted
       /\ pc = "activate" => \A i \in Of(AdoptedVersion) : rows[i].status = "active"

(* A step that only changes the loop's variables and leaves the iteration. *)
LEMMA StoreInvLeave ==
  ASSUME TypeOK, StoreInv, IterationEnds \/ ScriptEnds, UNCHANGED <<rows, vetted, stranded, begun>>,
         stranded = {} => rows[active'].status = "active"
  PROVE  StoreInv'
PROOF
  <1>1. pc' \in {"read", "idle"}
    BY LeaveTypes
  <1>2. pc' # "idle" => iter' >= 1
    BY TypeParts DEF IterationEnds, ScriptEnds, LoopTypes
  <1> QED
    BY <1>1, <1>2 DEF StoreInv, Held

(* Going on to the next variant, or leaving, changes nothing it is about.  *)
LEMMA StoreInvNextVariant ==
  ASSUME TypeOK, StoreInv, pc \in Held, NextVariant, UNCHANGED <<rows, vetted, stranded, begun>>,
         stranded = {} => rows[active'].status = "active"
  PROVE  StoreInv'
PROOF
  <1>1. CASE idx < Len(proposals)
    BY <1>1 DEF NextVariant, StoreInv, run, Held
  <1>2. CASE ~ (idx < Len(proposals))
    BY <1>2, StoreInvLeave DEF NextVariant
  <1> QED
    BY <1>1, <1>2

(* Every step keeps the store's invariant.                                 *)
LEMMA StoreInvStep == TypeOK /\ StoreInv /\ [Next]_vars => StoreInv'
PROOF
  <1> SUFFICES ASSUME TypeOK, StoreInv, [Next]_vars PROVE StoreInv'
    OBVIOUS
  <1>0. StoreTypes /\ LoopTypes /\ NoteTypes /\ Len(rows) \in Nat /\ TypeOK'
    BY TypeParts, NextTypes DEF StoreTypes
  <1>1. CASE StartRun
    BY <1>0, <1>1 DEF StartRun, StoreInv, store, locals, notes, Held
  <1>2. CASE ReadActive
    <2>1. stranded = {} => Live.version <= begun + 1
      BY <1>0, <1>2 DEF ReadActive, StoreInv, Live, StoreTypes
    <2>2. /\ base'.version = Live.version /\ begun' = begun + 1 /\ pc = "read" /\ pc' = "baseline"
          /\ UNCHANGED <<rows, active, iter, vetted, stranded>>
      BY <1>2 DEF ReadActive, store, run
    <2>3. begun \in Nat /\ \A i \in 1..Len(rows) : rows[i].version \in Nat
      BY <1>0, Bounds, RowFields DEF NoteTypes
    <2>4. \A i \in 1..Len(rows) : rows[i].version <= begun + 1 => rows[i].version <= begun' + 1
      BY <2>2, <2>3
    <2> QED
      BY <2>1, <2>2, <2>4 DEF StoreInv, Held
  <1>3. CASE EvaluateBaseline \/ ReuseBaseline
    <2>1. /\ pc = "baseline" /\ pc' = "propose"
          /\ UNCHANGED <<rows, active, iter, base, vetted, stranded, begun>>
      BY <1>3 DEF EvaluateBaseline, ReuseBaseline, store, run, notes
    <2> QED
      BY <2>1 DEF StoreInv, Held
  <1>4. CASE Propose
    <2>1. /\ pc = "propose" /\ pc' = "install"
          /\ UNCHANGED <<rows, active, iter, base, vetted, stranded, begun>>
      BY <1>4 DEF Propose, store, run
    <2> QED
      BY <2>1 DEF StoreInv, Held
  <1>5. CASE ProposeNothing
    BY <1>5, StoreInvLeave DEF ProposeNothing, StoreInv, store, notes
  <1>6. CASE Install
    <2>1. /\ Len(rows') = Len(rows) + 1
          /\ rows'[Len(rows) + 1].status = "candidate_preflight"
          /\ \A i \in 1..Len(rows) : rows'[i] = rows[i]
          /\ cand' = Len(rows) + 1 /\ active' = cand' /\ prev' = active
      <3>1. PICK v \in PreflightVersions :
              /\ Len(rows') = Len(rows) + 1
              /\ rows'[Len(rows) + 1] = Row(v, proposals[idx], "candidate_preflight")
              /\ \A i \in 1..Len(rows) : rows'[i] = rows[i]
              /\ cand' = Len(rows) + 1 /\ active' = cand' /\ prev' = active
        BY <1>6, InstallRows
      <3> QED
        BY <3>1 DEF Row
    <2>2. /\ pc = "install" /\ pc' = "probe"
          /\ UNCHANGED <<iter, base, vetted, stranded, begun>>
      BY <1>6 DEF Install, InstallRow, run, locals, notes
    <2>3. active \in 1..Len(rows) /\ \A i \in 1..Len(rows') : i \in 1..Len(rows) \/ i = Len(rows) + 1
      BY <1>0, <2>1 DEF StoreTypes
    <2> QED
      BY <2>1, <2>2, <2>3 DEF StoreInv, Held
  <1>7. CASE InstallFails
    BY <1>7, StoreInvNextVariant DEF InstallFails, StoreInv, store, notes, Held
  <1>8. CASE Probe
    BY <1>8 DEF Probe, StoreInv, store, run, locals, notes, Held
  <1>9. CASE Restore
    <2>1. stranded = {} => rows[active'].status = "active"
      BY <1>9 DEF Restore, StoreInv
    <2>2. CASE failed
      BY <1>9, <2>1, <2>2, StoreInvNextVariant DEF Restore, Judge, notes, Held
    <2>3. CASE ~ failed
      BY <1>9, <2>1, <2>3 DEF Restore, Judge, StoreInv, run, locals, notes, Held
    <2> QED
      BY <2>2, <2>3
  <1>10. CASE Interrupt
    BY <1>10, StoreInvLeave DEF Interrupt, StoreInv, notes
  <1>11. CASE RestoreFails \/ DieInPreflight
    <2>1. stranded' # {}
      BY <1>11 DEF RestoreFails, DieInPreflight
    <2>2. pc' # "idle" => iter' >= 1
      <3>1. CASE RestoreFails
        BY <1>0, <3>1 DEF RestoreFails, NextVariant, IterationEnds, ScriptEnds, StoreInv, run, LoopTypes
      <3>2. CASE DieInPreflight
        BY <3>2 DEF DieInPreflight, ScriptEnds
      <3> QED
        BY <1>11, <3>1, <3>2
    <2> QED
      BY <2>1, <2>2 DEF StoreInv
  <1>12. CASE \E verdict \in {"adopt", "reject"} : Evaluate(verdict)
    <2>1. PICK verdict \in {"adopt", "reject"} : Evaluate(verdict)
      BY <1>12
    <2>2. /\ pc = "evaluate" /\ pc' = verdict /\ vetted \subseteq vetted'
          /\ verdict = "adopt" => proposals[idx] \in vetted'
          /\ UNCHANGED <<rows, active, run, locals, stranded, begun>>
      BY <2>1 DEF Evaluate
    <2> QED
      BY <2>2 DEF StoreInv, run, locals, Held
  <1>13. CASE Adopt
    <2>1. /\ pc = "adopt" /\ pc' = "activate" /\ Upsert(AdoptedVersion, proposals[idx], "active")
          /\ UNCHANGED <<active, iter, base, proposals, idx, vetted, stranded, begun>>
      BY <1>13 DEF Adopt, run, locals, notes
    <2>2. AdoptedVersion \in Nat /\ proposals[idx] \in Nat /\ "active" \in Statuses
      BY <2>1, LoopNumbers DEF Held, Statuses
    <2> DEFINE new == Row(AdoptedVersion, proposals[idx], "active")
    <2>3. new.status = "active" /\ new.text = proposals[idx] /\ new.version = base.version + 1
      BY DEF Row, AdoptedVersion
    <2>4. /\ rows' \in Seq(Rows) /\ Len(rows') \in Nat
          /\ \A i \in 1..Len(rows') :
               \/ rows'[i] = new
               \/ i \in 1..Len(rows) /\ rows'[i] = rows[i] /\ rows[i].version # AdoptedVersion
          /\ \A i \in 1..Len(rows) : rows'[i] = rows[i] \/ rows'[i] = new
      BY <2>1, <2>2, UpsertRows
    <2> HIDE DEF new
    <2>5. AdoptedVersion' = AdoptedVersion /\ base.version \in Nat /\ begun \in Nat
      BY <1>0, <2>1, Bounds DEF AdoptedVersion, LoopTypes, NoteTypes
    <2>6. \A i \in Of(AdoptedVersion)' : rows'[i].status = "active"
      <3>1. ASSUME NEW i \in Of(AdoptedVersion)' PROVE rows'[i].status = "active"
        <4>1. i \in 1..Len(rows') /\ rows'[i].version = AdoptedVersion
          BY <2>4, <2>5 DEF Of
        <4> QED
          BY <2>3, <2>4, <4>1
      <3> QED
        BY <3>1
    <2>7. stranded = {} => base.version + 1 <= begun + 1 /\ proposals[idx] \in vetted
      BY <2>1, <2>5 DEF StoreInv, Held
    <2>8. active \in 1..Len(rows)
      BY <1>0 DEF StoreTypes
    <2>9. stranded = {} => \A i \in 1..Len(rows') : rows'[i].status = "active" =>
            rows'[i].text \in vetted /\ rows'[i].version <= begun + 1
      BY <2>3, <2>4, <2>7 DEF StoreInv
    <2>10. stranded = {} => rows'[active].status = "active"
      BY <2>1, <2>3, <2>4, <2>8 DEF StoreInv
    <2> QED
      BY <2>1, <2>5, <2>6, <2>7, <2>9, <2>10 DEF StoreInv, Held
  <1>14. CASE Activate
    <2>1. stranded = {} => rows[active'].status = "active"
      BY <1>14 DEF Activate, StoreInv
    <2> QED
      BY <1>14, <2>1, StoreInvLeave DEF Activate, notes
  <1>15. CASE Reject
    <2>1. /\ pc = "reject" /\ Upsert(RejectedVersion, proposals[idx], "rejected") /\ NextVariant
          /\ UNCHANGED <<active, vetted, stranded, begun>>
      BY <1>15 DEF Reject, notes
    <2>2. RejectedVersion \in Nat /\ proposals[idx] \in Nat /\ "rejected" \in Statuses
          /\ RejectedVersion >= 10000 + iter * 100
      BY <2>1, LoopNumbers DEF Held, Statuses
    <2>3. RejectedVersion > begun + 1
      <3>1. iter \in Nat /\ iter >= 1 /\ begun \in Nat /\ begun <= 9999
        BY <1>0, <2>1, Bounds DEF StoreInv, LoopTypes, NoteTypes
      <3> QED
        BY <2>2, <3>1
    <2> DEFINE new == Row(RejectedVersion, proposals[idx], "rejected")
    <2>4. new.status # "active"
      BY DEF Row
    <2>5. /\ Len(rows') \in Nat
          /\ \A i \in 1..Len(rows') :
               rows'[i] = new \/ (i \in 1..Len(rows) /\ rows'[i] = rows[i])
          /\ \A i \in 1..Len(rows) :
               rows'[i] = rows[i] \/ rows[i].version = RejectedVersion
      BY <2>1, <2>2, UpsertRows
    <2> HIDE DEF new
    <2>6. stranded = {} => \A i \in 1..Len(rows) : rows[i].status = "active" => rows'[i] = rows[i]
      <3>1. begun \in Nat /\ \A i \in 1..Len(rows) : rows[i].version \in Nat
        BY <1>0, Bounds, RowFields DEF NoteTypes
      <3> QED
        BY <2>2, <2>3, <2>5, <3>1 DEF StoreInv
    <2>7. active \in 1..Len(rows)
      BY <1>0 DEF StoreTypes
    <2>8. stranded = {} => rows'[active].status = "active"
      BY <2>1, <2>6, <2>7 DEF StoreInv
    <2>9. stranded = {} => \A i \in 1..Len(rows') : rows'[i].status = "active" =>
            rows'[i].text \in vetted /\ rows'[i].version <= begun + 1
      BY <2>4, <2>5 DEF StoreInv
    <2>10. CASE idx < Len(proposals)
      BY <2>1, <2>8, <2>9, <2>10 DEF NextVariant, StoreInv, run, Held
    <2>11. CASE ~ (idx < Len(proposals))
      <3>1. pc' \in {"read", "idle"}
        BY <2>1, <2>11, LeaveTypes DEF NextVariant
      <3>2. pc' # "idle" => iter' >= 1
        BY <1>0, <2>1, <2>11 DEF NextVariant, IterationEnds, ScriptEnds, LoopTypes
      <3> QED
        BY <2>1, <2>8, <2>9, <3>1, <3>2 DEF StoreInv, Held
    <2> QED
      BY <2>10, <2>11
  <1>16. CASE UpsertRaises \/ Stop
    <2>1. /\ ScriptEnds /\ UNCHANGED <<store, notes>> /\ pc # "probe"
      BY <1>16 DEF UpsertRaises, Stop
    <2> QED
      BY <2>1, StoreInvLeave DEF StoreInv, store, notes
  <1>17. CASE Converse
    BY <1>17 DEF Converse, StoreInv, run, locals, suite, notes, Of, AdoptedVersion
  <1>18. CASE \E i \in DOMAIN rows : Rollback(i)
    <2>1. PICK i \in DOMAIN rows : Rollback(i)
      BY <1>18
    <2>2. /\ active' = i /\ rows[i].status = "active"
          /\ UNCHANGED <<rows, pc, run, locals, suite, vetted, stranded, begun>>
      BY <2>1 DEF Rollback
    <2> QED
      BY <2>2 DEF StoreInv, run, locals, suite, Of, AdoptedVersion
  <1>19. CASE UNCHANGED vars
    BY <1>19 DEF vars, StoreInv, store, run, locals, suite, notes, Of, AdoptedVersion
  <1> QED
    BY <1>1, <1>2, <1>3, <1>4, <1>5, <1>6, <1>7, <1>8, <1>9, <1>10, <1>11, <1>12, <1>13, <1>14,
       <1>15, <1>16, <1>17, <1>18, <1>19 DEF Next, Loop, Mishap, Over

(* It holds of the seeded database.                                        *)
LEMMA InitStore == Init => StoreInv
PROOF
  <1> SUFFICES ASSUME Init PROVE StoreInv
    OBVIOUS
  <1>1. rows = <<Row(1, 0, "active")>> /\ Len(rows) = 1 /\ rows[1].version = 1 /\ rows[1].text = 0
        /\ rows[1].status = "active"
    BY DEF Init, Row
  <1> QED
    BY <1>1 DEF Init, StoreInv, Held

(* The live prompt was accepted by the gate, or its pre-flight runs, or a  *)
(* pre-flight before did not put the pointer back.                         *)
THEOREM LivePromptVetted == Spec => []UnvettedOnlyInPreflight
PROOF
  <1>1. Init => StoreInv
    BY InitStore
  <1>2. TypeOK /\ StoreInv => UnvettedOnlyInPreflight
    <2> SUFFICES ASSUME TypeOK, StoreInv, stranded = {}, Live.text \notin vetted
                 PROVE  pc = "probe" /\ active = cand
      BY DEF UnvettedOnlyInPreflight
    <2>1. active \in 1..Len(rows)
      BY TypeParts DEF StoreTypes
    <2>2. rows[active].status # "active"
      BY <2>1 DEF StoreInv, Live
    <2> QED
      BY <2>2 DEF StoreInv
  <1> QED
    BY <1>1, <1>2, InitTypes, NextTypes, StoreInvStep, PTL DEF Spec

-----------------------------------------------------------------------------
(* What the probes ran with, unless the pointer was moved during them, and *)
(* the row an iteration's pre-flights put the pointer back to.             *)
SuiteInv ==
  /\ pc = "probe" /\ ~ moved =>
       /\ active = cand /\ rows[cand].text = proposals[idx]
       /\ probed = 0 => heard = {}
       /\ probed > 0 => heard = {proposals[idx]}
  /\ pc \in {"evaluate", "adopt", "activate"} /\ ~ moved => heard = {proposals[idx]} /\ ~ failed
PointerInv ==
  rollbacks = 0 /\ stranded = {} =>
    /\ pc \in {"baseline", "propose"} \cup (Held \ {"probe"}) => active = base.id
    /\ pc = "probe" => prev = base.id

(* A step that leaves the iteration, or goes on to the next variant, is    *)
(* none of SuiteInv's business; PointerInv holds after it if the pointer   *)
(* is where the iteration found it.                                        *)
LEMMA ElsewhereInv ==
  ASSUME TypeOK, IterationEnds \/ ScriptEnds \/ (pc \in Held /\ NextVariant),
         rollbacks' = 0 /\ stranded' = {} => active' = base.id
  PROVE  SuiteInv' /\ PointerInv'
PROOF
  <1>1. CASE IterationEnds \/ ScriptEnds
    <2>1. pc' \in {"read", "idle"}
      BY <1>1, LeaveTypes
    <2> QED
      BY <2>1 DEF SuiteInv, PointerInv, Held
  <1>2. CASE pc \in Held /\ NextVariant /\ idx < Len(proposals)
    BY <1>2 DEF NextVariant, SuiteInv, PointerInv
  <1>3. CASE NextVariant /\ ~ (idx < Len(proposals))
    BY <1>1, <1>3 DEF NextVariant
  <1> QED
    BY <1>1, <1>2, <1>3

(* Every step keeps what is known of the suite and of the pointer.         *)
LEMMA SuiteInvStep == TypeOK /\ SuiteInv /\ PointerInv /\ [Next]_vars => SuiteInv' /\ PointerInv'
PROOF
  <1> SUFFICES ASSUME TypeOK, SuiteInv, PointerInv, [Next]_vars PROVE SuiteInv' /\ PointerInv'
    OBVIOUS
  <1>0. StoreTypes /\ LoopTypes /\ NoteTypes /\ Len(rows) \in Nat
    BY TypeParts DEF StoreTypes
  <1>1. CASE StartRun
    BY <1>1 DEF StartRun, SuiteInv, PointerInv, Held
  <1>2. CASE ReadActive
    BY <1>2 DEF ReadActive, SuiteInv, PointerInv, Held, store
  <1>3. CASE EvaluateBaseline \/ ReuseBaseline \/ Propose
    <2>1. /\ pc \in {"baseline", "propose"} /\ pc' \in {"propose", "install"}
          /\ UNCHANGED <<active, base, stranded, rollbacks>>
      BY <1>3 DEF EvaluateBaseline, ReuseBaseline, Propose, store, notes
    <2> QED
      BY <2>1 DEF SuiteInv, PointerInv, Held
  <1>4. CASE ProposeNothing
    BY <1>4, ElsewhereInv DEF ProposeNothing, PointerInv, store, notes
  <1>5. CASE Install
    <2>1. PICK v \in PreflightVersions :
            /\ rows'[Len(rows) + 1] = Row(v, proposals[idx], "candidate_preflight")
            /\ cand' = Len(rows) + 1 /\ active' = cand' /\ prev' = active
      BY <1>5, InstallRows
    <2>2. rows'[cand'].text = proposals[idx]
      BY <2>1 DEF Row
    <2>3. /\ pc = "install" /\ pc' = "probe" /\ probed' = 0 /\ heard' = {}
          /\ UNCHANGED <<base, proposals, idx, stranded, rollbacks>>
      BY <1>5 DEF Install, InstallRow, locals, notes
    <2> QED
      BY <2>1, <2>2, <2>3 DEF SuiteInv, PointerInv, Held
  <1>6. CASE InstallFails
    BY <1>6, ElsewhereInv DEF InstallFails, PointerInv, store, notes, Held
  <1>7. CASE Probe
    <2>1. /\ pc = "probe" /\ heard' = heard \cup {rows[active].text} /\ probed' = probed + 1
          /\ UNCHANGED <<rows, active, pc, base, proposals, idx, cand, prev, moved, stranded, rollbacks>>
      BY <1>7 DEF Probe, Live, store, locals, notes
    <2>2. probed \in Nat
      BY <1>0, Bounds DEF LoopTypes
    <2>3. ~ moved => heard' = {proposals[idx]}
      <3>1. ~ moved => heard = {} \/ heard = {proposals[idx]}
        BY <2>1, <2>2 DEF SuiteInv
      <3> QED
        BY <2>1, <3>1 DEF SuiteInv
    <2> QED
      BY <2>1, <2>2, <2>3 DEF SuiteInv, PointerInv, Held
  <1>8. CASE Restore
    <2>1. /\ pc = "probe" /\ probed = NProbes /\ active' = prev
          /\ UNCHANGED <<stranded, rollbacks>> /\ Judge
      BY <1>8 DEF Restore, notes
    <2>2. rollbacks' = 0 /\ stranded' = {} => active' = base.id
      BY <2>1 DEF PointerInv
    <2>3. CASE failed
      BY <2>1, <2>2, <2>3, ElsewhereInv DEF Judge, Held
    <2>4. CASE ~ failed
      <3>1. /\ pc' = "evaluate"
            /\ UNCHANGED <<base, proposals, idx, heard, failed, moved>>
        BY <2>1, <2>4 DEF Judge, locals, suite
      <3>2. ~ moved => heard = {proposals[idx]}
        BY <2>1, Bounds DEF SuiteInv
      <3> QED
        BY <2>2, <2>4, <3>1, <3>2 DEF SuiteInv, PointerInv, Held
    <2> QED
      BY <2>3, <2>4
  <1>9. CASE Interrupt
    BY <1>9, ElsewhereInv DEF Interrupt, PointerInv, notes
  <1>10. CASE RestoreFails \/ DieInPreflight
    BY <1>10, ElsewhereInv DEF RestoreFails, DieInPreflight, Held
  <1>11. CASE \E verdict \in {"adopt", "reject"} : Evaluate(verdict)
    <2>1. /\ pc = "evaluate" /\ pc' \in {"adopt", "reject"}
          /\ UNCHANGED <<active, base, proposals, idx, heard, failed, moved, stranded, rollbacks>>
      BY <1>11 DEF Evaluate, locals, suite
    <2> QED
      BY <2>1 DEF SuiteInv, PointerInv, Held
  <1>12. CASE Adopt
    BY <1>12 DEF Adopt, SuiteInv, PointerInv, locals, suite, notes, Held
  <1>13. CASE Activate
    <2>1. pc' \in {"read", "idle"}
      BY <1>13, LeaveTypes DEF Activate
    <2> QED
      BY <2>1 DEF SuiteInv, PointerInv, Held
  <1>14. CASE Reject
    BY <1>14, ElsewhereInv DEF Reject, PointerInv, notes, Held
  <1>15. CASE UpsertRaises \/ Stop
    <2>1. pc' \in {"read", "idle"}
      BY <1>15, LeaveTypes DEF UpsertRaises, Stop
    <2> QED
      BY <2>1 DEF SuiteInv, PointerInv, Held
  <1>16. CASE Converse
    BY <1>16 DEF Converse, SuiteInv, PointerInv, locals, suite, notes
  <1>17. CASE \E i \in DOMAIN rows : Rollback(i)
    <2>1. PICK i \in DOMAIN rows : Rollback(i)
      BY <1>17
    <2>2. rollbacks' # 0
      BY <1>0, <2>1 DEF Rollback, NoteTypes
    <2>3. /\ moved' = (moved \/ pc = "probe")
          /\ UNCHANGED <<pc, proposals, idx, heard, failed>>
      BY <2>1 DEF Rollback, locals, suite
    <2> QED
      BY <2>2, <2>3 DEF SuiteInv, PointerInv
  <1>18. CASE UNCHANGED vars
    BY <1>18 DEF vars, SuiteInv, PointerInv, store, locals, suite, notes
  <1> QED
    BY <1>1, <1>2, <1>3, <1>4, <1>5, <1>6, <1>7, <1>8, <1>9, <1>10, <1>11, <1>12, <1>13, <1>14,
       <1>15, <1>16, <1>17, <1>18 DEF Next, Loop, Mishap, Over

(* They hold initially: no suite ran and no iteration read the pointer.    *)
LEMMA InitSuite == Init => SuiteInv /\ PointerInv
PROOF
  BY DEF Init, SuiteInv, PointerInv, Held

(* What passes the pre-flight is what every probe ran with.                *)
THEOREM PreflightIsOfCandidate == Spec => []GatedTextWasProbed
PROOF
  <1>1. SuiteInv => GatedTextWasProbed
    BY DEF SuiteInv, GatedTextWasProbed
  <1> QED
    BY <1>1, InitTypes, NextTypes, InitSuite, SuiteInvStep, PTL DEF Spec

(* An adopted prompt replaces the one it was compared with.                *)
THEOREM AdoptionTakesBasePlace == Spec => AdoptionReplacesBase
PROOF
  <1>1. TypeOK /\ PointerInv /\ [Next]_vars =>
          [pc = "activate" /\ active' # active => active = base.id \/ rollbacks > 0 \/ stranded # {}]_vars
    <2> SUFFICES ASSUME TypeOK, PointerInv, pc = "activate"
                 PROVE  active = base.id \/ rollbacks > 0 \/ stranded # {}
      OBVIOUS
    <2>1. rollbacks \in Nat
      BY TypeParts DEF NoteTypes
    <2> QED
      BY <2>1 DEF PointerInv, Held
  <1> QED
    BY <1>1, InitTypes, NextTypes, InitSuite, SuiteInvStep, PTL DEF Spec, AdoptionReplacesBase

-----------------------------------------------------------------------------
(* The line of the adopted prompts, as long as nobody moved the pointer    *)
(* and no candidate was stranded: Home is the row the iteration started    *)
(* from, or will. Numbers below 10000 are those of adopted prompts; at     *)
(* most one is past Home's, that of a prompt adopted and not yet made      *)
(* live, and only that row is ever overwritten: nobody was spoken to or    *)
(* scored under it.                                                        *)
Home == IF pc = "probe" THEN prev ELSE active
InLoop == {"baseline", "propose"} \cup Held

RowsLine ==
  \A i \in 1..Len(rows) : rows[i].version < 10000 =>
    /\ rows[i].version <= rows[Home].version + 1
    /\ \A j \in 1..Len(rows) : rows[j].version = rows[i].version => j = i
HeardLine ==
  \A c \in scored \cup spoken : c.version < 10000 =>
    /\ c.version <= rows[Home].version
    /\ \E i \in 1..Len(rows) : rows[i].version = c.version /\ rows[i].text = c.text
LoopLine ==
  /\ pc \in InLoop => base.version = rows[Home].version /\ base.text = rows[Home].text
  /\ pc = "probe" => rows[active].version >= 10000
  /\ pc \in {"propose"} \cup Held => baseline = {base.text}

LineInv == rollbacks = 0 /\ stranded = {} => RowsLine /\ HeardLine /\ LoopLine

(* Home is a row; in the loop its number is too small for a pre-flight's.  *)
LEMMA HomeRow ==
  ASSUME TypeOK
  PROVE  /\ Home \in 1..Len(rows) /\ Len(rows) \in Nat
         /\ \A i \in 1..Len(rows) : rows[i].version \in Nat /\ rows[i].text \in Nat
PROOF
  <1>1. active \in 1..Len(rows) /\ prev \in 1..Len(rows) /\ Len(rows) \in Nat
    BY TypeParts DEF StoreTypes, LoopTypes
  <1> QED
    BY <1>1, RowFields DEF Home

(* The row an upsert writes is the only one of its number.                 *)
LEMMA UpsertOne ==
  ASSUME TypeOK, NEW v \in Nat, NEW t \in Nat, NEW s \in Statuses, Upsert(v, t, s)
  PROVE  \E n \in 1..Len(rows') :
           /\ Len(rows') \in Nat /\ Len(rows') >= Len(rows)
           /\ rows'[n].version = v /\ rows'[n].status = s
           /\ n \in 1..Len(rows) => rows[n].version = v
           /\ \A i \in 1..Len(rows') : i # n =>
                i \in 1..Len(rows) /\ rows'[i] = rows[i] /\ rows[i].version # v
PROOF
  <1>1. rows \in Seq(Rows) /\ Row(v, t, s) \in Rows /\ Row(v, t, s).version = v
        /\ Row(v, t, s).status = s
    BY TypeParts DEF StoreTypes, Row, Rows
  <1>2. CASE \E i \in Of(v) : Of(v) = {i} /\ rows' = [rows EXCEPT ![i] = Row(v, t, s)]
    <2>1. PICK n \in Of(v) : Of(v) = {n} /\ rows' = [rows EXCEPT ![n] = Row(v, t, s)]
      BY <1>2
    <2>2. n \in 1..Len(rows) /\ rows[n].version = v
          /\ \A j \in 1..Len(rows) : rows[j].version = v => j = n
      BY <2>1, <1>1 DEF Of
    <2>3. Len(rows') = Len(rows) /\ Len(rows) \in Nat /\ rows'[n] = Row(v, t, s)
          /\ \A j \in 1..Len(rows) : j # n => rows'[j] = rows[j]
      BY <2>1, <2>2, <1>1
    <2> QED
      BY <1>1, <2>2, <2>3
  <1>3. CASE Of(v) = {} /\ rows' = Append(rows, Row(v, t, s))
    <2>1. \A j \in 1..Len(rows) : rows[j].version # v
      BY <1>1, <1>3 DEF Of
    <2>2. Len(rows') = Len(rows) + 1 /\ Len(rows) \in Nat /\ rows'[Len(rows) + 1] = Row(v, t, s)
          /\ \A j \in 1..Len(rows) : rows'[j] = rows[j]
      BY <1>1, <1>3
    <2>3. \A i \in 1..Len(rows') : i = Len(rows) + 1 \/ i \in 1..Len(rows)
      BY <2>2
    <2>4. Len(rows) + 1 \in 1..Len(rows') /\ Len(rows) + 1 \notin 1..Len(rows)
      BY <2>2
    <2> QED
      BY <1>1, <2>1, <2>2, <2>3, <2>4
  <1> QED
    BY <1>2, <1>3 DEF Upsert

(* An upsert of the number after Home's, or of a rejected variant's, keeps *)
(* the rows somebody was spoken to or scored under.                        *)
LEMMA UpsertLine ==
  ASSUME TypeOK, RowsLine, HeardLine, NEW v \in Nat, NEW t \in Nat, NEW s \in Statuses, Upsert(v, t, s),
         v # rows[Home].version, v < 10000 => v = rows[Home].version + 1,
         Home' = Home, UNCHANGED <<scored, spoken>>,
         rows[Home].version < 10000
  PROVE  rows'[Home] = rows[Home] /\ RowsLine' /\ HeardLine'
PROOF
  <1>1. PICK n \in 1..Len(rows') :
           /\ Len(rows') \in Nat /\ Len(rows') >= Len(rows)
           /\ rows'[n].version = v /\ rows'[n].status = s
           /\ n \in 1..Len(rows) => rows[n].version = v
           /\ \A i \in 1..Len(rows') : i # n =>
                i \in 1..Len(rows) /\ rows'[i] = rows[i] /\ rows[i].version # v
    BY UpsertOne
  <1> DEFINE h == Home
             V == rows[h].version
  <1>2. h \in 1..Len(rows) /\ Len(rows) \in Nat /\ V \in Nat
        /\ \A i \in 1..Len(rows) : rows[i].version \in Nat
    BY HomeRow
  <1>3. \A i \in 1..Len(rows) : rows[i].version # v => i # n /\ i \in 1..Len(rows') /\ rows'[i] = rows[i]
    BY <1>1, <1>2
  <1>4. V # v /\ (v < 10000 => v = V + 1) /\ Home' = h /\ V < 10000
    OBVIOUS
  <1>5. /\ \A i \in 1..Len(rows) : rows[i].version < 10000 =>
             /\ rows[i].version <= V + 1
             /\ \A j \in 1..Len(rows) : rows[j].version = rows[i].version => j = i
        /\ \A c \in scored \cup spoken : c.version < 10000 =>
             /\ c.version <= V
             /\ \E i \in 1..Len(rows) : rows[i].version = c.version /\ rows[i].text = c.text
    BY DEF RowsLine, HeardLine
  <1> HIDE DEF h, V
  <1>6. rows'[h] = rows[h]
    BY <1>2, <1>3, <1>4 DEF V
  <1>7. ASSUME NEW i \in 1..Len(rows'), rows'[i].version < 10000
        PROVE  /\ rows'[i].version <= V + 1
               /\ \A j \in 1..Len(rows') : rows'[j].version = rows'[i].version => j = i
    <2>1. CASE i = n
      <3>1. rows'[i].version = v /\ v = V + 1
        BY <1>1, <1>4, <1>7, <2>1
      <3>2. \A j \in 1..Len(rows') : j # n => rows'[j].version # v
        BY <1>1
      <3>3. V + 1 <= V + 1
        BY <1>2
      <3> QED
        BY <2>1, <3>1, <3>2, <3>3
    <2>2. CASE i # n
      <3>1. i \in 1..Len(rows) /\ rows'[i] = rows[i] /\ rows[i].version # v
        BY <1>1, <2>2
      <3>2. /\ rows[i].version <= V + 1
            /\ \A j \in 1..Len(rows) : rows[j].version = rows[i].version => j = i
        BY <1>5, <1>7, <3>1
      <3>3. ASSUME NEW j \in 1..Len(rows'), rows'[j].version = rows'[i].version PROVE j = i
        <4>1. j # n
          BY <1>1, <3>1, <3>3
        <4>2. j \in 1..Len(rows) /\ rows'[j] = rows[j]
          BY <1>1, <4>1
        <4> QED
          BY <3>1, <3>2, <3>3, <4>2
      <3> QED
        BY <3>1, <3>2, <3>3
    <2> QED
      BY <2>1, <2>2
  <1>8. ASSUME NEW c \in scored \cup spoken, c.version < 10000
        PROVE  /\ c.version <= V
               /\ \E i \in 1..Len(rows') : rows'[i].version = c.version /\ rows'[i].text = c.text
    <2>1. PICK i \in 1..Len(rows) : rows[i].version = c.version /\ rows[i].text = c.text
      BY <1>5, <1>8
    <2>2. rows[i].version # v
      <3>1. rows[i].version <= V /\ rows[i].version \in Nat /\ rows[i].version < 10000
        BY <1>2, <1>5, <1>8, <2>1
      <3> QED
        BY <1>2, <1>4, <3>1
    <2> QED
      BY <1>3, <1>5, <1>8, <2>1, <2>2
  <1>9. rows'[Home'].version = V /\ scored' \cup spoken' = scored \cup spoken
    BY <1>4, <1>6 DEF V
  <1> QED
    BY <1>6, <1>7, <1>8, <1>9 DEF RowsLine, HeardLine, h

(* The line is the same when the rows and Home are, and what is spoken to  *)
(* or scored is done so with Home's prompt or a pre-flight's.              *)
LEMMA LineStays ==
  ASSUME RowsLine, HeardLine, TypeOK, UNCHANGED rows, Home' = Home,
         \A c \in scored' \cup spoken' :
           c.version \in Nat /\ (c \in scored \cup spoken \/ c.version >= 10000 \/ c = Name(rows[Home]))
  PROVE  RowsLine' /\ HeardLine'
PROOF
  <1>1. RowsLine'
    BY DEF RowsLine
  <1>2. Home \in 1..Len(rows) /\ Len(rows) \in Nat
        /\ \A i \in 1..Len(rows) : rows[i].version \in Nat /\ rows[i].text \in Nat
    BY HomeRow
  <1>3. ASSUME NEW c \in scored' \cup spoken', c.version < 10000
        PROVE  /\ c.version <= rows[Home].version
               /\ \E i \in 1..Len(rows) : rows[i].version = c.version /\ rows[i].text = c.text
    <2>1. CASE c \in scored \cup spoken
      BY <1>3, <2>1 DEF HeardLine
    <2>2. CASE c = Name(rows[Home])
      <3>1. c.version = rows[Home].version /\ c.text = rows[Home].text
        BY <2>2 DEF Name
      <3> QED
        BY <1>2, <3>1
    <2>3. CASE c.version >= 10000 /\ c \notin scored \cup spoken
      <3>1. c.version \in Nat
        BY <1>3
      <3> QED
        BY <1>3, <2>3, <3>1
    <2> QED
      BY <1>3, <2>1, <2>2, <2>3
  <1> QED
    BY <1>1, <1>3 DEF HeardLine

(* Leaving the iteration, or going on, with the pointer at Home.           *)
LEMMA LoopLineLeaves ==
  ASSUME TypeOK, LoopLine, rows'[Home'] = rows[Home],
         IterationEnds \/ ScriptEnds \/ (pc \in Held /\ NextVariant)
  PROVE  LoopLine'
PROOF
  <1>1. CASE IterationEnds \/ ScriptEnds
    <2>1. pc' \in {"read", "idle"}
      BY <1>1, LeaveTypes
    <2> QED
      BY <2>1 DEF LoopLine, InLoop, Held
  <1>2. CASE pc \in Held /\ NextVariant /\ idx < Len(proposals)
    <2>1. pc' = "install" /\ UNCHANGED <<base, baseline>>
      BY <1>2 DEF NextVariant
    <2> QED
      BY <1>2, <2>1 DEF LoopLine, InLoop, Held
  <1>3. CASE NextVariant /\ ~ (idx < Len(proposals))
    BY <1>1, <1>3 DEF NextVariant
  <1> QED
    BY <1>1, <1>2, <1>3

(* Every step keeps the line: one step of the proof per action.            *)
LEMMA LineInvStep == TypeOK /\ StoreInv /\ LineInv /\ [Next]_vars => LineInv'
PROOF
  <1> SUFFICES ASSUME TypeOK, StoreInv, LineInv, [Next]_vars, rollbacks' = 0, stranded' = {}
               PROVE  RowsLine' /\ HeardLine' /\ LoopLine'
    BY DEF LineInv
  <1>0. StoreTypes /\ LoopTypes /\ NoteTypes /\ Len(rows) \in Nat
    BY TypeParts DEF StoreTypes
  <1>1. ASSUME UNCHANGED <<stranded, rollbacks>>
        PROVE  /\ RowsLine /\ HeardLine /\ LoopLine /\ stranded = {}
               /\ pc \in InLoop => rows[Home].version < 10000 /\ rows[Home].version = base.version
               /\ pc = "read" => rows[Home].version < 10000
    <2>1. RowsLine /\ HeardLine /\ LoopLine /\ stranded = {}
      BY <1>1 DEF LineInv
    <2>2. begun \in Nat /\ begun <= MaxIterations /\ MaxIterations \in Nat /\ MaxIterations <= 9999
      BY <1>0, Bounds DEF NoteTypes
    <2>3. CASE pc \in InLoop
      <3>1. base.version = rows[Home].version /\ base.version <= begun
        BY <2>1, <2>3 DEF LoopLine, InLoop, StoreInv
      <3>2. base.version \in Nat
        BY <1>0 DEF LoopTypes
      <3> QED
        BY <2>1, <2>2, <2>3, <3>1, <3>2 DEF InLoop, Held
    <2>4. CASE pc = "read"
      <3>1. rows[active].version <= begun + 1 /\ begun < MaxIterations
        BY <1>0, <2>1, <2>4 DEF StoreInv, StoreTypes, LoopTypes
      <3>2. rows[active].version \in Nat /\ Home = active
        BY <1>0, <2>4, RowFields DEF StoreTypes, Home
      <3>3. rows[active].version < 10000
        BY <2>2, <3>1, <3>2
      <3> QED
        BY <2>1, <2>4, <3>2, <3>3 DEF InLoop, Held
    <2> QED
      BY <2>1, <2>3, <2>4
  <1>2. ASSUME UNCHANGED <<rows, scored, spoken, stranded, rollbacks>>, Home' = Home
        PROVE  RowsLine' /\ HeardLine' /\ rows'[Home'] = rows[Home]
    <2>1. RowsLine /\ HeardLine
      BY <1>1, <1>2
    <2>2. \A c \in scored' \cup spoken' : c.version \in Nat /\ c \in scored \cup spoken
      BY <1>0, <1>2 DEF StoreTypes, Named
    <2> QED
      BY <1>2, <2>1, <2>2, LineStays
  <1>3. CASE StartRun
    <2>1. pc = "idle" /\ pc' = "read" /\ UNCHANGED <<rows, active, scored, spoken, stranded, rollbacks>>
      BY <1>3 DEF StartRun, store, notes
    <2> QED
      BY <1>2, <2>1 DEF Home, LoopLine, InLoop, Held
  <1>4. CASE ReadActive
    <2>1. /\ pc = "read" /\ pc' = "baseline"
          /\ UNCHANGED <<rows, active, scored, spoken, stranded, rollbacks>>
          /\ base' = [id |-> active, version |-> Live.version, text |-> Live.text]
      BY <1>4 DEF ReadActive, store
    <2>2. Home = active /\ Home' = Home
      BY <2>1 DEF Home
    <2>3. base'.version = rows[Home].version /\ base'.text = rows[Home].text
      BY <2>1, <2>2 DEF Live
    <2> QED
      BY <1>2, <2>1, <2>2, <2>3 DEF LoopLine, InLoop, Held
  <1>5. CASE EvaluateBaseline
    <2>1. /\ pc = "baseline" /\ pc' = "propose" /\ baseline' = {base.text}
          /\ scored' = scored \cup {Name(base)}
          /\ UNCHANGED <<rows, active, spoken, base, stranded, rollbacks>>
      BY <1>5 DEF EvaluateBaseline, notes
    <2>2. Home' = Home /\ RowsLine /\ HeardLine /\ LoopLine /\ pc \in InLoop
      BY <1>1, <2>1 DEF Home, InLoop
    <2>3. base.version = rows[Home].version /\ base.text = rows[Home].text
      BY <2>2 DEF LoopLine
    <2>4. Name(base) = Name(rows[Home])
      BY <2>3 DEF Name
    <2>5. \A c \in scored' \cup spoken' :
            c.version \in Nat /\ (c \in scored \cup spoken \/ c = Name(rows[Home]))
      <3>1. rows[Home].version \in Nat
        BY HomeRow
      <3>2. Name(rows[Home]).version \in Nat
        BY <3>1 DEF Name
      <3> QED
        BY <1>0, <2>1, <2>4, <3>2 DEF StoreTypes, Named
    <2>6. RowsLine' /\ HeardLine'
      BY <2>1, <2>2, <2>5, LineStays
    <2> QED
      BY <2>1, <2>2, <2>3, <2>6 DEF LoopLine, InLoop, Held
  <1>6. CASE ReuseBaseline
    <2>1. /\ pc = "baseline" /\ pc' = "propose" /\ baseline' \in (SUBSET Reusable) \ {{}}
          /\ UNCHANGED <<rows, active, scored, spoken, base, stranded, rollbacks>>
      BY <1>6 DEF ReuseBaseline, store, notes
    <2>2. Home' = Home /\ RowsLine /\ HeardLine /\ LoopLine /\ pc \in InLoop
          /\ rows[Home].version < 10000
      BY <1>1, <2>1 DEF Home, InLoop
    <2>3. base.version = rows[Home].version /\ base.text = rows[Home].text
      BY <2>2 DEF LoopLine
    <2>4. \A c \in scored : c.version = base.version => c.text = base.text
      <3>1. SUFFICES ASSUME NEW c \in scored, c.version = base.version PROVE c.text = base.text
        OBVIOUS
      <3>2. PICK i \in 1..Len(rows) : rows[i].version = c.version /\ rows[i].text = c.text
        BY <2>2, <2>3, <3>1 DEF HeardLine
      <3>3. Home = i
        BY <2>2, <2>3, <3>1, <3>2, HomeRow DEF RowsLine
      <3> QED
        BY <2>3, <3>2, <3>3
    <2>5. baseline' = {base.text}
      <3>1. \A t \in Reusable : t = base.text
        BY <2>4 DEF Reusable
      <3>2. baseline' \subseteq Reusable /\ baseline' # {}
        BY <2>1
      <3> QED
        BY <3>1, <3>2
    <2>6. RowsLine' /\ HeardLine'
      BY <1>2, <2>1, <2>2
    <2> QED
      BY <2>1, <2>2, <2>3, <2>5, <2>6 DEF LoopLine, InLoop, Held
  <1>7. CASE Propose
    <2>1. /\ pc = "propose" /\ pc' = "install"
          /\ UNCHANGED <<rows, active, scored, spoken, base, baseline, stranded, rollbacks>>
      BY <1>7 DEF Propose, store
    <2>2. Home' = Home /\ LoopLine
      BY <1>1, <2>1 DEF Home
    <2> QED
      BY <1>2, <2>1, <2>2 DEF LoopLine, InLoop, Held
  <1>8. CASE ProposeNothing \/ InstallFails \/ UpsertRaises \/ Stop
    <2>1. /\ pc # "probe" /\ UNCHANGED <<rows, active, scored, spoken, stranded, rollbacks>>
          /\ (IterationEnds \/ ScriptEnds \/ (pc \in Held /\ NextVariant))
      BY <1>8 DEF ProposeNothing, InstallFails, UpsertRaises, Stop, store, notes, Held
    <2>2. pc' # "probe"
      BY <2>1, LeaveTypes DEF NextVariant
    <2>3. Home' = Home /\ LoopLine
      BY <1>1, <2>1, <2>2 DEF Home
    <2>4. RowsLine' /\ HeardLine' /\ rows'[Home'] = rows[Home]
      BY <1>2, <2>1, <2>3
    <2> QED
      BY <2>1, <2>3, <2>4, LoopLineLeaves
  <1>9. CASE Install
    <2>1. PICK v \in PreflightVersions :
            /\ Len(rows') = Len(rows) + 1
            /\ rows'[Len(rows) + 1] = Row(v, proposals[idx], "candidate_preflight")
            /\ \A i \in 1..Len(rows) : rows'[i] = rows[i]
            /\ cand' = Len(rows) + 1 /\ active' = cand' /\ prev' = active
      BY <1>9, InstallRows
    <2>2. /\ pc = "install" /\ pc' = "probe"
          /\ UNCHANGED <<scored, spoken, base, baseline, stranded, rollbacks>>
      BY <1>9 DEF Install, InstallRow, locals, notes
    <2>3. v \in Nat /\ v >= 10000 /\ rows'[Len(rows) + 1].version = v
      <3>1. v \in 10000..19999
        BY LearnerAssumption
      <3>2. v \in Nat /\ v >= 10000
        BY <3>1
      <3> QED
        BY <2>1, <3>2 DEF Row
    <2>4. Home = active /\ Home' = Home /\ Home \in 1..Len(rows)
      BY <2>1, <2>2, HomeRow DEF Home
    <2>5. RowsLine /\ HeardLine /\ LoopLine /\ rows'[Home] = rows[Home]
      BY <1>1, <2>1, <2>2, <2>4
    <2>6. \A i \in 1..Len(rows') :
            rows'[i].version < 10000 => i \in 1..Len(rows) /\ rows'[i] = rows[i]
      <3>1. \A i \in 1..Len(rows') : i \in 1..Len(rows) \/ i = Len(rows) + 1
        BY <1>0, <2>1
      <3> QED
        BY <2>1, <2>3, <3>1
    <2>7. RowsLine'
      <3>1. ASSUME NEW i \in 1..Len(rows'), rows'[i].version < 10000
            PROVE  /\ rows'[i].version <= rows[Home].version + 1
                   /\ \A j \in 1..Len(rows') : rows'[j].version = rows'[i].version => j = i
        <4>1. i \in 1..Len(rows) /\ rows'[i] = rows[i] /\ rows[i].version < 10000
          BY <2>6, <3>1
        <4>2. \A j \in 1..Len(rows) : rows[j].version = rows[i].version => j = i
          BY <2>5, <4>1 DEF RowsLine
        <4>3. rows[i].version <= rows[Home].version + 1
          BY <2>5, <4>1 DEF RowsLine
        <4>4. ASSUME NEW j \in 1..Len(rows'), rows'[j].version = rows'[i].version PROVE j = i
          <5>1. rows'[j].version < 10000
            BY <3>1, <4>4
          <5> QED
            BY <2>6, <4>1, <4>2, <4>4, <5>1
        <4> QED
          BY <4>1, <4>3, <4>4
      <3> QED
        BY <2>4, <2>5, <3>1 DEF RowsLine
    <2>8. HeardLine'
      <3>1. \A i \in 1..Len(rows) : i \in 1..Len(rows') /\ rows'[i] = rows[i]
        BY <1>0, <2>1
      <3>2. \A c \in scored \cup spoken : c.version < 10000 =>
              /\ c.version <= rows[Home].version
              /\ \E i \in 1..Len(rows') : rows'[i].version = c.version /\ rows'[i].text = c.text
        BY <2>5, <3>1 DEF HeardLine
      <3> QED
        BY <2>2, <2>4, <2>5, <3>2 DEF HeardLine
    <2>9. rows'[active'].version >= 10000
      BY <2>1, <2>3
    <2> QED
      BY <2>2, <2>4, <2>5, <2>7, <2>8, <2>9 DEF LoopLine, InLoop, Held
  <1>10. CASE Probe
    <2>1. /\ pc = "probe" /\ pc' = pc
          /\ UNCHANGED <<rows, active, scored, spoken, base, baseline, prev, stranded, rollbacks>>
      BY <1>10 DEF Probe, store, locals, notes
    <2>2. Home' = Home /\ LoopLine
      BY <1>1, <2>1 DEF Home
    <2> QED
      BY <1>2, <2>1, <2>2 DEF LoopLine, InLoop, Held
  <1>11. CASE Restore
    <2>1. /\ pc = "probe" /\ active' = prev /\ Judge
          /\ UNCHANGED <<rows, scored, spoken, stranded, rollbacks>>
      BY <1>11 DEF Restore, notes
    <2>2. CASE failed
      <3>1. NextVariant /\ pc \in Held
        BY <2>1, <2>2 DEF Judge, Held
      <3>2. pc' # "probe"
        BY <3>1, LeaveTypes DEF NextVariant
      <3>3. Home' = Home /\ LoopLine
        BY <1>1, <2>1, <3>2 DEF Home
      <3>4. RowsLine' /\ HeardLine' /\ rows'[Home'] = rows[Home]
        BY <1>2, <2>1, <3>3
      <3> QED
        BY <3>1, <3>3, <3>4, LoopLineLeaves
    <2>3. CASE ~ failed
      <3>1. pc' = "evaluate" /\ UNCHANGED <<base, baseline>>
        BY <2>1, <2>3 DEF Judge, locals
      <3>2. Home' = Home /\ LoopLine
        BY <1>1, <2>1, <3>1 DEF Home
      <3> QED
        BY <1>2, <2>1, <3>1, <3>2 DEF LoopLine, InLoop, Held
    <2> QED
      BY <2>2, <2>3
  <1>12. CASE Interrupt
    <2>1. /\ pc = "probe" /\ active' = prev /\ ScriptEnds
          /\ UNCHANGED <<rows, scored, spoken, stranded, rollbacks>>
      BY <1>12 DEF Interrupt, notes
    <2>2. Home' = Home /\ LoopLine
      BY <1>1, <2>1 DEF Home, ScriptEnds
    <2>3. RowsLine' /\ HeardLine' /\ rows'[Home'] = rows[Home]
      BY <1>2, <2>1, <2>2
    <2> QED
      BY <2>1, <2>2, <2>3, LoopLineLeaves
  <1>13. CASE RestoreFails \/ DieInPreflight
    BY <1>13 DEF RestoreFails, DieInPreflight
  <1>14. CASE \E verdict \in {"adopt", "reject"} : Evaluate(verdict)
    <2>1. /\ pc = "evaluate" /\ pc' \in {"adopt", "reject"}
          /\ scored' \in {scored, scored \cup {Name(Live)}}
          /\ UNCHANGED <<rows, active, spoken, base, baseline, stranded, rollbacks>>
      BY <1>14 DEF Evaluate, locals
    <2>2. Home = active /\ Home' = Home /\ RowsLine /\ HeardLine /\ LoopLine
      BY <1>1, <2>1 DEF Home
    <2>3. \A c \in scored' \cup spoken' :
            c.version \in Nat /\ (c \in scored \cup spoken \/ c = Name(rows[Home]))
      <3>1. rows[Home].version \in Nat
        BY HomeRow
      <3>2. Name(rows[Home]).version \in Nat /\ Name(Live) = Name(rows[Home])
        BY <2>2, <3>1 DEF Name, Live
      <3> QED
        BY <1>0, <2>1, <3>2 DEF StoreTypes, Named
    <2>4. RowsLine' /\ HeardLine'
      BY <2>1, <2>2, <2>3, LineStays
    <2> QED
      BY <2>1, <2>2, <2>4 DEF LoopLine, InLoop, Held
  <1>15. CASE Adopt
    <2>1. /\ pc = "adopt" /\ pc' = "activate" /\ Upsert(AdoptedVersion, proposals[idx], "active")
          /\ UNCHANGED <<active, scored, spoken, base, baseline, stranded, rollbacks>>
      BY <1>15 DEF Adopt, locals, notes
    <2>2. /\ Home' = Home /\ RowsLine /\ HeardLine /\ LoopLine
          /\ rows[Home].version < 10000 /\ rows[Home].version = base.version
      BY <1>1, <2>1 DEF Home, InLoop, Held
    <2>3. AdoptedVersion \in Nat /\ proposals[idx] \in Nat /\ "active" \in Statuses
      BY <2>1, LoopNumbers DEF Held, Statuses
    <2>4. AdoptedVersion # rows[Home].version /\ AdoptedVersion = rows[Home].version + 1
      <3>1. base.version \in Nat
        BY <1>0 DEF LoopTypes
      <3> QED
        BY <2>2, <3>1 DEF AdoptedVersion
    <2>5. rows'[Home] = rows[Home] /\ RowsLine' /\ HeardLine'
      BY <2>1, <2>2, <2>3, <2>4, UpsertLine
    <2> QED
      BY <2>1, <2>2, <2>5 DEF LoopLine, InLoop, Held
  <1>16. CASE Activate
    <2>1. /\ pc = "activate" /\ active' \in Of(AdoptedVersion) /\ IterationEnds
          /\ UNCHANGED <<rows, scored, spoken, stranded, rollbacks>>
      BY <1>16 DEF Activate, notes
    <2>2. pc' \in {"read", "idle"}
      BY <2>1, LeaveTypes
    <2>3. /\ RowsLine /\ HeardLine /\ Home = active /\ Home' = active'
          /\ rows[Home].version = base.version
      BY <1>1, <2>1, <2>2 DEF Home, InLoop, Held
    <2>4. rows[active'].version = base.version + 1 /\ base.version \in Nat
      BY <1>0, <2>1 DEF Of, AdoptedVersion, LoopTypes
    <2>5. \A i \in 1..Len(rows) : rows[i].version \in Nat
      BY HomeRow
    <2>6. RowsLine'
      <3>1. ASSUME NEW i \in 1..Len(rows), rows[i].version < 10000
            PROVE  /\ rows[i].version <= rows[active'].version + 1
                   /\ \A j \in 1..Len(rows) : rows[j].version = rows[i].version => j = i
        BY <2>3, <2>4, <2>5, <3>1 DEF RowsLine
      <3> QED
        BY <2>1, <2>3, <3>1 DEF RowsLine
    <2>7. HeardLine'
      <3>1. ASSUME NEW c \in scored \cup spoken, c.version < 10000
            PROVE  /\ c.version <= rows[active'].version
                   /\ \E i \in 1..Len(rows) : rows[i].version = c.version /\ rows[i].text = c.text
        <4>1. /\ c.version <= rows[Home].version
              /\ \E i \in 1..Len(rows) : rows[i].version = c.version /\ rows[i].text = c.text
          BY <2>3, <3>1 DEF HeardLine
        <4>2. c.version \in Nat
          BY <1>0 DEF StoreTypes, Named
        <4> QED
          BY <2>3, <2>4, <4>1, <4>2
      <3> QED
        BY <2>1, <2>3, <3>1 DEF HeardLine
    <2> QED
      BY <2>2, <2>6, <2>7 DEF LoopLine, InLoop, Held
  <1>17. CASE Reject
    <2>1. /\ pc = "reject" /\ Upsert(RejectedVersion, proposals[idx], "rejected") /\ NextVariant
          /\ UNCHANGED <<active, scored, spoken, stranded, rollbacks>>
      BY <1>17 DEF Reject, notes
    <2>2. pc' # "probe"
      BY <2>1, LeaveTypes DEF NextVariant
    <2>3. /\ Home' = Home /\ RowsLine /\ HeardLine /\ LoopLine
          /\ rows[Home].version < 10000
      BY <1>1, <2>1, <2>2 DEF Home, InLoop, Held
    <2>4. /\ RejectedVersion \in Nat /\ proposals[idx] \in Nat /\ "rejected" \in Statuses
          /\ RejectedVersion >= 10000 + iter * 100 /\ iter \in Nat
      BY <1>0, <2>1, LoopNumbers DEF Held, Statuses, LoopTypes
    <2>5. /\ RejectedVersion # rows[Home].version
          /\ RejectedVersion < 10000 => RejectedVersion = rows[Home].version + 1
      <3>1. rows[Home].version \in Nat
        BY HomeRow
      <3>2. RejectedVersion >= 10000
        BY <2>4
      <3> QED
        BY <2>3, <2>4, <3>1, <3>2
    <2>6. rows'[Home] = rows[Home] /\ RowsLine' /\ HeardLine'
      BY <2>1, <2>3, <2>4, <2>5, UpsertLine
    <2>7. pc \in Held
      BY <2>1 DEF Held
    <2> QED
      BY <2>1, <2>3, <2>6, <2>7, LoopLineLeaves
  <1>18. CASE Converse
    <2>1. /\ spoken' = spoken \cup {Name(Live)}
          /\ UNCHANGED <<rows, active, scored, pc, base, baseline, prev, stranded, rollbacks>>
      BY <1>18 DEF Converse, locals, suite, notes
    <2>2. Home' = Home /\ RowsLine /\ HeardLine /\ LoopLine
      BY <1>1, <2>1 DEF Home
    <2>3. Name(Live).version = rows[active].version /\ rows[active].version \in Nat
      BY <1>0, RowFields DEF Name, Live, StoreTypes
    <2>4. Name(Live).version >= 10000 \/ Name(Live) = Name(rows[Home])
      BY <2>2, <2>3 DEF LoopLine, Home, Live
    <2>5. \A c \in scored' \cup spoken' :
            c.version \in Nat /\ (c \in scored \cup spoken \/ c.version >= 10000 \/ c = Name(rows[Home]))
      BY <1>0, <2>1, <2>3, <2>4 DEF StoreTypes, Named
    <2>6. RowsLine' /\ HeardLine'
      BY <2>1, <2>2, <2>5, LineStays
    <2> QED
      BY <2>1, <2>2, <2>6 DEF LoopLine, InLoop, Held
  <1>19. CASE \E i \in DOMAIN rows : Rollback(i)
    BY <1>0, <1>19 DEF Rollback, NoteTypes
  <1>20. CASE UNCHANGED vars
    <2>1. UNCHANGED <<rows, active, scored, spoken, pc, base, baseline, prev, stranded, rollbacks>>
      BY <1>20 DEF vars, store, locals, suite, notes
    <2>2. Home' = Home /\ LoopLine
      BY <1>1, <2>1 DEF Home
    <2> QED
      BY <1>2, <2>1, <2>2 DEF LoopLine, InLoop, Held
  <1> QED
    BY <1>3, <1>4, <1>5, <1>6, <1>7, <1>8, <1>9, <1>10, <1>11, <1>12, <1>13, <1>14, <1>15,
       <1>16, <1>17, <1>18, <1>19, <1>20 DEF Next, Loop, Mishap, Over

(* It holds of the seeded database.                                        *)
LEMMA InitLine == Init => LineInv
PROOF
  <1> SUFFICES ASSUME Init PROVE LineInv
    OBVIOUS
  <1>1. rows = <<Row(1, 0, "active")>> /\ Len(rows) = 1 /\ rows[1].version = 1 /\ rows[1].text = 0
        /\ rows[1].status = "active"
    BY DEF Init, Row
  <1>2. /\ active = 1 /\ pc = "idle" /\ begun = 0 /\ vetted = {0} /\ stranded = {}
        /\ scored = {} /\ spoken = {}
    BY DEF Init
  <1>3. RowsLine /\ HeardLine /\ LoopLine
    BY <1>1, <1>2 DEF RowsLine, HeardLine, LoopLine, Home, InLoop, Held
  <1> QED
    BY <1>3 DEF LineInv

(* The baseline's scores were made by the prompt the variant revises.      *)
THEOREM BaselinesAreOfBase == Spec => []BaselineIsOfBase
PROOF
  <1>1. LineInv => BaselineIsOfBase
    BY DEF LineInv, LoopLine, BaselineIsOfBase, Held
  <1> QED
    BY <1>1, InitTypes, NextTypes, StoreInvStep, InitStore, InitLine, LineInvStep, PTL DEF Spec

(* The conversations held during a pre-flight: their number is still that  *)
(* of the candidate's row, or a rejected variant has taken it. An adoption *)
(* never does, for its number is too small.                                *)
PreflightHeard ==
  \A c \in scored \cup spoken : c.version >= 10000 =>
    \E i \in 1..Len(rows) : /\ rows[i].version = c.version
                            /\ rows[i].text = c.text \/ rows[i].status = "rejected"
PreflightLine == rollbacks = 0 /\ stranded = {} => PreflightHeard

(* It stays when the rows of such numbers do or become a reject's, and who *)
(* is newly spoken to or scored is so with the live prompt or an adopted.  *)
LEMMA PreflightStays ==
  ASSUME TypeOK, PreflightHeard,
         \A i \in 1..Len(rows) : rows[i].version >= 10000 =>
           /\ i \in 1..Len(rows') /\ rows'[i].version = rows[i].version
           /\ rows'[i] = rows[i] \/ rows'[i].status = "rejected",
         \A c \in scored' \cup spoken' :
           c \in scored \cup spoken \/ c = Name(Live) \/ ~ (c.version >= 10000)
  PROVE  PreflightHeard'
PROOF
  <1>1. SUFFICES ASSUME NEW c \in scored' \cup spoken', c.version >= 10000
                 PROVE  \E i \in 1..Len(rows') :
                          /\ rows'[i].version = c.version
                          /\ rows'[i].text = c.text \/ rows'[i].status = "rejected"
    BY DEF PreflightHeard
  <1>2. \E i \in 1..Len(rows) : /\ rows[i].version = c.version
                                /\ rows[i].text = c.text \/ rows[i].status = "rejected"
    <2>1. CASE c \in scored \cup spoken
      BY <1>1, <2>1 DEF PreflightHeard
    <2>2. CASE c = Name(Live)
      <3>1. active \in 1..Len(rows)
        BY TypeParts DEF StoreTypes
      <3> QED
        BY <2>2, <3>1 DEF Name, Live
    <2> QED
      BY <1>1, <2>1, <2>2
  <1>3. PICK i \in 1..Len(rows) : /\ rows[i].version = c.version
                                  /\ rows[i].text = c.text \/ rows[i].status = "rejected"
    BY <1>2
  <1>4. /\ i \in 1..Len(rows') /\ rows'[i].version = c.version
        /\ rows'[i] = rows[i] \/ rows'[i].status = "rejected"
    BY <1>1, <1>3
  <1> QED
    BY <1>3, <1>4

(* Only an installation, an adoption and a rejection write rows.           *)
LEMMA PreflightLineStep ==
  TypeOK /\ StoreInv /\ PreflightLine /\ [Next]_vars => PreflightLine'
PROOF
  <1> SUFFICES ASSUME TypeOK, StoreInv, PreflightLine, [Next]_vars, rollbacks' = 0, stranded' = {}
               PROVE  PreflightHeard'
    BY DEF PreflightLine
  <1>0. StoreTypes /\ LoopTypes /\ NoteTypes /\ Len(rows) \in Nat
    BY TypeParts DEF StoreTypes
  <1>1. ASSUME UNCHANGED <<stranded, rollbacks>> PROVE PreflightHeard /\ stranded = {}
    BY <1>1 DEF PreflightLine
  <1>2. ASSUME UNCHANGED <<stranded, rollbacks>>, pc \in InLoop
        PROVE  base.version \in Nat /\ base.version < 9999
    <2>1. begun \in Nat /\ begun <= MaxIterations /\ MaxIterations \in Nat /\ MaxIterations <= 9998
      BY <1>0, Bounds DEF NoteTypes
    <2>2. base.version \in Nat /\ base.version <= begun
      BY <1>0, <1>1, <1>2 DEF LoopTypes, StoreInv, InLoop
    <2> QED
      BY <2>1, <2>2
  <1>3. ASSUME UNCHANGED <<rows, stranded, rollbacks>>,
               \A c \in scored' \cup spoken' :
                 c \in scored \cup spoken \/ c = Name(Live) \/ ~ (c.version >= 10000)
        PROVE  PreflightHeard'
    BY <1>1, <1>3, PreflightStays
  <1>4. CASE EvaluateBaseline
    <2>1. /\ pc \in InLoop /\ scored' = scored \cup {Name(base)}
          /\ UNCHANGED <<rows, spoken, stranded, rollbacks>>
      BY <1>4 DEF EvaluateBaseline, InLoop, notes
    <2>2. ~ (Name(base).version >= 10000)
      BY <1>2, <2>1 DEF Name
    <2> QED
      BY <1>3, <2>1, <2>2
  <1>5. CASE Converse \/ \E verdict \in {"adopt", "reject"} : Evaluate(verdict)
    <2>1. /\ scored' \cup spoken' \subseteq scored \cup spoken \cup {Name(Live)}
          /\ UNCHANGED <<rows, stranded, rollbacks>>
      BY <1>5 DEF Converse, Evaluate, notes
    <2> QED
      BY <1>3, <2>1
  <1>6. CASE Install
    <2>1. /\ Len(rows') = Len(rows) + 1
          /\ \A i \in 1..Len(rows) : rows'[i] = rows[i]
      BY <1>6, InstallRows
    <2>2. UNCHANGED <<scored, spoken, stranded, rollbacks>>
      BY <1>6 DEF Install, InstallRow, notes
    <2>3. \A i \in 1..Len(rows) : i \in 1..Len(rows') /\ rows'[i] = rows[i]
      BY <1>0, <2>1
    <2> QED
      BY <1>1, <2>2, <2>3, PreflightStays
  <1>7. ASSUME NEW v \in Nat, NEW t \in Nat, NEW s \in Statuses, Upsert(v, t, s),
               v >= 10000 => s = "rejected",
               UNCHANGED <<scored, spoken, stranded, rollbacks>>
        PROVE  PreflightHeard'
    <2>1. PICK n \in 1..Len(rows') :
            /\ Len(rows') \in Nat /\ Len(rows') >= Len(rows)
            /\ rows'[n].version = v /\ rows'[n].status = s
            /\ n \in 1..Len(rows) => rows[n].version = v
            /\ \A i \in 1..Len(rows') : i # n =>
                 i \in 1..Len(rows) /\ rows'[i] = rows[i] /\ rows[i].version # v
      BY <1>7, UpsertOne
    <2>2. \A i \in 1..Len(rows) : i \in 1..Len(rows')
      BY <1>0, <2>1
    <2>3. \A i \in 1..Len(rows) : rows[i].version >= 10000 =>
            /\ i \in 1..Len(rows') /\ rows'[i].version = rows[i].version
            /\ rows'[i] = rows[i] \/ rows'[i].status = "rejected"
      BY <1>7, <2>1, <2>2
    <2> QED
      BY <1>1, <1>7, <2>3, PreflightStays
  <1>8. CASE Adopt
    <2>1. /\ pc = "adopt" /\ Upsert(AdoptedVersion, proposals[idx], "active")
          /\ UNCHANGED <<scored, spoken, stranded, rollbacks>>
      BY <1>8 DEF Adopt, notes
    <2>2. AdoptedVersion \in Nat /\ proposals[idx] \in Nat /\ "active" \in Statuses
      BY <2>1, LoopNumbers DEF Held, Statuses
    <2>3. ~ (AdoptedVersion >= 10000)
      BY <1>2, <2>1 DEF AdoptedVersion, InLoop, Held
    <2> QED
      BY <1>7, <2>1, <2>2, <2>3
  <1>9. CASE Reject
    <2>1. /\ pc = "reject" /\ Upsert(RejectedVersion, proposals[idx], "rejected")
          /\ UNCHANGED <<scored, spoken, stranded, rollbacks>>
      BY <1>9 DEF Reject, notes
    <2>2. RejectedVersion \in Nat /\ proposals[idx] \in Nat /\ "rejected" \in Statuses
      BY <2>1, LoopNumbers DEF Held, Statuses
    <2> QED
      BY <1>7, <2>1, <2>2
  <1>10. CASE \/ StartRun \/ ReadActive \/ ReuseBaseline \/ Propose \/ ProposeNothing
              \/ InstallFails \/ UpsertRaises \/ Stop \/ UNCHANGED vars
    <2>1. UNCHANGED <<rows, scored, spoken, stranded, rollbacks>>
      BY <1>10 DEF StartRun, ReadActive, ReuseBaseline, Propose, ProposeNothing, InstallFails,
         UpsertRaises, Stop, store, notes, vars
    <2> QED
      BY <1>3, <2>1
  <1>11. CASE Probe \/ Restore \/ Interrupt \/ Activate
    <2>1. UNCHANGED <<rows, scored, spoken, stranded, rollbacks>>
      BY <1>11 DEF Probe, Restore, Interrupt, Activate, store, notes
    <2> QED
      BY <1>3, <2>1
  <1>12. CASE RestoreFails \/ DieInPreflight
    BY <1>12 DEF RestoreFails, DieInPreflight
  <1>13. CASE \E i \in DOMAIN rows : Rollback(i)
    BY <1>0, <1>13 DEF Rollback, NoteTypes
  <1> QED
    BY <1>4, <1>5, <1>6, <1>8, <1>9, <1>10, <1>11, <1>12, <1>13 DEF Next, Loop, Mishap, Over

(* A conversation's version number leads to the text it was held with, a   *)
(* pre-flight's too unless a rejected variant has taken the number.        *)
THEOREM ConversationsCanBeTraced == Spec => []ConversationsTraceable
PROOF
  <1>1. TypeOK /\ LineInv /\ PreflightLine => ConversationsTraceable
    <2> SUFFICES ASSUME TypeOK, LineInv, PreflightLine, rollbacks = 0, stranded = {},
                        NEW c \in scored \cup spoken
                 PROVE  \E i \in Of(c.version) : rows[i].text = c.text \/ TakenByReject(i)
      BY DEF ConversationsTraceable
    <2>1. c.version \in Nat /\ rows \in Seq(Rows)
      BY TypeParts DEF StoreTypes, Named
    <2>2. CASE c.version < 10000
      <3>1. PICK i \in 1..Len(rows) : rows[i].version = c.version /\ rows[i].text = c.text
        BY <2>2 DEF LineInv, HeardLine
      <3>2. i \in Of(c.version)
        BY <2>1, <3>1 DEF Of
      <3> QED
        BY <3>1, <3>2
    <2>3. CASE c.version >= 10000
      <3>1. PICK i \in 1..Len(rows) : /\ rows[i].version = c.version
                                      /\ rows[i].text = c.text \/ rows[i].status = "rejected"
        BY <2>3 DEF PreflightLine, PreflightHeard
      <3>2. i \in Of(c.version)
        BY <2>1, <3>1 DEF Of
      <3> QED
        BY <2>3, <3>1, <3>2 DEF TakenByReject
    <2> QED
      BY <2>1, <2>2, <2>3
  <1>2. Init => PreflightLine
    BY DEF Init, PreflightLine, PreflightHeard
  <1> QED
    BY <1>1, <1>2, InitTypes, NextTypes, StoreInvStep, InitStore, InitLine, LineInvStep,
       PreflightLineStep, PTL DEF Spec
=============================================================================
