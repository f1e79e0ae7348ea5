--------------------------- MODULE RegistryProofs ---------------------------
(***************************************************************************)
(* Theorems about Registry for every set of iteration ids, every number of *)
(* variants, texts, scripts, rollbacks and removals of the database, and   *)
(* every number a pre-flight may take.                                     *)
(*                                                                         *)
(* TypeOK is inductive with a few facts about where loop and script are    *)
(* (Types). Relative to it, four invariants carry the safety properties:   *)
(* LiveInv says which texts may go live, SeedInv how far a seeding has     *)
(* come, ScoredInv which scores and which rejected rows belong together,   *)
(* KeepInv which number was reached and what was written below it.         *)
(***************************************************************************)
EXTENDS Registry, FiniteSetTheorems, WellFoundedInduction, TLAPS

Rows == [version : Nat, text : Nat, status : Statuses, iter : Nat]

(* The types of the store, of the loop, of the script and of the notes.    *)
StoreTypes ==
  /\ rows \in Seq(Rows)
  /\ active \in 0..Len(rows)
  /\ files \subseteq [version : Nat, text : Nat] /\ files # {}
  /\ \A f, g \in files : f.version = g.version => f = g
  /\ csv \subseteq Score
LoopTypes ==
  /\ lpc \in {"idle", "install", "probe", "evaluate", "adopt", "activate", "reject", "csv"}
  /\ iter \in Nat /\ base \in Nat /\ idx \in Nat /\ text \in Nat
  /\ prev \in 0..Len(rows) /\ scores \subseteq Score
  /\ lpc = "idle" => prev = 0
  /\ lpc # "idle" => iter \in Iterations
ScriptTypes ==
  /\ spc \in {"idle", "seed", "pointer", "seeded", "lift", "find", "number", "write", "point"}
  /\ todo \subseteq {f.version : f \in files} /\ (spc \in {"seed", "pointer"} => todo # {})
  /\ found \in Nat /\ num \in Nat /\ arg \in Score
  /\ spc = "pointer" => Of(First) # {}
NoteTypes ==
  /\ accepted \subseteq Nat /\ used \subseteq Iterations
  /\ reused \in BOOLEAN /\ stranded \in BOOLEAN /\ crossed \in BOOLEAN /\ mistaken \in BOOLEAN
  /\ written \in Nat /\ begun \in 0..MaxBegun /\ scripts \in Nat /\ rollbacks \in Nat /\ wipes \in Nat
Types == StoreTypes /\ LoopTypes /\ ScriptTypes /\ NoteTypes

(* Loop and scripts overlap only if that was noted.                        *)
SoloInv == ~ crossed => lpc = "idle" \/ spc = "idle"

(* The numbers of adopted prompts stay below those of rejected variants.   *)
Line == 1000 + begun

(* While no pre-flight died, no script ran beside an iteration and         *)
(* re_decide mistook no text: what is marked active or is on disk was      *)
(* accepted, the pointer is at such a row, or will be put back to one, and *)
(* what loop and script are about to mark active was accepted too.         *)
Calm == ~ stranded /\ ~ crossed /\ ~ mistaken
LiveRows ==
  \A i \in 1..Len(rows) : rows[i].status = "active" =>
    rows[i].text \in accepted /\ rows[i].version <= Line
LiveFiles == \A f \in files : f.text \in accepted /\ f.version <= Line
LivePointer ==
  /\ active # 0 /\ lpc # "probe" => rows[active].status = "active"
  /\ lpc = "probe" => prev # 0 /\ rows[prev].status = "active"
LiveLoop ==
  /\ lpc = "adopt" => text \in accepted
  /\ lpc # "idle" => base + 1 <= Line
  /\ lpc = "activate" => \A i \in Of(base + 1) : rows[i].status = "active"
LiveScript ==
  /\ spc = "find" => arg.text \in accepted
  /\ spc \in {"number", "write", "point", "lift"} => found \in accepted
  /\ spc \in {"write", "point", "lift"} => num <= Line
  /\ spc = "pointer" => \A i \in Of(First) : rows[i].status = "active"
  /\ spc = "point" => \A i \in Of(num) : rows[i].status = "active"
LiveInv == Calm => LiveRows /\ LiveFiles /\ LivePointer /\ LiveLoop /\ LiveScript

(* How far a seeding is: the files that are done are rows.                 *)
SeedInv ==
  ~ crossed =>
    /\ spc = "seeded" => active # 0 /\ todo = {}
    /\ spc \in {"seed", "pointer", "seeded"} =>
         \A f \in files : f.version \notin todo \/ (spc = "pointer" /\ f.version = First)
                          => \E i \in Of(f.version) : rows[i].text = f.text

(* While no iteration id was given twice: the rejected rows of an iteration*)
(* have texts that were scored in it, its scores are written once, and     *)
(* what re_decide has read is still on disk.                               *)
ScoredRows ==
  \A i \in 1..Len(rows) :
    /\ rows[i].status = "rejected" => rows[i].iter \in used
    /\ rows[i].status = "candidate_preflight" => rows[i].iter = 0
    /\ rows[i].status = "rejected" /\ (\E c \in csv : c.iter = rows[i].iter)
         => \E c \in csv : c.iter = rows[i].iter /\ c.text = rows[i].text
    /\ rows[i].status = "rejected" /\ lpc # "idle" /\ rows[i].iter = iter
         => \E c \in scores : c.text = rows[i].text
ScoredFiles == \A c \in csv : c.iter \in used /\ (lpc # "idle" => c.iter # iter)
ScoredLoop ==
  /\ lpc # "idle" => iter \in used
  /\ \A c \in scores : c.iter = iter
  /\ lpc = "reject" => \E c \in scores : c.text = text
ScoredFind ==
  /\ spc \in {"find", "number"} => arg \in csv
  /\ spc = "number" /\ OnlyReject => found = arg.text
ScoredInv == ~ reused => ScoredRows /\ ScoredFiles /\ ScoredLoop /\ ScoredFind

-----------------------------------------------------------------------------
(* Choosing the least or the greatest of some numbers.                     *)
LEMMA LeastOfSome ==
  ASSUME NEW T, T \subseteq Nat, T # {}
  PROVE  \E x \in T : \A y \in T : x <= y
PROOF
  <1>1. \E x \in T : \A y \in T : ~ (<<y, x>> \in OpToRel(<, Nat))
    BY NatLessThanWellFounded, WFMin
  <1>2. PICK x \in T : \A y \in T : ~ (<<y, x>> \in OpToRel(<, Nat))
    BY <1>1
  <1>3. ASSUME NEW y \in T PROVE x <= y
    <2>1. x \in Nat /\ y \in Nat
      OBVIOUS
    <2>2. <<y, x>> \notin OpToRel(<, Nat)
      BY <1>2
    <2>3. ~ (y < x)
      BY <2>1, <2>2 DEF OpToRel
    <2> QED
      BY <2>1, <2>3
  <1> QED
    BY <1>3

LEMMA GreatestOfSome ==
  ASSUME NEW T, T \subseteq Nat, T # {}, NEW b \in Nat, \A t \in T : t <= b
  PROVE  \E x \in T : \A y \in T : y <= x
PROOF
  <1> DEFINE D == {b - t : t \in T}
  <1>1. D \subseteq Nat /\ D # {}
    <2>1. \A t \in T : b - t \in Nat
      OBVIOUS
    <2> QED
      BY <2>1
  <1>2. \A t \in T : b - t \in D
    OBVIOUS
  <1>3. \A d \in D : \E t \in T : d = b - t
    OBVIOUS
  <1> HIDE DEF D
  <1>4. PICK d \in D : \A e \in D : d <= e
    BY <1>1, LeastOfSome
  <1>5. PICK x \in T : d = b - x
    BY <1>3
  <1>6. ASSUME NEW y \in T PROVE y <= x
    <2>1. b - x <= b - y
      BY <1>2, <1>4, <1>5
    <2>2. x \in Nat /\ y \in Nat
      OBVIOUS
    <2> QED
      BY <2>1, <2>2
  <1> QED
    BY <1>6

(* The rows and the fields of one.                                         *)
LEMMA RowFields ==
  ASSUME StoreTypes
  PROVE  /\ rows \in Seq(Rows) /\ Len(rows) \in Nat /\ DOMAIN rows = 1..Len(rows)
         /\ \A i \in 1..Len(rows) :
              /\ rows[i] \in Rows /\ rows[i].version \in Nat /\ rows[i].text \in Nat
              /\ rows[i].status \in Statuses /\ rows[i].iter \in Nat
PROOF
  <1>1. rows \in Seq(Rows) /\ Len(rows) \in Nat /\ DOMAIN rows = 1..Len(rows)
    BY DEF StoreTypes
  <1>2. \A i \in 1..Len(rows) : rows[i] \in Rows
    BY <1>1
  <1> QED
    BY <1>1, <1>2 DEF Rows

(* The bounds as numbers.                                                  *)
LEMMA Bounds ==
  /\ MaxBegun \in Nat /\ MaxBegun <= 9000 /\ NVariants \in Nat
  /\ PreflightVersion \in Nat /\ PreflightVersion >= 10000
  /\ \A i \in Iterations : i \in Nat /\ i >= 1
PROOF
  BY RegistryAssumption

(* The file to seed next is one that is left.                              *)
LEMMA FirstIsLeft ==
  ASSUME StoreTypes, ScriptTypes, todo # {}
  PROVE  /\ First \in todo /\ First \in Nat
         /\ \E f \in files : f.version = First
         /\ \A f \in files : f.version = First => TextOnDisk(First) = f.text
PROOF
  <1>1. todo \subseteq Nat
    BY DEF StoreTypes, ScriptTypes
  <1>2. \E v \in todo : \A w \in todo : v <= w
    BY <1>1, LeastOfSome
  <1>3. First \in todo
    BY <1>2 DEF First
  <1>4. \E f \in files : f.version = First
    BY <1>3 DEF ScriptTypes
  <1>5. \A f \in files : f.version = First => TextOnDisk(First) = f.text
    <2>1. SUFFICES ASSUME NEW f \in files, f.version = First PROVE TextOnDisk(First) = f.text
      OBVIOUS
    <2>2. \A g \in files : g.version = First => g = f
      BY <2>1 DEF StoreTypes
    <2>3. (CHOOSE g \in files : g.version = First) = f
      BY <2>1, <2>2
    <2> QED
      BY <2>3 DEF TextOnDisk
  <1> QED
    BY <1>1, <1>3, <1>4, <1>5

(* The next number is small and a number.                                  *)
LEMMA NextIsSmall ==
  ASSUME StoreTypes
  PROVE  NextNumber \in Nat /\ NextNumber <= 1000
PROOF
  <1>1. CASE Adopted = {}
    BY <1>1 DEF NextNumber
  <1>2. CASE Adopted # {}
    <2>1. Adopted \subseteq Nat /\ \A v \in Adopted : v < 1000
      BY RowFields DEF Adopted
    <2>2. \A v \in Adopted : v <= 999
      BY <2>1
    <2>3. \E v \in Adopted : \A w \in Adopted : w <= v
      <3>1. PICK b \in Nat : b = 999
        OBVIOUS
      <3>2. Adopted \subseteq Nat /\ \A v \in Adopted : v <= b
        BY <2>1, <2>2, <3>1
      <3> QED
        BY <1>2, <3>2, GreatestOfSome
    <2> DEFINE m == CHOOSE v \in Adopted : \A w \in Adopted : w <= v
    <2>4. m \in Adopted
      BY <2>3
    <2>5. NextNumber = 1 + m
      BY <1>2 DEF NextNumber
    <2> HIDE DEF m
    <2> QED
      BY <2>1, <2>4, <2>5
  <1> QED
    BY <1>1, <1>2

(* What re_decide finds is the text of a candidate, if there is one.       *)
LEMMA FoundIsCandidate ==
  ASSUME StoreTypes, Candidates # {}
  PROVE  \E k \in Candidates : Found = rows[k].text
PROOF
  <1>1. Candidates \subseteq Nat /\ \A k \in Candidates : k <= Len(rows)
    BY RowFields DEF Candidates
  <1>2. \E k \in Candidates : \A j \in Candidates : j <= k
    BY <1>1, GreatestOfSome, RowFields
  <1>3. (CHOOSE k \in Candidates : \A j \in Candidates : j <= k) \in Candidates
    BY <1>2
  <1> QED
    BY <1>3 DEF Found

(* An upsert makes row n what it says, the only one of its number, and     *)
(* leaves the others alone.                                                *)
Upserted(n, v, t, s, i) ==
  /\ rows' \in Seq(Rows) /\ Len(rows') \in Nat /\ Len(rows') >= Len(rows)
  /\ DOMAIN rows' = 1..Len(rows')
  /\ rows'[n].version = v /\ rows'[n].text = t /\ rows'[n].status = s
  /\ i # 0 => rows'[n].iter = i
  /\ n \in 1..Len(rows) => rows[n].version = v
  /\ \A k \in 1..Len(rows') : k # n =>
       k \in 1..Len(rows) /\ rows'[k] = rows[k] /\ rows[k].version # v

LEMMA UpsertEffect ==
  ASSUME StoreTypes, NEW v \in Nat, NEW t \in Nat, NEW s \in Statuses, NEW i \in Nat, Upsert(v, t, s, i)
  PROVE  \E n \in 1..Len(rows') : Upserted(n, v, t, s, i)
PROOF
  <1>0. rows \in Seq(Rows) /\ Len(rows) \in Nat /\ DOMAIN rows = 1..Len(rows)
        /\ \A k \in 1..Len(rows) : rows[k] \in Rows /\ rows[k].iter \in Nat
    BY RowFields
  <1>1. CASE Of(v) = {}
    <2> DEFINE new == Row(v, t, s, i)
    <2>1. new \in Rows /\ new.version = v /\ new.text = t /\ new.status = s /\ new.iter = i
      BY DEF Row, Rows
    <2>2. rows' = Append(rows, new)
      BY <1>1 DEF Upsert
    <2> HIDE DEF new
    <2>3. /\ rows' \in Seq(Rows) /\ Len(rows') = Len(rows) + 1 /\ rows'[Len(rows) + 1] = new
          /\ DOMAIN rows' = 1..Len(rows')
          /\ \A k \in 1..Len(rows) : rows'[k] = rows[k]
      BY <1>0, <2>1, <2>2
    <2>4. \A k \in 1..Len(rows) : rows[k].version # v
      BY <1>0, <1>1 DEF Of
    <2>5. \A k \in 1..Len(rows') : k # Len(rows) + 1 => k \in 1..Len(rows)
      BY <1>0, <2>3
    <2>6. Len(rows) + 1 \in 1..Len(rows') /\ Len(rows) + 1 \notin 1..Len(rows)
          /\ Len(rows') \in Nat /\ Len(rows') >= Len(rows)
      BY <1>0, <2>3
    <2> QED
      BY <2>1, <2>3, <2>4, <2>5, <2>6 DEF Upserted
  <1>2. CASE Of(v) # {}
    <2>1. IsFiniteSet(Of(v))
      <3>1. IsFiniteSet(1..Len(rows)) /\ Of(v) \subseteq 1..Len(rows)
        BY <1>0, FS_Interval DEF Of
      <3> QED
        BY <3>1, FS_Subset
    <2>2. Cardinality(Of(v)) = 1
      <3>1. Cardinality(Of(v)) \in Nat /\ Cardinality(Of(v)) # 0
        BY <1>2, <2>1, FS_CardinalityType, FS_EmptySet
      <3>2. Cardinality(Of(v)) <= 1
        BY DEF Upsert
      <3> QED
        BY <3>1, <3>2
    <2>3. PICK n : Of(v) = {n}
      BY <2>1, <2>2, FS_Singleton
    <2>4. n \in 1..Len(rows) /\ rows[n].version = v /\ IdOf(v) = n
      BY <1>0, <2>3 DEF Of, IdOf
    <2>5. \A k \in 1..Len(rows) : k # n => rows[k].version # v
      BY <1>0, <2>3 DEF Of
    <2> DEFINE new == Row(v, t, s, IF i = 0 THEN rows[n].iter ELSE i)
    <2>6. new \in Rows /\ new.version = v /\ new.text = t /\ new.status = s /\ (i # 0 => new.iter = i)
      BY <1>0, <2>4 DEF Row, Rows
    <2>7. rows' = [rows EXCEPT ![n] = new]
      BY <1>2, <2>4 DEF Upsert
    <2> HIDE DEF new
    <2>8. /\ rows' \in Seq(Rows) /\ Len(rows') = Len(rows) /\ rows'[n] = new
          /\ DOMAIN rows' = 1..Len(rows')
          /\ \A k \in 1..Len(rows) : k # n => rows'[k] = rows[k]
      BY <1>0, <2>4, <2>6, <2>7
    <2> QED
      BY <1>0, <2>4, <2>5, <2>6, <2>8 DEF Upserted
  <1> QED
    BY <1>1, <1>2

-----------------------------------------------------------------------------
(* The rows after a step have the numbers they had; rows may be added.     *)
RowsKept ==
  /\ rows' \in Seq(Rows) /\ Len(rows') \in Nat /\ Len(rows') >= Len(rows) /\ DOMAIN rows' = 1..Len(rows')
  /\ \A k \in 1..Len(rows) : rows'[k].version = rows[k].version

LEMMA UpsertKeeps ==
  ASSUME StoreTypes, NEW v \in Nat, NEW t \in Nat, NEW s \in Statuses, NEW i \in Nat, Upsert(v, t, s, i)
  PROVE  RowsKept
PROOF
  <1>1. PICK n \in 1..Len(rows') : Upserted(n, v, t, s, i)
    BY UpsertEffect
  <1>2. \A k \in 1..Len(rows) : k \in 1..Len(rows')
    BY <1>1, RowFields DEF Upserted
  <1>3. \A k \in 1..Len(rows) : rows'[k].version = rows[k].version
    BY <1>1, <1>2 DEF Upserted
  <1> QED
    BY <1>1, <1>3 DEF RowsKept, Upserted

LEMMA SameKeeps ==
  ASSUME StoreTypes, rows' = rows
  PROVE  RowsKept
PROOF
  BY RowFields DEF RowsKept

(* A pre-flight's install appends the candidate's row.                     *)
LEMMA InstallEffect ==
  ASSUME StoreTypes, LoopTypes, NoteTypes, Install
  PROVE  /\ RowsKept /\ Len(rows') = Len(rows) + 1
         /\ rows'[Len(rows) + 1].status = "candidate_preflight" /\ rows'[Len(rows) + 1].iter = 0
         /\ \A k \in 1..Len(rows) : rows'[k] = rows[k]
         /\ \A k \in 1..Len(rows') : k \in 1..Len(rows) \/ k = Len(rows) + 1
         /\ active' \in 1..Len(rows') /\ prev' = active /\ active # 0 /\ text' \in Nat
PROOF
  <1> DEFINE new == Row(PreflightVersion, text', "candidate_preflight", 0)
  <1>1. text' = written + 1 /\ rows' = Append(rows, new) /\ prev' = active /\ active # 0
        /\ active' = Len(rows')
    BY DEF Install
  <1>2. text' \in Nat
    BY <1>1 DEF NoteTypes
  <1>3. new \in Rows /\ new.status = "candidate_preflight" /\ new.iter = 0
    BY <1>2, Bounds DEF Row, Rows, Statuses
  <1>4. rows \in Seq(Rows) /\ Len(rows) \in Nat
    BY RowFields
  <1> HIDE DEF new
  <1>5. /\ rows' \in Seq(Rows) /\ Len(rows') = Len(rows) + 1 /\ rows'[Len(rows) + 1] = new
        /\ \A k \in 1..Len(rows) : rows'[k] = rows[k]
    BY <1>1, <1>3, <1>4
  <1>6. DOMAIN rows' = 1..Len(rows') /\ Len(rows') \in Nat /\ Len(rows') >= Len(rows)
        /\ \A k \in 1..Len(rows') : k \in 1..Len(rows) \/ k = Len(rows) + 1
    BY <1>4, <1>5
  <1>7. active' \in 1..Len(rows')
    BY <1>1, <1>4, <1>5
  <1> QED
    BY <1>1, <1>2, <1>3, <1>5, <1>6, <1>7 DEF RowsKept

(* The script's types do not depend on what the loop does.                 *)
LEMMA ScriptStays ==
  ASSUME Types, RowsKept, UNCHANGED <<script, files>>
  PROVE  ScriptTypes'
PROOF
  <1>1. UNCHANGED <<spc, todo, found, num, arg, files>> /\ ScriptTypes
    BY DEF script, Types
  <1>2. First' = First
    BY <1>1 DEF First
  <1>3. spc' = "pointer" => Of(First)' # {}
    <2>1. SUFFICES ASSUME spc' = "pointer" PROVE Of(First)' # {}
      OBVIOUS
    <2>2. PICK k : k \in Of(First)
      BY <1>1, <2>1 DEF ScriptTypes
    <2>3. k \in 1..Len(rows) /\ rows[k].version = First /\ Len(rows) \in Nat
      BY <2>2, RowFields DEF Of, Types
    <2>4. k \in 1..Len(rows') /\ rows'[k].version = First
      BY <2>3 DEF RowsKept
    <2>5. k \in Of(First)'
      BY <1>2, <2>4 DEF Of, RowsKept
    <2> QED
      BY <2>5
  <1> QED
    BY <1>1, <1>3 DEF ScriptTypes

LEMMA LoopStays ==
  ASSUME Types, RowsKept, UNCHANGED loop
  PROVE  LoopTypes'
PROOF
  <1>1. UNCHANGED <<lpc, iter, base, idx, text, prev, scores>> /\ LoopTypes
    BY DEF loop, Types
  <1>2. prev' \in 0..Len(rows')
    BY <1>1, RowFields DEF LoopTypes, RowsKept, Types
  <1> QED
    BY <1>1, <1>2 DEF LoopTypes

(* The loop after its iteration, and after a step of its own.              *)
LEMMA LoopMoves ==
  ASSUME Types, RowsKept,
         \/ LoopIdle
         \/ lpc # "idle" /\ NextVariant
         \/ lpc # "idle" /\ \E at \in {"evaluate", "activate", "csv"} : LoopAt(at)
  PROVE  LoopTypes'
PROOF
  <1>0. LoopTypes /\ Len(rows) \in Nat /\ Len(rows') \in Nat /\ Len(rows) <= Len(rows')
    BY RowFields DEF Types, RowsKept
  <1>1. CASE LoopIdle
    BY <1>0, <1>1 DEF LoopIdle, LoopTypes
  <1>2. CASE lpc # "idle" /\ ~ LoopIdle
    <2>1. /\ lpc' \in {"install", "evaluate", "activate", "csv"}
          /\ idx' = idx \/ idx' = idx + 1
          /\ UNCHANGED <<iter, base, text, prev, scores>>
      BY <1>2 DEF NextVariant, LoopAt
    <2>2. prev' \in 0..Len(rows') /\ idx' \in Nat
      BY <1>0, <2>1 DEF LoopTypes
    <2> QED
      BY <1>0, <1>2, <2>1, <2>2 DEF LoopTypes
  <1> QED
    BY <1>1, <1>2

LEMMA ScriptGoesIdle ==
  ASSUME ScriptIdle
  PROVE  ScriptTypes'
PROOF
  <1>1. arg' \in Score
    BY DEF ScriptIdle, Score
  <1> QED
    BY <1>1 DEF ScriptIdle, ScriptTypes

(* The types of the seeded database.                                       *)
LEMMA InitTypes == Init => Types
PROOF
  <1> SUFFICES ASSUME Init PROVE Types
    OBVIOUS
  <1>1. rows \in Seq(Rows) /\ Len(rows) = 1
    BY DEF Init, Row, Rows, Statuses
  <1>2. StoreTypes
    BY <1>1 DEF Init, StoreTypes
  <1>3. LoopTypes
    BY <1>1 DEF Init, LoopTypes
  <1>4. ScriptTypes
    BY DEF Init, ScriptTypes, Score
  <1>5. NoteTypes
    <2>1. 0 \in 0..MaxBegun
      BY Bounds
    <2>2. reused \in BOOLEAN /\ stranded \in BOOLEAN /\ crossed \in BOOLEAN /\ mistaken \in BOOLEAN
      BY DEF Init
    <2>3. accepted \subseteq Nat /\ used \subseteq Iterations
      BY DEF Init
    <2>4. begun = 0 /\ written = 0 /\ scripts = 0 /\ rollbacks = 0 /\ wipes = 0
      BY DEF Init
    <2> QED
      BY <2>1, <2>2, <2>3, <2>4 DEF NoteTypes
  <1> QED
    BY <1>2, <1>3, <1>4, <1>5 DEF Types

(* Every step keeps the types: one step of the proof per action.           *)
LEMMA NextTypes == Types /\ [Next]_vars => Types'
PROOF
  <1> SUFFICES ASSUME Types, [Next]_vars PROVE Types'
    OBVIOUS
  <1>0. StoreTypes /\ LoopTypes /\ ScriptTypes /\ NoteTypes
    BY DEF Types
  <1>k. rows' = rows => RowsKept
    BY <1>0, SameKeeps
  <1>f. rows \in Seq(Rows) /\ Len(rows) \in Nat /\ DOMAIN rows = 1..Len(rows)
        /\ \A i \in 1..Len(rows) :
              rows[i].version \in Nat /\ rows[i].text \in Nat /\ rows[i].status \in Statuses
    BY <1>0, RowFields
  <1>1. CASE BeginIteration
    <2>1. PICK i \in Iterations :
             iter' = i /\ used' = used \cup {i} /\ reused' = (reused \/ i \in used)
      BY <1>1 DEF BeginIteration
    <2>2. i \in Nat /\ begun' \in 0..MaxBegun /\ base' \in Nat
      <3>1. begun \in Nat /\ begun < MaxBegun /\ begun' = begun + 1 /\ i \in Nat
        BY <1>0, <1>1, Bounds DEF BeginIteration, NoteTypes
      <3>2. active \in 1..Len(rows) /\ base' = rows[active].version
        BY <1>0, <1>1, <1>f DEF BeginIteration, StoreTypes, Live
      <3> QED
        BY <1>f, <3>1, <3>2, Bounds
    <2>3. StoreTypes' /\ ScriptTypes'
      BY <1>0, <1>1, <1>k, ScriptStays DEF BeginIteration, StoreTypes, db, disk
    <2>4. LoopTypes'
      BY <1>f, <1>1, <2>1, <2>2 DEF BeginIteration, LoopTypes, db
    <2>5. NoteTypes'
      BY <1>0, <1>1, <2>1, <2>2 DEF BeginIteration, NoteTypes
    <2> QED
      BY <2>3, <2>4, <2>5 DEF Types
  <1>2. CASE Install
    <2>1. /\ RowsKept /\ active' \in 1..Len(rows') /\ prev' = active /\ text' \in Nat
      BY <1>0, <1>2, InstallEffect
    <2>2. StoreTypes'
      BY <1>0, <1>2, <2>1 DEF Install, StoreTypes, RowsKept, disk
    <2>3. prev' \in 0..Len(rows')
      BY <1>0, <1>f, <2>1 DEF StoreTypes, RowsKept
    <2>4. LoopTypes'
      BY <1>0, <1>2, <2>1, <2>3 DEF Install, LoopTypes
    <2>5. ScriptTypes'
      BY <1>2, <2>1, ScriptStays DEF Install, disk
    <2>6. NoteTypes'
      BY <1>0, <1>2 DEF Install, NoteTypes, verdicts
    <2> QED
      BY <2>2, <2>4, <2>5, <2>6 DEF Types
  <1>3. CASE \E passed \in BOOLEAN : Restore(passed)
    <2>1. /\ lpc = "probe" /\ active' = prev
          /\ UNCHANGED <<rows, disk, script, verdicts, crossed, counts>>
          /\ NextVariant \/ LoopAt("evaluate")
      BY <1>3 DEF Restore
    <2>2. LoopTypes'
      BY <1>k, <2>1, LoopMoves
    <2>3. StoreTypes' /\ ScriptTypes' /\ NoteTypes'
      BY <1>0, <1>k, <2>1, ScriptStays DEF StoreTypes, LoopTypes, NoteTypes, disk, verdicts, counts
    <2> QED
      BY <2>2, <2>3 DEF Types
  <1>4. CASE \E verdict \in {"adopt", "reject"} : Evaluate(verdict)
    <2>1. /\ lpc = "evaluate" /\ lpc' \in {"adopt", "reject"}
          /\ scores' = scores \cup {[iter |-> iter, idx |-> idx, text |-> text]}
          /\ accepted' = accepted \/ accepted' = accepted \cup {text}
          /\ UNCHANGED <<db, disk, iter, base, idx, text, prev, script,
                         used, reused, stranded, mistaken, crossed, counts>>
      BY <1>4 DEF Evaluate
    <2>2. LoopTypes'
      BY <1>0, <2>1 DEF LoopTypes, Score, db
    <2>3. StoreTypes' /\ ScriptTypes'
      BY <1>0, <1>k, <2>1, ScriptStays DEF StoreTypes, db, disk
    <2>4. NoteTypes'
      BY <1>0, <2>1 DEF NoteTypes, LoopTypes, counts
    <2> QED
      BY <2>2, <2>3, <2>4 DEF Types
  <1>5. CASE AdoptRow \/ RejectRow
    <2>1. RowsKept
      <3>1. base + 1 \in Nat /\ 10000 + iter * 100 + idx \in Nat /\ text \in Nat /\ iter \in Nat
            /\ "active" \in Statuses /\ "rejected" \in Statuses
        BY <1>0 DEF LoopTypes, Statuses
      <3>2. CASE AdoptRow
        BY <1>0, <3>1, <3>2, UpsertKeeps DEF AdoptRow
      <3>3. CASE RejectRow
        BY <1>0, <3>1, <3>3, UpsertKeeps DEF RejectRow
      <3> QED
        BY <1>5, <3>2, <3>3
    <2>2. /\ lpc # "idle"
          /\ LoopAt("activate") \/ NextVariant
          /\ UNCHANGED <<active, disk, script, verdicts, crossed, counts>>
      BY <1>5 DEF AdoptRow, RejectRow
    <2>3. LoopTypes'
      <3>1. CASE LoopAt("activate")
        BY <2>1, <2>2, <3>1, LoopMoves
      <3>2. CASE NextVariant
        BY <2>1, <2>2, <3>2, LoopMoves
      <3> QED
        BY <2>2, <3>1, <3>2
    <2>4. StoreTypes'
      BY <1>0, <1>f, <2>1, <2>2 DEF StoreTypes, RowsKept, disk
    <2>5. ScriptTypes' /\ NoteTypes'
      BY <1>0, <2>1, <2>2, ScriptStays DEF NoteTypes, disk, verdicts, counts
    <2> QED
      BY <2>3, <2>4, <2>5 DEF Types
  <1>6. CASE Activate
    <2>1. /\ lpc = "activate" /\ active' \in Of(base + 1) /\ LoopAt("csv")
          /\ UNCHANGED <<rows, disk, script, verdicts, crossed, counts>>
      BY <1>6 DEF Activate
    <2>2. LoopTypes'
      BY <1>k, <2>1, LoopMoves
    <2>3. active' \in 0..Len(rows)
      BY <1>f, <2>1 DEF Of
    <2>4. StoreTypes' /\ ScriptTypes' /\ NoteTypes'
      BY <1>0, <1>k, <2>1, <2>3, ScriptStays DEF StoreTypes, NoteTypes, disk, verdicts, counts
    <2> QED
      BY <2>2, <2>4 DEF Types
  <1>7. CASE WriteCsv
    <2>1. /\ csv' = {c \in csv : c.iter # iter} \cup scores /\ LoopIdle
          /\ UNCHANGED <<db, files, script, verdicts, crossed, counts>>
      BY <1>7 DEF WriteCsv
    <2>2. LoopTypes' /\ ScriptTypes'
      BY <1>k, <2>1, LoopMoves, ScriptStays DEF db
    <2>3. StoreTypes' /\ NoteTypes'
      BY <1>0, <2>1 DEF StoreTypes, LoopTypes, NoteTypes, db, verdicts, counts
    <2> QED
      BY <2>2, <2>3 DEF Types
  <1>8. CASE LoopStops
    <2>1. /\ active' = active \/ active' = prev
          /\ stranded' = (stranded \/ (lpc = "probe" /\ active' = active))
          /\ LoopIdle
          /\ UNCHANGED <<rows, disk, script, accepted, used, reused, mistaken, crossed, counts>>
      BY <1>8 DEF LoopStops
    <2>2. LoopTypes' /\ ScriptTypes'
      BY <1>k, <2>1, LoopMoves, ScriptStays DEF disk
    <2>3. StoreTypes'
      BY <1>0, <2>1 DEF StoreTypes, LoopTypes, disk
    <2>4. NoteTypes'
      BY <1>0, <2>1 DEF NoteTypes, counts
    <2> QED
      BY <2>2, <2>3, <2>4 DEF Types
  <1>9. CASE StartSeed
    <2>1. /\ spc' = "seed" /\ todo' = {f.version : f \in files}
          /\ UNCHANGED <<db, disk, loop, found, num, arg, verdicts, written, begun, rollbacks, wipes>>
          /\ scripts' = scripts + 1 /\ crossed' = (crossed \/ lpc # "idle")
      BY <1>9 DEF StartSeed, Starts
    <2>2. StoreTypes' /\ LoopTypes'
      BY <1>0, <1>k, <2>1, LoopStays DEF StoreTypes, db, disk
    <2>3. todo' # {}
      BY <1>0, <2>1 DEF StoreTypes
    <2>4. ScriptTypes'
      BY <1>0, <2>1, <2>3 DEF ScriptTypes, disk
    <2>5. NoteTypes'
      BY <1>0, <2>1 DEF NoteTypes, verdicts
    <2> QED
      BY <2>2, <2>4, <2>5 DEF Types
  <1>10. CASE SeedRow
    <2>1. /\ spc = "seed" /\ spc' = "pointer" /\ Upsert(First, TextOnDisk(First), "active", 0)
          /\ UNCHANGED <<active, disk, loop, todo, found, num, arg, verdicts, crossed, counts>>
      BY <1>10 DEF SeedRow, NoStart
    <2>2. First \in Nat /\ TextOnDisk(First) \in Nat /\ 0 \in Nat /\ "active" \in Statuses
      <3>1. /\ First \in Nat /\ \E f \in files : f.version = First
            /\ \A f \in files : f.version = First => TextOnDisk(First) = f.text
        BY <1>0, <2>1, FirstIsLeft DEF ScriptTypes
      <3> QED
        BY <1>0, <3>1 DEF StoreTypes, Statuses
    <2>3. PICK n \in 1..Len(rows') : Upserted(n, First, TextOnDisk(First), "active", 0)
      BY <1>0, <2>1, <2>2, UpsertEffect
    <2>4. RowsKept
      BY <1>0, <2>1, <2>2, UpsertKeeps
    <2>5. StoreTypes' /\ LoopTypes' /\ NoteTypes'
      BY <1>0, <1>f, <2>1, <2>4, LoopStays DEF StoreTypes, NoteTypes, RowsKept, disk, verdicts, counts
    <2>6. First' = First
      BY <2>1 DEF First
    <2>7. n \in Of(First)'
      BY <2>3, <2>4, <2>6 DEF Of, RowsKept, Upserted
    <2>8. ScriptTypes'
      BY <1>0, <2>1, <2>7 DEF ScriptTypes, disk
    <2> QED
      BY <2>5, <2>8 DEF Types
  <1>11. CASE SeedPointer
    <2>1. /\ spc = "pointer" /\ active' = (IF active = 0 THEN IdOf(First) ELSE active)
          /\ todo' = todo \ {First} /\ spc' = (IF todo' = {} THEN "seeded" ELSE "seed")
          /\ UNCHANGED <<rows, disk, loop, found, num, arg, verdicts, crossed, counts>>
      BY <1>11 DEF SeedPointer, NoStart
    <2>2. IdOf(First) \in 1..Len(rows)
      <3>1. Of(First) # {}
        BY <1>0, <2>1 DEF ScriptTypes
      <3>2. IdOf(First) \in Of(First)
        BY <3>1 DEF IdOf
      <3> QED
        BY <1>f, <3>2 DEF Of
    <2>3. StoreTypes' /\ LoopTypes' /\ NoteTypes'
      BY <1>0, <1>k, <2>1, <2>2, LoopStays DEF StoreTypes, NoteTypes, disk, verdicts, counts
    <2>4. ScriptTypes'
      BY <1>0, <2>1 DEF ScriptTypes, disk
    <2> QED
      BY <2>3, <2>4 DEF Types
  <1>12. CASE Seeded \/ ScriptStops
    <2>1. ScriptIdle /\ UNCHANGED <<db, disk, loop, verdicts, crossed, counts>>
      BY <1>12 DEF Seeded, ScriptStops, NoStart
    <2>2. StoreTypes' /\ LoopTypes' /\ NoteTypes'
      BY <1>0, <1>k, <2>1, LoopStays DEF StoreTypes, NoteTypes, db, disk, verdicts, counts
    <2> QED
      BY <2>1, <2>2, ScriptGoesIdle DEF Types
  <1>13. CASE StartLift
    <2>1. /\ spc' = "lift" /\ found' = rows[active].text /\ num' = rows[active].version /\ active # 0
          /\ UNCHANGED <<db, disk, loop, todo, arg, verdicts, written, begun, rollbacks, wipes>>
          /\ scripts' = scripts + 1 /\ crossed' = (crossed \/ lpc # "idle")
      BY <1>13 DEF StartLift, Starts, Live
    <2>2. active \in 1..Len(rows)
      BY <1>0, <1>f, <2>1 DEF StoreTypes
    <2>3. StoreTypes' /\ LoopTypes'
      BY <1>0, <1>k, <2>1, LoopStays DEF StoreTypes, db, disk
    <2>4. ScriptTypes'
      BY <1>0, <1>f, <2>1, <2>2 DEF ScriptTypes, disk
    <2>5. NoteTypes'
      BY <1>0, <2>1 DEF NoteTypes, verdicts
    <2> QED
      BY <2>3, <2>4, <2>5 DEF Types
  <1>14. CASE LiftFile
    <2>1. /\ files' = {f \in files : f.version # num} \cup {[version |-> num, text |-> found]}
          /\ ScriptIdle /\ UNCHANGED <<db, csv, loop, verdicts, crossed, counts>>
      BY <1>14 DEF LiftFile, NoStart, Put
    <2>2. num \in Nat /\ found \in Nat
      BY <1>0 DEF ScriptTypes
    <2>3. /\ files' \subseteq [version : Nat, text : Nat] /\ files' # {}
          /\ \A f, g \in files' : f.version = g.version => f = g
      <3> DEFINE new == [version |-> num, text |-> found]
      <3>1. new \in [version : Nat, text : Nat] /\ new.version = num
        BY <2>2
      <3>2. \A f \in files' : f = new \/ (f \in files /\ f.version # num)
        BY <2>1
      <3>3. new \in files'
        BY <2>1
      <3> HIDE DEF new
      <3>4. files' \subseteq [version : Nat, text : Nat]
        BY <1>0, <3>1, <3>2 DEF StoreTypes
      <3> QED
        BY <1>0, <3>1, <3>2, <3>3, <3>4 DEF StoreTypes
    <2>4. StoreTypes' /\ LoopTypes' /\ NoteTypes'
      BY <1>0, <1>k, <2>1, <2>3, LoopStays DEF StoreTypes, NoteTypes, db, verdicts, counts
    <2> QED
      BY <2>1, <2>4, ScriptGoesIdle DEF Types
  <1>15. CASE StartReDecide
    <2>1. /\ arg' \in csv /\ accepted' = accepted \cup {arg'.text} /\ spc' = "find"
          /\ UNCHANGED <<db, disk, loop, todo, found, num, used, reused, stranded, mistaken,
                         written, begun, rollbacks, wipes>>
          /\ scripts' = scripts + 1 /\ crossed' = (crossed \/ lpc # "idle")
      BY <1>15 DEF StartReDecide, Starts
    <2>2. arg' \in Score /\ arg'.text \in Nat
      BY <1>0, <2>1 DEF StoreTypes, Score
    <2>3. StoreTypes' /\ LoopTypes'
      BY <1>0, <1>k, <2>1, LoopStays DEF StoreTypes, db, disk
    <2>4. ScriptTypes'
      BY <1>0, <2>1, <2>2 DEF ScriptTypes, disk
    <2>5. NoteTypes'
      <3>1. accepted' \subseteq Nat
        <4>1. accepted \subseteq Nat /\ accepted' = accepted \cup {arg'.text}
          BY <1>0, <2>1 DEF NoteTypes
        <4> QED
          BY <2>2, <4>1
      <3>2. scripts' \in Nat
        BY <1>0, <2>1 DEF NoteTypes
      <3>3. crossed' \in BOOLEAN
        BY <2>1
      <3> QED
        BY <1>0, <2>1, <3>1, <3>2, <3>3 DEF NoteTypes
    <2> QED
      BY <2>3, <2>4, <2>5 DEF Types
  <1>16. CASE Find
    <2>1. /\ found' = Found /\ mistaken' = (mistaken \/ Found # arg.text) /\ spc' = "number"
          /\ Candidates = {} => active # 0
          /\ UNCHANGED <<db, disk, loop, todo, num, arg, accepted, used, reused, stranded, crossed, counts>>
      BY <1>16 DEF Find, NoStart
    <2>2. Found \in Nat
      <3>1. CASE Candidates = {}
        <4>1. active \in 1..Len(rows)
          BY <1>0, <1>f, <2>1, <3>1 DEF StoreTypes
        <4> QED
          BY <1>f, <3>1, <4>1 DEF Found, Live
      <3>2. CASE Candidates # {}
        BY <1>0, <1>f, <3>2, FoundIsCandidate DEF Candidates
      <3> QED
        BY <3>1, <3>2
    <2>3. StoreTypes' /\ LoopTypes'
      BY <1>0, <1>k, <2>1, LoopStays DEF StoreTypes, db, disk
    <2>4. ScriptTypes'
      BY <1>0, <2>1, <2>2 DEF ScriptTypes, disk
    <2>5. NoteTypes'
      BY <1>0, <2>1 DEF NoteTypes, counts
    <2> QED
      BY <2>3, <2>4, <2>5 DEF Types
  <1>17. CASE Number
    <2>1. /\ num' = NextNumber /\ spc' = "write"
          /\ UNCHANGED <<db, disk, loop, todo, found, arg, verdicts, crossed, counts>>
      BY <1>17 DEF Number, NoStart
    <2>2. NextNumber \in Nat
      BY <1>0, NextIsSmall
    <2>3. StoreTypes' /\ LoopTypes' /\ NoteTypes'
      BY <1>0, <1>k, <2>1, LoopStays DEF StoreTypes, NoteTypes, db, disk, verdicts, counts
    <2>4. ScriptTypes'
      BY <1>0, <2>1, <2>2 DEF ScriptTypes, disk
    <2> QED
      BY <2>3, <2>4 DEF Types
  <1>18. CASE WriteRow
    <2>1. /\ Upsert(num, found, "active", arg.iter) /\ spc' = "point"
          /\ UNCHANGED <<active, disk, loop, todo, found, num, arg, verdicts, crossed, counts>>
      BY <1>18 DEF WriteRow, NoStart
    <2>2. num \in Nat /\ found \in Nat /\ arg.iter \in Nat /\ "active" \in Statuses
      BY <1>0 DEF ScriptTypes, Score, Statuses
    <2>3. RowsKept
      BY <1>0, <2>1, <2>2, UpsertKeeps
    <2>4. StoreTypes' /\ LoopTypes' /\ NoteTypes'
      BY <1>0, <1>f, <2>1, <2>3, LoopStays DEF StoreTypes, NoteTypes, RowsKept, disk, verdicts, counts
    <2>5. ScriptTypes'
      BY <1>0, <2>1 DEF ScriptTypes, disk
    <2> QED
      BY <2>4, <2>5 DEF Types
  <1>19. CASE Point
    <2>1. /\ active' \in Of(num) /\ spc' = "lift"
          /\ UNCHANGED <<rows, disk, loop, todo, found, num, arg, verdicts, crossed, counts>>
      BY <1>19 DEF Point, NoStart
    <2>2. active' \in 1..Len(rows)
      BY <1>f, <2>1 DEF Of
    <2>3. StoreTypes' /\ LoopTypes' /\ NoteTypes'
      BY <1>0, <1>k, <2>1, <2>2, LoopStays DEF StoreTypes, NoteTypes, disk, verdicts, counts
    <2>4. ScriptTypes'
      BY <1>0, <2>1 DEF ScriptTypes, disk
    <2> QED
      BY <2>3, <2>4 DEF Types
  <1>20. CASE Clean
    <2>1. /\ lpc = "idle" /\ spc = "idle" /\ rows' = <<>> /\ active' = 0 /\ wipes' = wipes + 1
          /\ UNCHANGED <<disk, loop, script, verdicts, crossed, written, begun, scripts, rollbacks>>
      BY <1>20 DEF Clean
    <2>2. <<>> \in Seq(Rows) /\ Len(<<>>) = 0
      OBVIOUS
    <2>3. StoreTypes'
      BY <1>0, <2>1, <2>2 DEF StoreTypes, disk
    <2>4. LoopTypes'
      <3>1. prev = 0 /\ UNCHANGED <<lpc, iter, base, idx, text, prev, scores>>
        BY <1>0, <2>1 DEF LoopTypes, loop
      <3>2. prev' \in 0..Len(rows')
        BY <2>1, <2>2, <3>1
      <3> QED
        BY <1>0, <3>1, <3>2 DEF LoopTypes
    <2>5. ScriptTypes' /\ NoteTypes'
      BY <1>0, <2>1 DEF ScriptTypes, NoteTypes, script, disk, verdicts
    <2> QED
      BY <2>3, <2>4, <2>5 DEF Types
  <1>21. CASE \E i \in DOMAIN rows : Rollback(i)
    <2>1. PICK i \in 1..Len(rows) : Rollback(i)
      BY <1>f, <1>21
    <2>2. /\ active' = i /\ rollbacks' = rollbacks + 1
          /\ UNCHANGED <<rows, disk, loop, script, verdicts, crossed, written, begun, scripts, wipes>>
      BY <2>1 DEF Rollback
    <2>3. StoreTypes' /\ LoopTypes' /\ ScriptTypes' /\ NoteTypes'
      BY <1>0, <1>f, <1>k, <2>2, LoopStays, ScriptStays DEF StoreTypes, NoteTypes, disk, verdicts
    <2> QED
      BY <2>3 DEF Types
  <1>22. CASE UNCHANGED vars
    BY <1>0, <1>k, <1>22, LoopStays, ScriptStays
    DEF vars, Types, StoreTypes, NoteTypes, db, disk, verdicts, counts
  <1> QED
    BY <1>1, <1>2, <1>3, <1>4, <1>5, <1>6, <1>7, <1>8, <1>9, <1>10, <1>11, <1>12, <1>13, <1>14, <1>15,
       <1>16, <1>17, <1>18, <1>19, <1>20, <1>21, <1>22 DEF Next, Loop, Script, Over

(* Every variable keeps its type and the pointer is at a row or nowhere,   *)
(* whatever the loop and the scripts do beside one another.                *)
THEOREM TypeCorrect == Spec => []TypeOK
PROOF
  <1>1. Types => TypeOK
    <2> SUFFICES ASSUME Types PROVE TypeOK
      OBVIOUS
    <2>1. begun \in Nat
      BY Bounds DEF Types, NoteTypes
    <2> QED
      BY <2>1 DEF Types, TypeOK, StoreTypes, LoopTypes, ScriptTypes, NoteTypes, Rows
  <1> QED
    BY <1>1, InitTypes, NextTypes, PTL DEF Spec

-----------------------------------------------------------------------------
(* What is noted stays noted, texts stay accepted, iterations are counted. *)
LEMMA NotesStay ==
  ASSUME Types, [Next]_vars
  PROVE  /\ (stranded => stranded') /\ (crossed => crossed') /\ (mistaken => mistaken')
         /\ (reused => reused') /\ accepted \subseteq accepted' /\ used \subseteq used'
         /\ begun \in Nat /\ begun' \in Nat /\ begun <= begun'
PROOF
  <1>0. reused \in BOOLEAN /\ stranded \in BOOLEAN /\ crossed \in BOOLEAN /\ mistaken \in BOOLEAN
    BY DEF Types, NoteTypes
  <1>1. begun \in Nat /\ begun' \in Nat
    BY NextTypes, Bounds DEF Types, NoteTypes
  <1> USE <1>0, <1>1
  <1>2. CASE BeginIteration
    BY <1>2 DEF BeginIteration
  <1>3. CASE Install \/ AdoptRow \/ Activate \/ RejectRow \/ WriteCsv
    BY <1>3 DEF Install, AdoptRow, Activate, RejectRow, WriteCsv, verdicts, counts
  <1>4. CASE \E passed \in BOOLEAN : Restore(passed)
    BY <1>4 DEF Restore, verdicts, counts
  <1>5. CASE \E verdict \in {"adopt", "reject"} : Evaluate(verdict)
    BY <1>5 DEF Evaluate, counts
  <1>6. CASE LoopStops
    BY <1>6 DEF LoopStops, counts
  <1>7. CASE StartSeed \/ StartLift \/ StartReDecide
    BY <1>7 DEF StartSeed, StartLift, StartReDecide, Starts, verdicts
  <1>8. CASE Find
    BY <1>8 DEF Find, NoStart, counts
  <1>9. CASE \/ SeedRow \/ SeedPointer \/ Seeded \/ LiftFile \/ Number \/ WriteRow \/ Point
             \/ ScriptStops
    BY <1>9 DEF SeedRow, SeedPointer, Seeded, LiftFile, Number, WriteRow, Point, ScriptStops,
                NoStart, verdicts, counts
  <1>10. CASE Clean \/ \E i \in DOMAIN rows : Rollback(i)
    BY <1>10 DEF Clean, Rollback, verdicts
  <1>11. CASE UNCHANGED vars
    BY <1>11 DEF vars, verdicts, counts
  <1> QED
    BY <1>2, <1>3, <1>4, <1>5, <1>6, <1>7, <1>8, <1>9, <1>10, <1>11 DEF Next, Loop, Script, Over

(* Who makes a step, while loop and script have not overlapped.            *)
LoopStep ==
  /\ Loop
  /\ spc = "idle" /\ UNCHANGED <<script, files>>
  /\ UNCHANGED <<lpc>> \/ lpc # "idle" \/ BeginIteration
ScriptStep == Script /\ lpc = "idle" /\ UNCHANGED loop /\ UNCHANGED <<used, reused, stranded, begun>>
ByHand == Clean \/ (\E i \in DOMAIN rows : Rollback(i)) \/ UNCHANGED vars

LEMMA WhoSteps ==
  ASSUME Types, SoloInv, [Next]_vars, ~ crossed'
  PROVE  LoopStep \/ ScriptStep \/ ByHand
PROOF
  <1>1. ~ crossed
    BY NotesStay
  <1>2. lpc = "idle" \/ spc = "idle"
    BY <1>1 DEF SoloInv
  <1>3. CASE BeginIteration
    BY <1>3 DEF BeginIteration, LoopStep, Loop, disk
  <1>4. CASE Install \/ AdoptRow \/ Activate \/ RejectRow \/ WriteCsv
    BY <1>2, <1>4 DEF Install, AdoptRow, Activate, RejectRow, WriteCsv, LoopStep, Loop, disk
  <1>5. CASE \E passed \in BOOLEAN : Restore(passed)
    BY <1>2, <1>5 DEF Restore, LoopStep, Loop, disk
  <1>6. CASE \E verdict \in {"adopt", "reject"} : Evaluate(verdict)
    BY <1>2, <1>6 DEF Evaluate, LoopStep, Loop, disk
  <1>7. CASE LoopStops
    BY <1>2, <1>7 DEF LoopStops, LoopStep, Loop, disk
  <1>8. CASE StartSeed \/ StartLift \/ StartReDecide
    BY <1>8 DEF StartSeed, StartLift, StartReDecide, Starts, ScriptStep, Script, verdicts
  <1>9. CASE SeedRow \/ SeedPointer \/ Seeded \/ LiftFile \/ Find
    BY <1>2, <1>9 DEF SeedRow, SeedPointer, Seeded, LiftFile, Find, NoStart,
                      ScriptStep, Script, verdicts, counts
  <1>10. CASE Number \/ WriteRow \/ Point \/ ScriptStops
    BY <1>2, <1>10 DEF Number, WriteRow, Point, ScriptStops, NoStart,
                       ScriptStep, Script, verdicts, counts
  <1>11. CASE ByHand \/ Over
    BY <1>11 DEF Over, ByHand
  <1> QED
    BY <1>3, <1>4, <1>5, <1>6, <1>7, <1>8, <1>9, <1>10, <1>11 DEF Next, Loop, Script, ByHand

LEMMA SoloStep == Types /\ SoloInv /\ [Next]_vars => SoloInv'
PROOF
  <1> SUFFICES ASSUME Types, SoloInv, [Next]_vars, ~ crossed' PROVE lpc' = "idle" \/ spc' = "idle"
    BY DEF SoloInv
  <1>1. CASE LoopStep
    BY <1>1 DEF LoopStep, script
  <1>2. CASE ScriptStep
    BY <1>2 DEF ScriptStep, loop
  <1>3. CASE ByHand
    <2>1. UNCHANGED <<loop, script>>
      BY <1>3 DEF ByHand, Clean, Rollback, vars
    <2>2. lpc = "idle" \/ spc = "idle"
      BY NotesStay DEF SoloInv
    <2> QED
      BY <2>1, <2>2 DEF loop, script
  <1> QED
    BY <1>1, <1>2, <1>3, WhoSteps

-----------------------------------------------------------------------------
(* A row that is upserted as active has an accepted text and a number      *)
(* below the line, then all active rows do, and the pointer stays at one;  *)
(* a rejected row's number is above the line, so it hits no active one.    *)
LEMMA UpsertLive ==
  ASSUME Types, LiveRows, NEW v \in Nat, NEW t \in Nat, NEW s \in Statuses, NEW i \in Nat,
         Upsert(v, t, s, i), accepted' = accepted, Line' = Line,
         s = "active" => t \in accepted /\ v <= Line,
         s # "active" => v > Line
  PROVE  /\ LiveRows'
         /\ \A k \in 1..Len(rows) : rows[k].status = "active" => rows'[k].status = "active"
         /\ \A k \in 1..Len(rows') : rows'[k].version = v => rows'[k].status = s
PROOF
  <1>t. StoreTypes
    BY DEF Types
  <1>0. Len(rows) \in Nat /\ \A k \in 1..Len(rows) : rows[k].version \in Nat
    BY <1>t, RowFields
  <1>1. PICK n \in 1..Len(rows') : Upserted(n, v, t, s, i)
    BY <1>t, UpsertEffect
  <1>2. Line \in Nat
    BY Bounds DEF Types, NoteTypes, Line
  <1>3. LiveRows'
    <2>1. SUFFICES ASSUME NEW k \in 1..Len(rows'), rows'[k].status = "active"
                   PROVE  rows'[k].text \in accepted /\ rows'[k].version <= Line
      BY DEF LiveRows
    <2>2. CASE k = n
      BY <1>1, <2>1, <2>2 DEF Upserted
    <2>3. CASE k # n
      BY <1>1, <2>1, <2>3 DEF LiveRows, Upserted
    <2> QED
      BY <2>2, <2>3
  <1>4. ASSUME NEW k \in 1..Len(rows), rows[k].status = "active" PROVE rows'[k].status = "active"
    <2>1. k \in 1..Len(rows')
      BY <1>0, <1>1 DEF Upserted
    <2>2. CASE k = n
      <3>1. rows[k].version = v /\ rows[k].version <= Line
        BY <1>1, <1>4, <2>2 DEF LiveRows, Upserted
      <3>2. s = "active"
        BY <1>2, <3>1
      <3> QED
        BY <1>1, <2>2, <3>2 DEF Upserted
    <2>3. CASE k # n
      BY <1>1, <1>4, <2>1, <2>3 DEF Upserted
    <2> QED
      BY <2>2, <2>3
  <1>5. \A k \in 1..Len(rows') : rows'[k].version = v => rows'[k].status = s
    BY <1>1 DEF Upserted
  <1> QED
    BY <1>3, <1>4, <1>5

(* The line moves up, and stays below the rejects' numbers.                *)
LEMMA LineMoves ==
  ASSUME Types, [Next]_vars
  PROVE  /\ Line = 1000 + begun /\ Line' = 1000 + begun'
         /\ Line \in Nat /\ Line' \in Nat /\ Line <= Line' /\ Line <= 10000
PROOF
  <1>1. begun <= 9000
    <2>1. begun \in 0..MaxBegun /\ MaxBegun \in Nat /\ MaxBegun <= 9000
      BY Bounds DEF Types, NoteTypes
    <2> QED
      BY <2>1
  <1>2. PICK a \in Nat, b \in Nat : a = begun /\ b = begun' /\ a <= b /\ a <= 9000
    BY <1>1, NotesStay
  <1>3. a <= b /\ a <= 9000
    BY <1>2
  <1>4. 1000 + a \in Nat /\ 1000 + b \in Nat /\ 1000 + a <= 1000 + b /\ 1000 + a <= 10000
    BY <1>3
  <1>5. Line = 1000 + a /\ Line' = 1000 + b
    BY <1>2 DEF Line
  <1>6. Line \in Nat /\ Line' \in Nat /\ Line <= Line' /\ Line <= 10000
    BY <1>4, <1>5
  <1>7. Line = 1000 + begun /\ Line' = 1000 + begun'
    BY DEF Line
  <1> QED
    BY <1>6, <1>7

(* The steps of the loop keep LiveInv; no script is at work.               *)
LEMMA LiveLoopStep ==
  ASSUME Types, [Next]_vars, LoopStep, Calm, Calm',
         LiveRows, LiveFiles, LivePointer, LiveLoop
  PROVE  LiveRows' /\ LiveFiles' /\ LivePointer' /\ LiveLoop' /\ LiveScript'
PROOF
  <1>0. /\ StoreTypes /\ LoopTypes /\ NoteTypes /\ rows \in Seq(Rows) /\ Len(rows) \in Nat
        /\ \A k \in 1..Len(rows) : rows[k].version \in Nat /\ rows[k].text \in Nat
        /\ accepted \subseteq accepted' /\ begun \in Nat /\ begun' \in Nat /\ begun <= begun'
    BY NotesStay, RowFields DEF Types
  <1>l. Line \in Nat /\ Line' \in Nat /\ Line <= Line' /\ Line <= 10000 /\ Line = 1000 + begun
        /\ Line' = 1000 + begun'
    BY LineMoves
  <1>s. spc' = "idle" /\ LiveScript'
    <2>1. spc' = "idle"
      BY DEF LoopStep, script
    <2> QED
      BY <2>1 DEF LiveScript
  <1>f. LiveFiles'
    <2>1. files' = files /\ \A f \in files : f.version \in Nat
      BY <1>0 DEF LoopStep, StoreTypes
    <2>2. \A f \in files : f.text \in accepted'
      BY <1>0 DEF LiveFiles
    <2>3. \A f \in files : f.version <= Line'
      BY <1>l, <2>1 DEF LiveFiles
    <2> QED
      BY <2>1, <2>2, <2>3 DEF LiveFiles
  <1>r. rows' = rows => LiveRows'
    <2>1. SUFFICES ASSUME rows' = rows PROVE LiveRows'
      OBVIOUS
    <2>2. \A k \in 1..Len(rows) : rows[k].status = "active" => rows[k].version <= Line'
      BY <1>0, <1>l DEF LiveRows
    <2>3. \A k \in 1..Len(rows) : rows[k].status = "active" => rows[k].text \in accepted'
      BY <1>0 DEF LiveRows
    <2> QED
      BY <2>1, <2>2, <2>3 DEF LiveRows
  <1>1. CASE BeginIteration
    <2>1. /\ lpc = "idle" /\ lpc' \in {"install", "csv"} /\ active # 0
          /\ base' = rows[active].version /\ begun' = begun + 1 /\ rows' = rows /\ active' = active
      BY <1>1 DEF BeginIteration, db, Live
    <2>2. active \in 1..Len(rows) /\ rows[active].status = "active"
      BY <1>0, <2>1 DEF StoreTypes, LivePointer
    <2>3. base' \in Nat /\ base' <= Line
      BY <1>0, <2>1, <2>2 DEF LiveRows
    <2>4. base' + 1 <= Line'
      BY <1>0, <1>l, <2>1, <2>3
    <2> QED
      BY <1>s, <1>f, <1>r, <2>1, <2>2, <2>4 DEF LivePointer, LiveLoop
  <1>2. CASE Install
    <2>1. /\ Len(rows') = Len(rows) + 1 /\ prev' = active /\ active # 0
          /\ rows'[Len(rows) + 1].status = "candidate_preflight"
          /\ \A k \in 1..Len(rows) : rows'[k] = rows[k]
          /\ \A k \in 1..Len(rows') : k \in 1..Len(rows) \/ k = Len(rows) + 1
      BY <1>0, <1>2, InstallEffect
    <2>2. lpc = "install" /\ lpc' = "probe" /\ base' = base /\ accepted' = accepted /\ begun' = begun
      BY <1>2 DEF Install, verdicts
    <2>3. LiveRows'
      <3>1. SUFFICES ASSUME NEW k \in 1..Len(rows'), rows'[k].status = "active"
                     PROVE  rows'[k].text \in accepted' /\ rows'[k].version <= Line'
        BY DEF LiveRows
      <3>2. k \in 1..Len(rows) /\ rows'[k] = rows[k]
        BY <2>1, <3>1
      <3> QED
        BY <1>l, <2>2, <3>1, <3>2 DEF LiveRows
    <2>4. active \in 1..Len(rows) /\ rows[active].status = "active"
      BY <1>0, <2>1, <2>2 DEF StoreTypes, LivePointer
    <2>5. LivePointer'
      BY <2>1, <2>2, <2>4 DEF LivePointer
    <2>6. LiveLoop'
      BY <1>l, <2>2 DEF LiveLoop
    <2> QED
      BY <1>s, <1>f, <2>3, <2>5, <2>6
  <1>3. CASE \E passed \in BOOLEAN : Restore(passed)
    <2>1. /\ lpc = "probe" /\ active' = prev /\ lpc' \in {"install", "csv", "evaluate"}
          /\ base' = base /\ rows' = rows /\ begun' = begun
      BY <1>3 DEF Restore, NextVariant, LoopAt, counts
    <2> QED
      BY <1>l, <1>s, <1>f, <1>r, <2>1 DEF LivePointer, LiveLoop
  <1>4. CASE \E verdict \in {"adopt", "reject"} : Evaluate(verdict)
    <2>1. /\ lpc = "evaluate" /\ lpc' \in {"adopt", "reject"} /\ text' = text
          /\ lpc' = "adopt" => text \in accepted'
          /\ base' = base /\ rows' = rows /\ active' = active /\ begun' = begun
      BY <1>4 DEF Evaluate, db, counts
    <2> QED
      BY <1>l, <1>s, <1>f, <1>r, <2>1 DEF LivePointer, LiveLoop
  <1>5. CASE AdoptRow
    <2>1. /\ lpc = "adopt" /\ Upsert(base + 1, text, "active", iter) /\ lpc' = "activate"
          /\ UNCHANGED <<base, active, accepted, begun>>
      BY <1>5 DEF AdoptRow, LoopAt, verdicts, counts
    <2>2. base + 1 \in Nat /\ text \in Nat /\ "active" \in Statuses /\ iter \in Nat
      BY <1>0 DEF LoopTypes, Statuses
    <2>3. text \in accepted /\ base + 1 <= Line /\ Line' = Line
      BY <1>l, <2>1 DEF LiveLoop
    <2>4. /\ LiveRows'
          /\ \A k \in 1..Len(rows) : rows[k].status = "active" => rows'[k].status = "active"
          /\ \A k \in 1..Len(rows') : rows'[k].version = base + 1 => rows'[k].status = "active"
      BY <2>1, <2>2, <2>3, UpsertLive
    <2>5. RowsKept
      BY <1>0, <2>1, <2>2, UpsertKeeps
    <2>6. LivePointer'
      BY <1>0, <2>1, <2>4 DEF LivePointer, StoreTypes
    <2>7. LiveLoop'
      BY <2>1, <2>3, <2>4, <2>5 DEF LiveLoop, Of, RowsKept
    <2> QED
      BY <1>s, <1>f, <2>4, <2>6, <2>7
  <1>6. CASE Activate
    <2>1. /\ lpc = "activate" /\ lpc' = "csv" /\ active' \in Of(base + 1)
          /\ UNCHANGED <<base, rows, begun>>
      BY <1>6 DEF Activate, LoopAt, counts
    <2>2. rows[active'].status = "active"
      BY <2>1 DEF LiveLoop
    <2> QED
      BY <1>l, <1>s, <1>f, <1>r, <2>1, <2>2 DEF LivePointer, LiveLoop
  <1>7. CASE RejectRow
    <2> DEFINE v == 10000 + iter * 100 + idx
    <2>1. /\ lpc = "reject" /\ Upsert(v, text, "rejected", iter) /\ lpc' \in {"install", "csv"}
          /\ UNCHANGED <<base, active, accepted, begun>>
      BY <1>7 DEF RejectRow, NextVariant, LoopAt, verdicts, counts
    <2>2. iter \in Nat /\ iter >= 1 /\ idx \in Nat /\ text \in Nat /\ "rejected" \in Statuses
      BY <1>0, <2>1, Bounds DEF LoopTypes, Statuses
    <2>3. v \in Nat /\ v > Line /\ Line' = Line
      BY <1>l, <2>1, <2>2
    <2> HIDE DEF v
    <2>4. /\ LiveRows'
          /\ \A k \in 1..Len(rows) : rows[k].status = "active" => rows'[k].status = "active"
      BY <2>1, <2>2, <2>3, UpsertLive
    <2>5. LivePointer'
      BY <1>0, <2>1, <2>4 DEF LivePointer, StoreTypes
    <2>6. LiveLoop'
      BY <2>1, <2>3 DEF LiveLoop
    <2> QED
      BY <1>s, <1>f, <2>4, <2>5, <2>6
  <1>8. CASE WriteCsv
    <2>1. lpc = "csv" /\ lpc' = "idle" /\ UNCHANGED <<rows, active>>
      BY <1>8 DEF WriteCsv, LoopIdle, db
    <2> QED
      BY <1>s, <1>f, <1>r, <2>1 DEF LivePointer, LiveLoop
  <1>9. CASE LoopStops
    <2>1. /\ lpc' = "idle" /\ rows' = rows
          /\ lpc = "probe" => active' = prev
          /\ lpc # "probe" => active' = active
      BY <1>9 DEF LoopStops, LoopIdle, Calm
    <2> QED
      BY <1>s, <1>f, <1>r, <2>1 DEF LivePointer, LiveLoop
  <1> QED
    BY <1>1, <1>2, <1>3, <1>4, <1>5, <1>6, <1>7, <1>8, <1>9 DEF LoopStep, Loop

(* The steps of a script keep LiveInv; no iteration is under way.          *)
LEMMA LiveScriptStep ==
  ASSUME Types, [Next]_vars, ScriptStep, Calm, Calm',
         LiveRows, LiveFiles, LivePointer, LiveScript
  PROVE  LiveRows' /\ LiveFiles' /\ LivePointer' /\ LiveLoop' /\ LiveScript'
PROOF
  <1>t. StoreTypes /\ LoopTypes /\ ScriptTypes /\ NoteTypes
    BY DEF Types
  <1>0. /\ rows \in Seq(Rows) /\ Len(rows) \in Nat
        /\ \A k \in 1..Len(rows) : rows[k].version \in Nat /\ rows[k].text \in Nat
        /\ accepted \subseteq accepted'
    BY <1>t, NotesStay, RowFields
  <1>l. Line \in Nat /\ Line' = Line /\ Line >= 1000
    BY <1>t, Bounds DEF Line, NoteTypes, ScriptStep
  <1>i. lpc = "idle" /\ lpc' = "idle" /\ LiveLoop'
    <2>1. lpc = "idle" /\ lpc' = "idle"
      BY DEF ScriptStep, loop
    <2> QED
      BY <2>1 DEF LiveLoop
  <1>p. active # 0 => active \in 1..Len(rows) /\ rows[active].status = "active"
    BY <1>t, <1>0, <1>i DEF StoreTypes, LivePointer
  <1>f. files' = files => LiveFiles'
    BY <1>0, <1>l DEF LiveFiles
  <1>r. rows' = rows => LiveRows'
    BY <1>0, <1>l DEF LiveRows
  <1>q. rows' = rows /\ active' = active => LivePointer'
    BY <1>i, <1>p DEF LivePointer
  <1>1. CASE StartSeed
    <2>1. spc' = "seed" /\ UNCHANGED <<rows, active, files>>
      BY <1>1 DEF StartSeed, db, disk
    <2> QED
      BY <1>i, <1>f, <1>r, <1>q, <2>1 DEF LiveScript
  <1>2. CASE SeedRow
    <2>1. /\ spc = "seed" /\ spc' = "pointer" /\ Upsert(First, TextOnDisk(First), "active", 0)
          /\ UNCHANGED <<active, files, todo, accepted>>
      BY <1>2 DEF SeedRow, disk, verdicts
    <2>2. PICK f \in files : f.version = First /\ TextOnDisk(First) = f.text
      BY <1>t, <2>1, FirstIsLeft DEF ScriptTypes
    <2>3. /\ First \in Nat /\ TextOnDisk(First) \in Nat /\ 0 \in Nat /\ "active" \in Statuses
          /\ TextOnDisk(First) \in accepted /\ First <= Line
      BY <1>t, <2>2 DEF StoreTypes, LiveFiles, Statuses
    <2>4. /\ LiveRows'
          /\ \A k \in 1..Len(rows) : rows[k].status = "active" => rows'[k].status = "active"
          /\ \A k \in 1..Len(rows') : rows'[k].version = First => rows'[k].status = "active"
      BY <1>l, <2>1, <2>3, UpsertLive
    <2>5. RowsKept
      BY <1>t, <2>1, <2>3, UpsertKeeps
    <2>6. LivePointer'
      BY <1>i, <1>p, <2>1, <2>4 DEF LivePointer
    <2>7. First' = First
      BY <2>1 DEF First
    <2>8. LiveScript'
      BY <2>1, <2>4, <2>5, <2>7 DEF LiveScript, Of, RowsKept
    <2> QED
      BY <1>i, <1>f, <2>1, <2>4, <2>6, <2>8
  <1>3. CASE SeedPointer
    <2>1. /\ spc = "pointer" /\ active' = (IF active = 0 THEN IdOf(First) ELSE active)
          /\ spc' \in {"seeded", "seed"} /\ UNCHANGED <<rows, files>>
      BY <1>3 DEF SeedPointer, disk
    <2>2. IdOf(First) \in Of(First)
      BY <1>t, <2>1 DEF IdOf, ScriptTypes
    <2>3. rows[IdOf(First)].status = "active"
      BY <2>1, <2>2 DEF LiveScript
    <2>4. LivePointer'
      BY <1>i, <1>p, <2>1, <2>3 DEF LivePointer
    <2> QED
      BY <1>i, <1>f, <1>r, <2>1, <2>4 DEF LiveScript
  <1>4. CASE Seeded \/ ScriptStops
    <2>1. spc' = "idle" /\ UNCHANGED <<rows, active, files>>
      BY <1>4 DEF Seeded, ScriptStops, ScriptIdle, db, disk
    <2> QED
      BY <1>i, <1>f, <1>r, <1>q, <2>1 DEF LiveScript
  <1>5. CASE StartLift
    <2>1. /\ active # 0 /\ spc' = "lift" /\ found' = rows[active].text /\ num' = rows[active].version
          /\ UNCHANGED <<rows, active, files, accepted>>
      BY <1>5 DEF StartLift, Live, db, disk, verdicts
    <2>2. found' \in accepted /\ num' <= Line
      BY <1>p, <2>1 DEF LiveRows
    <2>3. LiveScript'
      BY <1>l, <2>1, <2>2 DEF LiveScript
    <2> QED
      BY <1>i, <1>f, <1>r, <1>q, <2>1, <2>3
  <1>6. CASE LiftFile
    <2>1. /\ spc = "lift" /\ spc' = "idle" /\ UNCHANGED <<rows, active, accepted>>
          /\ files' = {f \in files : f.version # num} \cup {[version |-> num, text |-> found]}
      BY <1>6 DEF LiftFile, ScriptIdle, Put, db, verdicts
    <2>2. found \in accepted /\ num <= Line
      BY <2>1 DEF LiveScript
    <2>3. ASSUME NEW f \in files' PROVE f.text \in accepted' /\ f.version <= Line'
      <3>1. CASE f \in files
        BY <1>l, <2>1, <3>1 DEF LiveFiles
      <3>2. CASE f = [version |-> num, text |-> found]
        <4>1. f.version = num /\ f.text = found
          BY <3>2
        <4> QED
          BY <1>l, <2>1, <2>2, <4>1
      <3> QED
        BY <2>1, <3>1, <3>2
    <2>4. LiveFiles'
      BY <2>3 DEF LiveFiles
    <2>5. LiveScript'
      BY <2>1 DEF LiveScript
    <2> QED
      BY <1>i, <1>r, <1>q, <2>1, <2>4, <2>5
  <1>7. CASE StartReDecide
    <2>1. /\ spc' = "find" /\ accepted' = accepted \cup {arg'.text}
          /\ UNCHANGED <<rows, active, files>>
      BY <1>7 DEF StartReDecide, db, disk
    <2> QED
      BY <1>i, <1>f, <1>r, <1>q, <2>1 DEF LiveScript
  <1>8. CASE Find
    <2>1. /\ spc = "find" /\ spc' = "number" /\ found' = Found /\ mistaken' = (mistaken \/ Found # arg.text)
          /\ UNCHANGED <<rows, active, files, accepted>>
      BY <1>8 DEF Find, db, disk
    <2>2. found' \in accepted
      BY <2>1 DEF LiveScript, Calm
    <2>3. LiveScript'
      BY <2>1, <2>2 DEF LiveScript
    <2> QED
      BY <1>i, <1>f, <1>r, <1>q, <2>1, <2>3
  <1>9. CASE Number
    <2>1. /\ spc = "number" /\ spc' = "write" /\ num' = NextNumber
          /\ UNCHANGED <<rows, active, files, found, accepted>>
      BY <1>9 DEF Number, db, disk, verdicts
    <2>2. num' <= Line
      BY <1>t, <1>l, <2>1, NextIsSmall
    <2>3. LiveScript'
      BY <1>l, <2>1, <2>2 DEF LiveScript
    <2> QED
      BY <1>i, <1>f, <1>r, <1>q, <2>1, <2>3
  <1>10. CASE WriteRow
    <2>1. /\ spc = "write" /\ spc' = "point" /\ Upsert(num, found, "active", arg.iter)
          /\ UNCHANGED <<active, files, found, num, accepted>>
      BY <1>10 DEF WriteRow, disk, verdicts
    <2>2. /\ num \in Nat /\ found \in Nat /\ arg.iter \in Nat /\ "active" \in Statuses
          /\ found \in accepted /\ num <= Line
      BY <1>t, <2>1 DEF ScriptTypes, Score, Statuses, LiveScript
    <2>i. PICK i \in Nat : Upsert(num, found, "active", i)
      BY <2>1, <2>2
    <2>3. /\ LiveRows'
          /\ \A k \in 1..Len(rows) : rows[k].status = "active" => rows'[k].status = "active"
          /\ \A k \in 1..Len(rows') : rows'[k].version = num => rows'[k].status = "active"
      BY <1>l, <2>1, <2>2, <2>i, UpsertLive
    <2>4. RowsKept
      BY <1>t, <2>1, <2>2, UpsertKeeps
    <2>5. LivePointer'
      BY <1>i, <1>p, <2>1, <2>3 DEF LivePointer
    <2>6. LiveScript'
      BY <1>l, <2>1, <2>2, <2>3, <2>4 DEF LiveScript, Of, RowsKept
    <2> QED
      BY <1>i, <1>f, <2>1, <2>3, <2>5, <2>6
  <1>11. CASE Point
    <2>1. /\ spc = "point" /\ spc' = "lift" /\ active' \in Of(num)
          /\ UNCHANGED <<rows, files, found, num, accepted>>
      BY <1>11 DEF Point, disk, verdicts
    <2>2. rows[active'].status = "active"
      BY <2>1 DEF LiveScript
    <2>3. LivePointer' /\ LiveScript'
      BY <1>l, <1>i, <2>1, <2>2 DEF LivePointer, LiveScript
    <2> QED
      BY <1>i, <1>f, <1>r, <2>1, <2>3
  <1> QED
    BY <1>1, <1>2, <1>3, <1>4, <1>5, <1>6, <1>7, <1>8, <1>9, <1>10, <1>11 DEF ScriptStep, Script

LEMMA LiveInvStep == Types /\ SoloInv /\ LiveInv /\ [Next]_vars => LiveInv'
PROOF
  <1> SUFFICES ASSUME Types, SoloInv, LiveInv, [Next]_vars, Calm'
               PROVE  LiveRows' /\ LiveFiles' /\ LivePointer' /\ LiveLoop' /\ LiveScript'
    BY DEF LiveInv
  <1>1. Calm
    BY NotesStay DEF Calm
  <1>2. LiveRows /\ LiveFiles /\ LivePointer /\ LiveLoop /\ LiveScript
    BY <1>1 DEF LiveInv
  <1>3. CASE LoopStep
    BY <1>1, <1>2, <1>3, LiveLoopStep
  <1>4. CASE ScriptStep
    BY <1>1, <1>2, <1>4, LiveScriptStep
  <1>5. CASE Clean
    <2>1. /\ lpc = "idle" /\ spc = "idle" /\ rows' = <<>> /\ active' = 0
          /\ UNCHANGED <<files, lpc, spc, accepted, begun>>
      BY <1>5 DEF Clean, disk, loop, script, verdicts
    <2>2. Line' = Line
      BY <2>1 DEF Line
    <2>3. LiveRows'
      BY <2>1 DEF LiveRows
    <2>4. LiveFiles'
      BY <1>2, <2>1, <2>2 DEF LiveFiles
    <2>5. LivePointer' /\ LiveLoop' /\ LiveScript'
      BY <2>1 DEF LivePointer, LiveLoop, LiveScript
    <2> QED
      BY <2>3, <2>4, <2>5
  <1>6. CASE \E i \in DOMAIN rows : Rollback(i)
    <2>1. PICK i : /\ rows[i].status = "active" /\ active' = i
                   /\ UNCHANGED <<rows, files, loop, script, accepted, begun>>
      BY <1>6 DEF Rollback, disk, verdicts
    <2>2. UNCHANGED <<lpc, base, text, prev, spc, todo, found, num, arg>> /\ Line' = Line
      BY <2>1 DEF loop, script, Line
    <2>3. LiveRows' /\ LiveFiles'
      BY <1>2, <2>1, <2>2 DEF LiveRows, LiveFiles
    <2>4. LivePointer' /\ LiveLoop'
      BY <1>2, <2>1, <2>2 DEF LivePointer, LiveLoop, Of
    <2>5. LiveScript'
      BY <1>2, <2>1, <2>2 DEF LiveScript, Of, First
    <2> QED
      BY <2>3, <2>4, <2>5
  <1>7. CASE UNCHANGED vars
    <2>1. /\ UNCHANGED <<rows, active, files, accepted, begun, lpc, base, text, prev>>
          /\ UNCHANGED <<spc, todo, found, num, arg>>
      BY <1>7 DEF vars, db, disk, loop, script, verdicts, counts
    <2>2. Line' = Line
      BY <2>1 DEF Line
    <2>3. LiveRows' /\ LiveFiles'
      BY <1>2, <2>1, <2>2 DEF LiveRows, LiveFiles
    <2>4. LivePointer' /\ LiveLoop'
      BY <1>2, <2>1, <2>2 DEF LivePointer, LiveLoop, Of
    <2>5. LiveScript'
      BY <1>2, <2>1, <2>2 DEF LiveScript, Of, First
    <2> QED
      BY <2>3, <2>4, <2>5
  <1>8. ~ crossed'
    BY DEF Calm
  <1> QED
    BY <1>3, <1>4, <1>5, <1>6, <1>7, <1>8, WhoSteps DEF ByHand

LEMMA InitLive == Init => SoloInv /\ LiveInv
PROOF
  <1> SUFFICES ASSUME Init PROVE SoloInv /\ LiveInv
    OBVIOUS
  <1>1. /\ Len(rows) = 1 /\ rows[1].version = 1 /\ rows[1].text = 0 /\ rows[1].status = "active"
        /\ active = 1 /\ files = {[version |-> 1, text |-> 0]} /\ lpc = "idle" /\ spc = "idle"
        /\ accepted = {0} /\ Line = 1000
    BY DEF Init, Row, Line
  <1>2. SoloInv /\ LiveRows
    BY <1>1 DEF SoloInv, LiveRows
  <1>3. LiveFiles
    BY <1>1 DEF LiveFiles
  <1>4. LivePointer /\ LiveLoop /\ LiveScript
    BY <1>1 DEF LivePointer, LiveLoop, LiveScript
  <1> QED
    BY <1>2, <1>3, <1>4 DEF LiveInv

(* Outside a pre-flight the live text is the seed's or one that a gate or  *)
(* a consensus accepted, unless a pre-flight died, a script ran beside an  *)
(* iteration, or re_decide took another text than the one it had judged.   *)
THEOREM LiveTextsWereAccepted == Spec => []LiveWasAccepted
PROOF
  <1>1. Types /\ LiveInv => LiveWasAccepted
    <2> SUFFICES ASSUME Types, LiveInv, Calm, active # 0, lpc # "probe"
                 PROVE  rows[active].text \in accepted
      BY DEF LiveWasAccepted, Calm, Live
    <2>1. active \in 1..Len(rows)
      BY RowFields DEF Types, StoreTypes
    <2> QED
      BY <2>1 DEF LiveInv, LivePointer, LiveRows
  <1> QED
    BY <1>1, InitTypes, NextTypes, InitLive, SoloStep, LiveInvStep, PTL DEF Spec

-----------------------------------------------------------------------------
LEMMA SeedInvStep == Types /\ SoloInv /\ SeedInv /\ [Next]_vars => SeedInv'
PROOF
  <1> SUFFICES ASSUME Types, SoloInv, SeedInv, [Next]_vars, ~ crossed',
                      spc' \in {"seed", "pointer", "seeded"}
               PROVE  /\ spc' = "seeded" => active' # 0 /\ todo' = {}
                      /\ \A f \in files' :
                           f.version \notin todo' \/ (spc' = "pointer" /\ f.version = First')
                           => \E i \in Of(f.version)' : rows'[i].text = f.text
    BY DEF SeedInv
  <1>t. StoreTypes /\ ScriptTypes /\ Len(rows) \in Nat /\ DOMAIN rows = 1..Len(rows)
    BY RowFields DEF Types
  <1>c. ~ crossed
    BY NotesStay
  <1>1. CASE LoopStep
    BY <1>1 DEF LoopStep, script
  <1>2. CASE ScriptStep
    <2>1. CASE StartSeed
      <3>1. spc' = "seed" /\ files' = files /\ todo' = {f.version : f \in files}
        BY <2>1 DEF StartSeed, disk
      <3> QED
        BY <3>1
    <2>2. CASE SeedRow
      <3>1. /\ spc = "seed" /\ spc' = "pointer" /\ files' = files /\ todo' = todo
            /\ Upsert(First, TextOnDisk(First), "active", 0)
        BY <2>2 DEF SeedRow, disk
      <3>2. /\ First \in todo /\ First \in Nat /\ \E f \in files : f.version = First
            /\ \A f \in files : f.version = First => TextOnDisk(First) = f.text
        BY <1>t, <3>1, FirstIsLeft DEF ScriptTypes
      <3>3. TextOnDisk(First) \in Nat /\ 0 \in Nat /\ "active" \in Statuses
        BY <1>t, <3>2 DEF StoreTypes, Statuses
      <3>4. PICK n \in 1..Len(rows') : Upserted(n, First, TextOnDisk(First), "active", 0)
        BY <1>t, <3>1, <3>2, <3>3, UpsertEffect
      <3>5. First' = First
        BY <3>1 DEF First
      <3>6. ASSUME NEW f \in files, f.version \notin todo \/ f.version = First
            PROVE  \E i \in Of(f.version)' : rows'[i].text = f.text
        <4>1. CASE f.version = First
          <5>1. rows'[n].text = f.text /\ rows'[n].version = f.version /\ n \in DOMAIN rows'
            BY <3>2, <3>4, <4>1 DEF Upserted
          <5> QED
            BY <5>1 DEF Of
        <4>2. CASE f.version \notin todo
          <5>1. PICK k \in Of(f.version) : rows[k].text = f.text
            BY <1>c, <3>1, <4>2 DEF SeedInv
          <5>2. k \in 1..Len(rows) /\ rows[k].version = f.version /\ rows[k].version # First
            BY <1>t, <3>2, <4>2, <5>1 DEF Of
          <5>3. k \in 1..Len(rows') /\ k # n
            BY <1>t, <3>4, <5>2 DEF Upserted
          <5>4. rows'[k] = rows[k] /\ k \in DOMAIN rows'
            BY <3>4, <5>3 DEF Upserted
          <5> QED
            BY <5>1, <5>2, <5>4 DEF Of
        <4> QED
          BY <3>6, <4>1, <4>2
      <3> QED
        BY <3>1, <3>5, <3>6
    <2>3. CASE SeedPointer
      <3>1. /\ spc = "pointer" /\ active' = (IF active = 0 THEN IdOf(First) ELSE active)
            /\ todo' = todo \ {First} /\ spc' = (IF todo' = {} THEN "seeded" ELSE "seed")
            /\ files' = files /\ rows' = rows
        BY <2>3 DEF SeedPointer, disk
      <3>2. IdOf(First) \in Of(First)
        BY <1>t, <3>1 DEF IdOf, ScriptTypes
      <3>3. active' # 0
        BY <1>t, <3>1, <3>2 DEF Of
      <3>4. \A f \in files : f.version \notin todo' => \E i \in Of(f.version) : rows[i].text = f.text
        BY <1>c, <3>1 DEF SeedInv
      <3> QED
        BY <3>1, <3>3, <3>4 DEF Of
    <2>4. CASE Seeded \/ ScriptStops
      BY <2>4 DEF Seeded, ScriptStops, ScriptIdle
    <2>5. CASE StartLift \/ LiftFile \/ StartReDecide \/ Find \/ Number \/ WriteRow \/ Point
      BY <2>5 DEF StartLift, LiftFile, StartReDecide, Find, Number, WriteRow, Point, ScriptIdle
    <2> QED
      BY <1>2, <2>1, <2>2, <2>3, <2>4, <2>5 DEF ScriptStep, Script
  <1>3. CASE Clean
    BY <1>3 DEF Clean, script
  <1>4. CASE \E i \in DOMAIN rows : Rollback(i)
    <2>1. /\ active' # 0 /\ UNCHANGED <<rows, files, script>>
      BY <1>t, <1>4 DEF Rollback, disk
    <2> QED
      BY <1>c, <2>1 DEF SeedInv, script, Of, First
  <1>5. CASE UNCHANGED vars
    <2>1. UNCHANGED <<rows, active, files, spc, todo>>
      BY <1>5 DEF vars, db, disk, script
    <2> QED
      BY <1>c, <2>1 DEF SeedInv, Of, First
  <1> QED
    BY <1>1, <1>2, <1>3, <1>4, <1>5, WhoSteps DEF ByHand

(* A seeding that is through has left a live prompt, and each file is the  *)
(* row of its number, also after the database was removed; unless an       *)
(* iteration ran beside it.                                                *)
THEOREM SeedingIsWhole == Spec => []SeedingRestores
PROOF
  <1>1. Init => SoloInv /\ SeedInv
    BY InitLive DEF Init, SeedInv
  <1>2. SeedInv => SeedingRestores
    BY DEF SeedInv, SeedingRestores
  <1> QED
    BY <1>1, <1>2, InitTypes, NextTypes, SoloStep, SeedInvStep, PTL DEF Spec

-----------------------------------------------------------------------------
(* No row is rejected by the step, and pre-flight rows name no iteration.  *)
NoNewReject ==
  \A k \in 1..Len(rows') :
    /\ rows'[k].status = "rejected" => k \in 1..Len(rows) /\ rows'[k] = rows[k]
    /\ rows'[k].status = "candidate_preflight" => rows'[k].iter = 0

LEMMA ActiveIsNoReject ==
  ASSUME StoreTypes, ScoredRows, NEW v \in Nat, NEW t \in Nat, NEW i \in Nat, Upsert(v, t, "active", i)
  PROVE  NoNewReject /\ DOMAIN rows' = 1..Len(rows')
PROOF
  <1>1. "active" \in Statuses
    BY DEF Statuses
  <1>2. PICK n \in 1..Len(rows') : Upserted(n, v, t, "active", i)
    BY <1>1, UpsertEffect
  <1> QED
    BY <1>2 DEF Upserted, NoNewReject, ScoredRows

(* What a step that rejects nothing and writes no scores leaves as it was. *)
LEMMA ScoredRowsStay ==
  ASSUME ScoredRows, NoNewReject, csv' = csv, used \subseteq used',
         lpc' = "idle" \/ (lpc # "idle" /\ iter' = iter /\ scores \subseteq scores')
  PROVE  ScoredRows'
PROOF
  <1> SUFFICES ASSUME NEW k \in 1..Len(rows')
               PROVE
         /\ rows'[k].status = "rejected" => rows'[k].iter \in used'
         /\ rows'[k].status = "candidate_preflight" => rows'[k].iter = 0
         /\ rows'[k].status = "rejected" /\ (\E c \in csv' : c.iter = rows'[k].iter)
              => \E c \in csv' : c.iter = rows'[k].iter /\ c.text = rows'[k].text
         /\ rows'[k].status = "rejected" /\ lpc' # "idle" /\ rows'[k].iter = iter'
              => \E c \in scores' : c.text = rows'[k].text
    BY DEF ScoredRows
  <1>1. rows'[k].status = "candidate_preflight" => rows'[k].iter = 0
    BY DEF NoNewReject
  <1>2. CASE rows'[k].status = "rejected"
    <2>1. k \in 1..Len(rows) /\ rows'[k] = rows[k]
      BY <1>2 DEF NoNewReject
    <2> QED
      BY <1>2, <2>1 DEF ScoredRows
  <1> QED
    BY <1>1, <1>2

LEMMA ScoredFindStays ==
  ASSUME ScoredFind, NoNewReject, DOMAIN rows' = 1..Len(rows'), DOMAIN rows = 1..Len(rows),
         csv' = csv,
         \/ spc' \notin {"find", "number"}
         \/ UNCHANGED <<spc, found, arg>>
  PROVE  ScoredFind'
PROOF
  <1>1. CASE spc' \notin {"find", "number"}
    BY <1>1 DEF ScoredFind
  <1>2. CASE UNCHANGED <<spc, found, arg>>
    <2>1. SUFFICES ASSUME OnlyReject' PROVE OnlyReject
      BY <1>2 DEF ScoredFind
    <2>2. PICK k \in 1..Len(rows') : rows'[k].status = "rejected" /\ rows'[k].iter = arg.iter
      BY <1>2, <2>1 DEF OnlyReject
    <2>3. k \in DOMAIN rows /\ rows'[k] = rows[k]
      BY <2>2 DEF NoNewReject
    <2>4. {c \in csv : c.iter = arg.iter} = {arg}
      BY <1>2, <2>1 DEF OnlyReject
    <2> QED
      BY <2>2, <2>3, <2>4 DEF OnlyReject
  <1> QED
    BY <1>1, <1>2

(* A rejected variant: its text was scored in the iteration, whose scores  *)
(* are not written yet.                                                    *)
LEMMA ScoredReject ==
  ASSUME Types, ~ reused', ScoredRows, ScoredFiles, ScoredLoop, ScoredFind, RejectRow
  PROVE  ScoredRows' /\ ScoredFiles' /\ ScoredLoop' /\ ScoredFind'
PROOF
  <1>t. StoreTypes /\ LoopTypes /\ DOMAIN rows = 1..Len(rows)
    BY RowFields DEF Types
  <1> DEFINE v == 10000 + iter * 100 + idx
  <1>1. /\ lpc = "reject" /\ Upsert(v, text, "rejected", iter) /\ lpc' \in {"install", "csv"}
        /\ UNCHANGED <<csv, iter, scores, used, spc, found, arg>>
    BY DEF RejectRow, NextVariant, LoopAt, disk, script, verdicts
  <1>2. iter \in Nat /\ iter # 0 /\ idx \in Nat /\ text \in Nat /\ "rejected" \in Statuses
    BY <1>t, <1>1, Bounds DEF LoopTypes, Statuses
  <1>3. v \in Nat
    BY <1>2
  <1> HIDE DEF v
  <1>4. PICK n \in 1..Len(rows') : Upserted(n, v, text, "rejected", iter)
    BY <1>t, <1>1, <1>2, <1>3, UpsertEffect
  <1>5. rows'[n].text = text /\ rows'[n].status = "rejected" /\ rows'[n].iter = iter
        /\ DOMAIN rows' = 1..Len(rows')
        /\ \A k \in 1..Len(rows') : k # n => k \in 1..Len(rows) /\ rows'[k] = rows[k]
    BY <1>2, <1>4 DEF Upserted
  <1>6. iter \in used /\ (\A c \in csv : c.iter # iter) /\ \E c \in scores : c.text = text
    BY <1>1 DEF ScoredLoop, ScoredFiles
  <1>7. ScoredRows'
    <2> SUFFICES ASSUME NEW k \in 1..Len(rows')
                 PROVE
           /\ rows'[k].status = "rejected" => rows'[k].iter \in used
           /\ rows'[k].status = "candidate_preflight" => rows'[k].iter = 0
           /\ rows'[k].status = "rejected" /\ (\E c \in csv : c.iter = rows'[k].iter)
                => \E c \in csv : c.iter = rows'[k].iter /\ c.text = rows'[k].text
           /\ rows'[k].status = "rejected" /\ rows'[k].iter = iter
                => \E c \in scores : c.text = rows'[k].text
      BY <1>1 DEF ScoredRows
    <2>1. CASE k = n
      BY <1>5, <1>6, <2>1
    <2>2. CASE k # n
      BY <1>1, <1>5, <2>2 DEF ScoredRows
    <2> QED
      BY <2>1, <2>2
  <1>8. ScoredFiles' /\ ScoredLoop'
    BY <1>1, <1>6 DEF ScoredFiles, ScoredLoop
  <1>9. ScoredFind'
    <2>1. spc' \in {"find", "number"} => arg' \in csv'
      BY <1>1 DEF ScoredFind
    <2>2. ASSUME spc = "number", OnlyReject' PROVE found = arg.text
      <3>1. arg \in csv /\ arg.iter # iter
        BY <1>6, <2>2 DEF ScoredFind
      <3>2. PICK k \in 1..Len(rows') : rows'[k].status = "rejected" /\ rows'[k].iter = arg.iter
        BY <1>1, <1>5, <2>2 DEF OnlyReject
      <3>3. k \in DOMAIN rows /\ rows'[k] = rows[k]
        BY <1>t, <1>5, <3>1, <3>2
      <3>4. {c \in csv : c.iter = arg.iter} = {arg}
        BY <1>1, <2>2 DEF OnlyReject
      <3>5. OnlyReject
        BY <3>2, <3>3, <3>4 DEF OnlyReject
      <3> QED
        BY <2>2, <3>5 DEF ScoredFind
    <2> QED
      BY <1>1, <2>1, <2>2 DEF ScoredFind
  <1> QED
    BY <1>7, <1>8, <1>9

(* The scores reach the disk, where there were none of the iteration.      *)
LEMMA ScoredWrite ==
  ASSUME Types, ScoredRows, ScoredFiles, ScoredLoop, ScoredFind, WriteCsv
  PROVE  ScoredRows' /\ ScoredFiles' /\ ScoredLoop' /\ ScoredFind'
PROOF
  <1>1. /\ lpc = "csv" /\ csv' = {c \in csv : c.iter # iter} \cup scores
        /\ lpc' = "idle" /\ scores' = {}
        /\ UNCHANGED <<rows, used, spc, found, arg>>
    BY DEF WriteCsv, LoopIdle, db, script, verdicts
  <1>2. iter \in used /\ (\A c \in csv : c.iter # iter) /\ \A c \in scores : c.iter = iter
    BY <1>1 DEF ScoredLoop, ScoredFiles
  <1>3. csv' = csv \cup scores
    BY <1>1, <1>2
  <1>4. ScoredRows'
    <2> SUFFICES ASSUME NEW k \in 1..Len(rows), rows[k].status = "rejected",
                        NEW c \in csv', c.iter = rows[k].iter
                 PROVE  \E d \in csv' : d.iter = rows[k].iter /\ d.text = rows[k].text
      BY <1>1 DEF ScoredRows
    <2>1. CASE c \in csv
      BY <1>3, <2>1 DEF ScoredRows
    <2>2. CASE c \in scores
      <3>1. rows[k].iter = iter
        BY <1>2, <2>2
      <3>2. PICK d \in scores : d.text = rows[k].text
        BY <1>1, <3>1 DEF ScoredRows
      <3> QED
        BY <1>2, <1>3, <3>1, <3>2
    <2> QED
      BY <1>3, <2>1, <2>2
  <1>5. ScoredFiles' /\ ScoredLoop'
    BY <1>1, <1>2, <1>3 DEF ScoredFiles, ScoredLoop
  <1>6. ScoredFind'
    <2>1. spc' \in {"find", "number"} => arg' \in csv'
      BY <1>1, <1>3 DEF ScoredFind
    <2>2. ASSUME spc = "number", OnlyReject' PROVE found = arg.text
      <3>1. arg \in csv /\ arg.iter # iter
        BY <1>2, <2>2 DEF ScoredFind
      <3>2. {c \in csv' : c.iter = arg.iter} = {arg}
        BY <1>1, <2>2 DEF OnlyReject
      <3>3. {c \in csv : c.iter = arg.iter} = {arg}
        BY <1>3, <3>1, <3>2
      <3>4. OnlyReject
        BY <1>1, <2>2, <3>3 DEF OnlyReject
      <3> QED
        BY <2>2, <3>4 DEF ScoredFind
    <2> QED
      BY <1>1, <2>1, <2>2 DEF ScoredFind
  <1> QED
    BY <1>4, <1>5, <1>6

(* What re_decide finds: a rejected row of the iteration it read about.    *)
LEMMA ScoredFound ==
  ASSUME Types, ScoredRows, ScoredFiles, ScoredFind, Find
  PROVE  ScoredFind'
PROOF
  <1>t. StoreTypes /\ DOMAIN rows = 1..Len(rows) /\ used \subseteq Iterations
    BY RowFields DEF Types, NoteTypes
  <1>1. /\ spc = "find" /\ spc' = "number" /\ found' = Found
        /\ UNCHANGED <<rows, csv, arg>>
    BY DEF Find, db, disk
  <1>2. arg \in csv
    BY <1>1 DEF ScoredFind
  <1>3. ASSUME OnlyReject PROVE Found = arg.text
    <2>1. Candidates # {}
      BY <1>3 DEF OnlyReject, Candidates
    <2>2. PICK k \in Candidates : Found = rows[k].text
      BY <1>t, <2>1, FoundIsCandidate
    <2>3. k \in 1..Len(rows) /\ rows[k].iter = arg.iter
          /\ rows[k].status \in {"candidate_preflight", "rejected"}
      BY <1>t DEF Candidates
    <2>4. arg.iter # 0
      BY <1>t, <1>2, Bounds DEF ScoredFiles
    <2>5. rows[k].status = "rejected"
      BY <2>3, <2>4 DEF ScoredRows
    <2>6. PICK c \in csv : c.iter = arg.iter /\ c.text = rows[k].text
      BY <1>2, <2>3, <2>5 DEF ScoredRows
    <2>7. c = arg
      BY <1>3, <2>6 DEF OnlyReject
    <2> QED
      BY <2>2, <2>6, <2>7
  <1>4. OnlyReject' => OnlyReject
    BY <1>1 DEF OnlyReject
  <1> QED
    BY <1>1, <1>2, <1>3, <1>4 DEF ScoredFind

LEMMA ScoredInvStep == Types /\ ScoredInv /\ [Next]_vars => ScoredInv'
PROOF
  <1> SUFFICES ASSUME Types, ScoredInv, [Next]_vars, ~ reused'
               PROVE  ScoredRows' /\ ScoredFiles' /\ ScoredLoop' /\ ScoredFind'
    BY DEF ScoredInv
  <1>t. StoreTypes /\ LoopTypes /\ ScriptTypes /\ NoteTypes /\ DOMAIN rows = 1..Len(rows)
    BY RowFields DEF Types
  <1>0. ScoredRows /\ ScoredFiles /\ ScoredLoop /\ ScoredFind /\ used \subseteq used'
    BY NotesStay DEF ScoredInv
  <1>r. rows' = rows => NoNewReject /\ DOMAIN rows' = 1..Len(rows')
    BY <1>t, <1>0 DEF NoNewReject, ScoredRows
  (* Steps that reject nothing, write no scores and find nothing.          *)
  <1>k. ASSUME NoNewReject, DOMAIN rows' = 1..Len(rows'), csv' = csv,
               \/ lpc' = "idle" /\ scores' = {}
               \/ lpc # "idle" /\ iter' = iter /\ scores' = scores /\ lpc' # "reject"
               \/ UNCHANGED <<lpc, iter, text, scores>>,
               spc' \notin {"find", "number"} \/ UNCHANGED <<spc, found, arg>>
        PROVE  ScoredRows' /\ ScoredFiles' /\ ScoredLoop' /\ ScoredFind'
    <2>1. ScoredRows'
      BY <1>0, <1>k, ScoredRowsStay
    <2>2. ScoredFiles' /\ ScoredLoop'
      BY <1>0, <1>k DEF ScoredFiles, ScoredLoop
    <2>3. ScoredFind'
      BY <1>t, <1>0, <1>k, ScoredFindStays
    <2> QED
      BY <2>1, <2>2, <2>3
  <1>1. CASE BeginIteration
    <2>1. PICK i \in Iterations :
             iter' = i /\ used' = used \cup {i} /\ reused' = (reused \/ i \in used)
      BY <1>1 DEF BeginIteration
    <2>2. i \notin used
      BY <2>1
    <2>3. /\ scores' = {} /\ lpc' # "reject" /\ lpc' # "idle"
          /\ UNCHANGED <<rows, csv, spc, found, arg>>
      BY <1>1 DEF BeginIteration, db, disk, script
    <2>4. ScoredRows' /\ ScoredFiles' /\ ScoredLoop'
      BY <1>0, <2>1, <2>2, <2>3 DEF ScoredRows, ScoredFiles, ScoredLoop
    <2>5. ScoredFind'
      BY <1>t, <1>0, <1>r, <2>3, ScoredFindStays
    <2> QED
      BY <2>4, <2>5
  <1>2. CASE Install
    <2>1. /\ RowsKept
          /\ rows'[Len(rows) + 1].status = "candidate_preflight" /\ rows'[Len(rows) + 1].iter = 0
          /\ \A k \in 1..Len(rows) : rows'[k] = rows[k]
          /\ \A k \in 1..Len(rows') : k \in 1..Len(rows) \/ k = Len(rows) + 1
      BY <1>t, <1>2, InstallEffect
    <2>2. NoNewReject /\ DOMAIN rows' = 1..Len(rows')
      BY <1>0, <2>1 DEF NoNewReject, RowsKept, ScoredRows
    <2>3. lpc = "install" /\ lpc' = "probe" /\ UNCHANGED <<csv, iter, scores, spc, found, arg>>
      BY <1>2 DEF Install, disk, script
    <2> QED
      BY <1>k, <2>2, <2>3
  <1>3. CASE Activate \/ \E passed \in BOOLEAN : Restore(passed)
    <2>1. lpc # "idle" /\ lpc' # "reject" /\ UNCHANGED <<rows, csv, iter, scores, spc, found, arg>>
      BY <1>3 DEF Activate, Restore, LoopAt, NextVariant, disk, script
    <2> QED
      BY <1>k, <1>r, <2>1
  <1>4. CASE \E verdict \in {"adopt", "reject"} : Evaluate(verdict)
    <2>1. /\ lpc = "evaluate" /\ iter' = iter /\ text' = text
          /\ scores' = scores \cup {[iter |-> iter, idx |-> idx, text |-> text]}
          /\ UNCHANGED <<rows, csv, spc, found, arg>>
      BY <1>4 DEF Evaluate, db, disk, script
    <2>2. PICK new : new.iter = iter /\ new.text = text /\ scores' = scores \cup {new}
      BY <2>1
    <2>3. ScoredRows'
      BY <1>0, <1>r, <2>1, <2>2, ScoredRowsStay
    <2>4. ScoredFiles' /\ ScoredLoop'
      BY <1>0, <2>1, <2>2 DEF ScoredFiles, ScoredLoop
    <2>5. ScoredFind'
      BY <1>t, <1>0, <1>r, <2>1, ScoredFindStays
    <2> QED
      BY <2>3, <2>4, <2>5
  <1>5. CASE AdoptRow
    <2>1. /\ lpc = "adopt" /\ lpc' = "activate" /\ Upsert(base + 1, text, "active", iter)
          /\ UNCHANGED <<csv, iter, scores, spc, found, arg>>
      BY <1>5 DEF AdoptRow, LoopAt, disk, script
    <2>2. base + 1 \in Nat /\ text \in Nat /\ iter \in Nat
      BY <1>t DEF LoopTypes
    <2>3. NoNewReject /\ DOMAIN rows' = 1..Len(rows')
      BY <1>t, <1>0, <2>1, <2>2, ActiveIsNoReject
    <2> QED
      BY <1>k, <2>1, <2>3
  <1>6. CASE RejectRow
    BY <1>0, <1>6, ScoredReject
  <1>7. CASE WriteCsv
    BY <1>0, <1>7, ScoredWrite
  <1>8. CASE LoopStops
    <2>1. lpc' = "idle" /\ scores' = {} /\ UNCHANGED <<rows, csv, spc, found, arg>>
      BY <1>8 DEF LoopStops, LoopIdle, disk, script
    <2> QED
      BY <1>k, <1>r, <2>1
  <1>9. CASE SeedRow
    <2>1. /\ spc = "seed" /\ spc' = "pointer" /\ Upsert(First, TextOnDisk(First), "active", 0)
          /\ UNCHANGED <<csv, lpc, iter, text, scores>>
      BY <1>9 DEF SeedRow, disk, loop
    <2>2. PICK f \in files : f.version = First /\ TextOnDisk(First) = f.text
      BY <1>t, <2>1, FirstIsLeft DEF ScriptTypes
    <2>3. First \in Nat /\ TextOnDisk(First) \in Nat /\ 0 \in Nat
      BY <1>t, <2>2 DEF StoreTypes
    <2>4. NoNewReject /\ DOMAIN rows' = 1..Len(rows')
      BY <1>t, <1>0, <2>1, <2>3, ActiveIsNoReject
    <2> QED
      BY <1>k, <2>1, <2>4
  <1>10. CASE WriteRow
    <2>1. /\ spc' = "point" /\ Upsert(num, found, "active", arg.iter)
          /\ UNCHANGED <<csv, lpc, iter, text, scores>>
      BY <1>10 DEF WriteRow, disk, loop
    <2>2. num \in Nat /\ found \in Nat /\ \E i \in Nat : Upsert(num, found, "active", i)
      BY <1>t, <2>1 DEF ScriptTypes, Score
    <2>3. NoNewReject /\ DOMAIN rows' = 1..Len(rows')
      BY <1>t, <1>0, <2>2, ActiveIsNoReject
    <2> QED
      BY <1>k, <2>1, <2>3
  <1>11. CASE Find
    <2>1. UNCHANGED <<rows, csv, used, lpc, iter, text, scores>>
      BY <1>11 DEF Find, db, disk, loop
    <2>2. ScoredRows' /\ ScoredFiles' /\ ScoredLoop'
      BY <1>0, <2>1 DEF ScoredRows, ScoredFiles, ScoredLoop
    <2> QED
      BY <1>0, <1>11, <2>2, ScoredFound
  <1>12. CASE StartReDecide
    <2>1. /\ spc' = "find" /\ arg' \in csv
          /\ UNCHANGED <<rows, csv, used, lpc, iter, text, scores>>
      BY <1>12 DEF StartReDecide, db, disk, loop
    <2>2. ScoredRows' /\ ScoredFiles' /\ ScoredLoop'
      BY <1>0, <2>1 DEF ScoredRows, ScoredFiles, ScoredLoop
    <2> QED
      BY <2>1, <2>2 DEF ScoredFind
  <1>13. CASE StartSeed \/ StartLift \/ Seeded \/ ScriptStops
    <2>1. spc' \notin {"find", "number"} /\ UNCHANGED <<rows, csv, lpc, iter, text, scores>>
      BY <1>13 DEF StartSeed, StartLift, Seeded, ScriptStops, ScriptIdle, db, disk, loop
    <2> QED
      BY <1>k, <1>r, <2>1
  <1>14. CASE SeedPointer \/ LiftFile \/ Number \/ Point
    <2>1. spc' \notin {"find", "number"} /\ UNCHANGED <<rows, csv, lpc, iter, text, scores>>
      BY <1>14 DEF SeedPointer, LiftFile, Number, Point, ScriptIdle, db, disk, loop
    <2> QED
      BY <1>k, <1>r, <2>1
  <1>15. CASE Clean
    <2>1. rows' = <<>> /\ UNCHANGED <<csv, lpc, iter, text, scores, spc, found, arg>>
      BY <1>15 DEF Clean, disk, loop, script
    <2>2. NoNewReject /\ DOMAIN rows' = 1..Len(rows')
      BY <2>1 DEF NoNewReject
    <2> QED
      BY <1>k, <2>1, <2>2
  <1>16. CASE \E i \in DOMAIN rows : Rollback(i)
    <2>1. UNCHANGED <<rows, csv, lpc, iter, text, scores, spc, found, arg>>
      BY <1>16 DEF Rollback, disk, loop, script
    <2> QED
      BY <1>k, <1>r, <2>1
  <1>17. CASE UNCHANGED vars
    <2>1. UNCHANGED <<rows, csv, lpc, iter, text, scores, spc, found, arg>>
      BY <1>17 DEF vars, db, disk, loop, script
    <2> QED
      BY <1>k, <1>r, <2>1
  <1> QED
    BY <1>1, <1>2, <1>3, <1>4, <1>5, <1>6, <1>7, <1>8, <1>9, <1>10, <1>11, <1>12, <1>13, <1>14,
       <1>15, <1>16, <1>17 DEF Next, Loop, Script, Over

(* re_decide adopts the text whose scores it read, if the iteration's id   *)
(* was given once and this variant is the only one scored and the row of   *)
(* its rejection is there, whatever runs beside it.                        *)
THEOREM ReDecideIsOfItsScores == Spec => []ReDecidedTextWasScored
PROOF
  <1>1. Init => ScoredInv
    BY DEF Init, Row, ScoredInv, ScoredRows, ScoredFiles, ScoredLoop, ScoredFind
  <1>2. ScoredInv => ReDecidedTextWasScored
    BY DEF ScoredInv, ScoredFind, ReDecidedTextWasScored
  <1> QED
    BY <1>1, <1>2, InitTypes, NextTypes, ScoredInvStep, PTL DEF Spec

-----------------------------------------------------------------------------
(* Numbers keep their texts.                                               *)

(* Below the numbers of candidates and rejects, a number has one row.      *)
NumbersOnce ==
  \A i, j \in 1..Len(rows) : rows[i].version = rows[j].version /\ rows[i].version < 10000 => i = j

(* The row that is live, or will be put back when the probes are through,  *)
(* and the number that was reached with it. While nothing was moved by     *)
(* hand, overlapped or stayed live that was not adopted, the loop goes     *)
(* from that number to the next and re_decide to a higher one, until 1000  *)
(* is reached; and a file has a number reached before and its row's text.  *)
Home    == IF lpc = "probe" THEN prev ELSE active
Reached == rows[Home].version
Quiet   == rollbacks = 0 /\ wipes = 0 /\ ~ crossed /\ ~ stranded
TextOf(v, t) == \A i \in 1..Len(rows) : rows[i].version = v => rows[i].text = t
Numbered999 == \E i \in 1..Len(rows) : rows[i].version = 999

KeepHome == Home # 0 /\ (Reached >= 1000 => Numbered999)
KeepLoop == lpc \notin {"idle", "csv"} => base = Reached
KeepFiles == Reached < 1000 => \A f \in files : f.version <= Reached /\ TextOf(f.version, f.text)
KeepScript ==
  /\ spc \in {"write", "point"} =>
       num <= 1000 /\ (num > Reached \/ num = 1000) /\ (num = 1000 => Numbered999)
  /\ spc = "point" => TextOf(num, found)
  /\ spc = "lift" => num = Reached /\ (Reached < 1000 => TextOf(num, found))
KeepInv == Quiet => KeepHome /\ KeepLoop /\ KeepFiles /\ KeepScript

LEMMA UpsertOnce ==
  ASSUME StoreTypes, NumbersOnce,
         NEW v \in Nat, NEW t \in Nat, NEW s \in Statuses, NEW i \in Nat, Upsert(v, t, s, i)
  PROVE  NumbersOnce'
PROOF
  <1>1. PICK n \in 1..Len(rows') : Upserted(n, v, t, s, i)
    BY UpsertEffect
  <1>2. \A k \in 1..Len(rows') : k # n => k \in 1..Len(rows) /\ rows'[k] = rows[k] /\ rows[k].version # v
    BY <1>1 DEF Upserted
  <1>3. rows'[n].version = v
    BY <1>1 DEF Upserted
  <1>4. SUFFICES ASSUME NEW j \in 1..Len(rows'), NEW k \in 1..Len(rows'),
                        rows'[j].version = rows'[k].version, rows'[j].version < 10000
                 PROVE  j = k
    BY DEF NumbersOnce
  <1>5. CASE j # n /\ k # n
    <2>1. /\ j \in 1..Len(rows) /\ rows'[j] = rows[j]
          /\ k \in 1..Len(rows) /\ rows'[k] = rows[k]
      BY <1>2, <1>5
    <2>2. rows[j].version = rows[k].version /\ rows[j].version < 10000
      BY <1>4, <2>1
    <2> QED
      BY <2>1, <2>2 DEF NumbersOnce
  <1>6. CASE j = n \/ k = n
    BY <1>2, <1>3, <1>4, <1>6
  <1> QED
    BY <1>5, <1>6

LEMMA NumbersOnceStep == Types /\ NumbersOnce /\ [Next]_vars => NumbersOnce'
PROOF
  <1> SUFFICES ASSUME Types, NumbersOnce, [Next]_vars PROVE NumbersOnce'
    OBVIOUS
  <1>0. StoreTypes /\ LoopTypes /\ ScriptTypes /\ NoteTypes
    BY DEF Types
  <1>1. CASE Install
    <2>1. \A k \in 1..Len(rows) : rows'[k] = rows[k]
      BY <1>0, <1>1, InstallEffect
    <2>2. \A k \in 1..Len(rows') : k \in 1..Len(rows) \/ k = Len(rows) + 1
      BY <1>0, <1>1, InstallEffect
    <2>3. rows'[Len(rows) + 1].version >= 10000
      <3> DEFINE new == Row(PreflightVersion, text', "candidate_preflight", 0)
      <3>1. rows' = Append(rows, new)
        BY <1>1 DEF Install
      <3>2. new.version = PreflightVersion
        BY DEF Row
      <3> HIDE DEF new
      <3>3. rows'[Len(rows) + 1] = new
        BY <1>0, <3>1, RowFields
      <3> QED
        BY <3>2, <3>3, Bounds
    <2>4. \A k \in 1..Len(rows') : rows'[k].version < 10000 => k \in 1..Len(rows)
      <3>1. rows'[Len(rows) + 1].version \in Nat
        <4>1. PICK m \in Nat : m = Len(rows) + 1 /\ m \in 1..Len(rows')
          BY <1>0, <1>1, InstallEffect, RowFields
        <4>2. rows'[m] \in Rows
          BY <1>0, <1>1, <4>1, InstallEffect DEF RowsKept
        <4> QED
          BY <4>1, <4>2 DEF Rows
      <3> QED
        BY <2>2, <2>3, <3>1
    <2> QED
      BY <2>1, <2>4 DEF NumbersOnce
  <1>2. CASE AdoptRow
    BY <1>0, <1>2, UpsertOnce, Bounds DEF AdoptRow, LoopTypes, Statuses
  <1>3. CASE RejectRow
    <2>1. 10000 + iter * 100 + idx \in Nat /\ text \in Nat /\ iter \in Nat
      BY <1>0 DEF LoopTypes
    <2> QED
      BY <1>0, <1>3, <2>1, UpsertOnce DEF RejectRow, Statuses
  <1>4. CASE SeedRow
    <2>1. todo # {}
      BY <1>0, <1>4 DEF SeedRow, ScriptTypes
    <2>2. First \in Nat /\ TextOnDisk(First) \in Nat
      BY <1>0, <2>1, FirstIsLeft DEF StoreTypes
    <2> QED
      BY <1>0, <1>4, <2>2, UpsertOnce DEF SeedRow, Statuses
  <1>5. CASE WriteRow
    BY <1>0, <1>5, UpsertOnce DEF WriteRow, ScriptTypes, Score, Statuses
  <1>6. CASE Clean
    BY <1>6 DEF Clean, NumbersOnce
  <1>7. CASE UNCHANGED rows
    BY <1>7 DEF NumbersOnce
  <1>8. CASE \/ BeginIteration \/ Activate \/ WriteCsv \/ LoopStops
             \/ (\E passed \in BOOLEAN : Restore(passed))
             \/ (\E verdict \in {"adopt", "reject"} : Evaluate(verdict))
    BY <1>7, <1>8 DEF BeginIteration, Activate, WriteCsv, LoopStops, Restore, Evaluate, db
  <1>9. CASE \/ StartSeed \/ SeedPointer \/ Seeded \/ StartLift \/ LiftFile \/ StartReDecide
             \/ Find \/ Number \/ Point \/ ScriptStops
    BY <1>7, <1>9 DEF StartSeed, SeedPointer, Seeded, StartLift, LiftFile, StartReDecide,
                      Find, Number, Point, ScriptStops, db
  <1>10. CASE (\E i \in DOMAIN rows : Rollback(i)) \/ Over \/ UNCHANGED vars
    BY <1>7, <1>10 DEF Rollback, Over, vars, db
  <1> QED
    BY <1>1, <1>2, <1>3, <1>4, <1>5, <1>6, <1>8, <1>9, <1>10 DEF Next, Loop, Script

(* Home and what is known of it, as numbers.                               *)
LEMMA HomeIs ==
  ASSUME Types, KeepHome
  PROVE  Home \in 1..Len(rows) /\ Reached \in Nat /\ Len(rows) \in Nat
PROOF
  <1>1. Home \in 0..Len(rows) /\ Len(rows) \in Nat
    BY RowFields DEF Home, Types, StoreTypes, LoopTypes
  <1>2. Home \in 1..Len(rows)
    BY <1>1 DEF KeepHome
  <1> QED
    BY <1>1, <1>2, RowFields DEF Reached, Types

(* A step that leaves the home row and the old numbers alone reaches       *)
(* nothing new.                                                            *)
LEMMA HomeStays ==
  ASSUME Types, KeepHome, RowsKept, Home' = Home
  PROVE  Reached' = Reached /\ (Numbered999 => Numbered999') /\ KeepHome'
PROOF
  <1>1. Home \in 1..Len(rows) /\ Reached \in Nat /\ Len(rows) \in Nat
    BY HomeIs
  <1>2. Reached' = Reached
    BY <1>1 DEF Reached, RowsKept
  <1>3. \A k \in 1..Len(rows) : k \in 1..Len(rows') /\ rows'[k].version = rows[k].version
    BY <1>1 DEF RowsKept
  <1>4. Numbered999 => Numbered999'
    BY <1>3 DEF Numbered999
  <1> QED
    BY <1>2, <1>4 DEF KeepHome

(* Files are about numbers reached, so a row above these does not matter,  *)
LEMMA FilesStay ==
  ASSUME Types, KeepHome, KeepFiles, Home' = Home, UNCHANGED files,
         NEW v \in Nat, NEW t, NEW s, NEW i, NEW n \in 1..Len(rows'), Upserted(n, v, t, s, i),
         Reached' = Reached, Reached < 1000 => v > Reached
  PROVE  KeepFiles'
PROOF
  <1>1. SUFFICES ASSUME Reached < 1000, NEW f \in files, NEW k \in 1..Len(rows'),
                        rows'[k].version = f.version
                 PROVE  rows'[k].text = f.text
    BY DEF KeepFiles, TextOf
  <1>2. f.version <= Reached /\ TextOf(f.version, f.text) /\ f.version \in Nat /\ Reached \in Nat
    BY <1>1, HomeIs DEF KeepFiles, Types, StoreTypes
  <1>3. k # n
    BY <1>1, <1>2 DEF Upserted
  <1>4. k \in 1..Len(rows) /\ rows'[k] = rows[k]
    BY <1>3 DEF Upserted
  <1> QED
    BY <1>1, <1>2, <1>4 DEF TextOf

(* nor do rows that stay as they are.                                      *)
LEMMA SameRows ==
  ASSUME Types, KeepHome, UNCHANGED rows, Home' = Home
  PROVE  Reached' = Reached /\ KeepHome' /\ (Numbered999' = Numbered999)
         /\ (\A v, t : TextOf(v, t)' = TextOf(v, t))
PROOF
  <1>1. Reached' = Reached
    BY DEF Reached
  <1>2. Numbered999' = Numbered999
    BY DEF Numbered999
  <1>3. \A v, t : TextOf(v, t)' = TextOf(v, t)
    BY DEF TextOf
  <1> QED
    BY <1>1, <1>2, <1>3 DEF KeepHome

(* What the loop does to the rows and the pointer.                         *)
LEMMA KeepLoopStep ==
  ASSUME Types, SoloInv, Quiet', KeepHome, KeepLoop, KeepFiles, KeepScript, LoopStep
  PROVE  KeepHome' /\ KeepLoop' /\ KeepFiles' /\ KeepScript'
PROOF
  <1>0. StoreTypes /\ LoopTypes /\ ScriptTypes /\ NoteTypes
    BY DEF Types
  <1>1. KeepScript' /\ UNCHANGED files
    BY DEF LoopStep, script, KeepScript
  <1>2. Home \in 1..Len(rows) /\ Reached \in Nat /\ Len(rows) \in Nat
    BY HomeIs
  <1>3. ASSUME UNCHANGED rows, Home' = Home PROVE KeepHome' /\ KeepFiles' /\ Reached' = Reached
    BY <1>1, <1>3, SameRows DEF KeepFiles
  <1>4. CASE BeginIteration
    <2>1. /\ lpc = "idle" /\ active # 0 /\ base' = rows[active].version /\ lpc' \in {"install", "csv"}
          /\ UNCHANGED <<rows, active>>
      BY <1>4 DEF BeginIteration, Live, db
    <2>2. Home' = Home /\ base' = Reached
      BY <2>1 DEF Home, Reached
    <2>3. KeepHome' /\ KeepFiles' /\ Reached' = Reached
      BY <1>3, <2>1, <2>2
    <2> QED
      BY <1>1, <2>2, <2>3 DEF KeepLoop
  <1>5. CASE Install
    <2> DEFINE new == Row(PreflightVersion, text', "candidate_preflight", 0)
    <2>1. /\ lpc = "install" /\ lpc' = "probe" /\ prev' = active /\ UNCHANGED base
          /\ rows' = Append(rows, new) /\ new.version = PreflightVersion
      BY <1>5 DEF Install, Row
    <2> HIDE DEF new
    <2>2. /\ \A k \in 1..Len(rows) : rows'[k] = rows[k]
          /\ \A k \in 1..Len(rows') : k \in 1..Len(rows) \/ k = Len(rows) + 1
          /\ RowsKept
      BY <1>0, <1>5, InstallEffect
    <2>3. rows'[Len(rows) + 1] = new
      BY <1>0, <2>1, RowFields
    <2>4. Home' = Home
      BY <2>1 DEF Home
    <2>5. KeepHome' /\ Reached' = Reached
      BY <2>2, <2>4, HomeStays
    <2>6. KeepFiles'
      <3>1. SUFFICES ASSUME Reached < 1000, NEW f \in files, NEW k \in 1..Len(rows'),
                            rows'[k].version = f.version
                     PROVE  rows'[k].text = f.text /\ f.version <= Reached
        BY <1>1, <2>5 DEF KeepFiles, TextOf
      <3>2. f.version <= Reached /\ TextOf(f.version, f.text) /\ f.version \in Nat
        BY <1>0, <3>1 DEF KeepFiles, StoreTypes
      <3>3. k # Len(rows) + 1
        BY <1>2, <2>1, <2>3, <3>1, <3>2, Bounds
      <3> QED
        BY <2>2, <3>1, <3>2, <3>3 DEF TextOf
    <2>7. KeepLoop'
      BY <2>1, <2>5 DEF KeepLoop
    <2> QED
      BY <1>1, <2>5, <2>6, <2>7
  <1>6. CASE \/ \E passed \in BOOLEAN : Restore(passed)
             \/ \E verdict \in {"adopt", "reject"} : Evaluate(verdict)
    <2>1. /\ lpc \in {"probe", "evaluate"} /\ lpc' \in {"evaluate", "install", "csv", "adopt", "reject"}
          /\ UNCHANGED <<rows, base>>
          /\ active' = IF lpc = "probe" THEN prev ELSE active
      BY <1>6 DEF Restore, Evaluate, NextVariant, LoopAt, db
    <2>2. Home' = Home
      BY <2>1 DEF Home
    <2>3. KeepHome' /\ KeepFiles' /\ Reached' = Reached
      BY <1>3, <2>1, <2>2
    <2>4. KeepLoop'
      BY <2>1, <2>3 DEF KeepLoop
    <2> QED
      BY <1>1, <2>3, <2>4
  <1>7. CASE AdoptRow
    <2>1. /\ lpc = "adopt" /\ lpc' = "activate" /\ UNCHANGED <<active, base>>
          /\ Upsert(base + 1, text, "active", iter)
      BY <1>7 DEF AdoptRow, LoopAt
    <2>2. base + 1 \in Nat /\ text \in Nat /\ iter \in Nat /\ "active" \in Statuses /\ base = Reached
      BY <1>0, <2>1 DEF LoopTypes, Statuses, KeepLoop
    <2>3. PICK n \in 1..Len(rows') : Upserted(n, base + 1, text, "active", iter)
      BY <1>0, <2>1, <2>2, UpsertEffect
    <2>4. RowsKept
      BY <1>0, <2>1, <2>2, UpsertKeeps
    <2>5. Home' = Home
      BY <2>1 DEF Home
    <2>6. KeepHome' /\ Reached' = Reached
      BY <2>4, <2>5, HomeStays
    <2>7. KeepFiles'
      BY <1>1, <1>2, <2>2, <2>3, <2>5, <2>6, FilesStay
    <2>8. KeepLoop'
      BY <2>1, <2>2, <2>6 DEF KeepLoop
    <2> QED
      BY <1>1, <2>6, <2>7, <2>8
  <1>8. CASE Activate
    <2>1. lpc = "activate" /\ lpc' = "csv" /\ active' \in Of(base + 1) /\ UNCHANGED rows
      BY <1>8 DEF Activate, LoopAt
    <2>2. base = Reached /\ Home = active /\ Home' = active'
      BY <2>1 DEF KeepLoop, Home
    <2>3. active' \in 1..Len(rows) /\ Reached' = Reached + 1
      BY <1>0, <2>1, <2>2, RowFields DEF Of, Reached
    <2>4. Numbered999' = Numbered999 /\ \A v, t : TextOf(v, t)' = TextOf(v, t)
      BY <2>1 DEF Numbered999, TextOf
    <2>5. Reached' >= 1000 => Numbered999
      <3>1. CASE Reached = 999
        BY <1>2, <3>1 DEF Numbered999, Reached
      <3>2. CASE Reached # 999
        BY <1>2, <2>3, <3>2 DEF KeepHome
      <3> QED
        BY <3>1, <3>2
    <2>6. KeepHome'
      BY <2>2, <2>3, <2>4, <2>5 DEF KeepHome
    <2>7. KeepFiles'
      <3>1. SUFFICES ASSUME Reached' < 1000, NEW f \in files PROVE f.version <= Reached' /\ TextOf(f.version, f.text)
        BY <1>1, <2>4 DEF KeepFiles
      <3>2. f.version \in Nat
        BY <1>0 DEF StoreTypes
      <3>3. f.version <= Reached /\ TextOf(f.version, f.text)
        BY <1>2, <2>3, <3>1 DEF KeepFiles
      <3> QED
        BY <1>2, <2>3, <3>2, <3>3
    <2>8. KeepLoop'
      BY <2>1 DEF KeepLoop
    <2> QED
      BY <1>1, <2>6, <2>7, <2>8
  <1>9. CASE RejectRow
    <2> DEFINE v == 10000 + iter * 100 + idx
    <2>1. /\ lpc = "reject" /\ lpc' \in {"install", "csv"} /\ UNCHANGED <<active, base>>
          /\ Upsert(v, text, "rejected", iter)
      BY <1>9 DEF RejectRow, NextVariant, LoopAt
    <2>2. v \in Nat /\ v >= 10000 /\ text \in Nat /\ iter \in Nat /\ "rejected" \in Statuses
      BY <1>0 DEF LoopTypes, Statuses
    <2> HIDE DEF v
    <2>3. PICK n \in 1..Len(rows') : Upserted(n, v, text, "rejected", iter)
      BY <1>0, <2>1, <2>2, UpsertEffect
    <2>4. RowsKept
      BY <1>0, <2>1, <2>2, UpsertKeeps
    <2>5. Home' = Home
      BY <2>1 DEF Home
    <2>6. KeepHome' /\ Reached' = Reached
      BY <2>4, <2>5, HomeStays
    <2>7. KeepFiles'
      BY <1>1, <1>2, <2>2, <2>3, <2>5, <2>6, FilesStay
    <2>8. KeepLoop'
      BY <2>1, <2>6 DEF KeepLoop
    <2> QED
      BY <1>1, <2>6, <2>7, <2>8
  <1>10. CASE WriteCsv \/ LoopStops
    <2>1. lpc # "idle" /\ lpc' = "idle" /\ UNCHANGED rows /\ Home' = Home
      <3>1. CASE WriteCsv
        BY <3>1 DEF WriteCsv, LoopIdle, Home, db
      <3>2. CASE LoopStops
        BY <3>2 DEF LoopStops, LoopIdle, Home, Quiet
      <3> QED
        BY <1>10, <3>1, <3>2
    <2>2. KeepHome' /\ KeepFiles'
      BY <1>3, <2>1
    <2> QED
      BY <1>1, <2>1, <2>2 DEF KeepLoop
  <1> QED
    BY <1>4, <1>5, <1>6, <1>7, <1>8, <1>9, <1>10 DEF LoopStep, Loop

(* The next number is above those below 1000, and 1000 only after 999.     *)
LEMMA NextIsAbove ==
  ASSUME StoreTypes
  PROVE  /\ \A k \in 1..Len(rows) : rows[k].version < 1000 => rows[k].version < NextNumber
         /\ NextNumber = 1000 => Numbered999
         /\ Numbered999 => NextNumber = 1000
PROOF
  <1>1. Adopted \subseteq Nat /\ \A v \in Adopted : v <= 999
    BY RowFields DEF Adopted
  <1>2. \A v : v \in Adopted <=> \E k \in 1..Len(rows) : rows[k].version = v /\ rows[k].version < 1000
    BY RowFields DEF Adopted
  <1>3. CASE Adopted = {}
    <2>1. NextNumber = 2
      BY <1>3 DEF NextNumber
    <2>2. \A k \in 1..Len(rows) : ~ (rows[k].version < 1000)
      <3>1. ASSUME NEW k \in 1..Len(rows), rows[k].version < 1000 PROVE FALSE
        <4>1. \E j \in 1..Len(rows) : rows[j].version = rows[k].version /\ rows[j].version < 1000
          BY <3>1
        <4>2. rows[k].version \in Adopted
          BY <1>2, <4>1
        <4> QED
          BY <1>3, <4>2
      <3> QED
        BY <3>1
    <2>3. ~ Numbered999
      BY <2>2 DEF Numbered999
    <2> QED
      BY <2>1, <2>2, <2>3
  <1>4. CASE Adopted # {}
    <2>1. \E v \in Adopted : \A w \in Adopted : w <= v
      <3>1. PICK b \in Nat : b = 999
        OBVIOUS
      <3>2. Adopted \subseteq Nat /\ \A v \in Adopted : v <= b
        BY <1>1, <3>1
      <3> QED
        BY <1>4, <3>2, GreatestOfSome
    <2> DEFINE m == CHOOSE v \in Adopted : \A w \in Adopted : w <= v
    <2>2. m \in Adopted /\ \A w \in Adopted : w <= m
      BY <2>1
    <2>3. NextNumber = 1 + m
      BY <1>4 DEF NextNumber
    <2> HIDE DEF m
    <2>4. \A w \in Adopted : w < NextNumber
      BY <1>1, <2>2, <2>3
    <2>5. NextNumber = 1000 => 999 \in Adopted
      BY <1>1, <2>2, <2>3
    <2>6. 999 \in Adopted => NextNumber = 1000
      BY <1>1, <2>2, <2>3
    <2>7. Numbered999 <=> 999 \in Adopted
      BY <1>2 DEF Numbered999
    <2> QED
      BY <1>2, <2>4, <2>5, <2>6, <2>7
  <1> QED
    BY <1>3, <1>4

(* What the scripts do to the rows, the pointer and the files.             *)
LEMMA KeepScriptStep ==
  ASSUME Types, SoloInv, NumbersOnce, Quiet', KeepHome, KeepFiles, KeepScript, ScriptStep
  PROVE  KeepHome' /\ KeepLoop' /\ KeepFiles' /\ KeepScript'
PROOF
  <1>0. StoreTypes /\ LoopTypes /\ ScriptTypes /\ NoteTypes
    BY DEF Types
  <1>1. KeepLoop' /\ lpc = "idle" /\ lpc' = "idle" /\ Home = active /\ Home' = active'
    BY DEF ScriptStep, loop, KeepLoop, Home
  <1>2. Home \in 1..Len(rows) /\ Reached \in Nat /\ Len(rows) \in Nat
    BY HomeIs
  <1>3. ASSUME UNCHANGED <<rows, active>>
        PROVE  KeepHome' /\ Reached' = Reached /\ Numbered999' = Numbered999
               /\ \A v, t : TextOf(v, t)' = TextOf(v, t)
    BY <1>1, <1>3, SameRows
  <1>4. CASE StartSeed \/ Seeded \/ StartReDecide \/ Find \/ ScriptStops
    <2>1. /\ UNCHANGED <<rows, active, files>>
          /\ spc' \in {"seed", "idle", "find", "number"}
      BY <1>4 DEF StartSeed, Seeded, StartReDecide, Find, ScriptStops, ScriptIdle, db, disk
    <2>2. KeepHome' /\ KeepFiles'
      BY <1>3, <2>1 DEF KeepFiles
    <2> QED
      BY <1>1, <2>1, <2>2 DEF KeepScript
  <1>5. CASE SeedPointer
    <2>1. UNCHANGED <<rows, active, files>> /\ spc' \in {"seed", "seeded"}
      BY <1>1, <1>2, <1>5 DEF SeedPointer, disk
    <2>2. KeepHome' /\ KeepFiles'
      BY <1>3, <2>1 DEF KeepFiles
    <2> QED
      BY <1>1, <2>1, <2>2 DEF KeepScript
  <1>6. CASE SeedRow
    <2>1. /\ spc = "seed" /\ spc' = "pointer" /\ UNCHANGED <<active, files>>
          /\ Upsert(First, TextOnDisk(First), "active", 0)
      BY <1>6 DEF SeedRow, disk
    <2>2. PICK f \in files : f.version = First /\ f.text = TextOnDisk(First)
      <3>1. todo # {}
        BY <1>0, <2>1 DEF ScriptTypes
      <3> QED
        BY <1>0, <3>1, FirstIsLeft
    <2>3. First \in Nat /\ TextOnDisk(First) \in Nat /\ 0 \in Nat /\ "active" \in Statuses
      <3>1. f.version \in Nat /\ f.text \in Nat
        BY <1>0 DEF StoreTypes
      <3> QED
        BY <2>2, <3>1 DEF Statuses
    <2>4. PICK n \in 1..Len(rows') : Upserted(n, First, TextOnDisk(First), "active", 0)
      BY <1>0, <2>1, <2>3, UpsertEffect
    <2>5. RowsKept
      BY <1>0, <2>1, <2>3, UpsertKeeps
    <2>6. KeepHome' /\ Reached' = Reached
      BY <1>1, <2>1, <2>5, HomeStays
    <2>7. KeepFiles'
      <3>1. SUFFICES ASSUME Reached < 1000, NEW g \in files, NEW k \in 1..Len(rows'),
                            rows'[k].version = g.version
                     PROVE  rows'[k].text = g.text /\ g.version <= Reached
        BY <2>1, <2>6 DEF KeepFiles, TextOf
      <3>2. g.version <= Reached /\ TextOf(g.version, g.text)
        BY <3>1 DEF KeepFiles
      <3>3. CASE k = n
        <4>1. rows'[k].version = First /\ rows'[k].text = TextOnDisk(First)
          BY <2>4, <3>3 DEF Upserted
        <4>2. g = f
          BY <1>0, <2>2, <3>1, <4>1 DEF StoreTypes
        <4> QED
          BY <2>2, <3>2, <4>1, <4>2
      <3>4. CASE k # n
        <4>1. k \in 1..Len(rows) /\ rows'[k] = rows[k]
          BY <2>4, <3>4 DEF Upserted
        <4> QED
          BY <3>1, <3>2, <4>1 DEF TextOf
      <3> QED
        BY <3>3, <3>4
    <2> QED
      BY <1>1, <2>1, <2>6, <2>7 DEF KeepScript
  <1>7. CASE StartLift
    <2>1. /\ spc' = "lift" /\ found' = rows[active].text /\ num' = rows[active].version
          /\ UNCHANGED <<rows, active, files>>
      BY <1>7 DEF StartLift, Live, db, disk
    <2>2. KeepHome' /\ KeepFiles'
      BY <1>3, <2>1 DEF KeepFiles
    <2>3. num' = Reached
      BY <1>1, <2>1 DEF Reached
    <2>4. Reached < 1000 => TextOf(num', found')
      <3>1. SUFFICES ASSUME Reached < 1000, NEW k \in 1..Len(rows), rows[k].version = num'
                     PROVE  rows[k].text = found'
        BY DEF TextOf
      <3>2. rows[k].version = rows[active].version /\ rows[k].version < 10000 /\ active \in 1..Len(rows)
        BY <1>1, <1>2, <2>1, <2>3, <3>1
      <3>3. k = active
        BY <3>2 DEF NumbersOnce
      <3> QED
        BY <2>1, <3>3
    <2>5. Reached' = Reached /\ (TextOf(num, found))' = TextOf(num', found')
      BY <1>3, <2>1 DEF TextOf
    <2> QED
      BY <1>1, <2>1, <2>2, <2>3, <2>4, <2>5 DEF KeepScript
  <1>8. CASE LiftFile
    <2>1. /\ spc = "lift" /\ spc' = "idle" /\ UNCHANGED <<rows, active>>
          /\ files' = Put(files, num, found)
      BY <1>8 DEF LiftFile, ScriptIdle, db
    <2>2. KeepFiles'
      <3>1. SUFFICES ASSUME Reached < 1000, NEW f \in files' PROVE f.version <= Reached /\ TextOf(f.version, f.text)
        BY <1>3, <2>1 DEF KeepFiles
      <3>2. CASE f \in files
        BY <3>1, <3>2 DEF KeepFiles
      <3>3. CASE f \notin files
        <4>1. f.version = num /\ f.text = found
          BY <2>1, <3>3 DEF Put
        <4> QED
          BY <1>2, <2>1, <3>1, <4>1 DEF KeepScript
      <3> QED
        BY <3>2, <3>3
    <2> QED
      BY <1>1, <1>3, <2>1, <2>2 DEF KeepScript
  <1>9. CASE Number
    <2>1. spc' = "write" /\ num' = NextNumber /\ UNCHANGED <<rows, active, files>>
      BY <1>9 DEF Number, db, disk
    <2>2. KeepHome' /\ KeepFiles'
      BY <1>3, <2>1 DEF KeepFiles
    <2>3. NextNumber \in Nat /\ NextNumber <= 1000
      BY <1>0, NextIsSmall
    <2>4. NextNumber > Reached \/ NextNumber = 1000
      <3>1. CASE Reached < 1000
        BY <1>0, <1>2, <2>3, <3>1, NextIsAbove DEF Reached
      <3>2. CASE Reached >= 1000
        BY <1>0, <3>2, NextIsAbove DEF KeepHome
      <3> QED
        BY <1>2, <3>1, <3>2
    <2>5. NextNumber = 1000 => Numbered999
      BY <1>0, NextIsAbove
    <2> QED
      BY <1>1, <1>3, <2>1, <2>2, <2>3, <2>4, <2>5 DEF KeepScript
  <1>10. CASE WriteRow
    <2>1. /\ spc = "write" /\ spc' = "point" /\ UNCHANGED <<active, files, num, found>>
          /\ Upsert(num, found, "active", arg.iter)
      BY <1>10 DEF WriteRow, disk
    <2>2. num \in Nat /\ found \in Nat /\ arg.iter \in Nat /\ "active" \in Statuses
      BY <1>0 DEF ScriptTypes, Score, Statuses
    <2>3. PICK n \in 1..Len(rows') : Upserted(n, num, found, "active", arg.iter)
      BY <1>0, <2>1, <2>2, UpsertEffect
    <2>4. RowsKept
      BY <1>0, <2>1, <2>2, UpsertKeeps
    <2>5. KeepHome' /\ Reached' = Reached /\ (Numbered999 => Numbered999')
      BY <1>1, <2>1, <2>4, HomeStays
    <2>6. num <= 1000 /\ (num > Reached \/ num = 1000) /\ (num = 1000 => Numbered999)
      BY <2>1 DEF KeepScript
    <2>7. KeepFiles'
      <3>1. Reached < 1000 => num > Reached
        BY <2>6
      <3>2. Home' = Home
        BY <1>1, <2>1
      <3> QED
        BY <2>1, <2>2, <2>3, <2>5, <3>1, <3>2, FilesStay
    <2>8. (TextOf(num, found))'
      BY <2>1, <2>3 DEF TextOf, Upserted
    <2> QED
      BY <1>1, <2>1, <2>5, <2>6, <2>7, <2>8 DEF KeepScript
  <1>11. CASE Point
    <2>1. spc = "point" /\ spc' = "lift" /\ active' \in Of(num) /\ UNCHANGED <<rows, files, num, found>>
      BY <1>11 DEF Point, disk
    <2>2. active' \in 1..Len(rows) /\ Reached' = num
      BY <1>0, <1>1, <2>1, RowFields DEF Of, Reached
    <2>3. Numbered999' = Numbered999 /\ \A v, t : TextOf(v, t)' = TextOf(v, t)
      BY <2>1 DEF Numbered999, TextOf
    <2>4. /\ num <= 1000 /\ (num > Reached \/ num = 1000) /\ (num = 1000 => Numbered999)
          /\ TextOf(num, found) /\ num \in Nat
      BY <1>0, <2>1 DEF KeepScript, ScriptTypes
    <2>5. KeepHome'
      BY <1>1, <2>2, <2>3, <2>4 DEF KeepHome
    <2>6. KeepFiles'
      <3>1. SUFFICES ASSUME num < 1000, NEW f \in files PROVE f.version <= num /\ TextOf(f.version, f.text)
        BY <2>1, <2>2, <2>3 DEF KeepFiles
      <3>2. f.version \in Nat
        BY <1>0 DEF StoreTypes
      <3>3. f.version <= Reached /\ TextOf(f.version, f.text) /\ Reached < num
        BY <1>2, <2>4, <3>1 DEF KeepFiles
      <3> QED
        BY <1>2, <2>4, <3>2, <3>3
    <2>7. (TextOf(num, found))'
      BY <2>1, <2>4 DEF TextOf
    <2> QED
      BY <1>1, <2>1, <2>2, <2>5, <2>6, <2>7 DEF KeepScript
  <1> QED
    BY <1>4, <1>5, <1>6, <1>7, <1>8, <1>9, <1>10, <1>11 DEF ScriptStep, Script

LEMMA QuietBefore == (Types /\ [Next]_vars /\ Quiet') => Quiet
PROOF
  <1> SUFFICES ASSUME Types, [Next]_vars, Quiet' PROVE Quiet
    OBVIOUS
  <1>1. ~ crossed /\ ~ stranded
    BY NotesStay DEF Quiet
  <1>2. rollbacks \in Nat /\ wipes \in Nat /\ rollbacks' = 0 /\ wipes' = 0
    BY DEF Types, NoteTypes, Quiet
  <1>3. CASE Loop
    BY <1>1, <1>2, <1>3 DEF Loop, BeginIteration, Install, AdoptRow, Activate, RejectRow, WriteCsv,
                            Restore, Evaluate, LoopStops, counts, Quiet
  <1>4. CASE Script
    BY <1>1, <1>2, <1>4 DEF Script, StartSeed, SeedRow, SeedPointer, Seeded, StartLift, LiftFile,
                            StartReDecide, Find, Number, WriteRow, Point, ScriptStops, NoStart, counts, Quiet
  <1>5. CASE Clean \/ \E i \in DOMAIN rows : Rollback(i)
    BY <1>2, <1>5 DEF Clean, Rollback
  <1>6. CASE Over \/ UNCHANGED vars
    BY <1>1, <1>2, <1>6 DEF Over, vars, counts, Quiet
  <1> QED
    BY <1>3, <1>4, <1>5, <1>6 DEF Next

LEMMA NothingByHand ==
  ASSUME Types, ByHand, Quiet'
  PROVE  UNCHANGED vars
PROOF
  <1>1. rollbacks \in Nat /\ wipes \in Nat /\ rollbacks' = 0 /\ wipes' = 0
    BY DEF Types, NoteTypes, Quiet
  <1> QED
    BY <1>1 DEF ByHand, Clean, Rollback

LEMMA KeepInvStep == (Types /\ SoloInv /\ NumbersOnce /\ KeepInv /\ [Next]_vars) => KeepInv'
PROOF
  <1> SUFFICES ASSUME Types, SoloInv, NumbersOnce, KeepInv, [Next]_vars, Quiet'
               PROVE  KeepHome' /\ KeepLoop' /\ KeepFiles' /\ KeepScript'
    BY DEF KeepInv
  <1>1. KeepHome /\ KeepLoop /\ KeepFiles /\ KeepScript
    BY QuietBefore DEF KeepInv
  <1>2. LoopStep \/ ScriptStep \/ ByHand
    BY WhoSteps DEF Quiet
  <1>3. CASE LoopStep
    BY <1>1, <1>3, KeepLoopStep
  <1>4. CASE ScriptStep
    BY <1>1, <1>4, KeepScriptStep
  <1>5. CASE ByHand
    <2>1. UNCHANGED <<rows, active, files, lpc, base, prev, spc, num, found>>
      BY <1>5, NothingByHand DEF vars, db, disk, loop, script
    <2>2. Home' = Home
      BY <2>1 DEF Home
    <2>3. Reached' = Reached
      BY <2>1, <2>2 DEF Reached
    <2>4. Numbered999' = Numbered999 /\ (TextOf(num, found))' = TextOf(num, found)
          /\ \A v, t : TextOf(v, t)' = TextOf(v, t)
      BY <2>1 DEF Numbered999, TextOf
    <2> QED
      BY <1>1, <2>1, <2>2, <2>3, <2>4 DEF KeepHome, KeepLoop, KeepFiles, KeepScript
  <1> QED
    BY <1>2, <1>3, <1>4, <1>5

LEMMA InitKeeps == Init => NumbersOnce /\ KeepInv
PROOF
  <1> SUFFICES ASSUME Init PROVE NumbersOnce /\ KeepInv
    OBVIOUS
  <1>1. /\ Len(rows) = 1 /\ rows[1].version = 1 /\ rows[1].text = 0
        /\ active = 1 /\ files = {[version |-> 1, text |-> 0]} /\ lpc = "idle" /\ spc = "idle"
    BY DEF Init, Row
  <1>2. Home = 1 /\ Reached = 1
    BY <1>1 DEF Home, Reached
  <1>3. KeepFiles
    BY <1>1, <1>2 DEF KeepFiles, TextOf
  <1> QED
    BY <1>1, <1>2, <1>3 DEF NumbersOnce, KeepInv, KeepHome, KeepLoop, KeepScript

(* A step of the loop, or of a script, on the rows up to the live one.     *)
TextsStay ==
  \A i \in DOMAIN rows : rows[i].status = "active" /\ rows[i].version <= Live.version
                         => rows'[i].text = rows[i].text

LEMMA UpsertAbove ==
  ASSUME Types, KeepHome, active = Home, NEW v \in Nat, NEW t, NEW s, NEW i, NEW n \in 1..Len(rows'),
         Upserted(n, v, t, s, i), v > Reached
  PROVE  TextsStay
PROOF
  <1>1. Reached \in Nat /\ Live.version = Reached /\ DOMAIN rows = 1..Len(rows)
    BY HomeIs, RowFields DEF Live, Reached, Types
  <1>2. SUFFICES ASSUME NEW k \in 1..Len(rows), rows[k].version <= Reached
                 PROVE  rows'[k].text = rows[k].text
    BY <1>1 DEF TextsStay
  <1>3. rows[k].version \in Nat
    BY RowFields DEF Types
  <1>4. k # n
    BY <1>1, <1>2, <1>3 DEF Upserted
  <1>5. k \in 1..Len(rows')
    BY RowFields DEF Upserted, Types
  <1> QED
    BY <1>4, <1>5 DEF Upserted

LEMMA KeepTexts ==
  ASSUME Types, SoloInv, NumbersOnce, KeepInv, [Next]_vars, Quiet', Live.version < 1000
  PROVE  TextsStay
PROOF
  <1>1. Quiet /\ KeepHome /\ KeepLoop /\ KeepFiles /\ KeepScript
    BY QuietBefore DEF KeepInv
  <1>2. LoopStep \/ ScriptStep \/ ByHand
    BY WhoSteps DEF Quiet
  <1>3. StoreTypes /\ LoopTypes /\ ScriptTypes
    BY DEF Types
  <1>4. Home \in 1..Len(rows) /\ Reached \in Nat /\ DOMAIN rows = 1..Len(rows) /\ Len(rows) \in Nat
    BY <1>1, <1>3, HomeIs, RowFields
  <1>5. active = Home => Live.version = Reached /\ Reached < 1000
    BY DEF Live, Reached
  <1>6. CASE UNCHANGED rows
    BY <1>6 DEF TextsStay
  <1>7. CASE Install
    BY <1>3, <1>4, <1>7, InstallEffect DEF TextsStay, Types
  <1>8. CASE AdoptRow
    <2>1. active = Home /\ base = Reached /\ Upsert(base + 1, text, "active", iter)
      BY <1>1, <1>8 DEF AdoptRow, Home, KeepLoop
    <2>2. base + 1 \in Nat /\ text \in Nat /\ iter \in Nat /\ "active" \in Statuses
      BY <1>3 DEF LoopTypes, Statuses
    <2>3. PICK n \in 1..Len(rows') : Upserted(n, base + 1, text, "active", iter)
      BY <1>3, <2>1, <2>2, UpsertEffect
    <2>4. base + 1 > Reached
      BY <1>4, <2>1
    <2> QED
      BY <1>1, <2>1, <2>2, <2>3, <2>4, UpsertAbove
  <1>9. CASE RejectRow
    <2> DEFINE v == 10000 + iter * 100 + idx
    <2>1. active = Home /\ Upsert(v, text, "rejected", iter)
      BY <1>9 DEF RejectRow, Home
    <2>2. v \in Nat /\ v >= 10000 /\ text \in Nat /\ iter \in Nat /\ "rejected" \in Statuses
      BY <1>3 DEF LoopTypes, Statuses
    <2> HIDE DEF v
    <2>3. PICK n \in 1..Len(rows') : Upserted(n, v, text, "rejected", iter)
      BY <1>3, <2>1, <2>2, UpsertEffect
    <2>4. v > Reached
      BY <1>4, <1>5, <2>1, <2>2
    <2> QED
      BY <1>1, <2>1, <2>2, <2>3, <2>4, UpsertAbove
  <1>10. CASE ScriptStep /\ WriteRow
    <2>1. /\ active = Home /\ Upsert(num, found, "active", arg.iter)
          /\ num > Reached \/ num = 1000
      BY <1>1, <1>10 DEF ScriptStep, WriteRow, Home, KeepScript
    <2>2. num \in Nat /\ found \in Nat /\ arg.iter \in Nat /\ "active" \in Statuses
      BY <1>3 DEF ScriptTypes, Score, Statuses
    <2>3. PICK n \in 1..Len(rows') : Upserted(n, num, found, "active", arg.iter)
      BY <1>3, <2>1, <2>2, UpsertEffect
    <2>4. num > Reached
      BY <1>4, <1>5, <2>1
    <2> QED
      BY <1>1, <2>1, <2>2, <2>3, <2>4, UpsertAbove
  <1>11. CASE ScriptStep /\ SeedRow
    <2>1. active = Home /\ spc = "seed" /\ Upsert(First, TextOnDisk(First), "active", 0)
      BY <1>11 DEF ScriptStep, SeedRow, Home
    <2>2. PICK f \in files : f.version = First /\ f.text = TextOnDisk(First)
      <3>1. todo # {}
        BY <1>3, <2>1 DEF ScriptTypes
      <3> QED
        BY <1>3, <3>1, FirstIsLeft
    <2>3. First \in Nat /\ TextOnDisk(First) \in Nat /\ 0 \in Nat /\ "active" \in Statuses
      <3>1. f.version \in Nat /\ f.text \in Nat
        BY <1>3 DEF StoreTypes
      <3> QED
        BY <2>2, <3>1 DEF Statuses
    <2>4. PICK n \in 1..Len(rows') : Upserted(n, First, TextOnDisk(First), "active", 0)
      BY <1>3, <2>1, <2>3, UpsertEffect
    <2>5. TextOf(First, TextOnDisk(First))
      BY <1>1, <1>5, <2>1, <2>2 DEF KeepFiles
    <2>6. ASSUME NEW k \in 1..Len(rows) PROVE rows'[k].text = rows[k].text
      <3>1. k \in 1..Len(rows')
        BY <1>4, <2>4 DEF Upserted
      <3>2. CASE k = n
        BY <2>4, <2>5, <3>2 DEF Upserted, TextOf
      <3>3. CASE k # n
        BY <2>4, <3>1, <3>3 DEF Upserted
      <3> QED
        BY <3>2, <3>3
    <2> QED
      BY <1>4, <2>6 DEF TextsStay
  <1>12. CASE LoopStep
    <2>1. CASE BeginIteration \/ Activate \/ WriteCsv \/ LoopStops
      BY <1>6, <2>1 DEF BeginIteration, Activate, WriteCsv, LoopStops, db
    <2>2. CASE \/ \E passed \in BOOLEAN : Restore(passed)
               \/ \E verdict \in {"adopt", "reject"} : Evaluate(verdict)
      BY <1>6, <2>2 DEF Restore, Evaluate, db
    <2> QED
      BY <1>7, <1>8, <1>9, <1>12, <2>1, <2>2 DEF LoopStep, Loop
  <1>13. CASE ScriptStep
    <2>1. CASE \/ StartSeed \/ SeedPointer \/ Seeded \/ StartLift \/ LiftFile \/ StartReDecide
               \/ Find \/ Number \/ Point \/ ScriptStops
      BY <1>6, <2>1 DEF StartSeed, SeedPointer, Seeded, StartLift, LiftFile, StartReDecide,
                        Find, Number, Point, ScriptStops, db
    <2> QED
      BY <1>10, <1>11, <1>13, <2>1 DEF ScriptStep, Script
  <1>14. CASE ByHand
    BY <1>6, <1>14, NothingByHand DEF vars, db
  <1> QED
    BY <1>2, <1>12, <1>13, <1>14

(* The live version and those before it keep their texts: the loop takes   *)
(* the number after the live one, re_decide one above all, a reject's is   *)
(* far above, and a seeding finds on disk what the row says; while nobody  *)
(* rolled back, wiped the database or ran a script beside an iteration, no *)
(* candidate stayed live and the live number is below 1000.                *)
THEOREM AdoptedTextsStay == Spec => AdoptedKeepsText
PROOF
  <1> DEFINE Inv == Types /\ SoloInv /\ NumbersOnce /\ KeepInv
             Keeps == rollbacks' = 0 /\ wipes' = 0 /\ ~ crossed' /\ ~ stranded' /\ Live.version < 1000 =>
                        \A i \in DOMAIN rows : rows[i].status = "active" /\ rows[i].version <= Live.version
                                               => rows'[i].text = rows[i].text
  <1>1. Init => Inv
    BY InitTypes, InitLive, InitKeeps
  <1>2. Inv /\ [Next]_vars => Inv'
    BY NextTypes, SoloStep, NumbersOnceStep, KeepInvStep
  <1>3. Inv /\ [Next]_vars => [Keeps]_vars
    <2> SUFFICES ASSUME Inv, [Next]_vars PROVE Keeps
      OBVIOUS
    <2> QED
      BY KeepTexts DEF Quiet, TextsStay
  <1> HIDE DEF Inv, Keeps
  <1>4. Spec => [][Keeps]_vars
    BY <1>1, <1>2, <1>3, PTL DEF Spec
  <1> QED
    BY <1>4 DEF AdoptedKeepsText, Keeps
=============================================================================
