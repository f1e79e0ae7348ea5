------------------------ MODULE MetaEvaluatorProofs -------------------------
(***************************************************************************)
(* The swap of the judge, for samples of every size, every number of runs  *)
(* and whatever the operator does in between. IInv follows what a tally    *)
(* can be (TallyInv), what is on file (FileInv), which rows a run has      *)
(* written when it comes to the swap (RunInv), and where the pointer and   *)
(* the marks are (SwapInv).                                                *)
(***************************************************************************)
EXTENDS MetaEvaluator, TLAPS

Swapping == {"promote", "switch", "retire", "mark"}

(* Judges that agreed on all they judged had as many passes, and no miss.  *)
TallyInv ==
  /\ tally.a <= tally.n /\ tally.b <= tally.n
  /\ tally.misses + tally.g <= tally.n
  /\ tally.g = tally.n => tally.a = tally.b

IsEvidence(f) == f.type \in {1, 3} /\ f.severity = "high" /\ f.differ
Evidence      == \E i \in DOMAIN findings : IsEvidence(findings[i])
FileInv ==
  /\ \A i \in DOMAIN findings : findings[i].severity = "high" => IsEvidence(findings[i])
  /\ live = 2 \/ pc \in Swapping => Evidence

(* Row i is a first finding that was answered by a swap.                   *)
Answers(i) ==
  /\ findings[i].type = 1
  /\ \/ findings[i].severity = "high"
     \/ /\ i + 2 \in DOMAIN findings
        /\ findings[i + 2].type = 3 /\ findings[i + 2].severity = "high"
RunInv ==
  /\ pc \in {"outcomes", "agreement"} => findings[fid1].type = 1
  /\ pc = "outcomes"  => fid1 = Len(findings)
  /\ pc = "agreement" => fid1 + 1 = Len(findings)
  /\ pc \in Swapping  => Answers(fid1)

SwapInv ==
  /\ status[2] = "active"
  /\ pc \in {"retire", "mark"} => live = 2 \/ byHand

IInv == /\ TypeOK /\ TallyInv /\ FileInv /\ RunInv /\ SwapInv
        /\ RetiredNeverLive /\ AppliedMeansLive /\ AppliedAnswersHigh

-----------------------------------------------------------------------------
(* Lemmas: a finding of high severity met a difference.                    *)

Tallies == [n : Nat, a : Nat, b : Nat, g : Nat, misses : Nat]

(* Of two judges with as many passes, what chance leaves open is what      *)
(* agreeing on everything adds.                                            *)
LEMMA AllAlike ==
  ASSUME NEW t \in Tallies, t.g = t.n
  PROVE  Above(t) = Room(t) /\ Chance(t) \in Int /\ Room(t) \in Int
<1> DEFINE c == Chance(t)
<1>1. t.n \in Nat /\ t.a \in Nat /\ t.b \in Nat  BY DEF Tallies
<1>2. c \in Int  BY <1>1 DEF Chance
<1>3. t.g * t.n = t.n * t.n  OBVIOUS
<1>4. t.n * t.n \in Int  BY <1>1
<1> HIDE DEF c
<1>5. Above(t) = t.n * t.n - c /\ Room(t) = t.n * t.n - c  BY <1>3 DEF Above, Room, c
<1> QED  BY <1>2, <1>4, <1>5 DEF c

(* kappa of judges that never differ is not below the line.                *)
LEMMA HighKappaDiffers ==
  ASSUME NEW t \in Tallies, t.g <= t.n, Kappa(t) = "high"
  PROVE  t.g < t.n
<1>1. SUFFICES ASSUME t.g = t.n PROVE FALSE  BY DEF Tallies
<1> DEFINE r == Room(t)
<1>2. Above(t) = r /\ r \in Int  BY <1>1, AllAlike
<1>3. r > 0 /\ 10 * Above(t) <= 4 * r
  <2>1. ~ (t.n < 2 \/ r <= 0)  BY DEF Kappa
  <2>2. 10 * Above(t) <= 4 * r  BY <2>1 DEF Kappa
  <2> HIDE DEF r
  <2> QED  BY <2>1, <2>2, <1>2
<1> HIDE DEF r
<1> QED  BY <1>2, <1>3

(* The strictness audit is alarmed by misses only.                         *)
LEMMA HighStrictnessDiffers ==
  ASSUME NEW t \in Tallies, t.misses + t.g <= t.n, Strictness(t) = "high"
  PROVE  t.g < t.n
BY DEF Tallies, Strictness

(* Every severity is one of three, and the second audit's is never high.   *)
LEMMA SeverityTypes ==
  /\ \A t : Strictness(t) \in Severities /\ Kappa(t) \in Severities
  /\ \A n, m : Skew(n, m) \in Severities \ {"high"}
BY DEF Strictness, Kappa, Skew, Severities

(* Appending keeps the rows there are, and what is known of them.          *)
LEMMA AppendKeeps ==
  ASSUME NEW fs \in Seq(Findings), NEW f \in Findings
  PROVE  /\ Append(fs, f) \in Seq(Findings)
         /\ Len(Append(fs, f)) = Len(fs) + 1
         /\ DOMAIN fs = 1..Len(fs)
         /\ DOMAIN Append(fs, f) = 1..(Len(fs) + 1)
         /\ \A i \in 1..Len(fs) : Append(fs, f)[i] = fs[i]
         /\ Append(fs, f)[Len(fs) + 1] = f
OBVIOUS

(* Marking a row changes nothing else of it, and no other row.             *)
LEMMA MarkKeeps ==
  ASSUME NEW fs \in Seq(Findings), NEW k \in 1..Len(fs)
  PROVE  LET gs == [fs EXCEPT ![k].applied = TRUE] IN
         /\ gs \in Seq(Findings) /\ Len(gs) = Len(fs)
         /\ DOMAIN gs = DOMAIN fs /\ DOMAIN fs = 1..Len(fs)
         /\ \A i \in 1..Len(fs) :
              /\ gs[i].type = fs[i].type /\ gs[i].severity = fs[i].severity
              /\ gs[i].differ = fs[i].differ
              /\ gs[i].applied => i = k \/ fs[i].applied
<1> DEFINE gs == [fs EXCEPT ![k].applied = TRUE]
<1>1. \A i \in 1..Len(fs) : fs[i] \in Findings  OBVIOUS
<1>0. fs \in [1..Len(fs) -> Findings]  OBVIOUS
<1>2. gs[k] = [fs[k] EXCEPT !.applied = TRUE]  BY <1>0
<1>3. \A i \in 1..Len(fs) : i # k => gs[i] = fs[i]  BY <1>0
<1>4. [fs[k] EXCEPT !.applied = TRUE] \in Findings  BY <1>1 DEF Findings
<1>5. gs \in Seq(Findings) /\ Len(gs) = Len(fs) /\ DOMAIN gs = DOMAIN fs
  BY <1>1, <1>4
<1>6. \A i \in 1..Len(fs) :
        /\ gs[i].type = fs[i].type /\ gs[i].severity = fs[i].severity
        /\ gs[i].differ = fs[i].differ
        /\ gs[i].applied => i = k \/ fs[i].applied
  <2> TAKE i \in 1..Len(fs)
  <2>1. CASE i = k
    <3> HIDE DEF gs
    <3>1. fs[k] \in Findings  BY <1>1
    <3> QED  BY <1>2, <2>1, <3>1 DEF Findings
  <2>2. CASE i # k
    <3> HIDE DEF gs
    <3> QED  BY <1>3, <2>2
  <2> QED  BY <2>1, <2>2
<1> QED  BY <1>5, <1>6

(* What a row says of itself and of its run, while rows are only added.    *)
LEMMA AppendAnswers ==
  ASSUME TypeOK, NEW f \in Findings, findings' = Append(findings, f),
         NEW i \in 1..Len(findings), Answers(i)
  PROVE  Answers(i)'
<1>1. \A j \in 1..Len(findings) : findings'[j] = findings[j]  BY AppendKeeps DEF TypeOK
<1>2. Len(findings) \in Nat /\ DOMAIN findings = 1..Len(findings)
      /\ DOMAIN findings' = 1..(Len(findings) + 1)
  BY AppendKeeps DEF TypeOK
<1> QED  BY <1>1, <1>2 DEF Answers

(* What holds of the rows on file when one more is added that is not       *)
(* marked, and does not cry high without a difference.                     *)
LEMMA AppendInv ==
  ASSUME IInv, NEW f \in Findings, findings' = Append(findings, f),
         ~ f.applied, f.severity = "high" => IsEvidence(f),
         UNCHANGED <<judge, byHand>>, pc' \notin Swapping \/ IsEvidence(f) \/ Evidence
  PROVE  /\ FileInv' /\ AppliedMeansLive' /\ AppliedAnswersHigh'
<1> DEFINE n == Len(findings)
<1>1. /\ n \in Nat /\ DOMAIN findings = 1..n /\ DOMAIN findings' = 1..(n + 1)
      /\ \A j \in 1..n : findings'[j] = findings[j]
      /\ findings'[n + 1] = f
  BY AppendKeeps DEF IInv, TypeOK
<1> HIDE DEF n
<1>2. \A j \in 1..(n + 1) : j \in 1..n \/ j = n + 1  BY <1>1
<1>3. FileInv'
  <2>1. \A i \in 1..(n + 1) : findings'[i].severity = "high" => IsEvidence(findings'[i])
    BY <1>1, <1>2 DEF IInv, FileInv
  <2>2. ASSUME live' = 2 \/ pc' \in Swapping PROVE \E i \in 1..(n + 1) : IsEvidence(findings'[i])
    <3>1. Evidence \/ IsEvidence(f)  BY <2>2 DEF IInv, FileInv, judge
    <3>2. CASE Evidence
      <4>1. PICK i \in 1..n : IsEvidence(findings[i])  BY <1>1, <3>2 DEF Evidence
      <4> QED  BY <1>1, <4>1
    <3>3. CASE IsEvidence(f)  BY <1>1, <3>3
    <3> QED  BY <3>1, <3>2, <3>3
  <2> QED  BY <1>1, <2>1, <2>2 DEF FileInv, Evidence
<1>4. AppliedMeansLive'
  BY <1>1, <1>2 DEF IInv, AppliedMeansLive, judge
<1>5. AppliedAnswersHigh'
  <2>1. \A i \in 1..n : findings[i].applied => Answers(i)
    BY <1>1 DEF IInv, AppliedAnswersHigh, Answers
  <2>2. \A i \in 1..n : findings[i].applied => Answers(i)'
    <3> TAKE i \in 1..n
    <3> HAVE findings[i].applied
    <3>1. Answers(i)  BY <2>1
    <3>2. i \in 1..Len(findings)  BY DEF n
    <3> QED  BY <3>1, <3>2, AppendAnswers DEF IInv
  <2> QED  BY <1>1, <1>2, <2>2 DEF AppliedAnswersHigh, Answers
<1> QED  BY <1>3, <1>4, <1>5

-----------------------------------------------------------------------------
(* The invariant.                                                          *)

(* Between the audits nothing is counted.                                  *)
LEMMA NothingFits == Nothing \in Tallies /\ (tally' = Nothing => TallyInv')
BY DEF Nothing, Tallies, TallyInv

LEMMA Initially == Init => IInv
<1> SUFFICES ASSUME Init PROVE IInv  OBVIOUS
<1>1. TypeOK
  <2>1. findings \in Seq(Findings) /\ Len(findings) = 0  BY DEF Init
  <2>2. tally \in Tallies  BY NothingFits DEF Init
  <2>3. status \in [{1, 2} -> {"active", "retired_by_meta_eval"}]  BY DEF Init
  <2> QED  BY <2>1, <2>2, <2>3 DEF Init, TypeOK, Tallies, None
<1>2. TallyInv  BY DEF Init, TallyInv, Nothing
<1>3. FileInv /\ RunInv /\ SwapInv  BY DEF Init, FileInv, RunInv, SwapInv, Swapping
<1>4. RetiredNeverLive /\ AppliedMeansLive /\ AppliedAnswersHigh
  BY DEF Init, RetiredNeverLive, AppliedMeansLive, AppliedAnswersHigh
<1> QED  BY <1>1, <1>2, <1>3, <1>4 DEF IInv

(* A judged conversation is counted.                                       *)
LEMMA CountFits ==
  ASSUME TallyInv, tally \in Tallies, NEW a \in BOOLEAN, NEW b \in BOOLEAN,
         tally' = Count(a, b)
  PROVE  tally' \in Tallies /\ TallyInv'
<1>1. /\ tally.n \in Nat /\ tally.a \in Nat /\ tally.b \in Nat
      /\ tally.g \in Nat /\ tally.misses \in Nat
  BY DEF Tallies
<1>2. /\ tally'.n = tally.n + 1
      /\ tally'.a = tally.a + (IF a THEN 1 ELSE 0)
      /\ tally'.b = tally.b + (IF b THEN 1 ELSE 0)
      /\ tally'.g = tally.g + (IF a = b THEN 1 ELSE 0)
      /\ tally'.misses = tally.misses + (IF a /\ ~ b THEN 1 ELSE 0)
  BY DEF Count
<1>3. tally' \in Tallies  BY <1>1 DEF Count, Tallies
<1>4. \/ /\ tally'.a = tally.a + 1 /\ tally'.b = tally.b + 1
         /\ tally'.g = tally.g + 1 /\ tally'.misses = tally.misses
      \/ /\ tally'.a = tally.a + 1 /\ tally'.b = tally.b
         /\ tally'.g = tally.g /\ tally'.misses = tally.misses + 1
      \/ /\ tally'.a = tally.a /\ tally'.b = tally.b + 1
         /\ tally'.g = tally.g /\ tally'.misses = tally.misses
      \/ /\ tally'.a = tally.a /\ tally'.b = tally.b
         /\ tally'.g = tally.g + 1 /\ tally'.misses = tally.misses
  <2>1. CASE a = TRUE /\ b = TRUE  BY <1>1, <1>2, <2>1
  <2>2. CASE a = TRUE /\ b = FALSE
    <3>1. /\ (IF a THEN 1 ELSE 0) = 1 /\ (IF b THEN 1 ELSE 0) = 0
          /\ (IF a = b THEN 1 ELSE 0) = 0 /\ (IF a /\ ~ b THEN 1 ELSE 0) = 1
      BY <2>2, Zenon
    <3> QED  BY <1>1, <1>2, <3>1
  <2>3. CASE a = FALSE /\ b = TRUE
    <3>1. /\ (IF a THEN 1 ELSE 0) = 0 /\ (IF b THEN 1 ELSE 0) = 1
          /\ (IF a = b THEN 1 ELSE 0) = 0 /\ (IF a /\ ~ b THEN 1 ELSE 0) = 0
      BY <2>3, Zenon
    <3> QED  BY <1>1, <1>2, <3>1
  <2>4. CASE a = FALSE /\ b = FALSE
    <3>1. /\ (IF a THEN 1 ELSE 0) = 0 /\ (IF b THEN 1 ELSE 0) = 0
          /\ (IF a = b THEN 1 ELSE 0) = 1 /\ (IF a /\ ~ b THEN 1 ELSE 0) = 0
      BY <2>4, Zenon
    <3> QED  BY <1>1, <1>2, <3>1
  <2>5. a \in {TRUE, FALSE} /\ b \in {TRUE, FALSE}  OBVIOUS
  <2> QED  BY <2>1, <2>2, <2>3, <2>4, <2>5
<1>5. TallyInv'
  <2>1. tally'.n = tally.n + 1  BY <1>2
  <2> QED  BY <1>1, <1>4, <2>1 DEF TallyInv
<1> QED  BY <1>3, <1>5

LEMMA StartStep == ASSUME IInv, Start PROVE IInv'
<1> USE DEF Start, judge
<1>1. TypeOK'
  <2>1. left' \in Nat  BY MetaAssumption DEF MetaAssumption
  <2>2. tally' \in Tallies  BY NothingFits
  <2> QED  BY <2>1, <2>2 DEF IInv, TypeOK, Tallies, None
<1>2. TallyInv'  BY NothingFits
<1>3. FileInv'  BY DEF IInv, FileInv, Evidence, Swapping
<1>4. RunInv' /\ SwapInv'  BY DEF IInv, RunInv, SwapInv, Swapping
<1>5. RetiredNeverLive' /\ AppliedMeansLive' /\ AppliedAnswersHigh'
  BY DEF IInv, RetiredNeverLive, AppliedMeansLive, AppliedAnswersHigh
<1> QED  BY <1>1, <1>2, <1>3, <1>4, <1>5 DEF IInv

LEMMA LookStep == ASSUME IInv, Look PROVE IInv'
<1> USE DEF Look, judge, counts
<1>1. tally' \in Tallies /\ TallyInv'
  <2>1. CASE tally' = tally  BY <2>1 DEF IInv, TypeOK, Tallies, TallyInv
  <2>2. CASE \E a \in Lenient, b \in BOOLEAN : tally' = Count(a, b)
    <3>1. Lenient \subseteq BOOLEAN  BY DEF Lenient
    <3>2. PICK a \in BOOLEAN, b \in BOOLEAN : tally' = Count(a, b)  BY <2>2, <3>1
    <3>3. TallyInv /\ tally \in Tallies  BY DEF IInv, TypeOK, Tallies
    <3> QED  BY <3>2, <3>3, CountFits
  <2> QED  BY <2>1, <2>2
<1>2. TypeOK'  BY <1>1 DEF IInv, TypeOK, Tallies
<1>3. FileInv'  BY DEF IInv, FileInv, Evidence
<1>4. RunInv' /\ SwapInv'  BY DEF IInv, RunInv, SwapInv, Answers, Swapping
<1>5. RetiredNeverLive' /\ AppliedMeansLive' /\ AppliedAnswersHigh'
  BY DEF IInv, RetiredNeverLive, AppliedMeansLive, AppliedAnswersHigh
<1> QED  BY <1>1, <1>2, <1>3, <1>4, <1>5 DEF IInv

LEMMA StoreStrictnessStep == ASSUME IInv, StoreStrictness PROVE IInv'
<1> DEFINE f == Finding(1, Strictness(tally), Differ)
<1>1. tally \in Tallies  BY DEF IInv, TypeOK, Tallies
<1>2. f \in Findings /\ f.type = 1 /\ ~ f.applied
  BY SeverityTypes DEF Finding, Findings, Differ
<1>3. f.severity = "high" => IsEvidence(f)
  BY <1>1, HighStrictnessDiffers DEF Finding, IsEvidence, Differ, IInv, TallyInv
<1>4. findings' = Append(findings, f) /\ UNCHANGED <<judge, byHand>> /\ pc' \notin Swapping
  BY DEF StoreStrictness, Swapping
<1> HIDE DEF f
<1>5. FileInv' /\ AppliedMeansLive' /\ AppliedAnswersHigh'
  BY <1>2, <1>3, <1>4, AppendInv
<1>6. /\ findings' \in Seq(Findings) /\ Len(findings') = Len(findings) + 1
      /\ Len(findings) \in Nat /\ findings'[Len(findings) + 1] = f
  BY <1>2, <1>4, AppendKeeps DEF IInv, TypeOK
<1> USE DEF StoreStrictness, judge, counts
<1>7. tally' \in Tallies /\ TallyInv'  BY NothingFits
<1>8. TypeOK'  BY <1>6, <1>7 DEF IInv, TypeOK, Tallies
<1>9. RunInv'  BY <1>2, <1>6 DEF RunInv, Swapping
<1>10. SwapInv' /\ RetiredNeverLive'  BY DEF IInv, SwapInv, RetiredNeverLive
<1> QED  BY <1>5, <1>7, <1>8, <1>9, <1>10 DEF IInv

LEMMA StoreOutcomesStep == ASSUME IInv, StoreOutcomes PROVE IInv'
<1>1. PICK s \in Severities \ {"high"} : findings' = Append(findings, Finding(2, s, FALSE))
  BY SeverityTypes DEF StoreOutcomes
<1> DEFINE f == Finding(2, s, FALSE)
<1>2. f \in Findings /\ ~ f.applied /\ f.severity # "high"  BY DEF Finding, Findings
<1>3. UNCHANGED <<judge, byHand>> /\ pc' \notin Swapping
  BY DEF StoreOutcomes, Swapping
<1> HIDE DEF f
<1>4. findings' = Append(findings, f)  BY <1>1 DEF f
<1>5. FileInv' /\ AppliedMeansLive' /\ AppliedAnswersHigh'
  BY <1>2, <1>3, <1>4, AppendInv
<1>6. /\ findings' \in Seq(Findings) /\ Len(findings') = Len(findings) + 1
      /\ Len(findings) \in Nat
      /\ \A i \in 1..Len(findings) : findings'[i] = findings[i]
  BY <1>2, <1>4, AppendKeeps DEF IInv, TypeOK
<1>7. left' \in Nat  BY MetaAssumption DEF StoreOutcomes, MetaAssumption
<1> USE DEF judge, counts
<1>8. /\ pc = "outcomes" /\ pc' = "agreement"
      /\ UNCHANGED <<status, live, apply, tally, fid1, byHand, runs, hands>>
  BY DEF StoreOutcomes
<1>9. TypeOK' /\ TallyInv'  BY <1>6, <1>7, <1>8 DEF IInv, TypeOK, TallyInv
<1>10. RunInv'  BY <1>6, <1>8 DEF IInv, TypeOK, RunInv, Swapping
<1>11. SwapInv' /\ RetiredNeverLive'  BY <1>8 DEF IInv, SwapInv, RetiredNeverLive
<1> QED  BY <1>5, <1>9, <1>10, <1>11 DEF IInv

LEMMA StoreAgreementStep == ASSUME IInv, StoreAgreement PROVE IInv'
<1> DEFINE f == Finding(3, Kappa(tally), Differ)
           n == Len(findings)
<1>1. tally \in Tallies  BY DEF IInv, TypeOK, Tallies
<1>2. f \in Findings /\ f.type = 3 /\ ~ f.applied
  BY SeverityTypes DEF Finding, Findings, Differ
<1>3. f.severity = "high" => IsEvidence(f)
  <2>1. ASSUME Kappa(tally) = "high" PROVE tally.g < tally.n
    <3>1. tally.g <= tally.n  BY <1>1 DEF IInv, TallyInv, Tallies
    <3>2. tally.g # tally.n
      <4>1. SUFFICES ASSUME tally.g = tally.n PROVE FALSE  OBVIOUS
      <4> QED  BY <1>1, <2>1, <3>1, <4>1, HighKappaDiffers DEF Tallies
    <3> QED  BY <1>1, <3>1, <3>2 DEF Tallies
  <2> QED  BY <2>1 DEF Finding, IsEvidence, Differ
<1>4. /\ findings' = Append(findings, f) /\ UNCHANGED <<judge, byHand>>
      /\ pc = "agreement"
      /\ pc' = IF apply /\ Calls(findings[fid1], f) THEN "promote" ELSE "done"
      /\ tally' = Nothing
      /\ UNCHANGED <<status, live, apply, left, fid1, runs, hands>>
  BY DEF StoreAgreement, judge, counts
<1> HIDE DEF f
<1>5. /\ findings' \in Seq(Findings) /\ Len(findings') = n + 1 /\ n \in Nat
      /\ DOMAIN findings = 1..n /\ DOMAIN findings' = 1..(n + 1)
      /\ \A i \in 1..n : findings'[i] = findings[i]
      /\ findings'[n + 1] = f
  BY <1>2, <1>4, AppendKeeps DEF IInv, TypeOK
<1>6. fid1 \in 1..n /\ fid1 + 1 = n /\ findings[fid1].type = 1
  BY <1>4 DEF IInv, TypeOK, RunInv
<1> HIDE DEF n
<1>7. pc' \in Swapping => Answers(fid1)'
  <2>1. SUFFICES ASSUME pc' \in Swapping PROVE Answers(fid1)'  OBVIOUS
  <2>2. findings[fid1].severity = "high" \/ f.severity = "high"
    BY <1>4, <2>1 DEF Swapping, Calls
  <2>3. fid1 + 2 = n + 1 /\ fid1 + 2 \in 1..(n + 1)  BY <1>5, <1>6
  <2>4. findings'[fid1] = findings[fid1]  BY <1>5, <1>6
  <2>5. fid1' = fid1  BY <1>4
  <2> QED  BY <1>2, <1>5, <1>6, <2>2, <2>3, <2>4, <2>5 DEF Answers
<1>8. pc' \notin Swapping \/ IsEvidence(f) \/ Evidence
  <2>1. SUFFICES ASSUME pc' \in Swapping PROVE IsEvidence(f) \/ Evidence  OBVIOUS
  <2>2. findings[fid1].severity = "high" \/ f.severity = "high"
    BY <1>4, <2>1 DEF Swapping, Calls
  <2>3. CASE findings[fid1].severity = "high"
    BY <1>5, <1>6, <2>3 DEF IInv, FileInv, Evidence
  <2>4. CASE f.severity = "high"  BY <1>3, <2>4
  <2> QED  BY <2>2, <2>3, <2>4
<1>9. FileInv' /\ AppliedMeansLive' /\ AppliedAnswersHigh'
  BY <1>2, <1>3, <1>4, <1>8, AppendInv
<1>10. tally' \in Tallies /\ TallyInv'  BY <1>4, NothingFits
<1>11. TypeOK'
  <2>1. fid1' \in 1..Len(findings')  BY <1>4, <1>5, <1>6
  <2> QED  BY <1>4, <1>5, <1>10, <2>1 DEF IInv, TypeOK, Tallies
<1>12. RunInv'  BY <1>4, <1>7 DEF RunInv, Swapping
<1>13. SwapInv' /\ RetiredNeverLive'  BY <1>4 DEF IInv, SwapInv, RetiredNeverLive
<1> QED  BY <1>9, <1>10, <1>11, <1>12, <1>13 DEF IInv

(* The steps of the swap, in which nothing is counted.                     *)
LEMMA PromoteRowStep == ASSUME IInv, PromoteRow PROVE IInv'
<1> USE DEF PromoteRow, counts
<1>1. TypeOK'  BY DEF IInv, TypeOK
<1>2. TallyInv' /\ FileInv'  BY DEF IInv, TallyInv, FileInv, Evidence, Swapping
<1>3. RunInv'  BY DEF IInv, RunInv, Answers, Swapping
<1>4. SwapInv' /\ RetiredNeverLive'
  <2>1. status'[2] = "active" /\ status'[1] = status[1] /\ live \in {1, 2}
    BY DEF IInv, TypeOK
  <2> QED  BY <2>1 DEF IInv, SwapInv, RetiredNeverLive
<1>5. AppliedMeansLive' /\ AppliedAnswersHigh'
  BY DEF IInv, AppliedMeansLive, AppliedAnswersHigh
<1> QED  BY <1>1, <1>2, <1>3, <1>4, <1>5 DEF IInv

LEMMA SwitchStep == ASSUME IInv, Switch PROVE IInv'
<1> USE DEF Switch, counts
<1>1. TypeOK'  BY DEF IInv, TypeOK
<1>2. TallyInv' /\ FileInv'  BY DEF IInv, TallyInv, FileInv, Evidence, Swapping
<1>3. RunInv'  BY DEF IInv, RunInv, Answers, Swapping
<1>4. SwapInv' /\ RetiredNeverLive'  BY DEF IInv, SwapInv, RetiredNeverLive
<1>5. AppliedMeansLive' /\ AppliedAnswersHigh'
  BY DEF IInv, AppliedMeansLive, AppliedAnswersHigh
<1> QED  BY <1>1, <1>2, <1>3, <1>4, <1>5 DEF IInv

LEMMA RetireStep == ASSUME IInv, Retire PROVE IInv'
<1> USE DEF Retire, counts
<1>1. TypeOK'  BY DEF IInv, TypeOK
<1>2. TallyInv' /\ FileInv'  BY DEF IInv, TallyInv, FileInv, Evidence, Swapping
<1>3. RunInv'  BY DEF IInv, RunInv, Answers, Swapping
<1>4. SwapInv' /\ RetiredNeverLive'
  <2>1. status'[2] = "active"  BY DEF IInv, TypeOK, SwapInv
  <2> QED  BY <2>1 DEF IInv, SwapInv, RetiredNeverLive
<1>5. AppliedMeansLive' /\ AppliedAnswersHigh'
  BY DEF IInv, AppliedMeansLive, AppliedAnswersHigh
<1> QED  BY <1>1, <1>2, <1>3, <1>4, <1>5 DEF IInv

LEMMA MarkStep == ASSUME IInv, Mark PROVE IInv'
<1> DEFINE n == Len(findings)
<1>1. fid1 \in 1..n /\ findings \in Seq(Findings) /\ Answers(fid1)
  BY DEF IInv, TypeOK, RunInv, Mark, Swapping
<1>2. /\ pc = "mark" /\ pc' = "done" /\ findings' = [findings EXCEPT ![fid1].applied = TRUE]
      /\ UNCHANGED <<status, live, apply, left, tally, fid1, byHand, runs, hands>>
  BY DEF Mark, judge, counts
<1>3. /\ findings' \in Seq(Findings) /\ Len(findings') = n
      /\ DOMAIN findings' = 1..n /\ DOMAIN findings = 1..n
      /\ \A i \in 1..n :
           /\ findings'[i].type = findings[i].type
           /\ findings'[i].severity = findings[i].severity
           /\ findings'[i].differ = findings[i].differ
           /\ findings'[i].applied => i = fid1 \/ findings[i].applied
  BY <1>1, <1>2, MarkKeeps
<1> HIDE DEF n
<1>4. TypeOK' /\ TallyInv'
  <2>1. fid1' \in 1..Len(findings')  BY <1>1, <1>2, <1>3
  <2> QED  BY <1>2, <1>3, <2>1 DEF IInv, TypeOK, TallyInv
<1>5. FileInv'  BY <1>2, <1>3 DEF IInv, FileInv, Evidence, IsEvidence, Swapping
<1>6. RunInv' /\ SwapInv' /\ RetiredNeverLive'
  BY <1>2 DEF IInv, RunInv, SwapInv, RetiredNeverLive, Swapping
<1>7. AppliedMeansLive'  BY <1>2 DEF IInv, SwapInv, AppliedMeansLive
<1>8. AppliedAnswersHigh'
  <2>1. \A i \in 1..n : findings'[i].applied => Answers(i)
    BY <1>1, <1>3 DEF IInv, AppliedAnswersHigh, Answers
  <2>2. \A i \in 1..n : Answers(i) => Answers(i)'  BY <1>3 DEF Answers
  <2> QED  BY <1>3, <2>1, <2>2 DEF AppliedAnswersHigh, Answers
<1> QED  BY <1>4, <1>5, <1>6, <1>7, <1>8 DEF IInv

(* A run ends or is cut off, wherever it was.                              *)
LEMMA LeaveStep == ASSUME IInv, Leave, UNCHANGED <<judge, findings, byHand, counts>> PROVE IInv'
<1> USE DEF Leave, judge, counts
<1>1. tally' \in Tallies /\ TallyInv'  BY NothingFits
<1>2. TypeOK'  BY <1>1 DEF IInv, TypeOK, Tallies, None
<1>3. FileInv'  BY DEF IInv, FileInv, Evidence, Swapping
<1>4. RunInv' /\ SwapInv' /\ RetiredNeverLive'
  BY DEF IInv, RunInv, SwapInv, RetiredNeverLive, Swapping
<1>5. AppliedMeansLive' /\ AppliedAnswersHigh'
  BY DEF IInv, AppliedMeansLive, AppliedAnswersHigh
<1> QED  BY <1>1, <1>2, <1>3, <1>4, <1>5 DEF IInv

(* What the operator does.                                                 *)
LEMMA RollbackStep == ASSUME IInv, Rollback PROVE IInv'
<1> USE DEF Rollback, Hand, place
<1>1. TypeOK'  BY DEF IInv, TypeOK
<1>2. TallyInv' /\ FileInv'  BY DEF IInv, TallyInv, FileInv, Evidence
<1>3. RunInv' /\ SwapInv' /\ RetiredNeverLive'
  BY DEF IInv, RunInv, SwapInv, RetiredNeverLive, Answers
<1>4. AppliedMeansLive' /\ AppliedAnswersHigh'
  BY DEF IInv, AppliedMeansLive, AppliedAnswersHigh
<1> QED  BY <1>1, <1>2, <1>3, <1>4 DEF IInv

LEMMA ReseedStep == ASSUME IInv, NEW v \in {1, 2}, Reseed(v) PROVE IInv'
<1> USE DEF Reseed, Hand, place
<1>1. TypeOK'  BY DEF IInv, TypeOK
<1>2. TallyInv' /\ FileInv'  BY DEF IInv, TallyInv, FileInv, Evidence
<1>3. RunInv' /\ SwapInv' /\ RetiredNeverLive'
  <2>1. \A w \in {1, 2} : status'[w] = status[w] \/ status'[w] = "active"
    BY DEF IInv, TypeOK
  <2>2. live \in {1, 2}  BY DEF IInv, TypeOK
  <2> QED  BY <2>1, <2>2 DEF IInv, RunInv, SwapInv, RetiredNeverLive, Answers
<1>4. AppliedMeansLive' /\ AppliedAnswersHigh'
  BY DEF IInv, AppliedMeansLive, AppliedAnswersHigh
<1> QED  BY <1>1, <1>2, <1>3, <1>4 DEF IInv

LEMMA StartAfreshStep == ASSUME IInv, StartAfresh PROVE IInv'
<1> USE DEF StartAfresh, Hand, place
<1>1. findings' \in Seq(Findings) /\ DOMAIN findings' = {}  OBVIOUS
<1>2. TypeOK'
  <2>1. status' \in [{1, 2} -> {"active", "retired_by_meta_eval"}] /\ live' \in {1, 2}
    OBVIOUS
  <2>2. pc' = "idle" /\ hands' \in Nat  BY DEF IInv, TypeOK
  <2> QED  BY <1>1, <2>1, <2>2 DEF IInv, TypeOK
<1>3. TallyInv' /\ FileInv'  BY <1>1 DEF IInv, TallyInv, FileInv, Evidence, Swapping
<1>4. RunInv' /\ SwapInv' /\ RetiredNeverLive'
  BY DEF IInv, RunInv, SwapInv, RetiredNeverLive, Swapping
<1>5. AppliedMeansLive' /\ AppliedAnswersHigh'
  BY <1>1 DEF AppliedMeansLive, AppliedAnswersHigh
<1> QED  BY <1>2, <1>3, <1>4, <1>5 DEF IInv

LEMMA Unchanged == ASSUME IInv, UNCHANGED vars PROVE IInv'
<1> USE DEF vars, judge, place, counts
<1>1. TypeOK' /\ TallyInv'  BY DEF IInv, TypeOK, TallyInv
<1>2. FileInv' /\ RunInv' /\ SwapInv'
  BY DEF IInv, FileInv, Evidence, RunInv, SwapInv, Answers
<1>3. RetiredNeverLive' /\ AppliedMeansLive' /\ AppliedAnswersHigh'
  BY DEF IInv, RetiredNeverLive, AppliedMeansLive, AppliedAnswersHigh
<1> QED  BY <1>1, <1>2, <1>3 DEF IInv

LEMMA Inductive == IInv /\ [Next]_vars => IInv'
<1> SUFFICES ASSUME IInv, [Next]_vars PROVE IInv'  OBVIOUS
<1>1. CASE Start  BY <1>1, StartStep
<1>2. CASE Look  BY <1>2, LookStep
<1>3. CASE StoreStrictness  BY <1>3, StoreStrictnessStep
<1>4. CASE StoreOutcomes  BY <1>4, StoreOutcomesStep
<1>5. CASE StoreAgreement  BY <1>5, StoreAgreementStep
<1>6. CASE PromoteRow  BY <1>6, PromoteRowStep
<1>7. CASE Switch  BY <1>7, SwitchStep
<1>8. CASE Retire  BY <1>8, RetireStep
<1>9. CASE Mark  BY <1>9, MarkStep
<1>10. CASE Finish \/ Stop  BY <1>10, LeaveStep DEF Finish, Stop
<1>11. CASE Rollback  BY <1>11, RollbackStep
<1>12. ASSUME NEW v \in {1, 2}, Reseed(v) PROVE IInv'  BY <1>12, ReseedStep
<1>13. CASE StartAfresh  BY <1>13, StartAfreshStep
<1>14. CASE Over \/ UNCHANGED vars  BY <1>14, Unchanged DEF Over
<1> QED
  BY <1>1, <1>2, <1>3, <1>4, <1>5, <1>6, <1>7, <1>8, <1>9, <1>10, <1>11, <1>12, <1>13,
     <1>14 DEF Next, Run

LEMMA Invariant == Spec => []IInv
BY Initially, Inductive, PTL DEF Spec

-----------------------------------------------------------------------------
(* What follows.                                                           *)

(* Every variable stays in its type: a run past its first audit has the    *)
(* row it may have to mark.                                                *)
THEOREM TypeCorrect == Spec => []TypeOK
<1>1. IInv => TypeOK  BY DEF IInv
<1> QED  BY <1>1, Invariant, PTL

(* The live judge is not one that was retired, unless moved back by hand.  *)
THEOREM JudgeStays == Spec => []RetiredNeverLive
<1>1. IInv => RetiredNeverLive  BY DEF IInv
<1> QED  BY <1>1, Invariant, PTL

(* A finding is marked applied only while its swap is in effect.           *)
THEOREM MarksHold == Spec => []AppliedMeansLive
<1>1. IInv => AppliedMeansLive  BY DEF IInv
<1> QED  BY <1>1, Invariant, PTL

(* The swap rests on a stored finding of high severity whose audit met a   *)
(* difference, for samples of every size.                                  *)
THEOREM SwapsAreFounded == Spec => []SwapOnEvidence
<1>1. IInv => SwapOnEvidence
  BY DEF IInv, FileInv, Evidence, IsEvidence, SwapOnEvidence
<1> QED  BY <1>1, Invariant, PTL

(* Each mark answers a high finding of its own run.                        *)
THEOREM MarksAnswer == Spec => []AppliedAnswersHigh
<1>1. IInv => AppliedAnswersHigh  BY DEF IInv
<1> QED  BY <1>1, Invariant, PTL
=============================================================================
