--------------------------- MODULE ContextProofs ---------------------------
(***************************************************************************)
(* Theorems about Context.                                                 *)
(***************************************************************************)
EXTENDS Context, FiniteSetTheorems, SequenceTheorems, WellFoundedInduction, TLAPS

-----------------------------------------------------------------------------
(* Folds.                                                                  *)

LEMMA LeastOfSome ==
  ASSUME NEW T, T \subseteq Nat, T # {}
  PROVE  \E x \in T : \A y \in T : x <= y
PROOF
  <1>1. \E x \in T : \A y \in T : ~ (<<y, x>> \in OpToRel(<, Nat))
    BY NatLessThanWellFounded, WFMin
  <1>2. PICK x \in T : \A y \in T : ~ (<<y, x>> \in OpToRel(<, Nat))
    BY <1>1
  <1>3. ASSUME NEW y \in T PROVE x <= y
    <2>1. x \in Nat /\ y \in Nat
      OBVIOUS
    <2>2. <<y, x>> \notin OpToRel(<, Nat)
      BY <1>2
    <2>3. ~ (y < x)
      BY <2>1, <2>2 DEF OpToRel
    <2> QED
      BY <2>1, <2>3
  <1> QED
    BY <1>3

(* A fold takes the elements of a finite set one after the other, the one  *)
(* ch chooses first: the function it is defined by exists.                 *)
Folding(g, S, start, step, ch) ==
  \A T \in SUBSET S : g[T] = IF T = {} THEN start ELSE step[<<ch[T], g[T \ {ch[T]}]>>]

LEMMA FoldingExists ==
  ASSUME NEW S, IsFiniteSet(S), NEW V, NEW start \in V, NEW step \in [S \X V -> V],
         NEW ch, \A T \in SUBSET S : T # {} => ch[T] \in T
  PROVE  \E g \in [SUBSET S -> V] : Folding(g, S, start, step, ch)
PROOF
  <1> DEFINE Eq(g, T) == g[T] = IF T = {} THEN start ELSE step[<<ch[T], g[T \ {ch[T]}]>>]
             Upto(k) == \E g \in [SUBSET S -> V] : \A T \in SUBSET S : Cardinality(T) <= k => Eq(g, T)
             Bad == {k \in Nat : ~ Upto(k)}
             Step1(g) == [T \in SUBSET S |-> IF T = {} THEN start ELSE step[<<ch[T], g[T \ {ch[T]}]>>]]
  <1>1. \A T \in SUBSET S : IsFiniteSet(T) /\ Cardinality(T) \in Nat /\ Cardinality(T) <= Cardinality(S)
    BY FS_Subset, FS_CardinalityType
  <1>2. \A T \in SUBSET S : T # {} => Cardinality(T \ {ch[T]}) = Cardinality(T) - 1
    BY <1>1, FS_RemoveElement
  <1>3. \A T \in SUBSET S : Cardinality(T) = 0 => T = {}
    BY <1>1, FS_EmptySet
  <1>4. ASSUME NEW g \in [SUBSET S -> V]
        PROVE  /\ Step1(g) \in [SUBSET S -> V]
               /\ \A T \in SUBSET S : T # {} => Step1(g)[T] = step[<<ch[T], g[T \ {ch[T]}]>>]
               /\ Step1(g)[{}] = start
    <2>1. \A T \in SUBSET S : T # {} => step[<<ch[T], g[T \ {ch[T]}]>>] \in V
      <3>1. ASSUME NEW T \in SUBSET S, T # {} PROVE <<ch[T], g[T \ {ch[T]}]>> \in S \X V
        <4>1. ch[T] \in S
          BY <3>1
        <4>2. g[T \ {ch[T]}] \in V
          OBVIOUS
        <4> QED
          BY <4>1, <4>2
      <3> QED
        BY <3>1
    <2> QED
      BY <2>1
  <1>5. Upto(0)
    <2>1. PICK g \in [SUBSET S -> V] : g = [T \in SUBSET S |-> start]
      OBVIOUS
    <2>2. \A T \in SUBSET S : Cardinality(T) <= 0 => T = {}
      BY <1>1, <1>3
    <2>3. \A T \in SUBSET S : Cardinality(T) <= 0 => Eq(g, T)
      BY <2>1, <2>2
    <2> QED
      BY <2>3
  <1>6. ASSUME NEW m \in Nat, m # 0, Upto(m - 1) PROVE Upto(m)
    <2>1. PICK g \in [SUBSET S -> V] : \A T \in SUBSET S : Cardinality(T) <= m - 1 => Eq(g, T)
      BY <1>6
    <2>2. PICK h \in [SUBSET S -> V] : h = Step1(g)
      BY <1>4
    <2>3. ASSUME NEW T \in SUBSET S, Cardinality(T) <= m PROVE Eq(h, T)
      <3>1. CASE T = {}
        BY <1>4, <2>2, <3>1
      <3>2. CASE T # {}
        <4>1. PICK R \in SUBSET S : R = T \ {ch[T]}
          OBVIOUS
        <4>2. Cardinality(R) <= m - 1
          BY <1>1, <1>2, <2>3, <3>2, <4>1
        <4>3. Eq(g, R)
          BY <2>1, <4>2
        <4>4. h[R] = g[R]
          BY <4>3, <2>2
        <4>5. h[T] = step[<<ch[T], g[R]>>]
          BY <1>4, <2>2, <3>2, <4>1
        <4> QED
          BY <3>2, <4>1, <4>4, <4>5
      <3> QED
        BY <3>1, <3>2
    <2> QED
      BY <2>3
  <1>7. Bad = {}
    <2>1. SUFFICES ASSUME Bad # {} PROVE FALSE
      OBVIOUS
    <2>2. Bad \subseteq Nat
      OBVIOUS
    <2>3. \A k \in Nat : k \notin Bad => Upto(k)
      OBVIOUS
    <2>4. \A k \in Bad : ~ Upto(k)
      OBVIOUS
    <2> HIDE DEF Bad, Upto
    <2>5. PICK m \in Bad : \A k \in Bad : m <= k
      BY <2>1, <2>2, LeastOfSome
    <2>6. m \in Nat /\ m # 0
      BY <1>5, <2>2, <2>4, <2>5
    <2>7. m - 1 \in Nat /\ m - 1 \notin Bad
      BY <2>2, <2>5, <2>6
    <2> QED
      BY <1>6, <2>3, <2>4, <2>5, <2>6, <2>7
  <1>8. Upto(Cardinality(S))
    BY <1>1, <1>7
  <1> QED
    BY <1>1, <1>8 DEF Folding

-----------------------------------------------------------------------------
(* The tokens of a history are its last prefix sum.                        *)

Roles == {"user", "assistant"}
Messages == [role : Roles, tokens : Nat]

PrefixSums(hist, p) ==
  /\ p \in [0..Len(hist) -> Nat]
  /\ p[0] = 0
  /\ \A i \in 1..Len(hist) : p[i] = p[i - 1] + hist[i].tokens

LEMMA GreatestChosen ==
  ASSUME NEW n \in Nat, NEW T \in SUBSET (1..n), T # {}
  PROVE  Max(T) \in T /\ \A y \in T : y <= Max(T)
PROOF
  <1> DEFINE D == {n - t : t \in T}
  <1>1. D \subseteq Nat /\ D # {}
    <2>1. \A t \in T : n - t \in Nat
      OBVIOUS
    <2> QED
      BY <2>1
  <1>2. \A t \in T : n - t \in D
    OBVIOUS
  <1>3. \A d \in D : \E t \in T : d = n - t
    OBVIOUS
  <1> HIDE DEF D
  <1>4. PICK d \in D : \A e \in D : d <= e
    BY <1>1, LeastOfSome
  <1>5. PICK x \in T : d = n - x
    BY <1>3
  <1>6. \A y \in T : n - x <= n - y
    BY <1>2, <1>4, <1>5
  <1>7. \A y \in T : x >= y
    BY <1>6
  <1>8. \A y \in T : Max(T) >= y /\ Max(T) \in T
    BY <1>7 DEF Max
  <1> QED
    BY <1>8

LEMMA LeastChosen ==
  ASSUME NEW n \in Nat, NEW T \in SUBSET (1..n), T # {}
  PROVE  Min(T) \in T /\ \A y \in T : Min(T) <= y
PROOF
  <1>1. PICK x \in T : \A y \in T : x <= y
    <2>1. T \subseteq Nat
      OBVIOUS
    <2> QED
      BY <2>1, LeastOfSome
  <1> QED
    BY <1>1 DEF Min

LEMMA GreatestOfInitial ==
  ASSUME NEW n \in Nat, NEW k \in 1..n
  PROVE  Max(1..k) = k /\ (1..k) \ {k} = 1..(k - 1)
PROOF
  <1>1. PICK T \in SUBSET (1..n) : T = 1..k
    OBVIOUS
  <1>3. k \in T
    BY <1>1
  <1>2. Max(T) \in T /\ \A y \in T : y <= Max(T)
    BY <1>3, GreatestChosen
  <1>4. Max(T) = k
    BY <1>1, <1>2, <1>3
  <1> QED
    BY <1>1, <1>4

LEMMA LeastOfFinal ==
  ASSUME NEW n \in Nat, NEW k \in 1..n
  PROVE  /\ Min(k..n) = k /\ (k..n) \ {k} = (k + 1)..n
         /\ k..n \in SUBSET (1..n) /\ k..n # {}
PROOF
  <1>1. PICK T \in SUBSET (1..n) : T = k..n
    OBVIOUS
  <1>3. k \in T
    BY <1>1
  <1>2. Min(T) \in T /\ \A y \in T : Min(T) <= y
    BY <1>3, LeastChosen
  <1>4. Min(T) = k
    BY <1>1, <1>2, <1>3
  <1> QED
    BY <1>1, <1>3, <1>4

SumsUp(g, hist) ==
  g = [T \in SUBSET (DOMAIN hist) |->
        IF T = {} THEN 0 ELSE g[T \ {Max(T)}] + hist[Max(T)].tokens]

LEMMA HistoryFields ==
  ASSUME NEW hist \in Seq(Messages)
  PROVE  /\ Len(hist) \in Nat /\ DOMAIN hist = 1..Len(hist) /\ IsFiniteSet(DOMAIN hist)
         /\ \A i \in DOMAIN hist : hist[i] \in Messages /\ hist[i].tokens \in Nat /\ hist[i].role \in Roles
PROOF
  <1>1. Len(hist) \in Nat /\ DOMAIN hist = 1..Len(hist)
    BY LenProperties
  <1>2. IsFiniteSet(DOMAIN hist)
    BY <1>1, FS_Interval
  <1>3. \A i \in DOMAIN hist : hist[i] \in Messages
    BY <1>1, ElementOfSeq
  <1> QED
    BY <1>1, <1>2, <1>3 DEF Messages

LEMMA SumsUpExists ==
  ASSUME NEW hist \in Seq(Messages)
  PROVE  \E g : SumsUp(g, hist)
PROOF
  <1>1. PICK D : D = DOMAIN hist
    OBVIOUS
  <1>2. Len(hist) \in Nat /\ D = 1..Len(hist) /\ IsFiniteSet(D) /\ \A i \in D : hist[i].tokens \in Nat
    BY <1>1, HistoryFields
  <1>3. PICK top : top = [T \in SUBSET D |-> Max(T)]
    OBVIOUS
  <1>4. \A T \in SUBSET D : T # {} => top[T] \in T /\ top[T] = Max(T)
    BY <1>2, <1>3, GreatestChosen
  <1>5. PICK add : add = [x \in D \X Nat |-> x[2] + hist[x[1]].tokens]
    OBVIOUS
  <1>6. add \in [D \X Nat -> Nat]
    BY <1>2, <1>5
  <1>7. \A i \in D, v \in Nat : add[<<i, v>>] = v + hist[i].tokens
    BY <1>5
  <1>8. 0 \in Nat /\ \A T \in SUBSET D : T # {} => top[T] \in T
    BY <1>4
  <1>9. PICK g \in [SUBSET D -> Nat] : Folding(g, D, 0, add, top)
    BY <1>2, <1>6, <1>8, FoldingExists
  <1>10. ASSUME NEW T \in SUBSET D, T # {}
         PROVE  g[T] = g[T \ {Max(T)}] + hist[Max(T)].tokens
    <2>1. g[T] = add[<<top[T], g[T \ {top[T]}]>>]
      BY <1>9, <1>10 DEF Folding
    <2>2. Max(T) \in D /\ g[T \ {Max(T)}] \in Nat /\ top[T] = Max(T)
      BY <1>4, <1>10
    <2> QED
      BY <1>7, <2>1, <2>2
  <1>11. g[{}] = 0
    BY <1>9 DEF Folding
  <1>12. g = [T \in SUBSET D |-> IF T = {} THEN 0 ELSE g[T \ {Max(T)}] + hist[Max(T)].tokens]
    BY <1>10, <1>11
  <1> QED
    BY <1>1, <1>12 DEF SumsUp

LEMMA SumsUpEquations ==
  ASSUME NEW hist \in Seq(Messages), NEW g, SumsUp(g, hist)
  PROVE  /\ g[{}] = 0
         /\ \A T \in SUBSET (DOMAIN hist) :
              T # {} => g[T] = g[T \ {Max(T)}] + hist[Max(T)].tokens
         /\ DOMAIN g = SUBSET (DOMAIN hist)
PROOF
  <1>1. g = [T \in SUBSET (DOMAIN hist) |->
              IF T = {} THEN 0 ELSE g[T \ {Max(T)}] + hist[Max(T)].tokens]
    BY DEF SumsUp
  <1>2. g[{}] = 0
    BY <1>1
  <1>3. \A T \in SUBSET (DOMAIN hist) :
          g[T] = IF T = {} THEN 0 ELSE g[T \ {Max(T)}] + hist[Max(T)].tokens
    BY <1>1
  <1>4. DOMAIN g = SUBSET (DOMAIN hist)
    BY <1>1
  <1> QED
    BY <1>2, <1>3, <1>4

(* Only the sums of what comes first are needed.                           *)
LEMMA PrefixesSumUp ==
  ASSUME NEW hist \in Seq(Messages), NEW g, SumsUp(g, hist)
  PROVE  \A i \in 0..Len(hist) :
           /\ g[1..i] \in Nat
           /\ i > 0 => g[1..i] = g[1..(i - 1)] + hist[i].tokens
PROOF
  <1>1. PICK n \in Nat : n = Len(hist)
    BY HistoryFields
  <1>2. DOMAIN hist = 1..n /\ \A i \in 1..n : hist[i].tokens \in Nat
    BY <1>1, HistoryFields
  <1>3. ASSUME NEW i \in 1..n PROVE g[1..i] = g[1..(i - 1)] + hist[i].tokens
    <2>1. Max(1..i) = i /\ (1..i) \ {i} = 1..(i - 1)
      BY GreatestOfInitial
    <2>2. 1..i \in SUBSET (DOMAIN hist) /\ 1..i # {}
      BY <1>2
    <2>3. g[1..i] = g[(1..i) \ {Max(1..i)}] + hist[Max(1..i)].tokens
      BY <2>2, SumsUpEquations
    <2> QED
      BY <2>1, <2>3
  <1>4. g[1..0] = 0
    <2>1. 1..0 = {}
      OBVIOUS
    <2> QED
      BY <2>1, SumsUpEquations
  <1> DEFINE Bad == {i \in 0..n : g[1..i] \notin Nat}
  <1>5. Bad = {}
    <2>1. Bad \subseteq Nat /\ \A i \in 0..n : i \notin Bad => g[1..i] \in Nat
      OBVIOUS
    <2>2. \A i \in Bad : g[1..i] \notin Nat /\ i \in 0..n
      OBVIOUS
    <2> HIDE DEF Bad
    <2>3. SUFFICES ASSUME Bad # {} PROVE FALSE
      OBVIOUS
    <2>4. PICK k \in Bad : \A j \in Bad : k <= j
      BY <2>1, <2>3, LeastOfSome
    <2>5. k \in 1..n
      BY <1>4, <2>2, <2>4
    <2>6. k - 1 \in 0..n /\ k - 1 \notin Bad
      BY <2>1, <2>4, <2>5
    <2>7. g[1..(k - 1)] \in Nat
      BY <2>1, <2>6
    <2>8. g[1..k] = g[1..(k - 1)] + hist[k].tokens
      BY <1>3, <2>5
    <2>9. hist[k].tokens \in Nat
      BY <1>2, <2>5
    <2>10. g[1..k] \notin Nat
      BY <2>2
    <2> QED
      BY <2>7, <2>8, <2>9, <2>10
  <1>6. \A i \in 0..n : g[1..i] \in Nat
    BY <1>5
  <1> QED
    BY <1>1, <1>3, <1>6

LEMMA TokensSummed ==
  ASSUME NEW hist \in Seq(Messages)
  PROVE  \E p : PrefixSums(hist, p) /\ Tokens(hist) = p[Len(hist)]
PROOF
  <1> DEFINE iter == CHOOSE g : SumsUp(g, hist)
  <1>1. Tokens(hist) = iter[DOMAIN hist]
    BY DEF Tokens, FoldLeft, MapThenFoldSet, SumsUp
  <1>2. PICK g : SumsUp(g, hist) /\ g = iter
    BY SumsUpExists
  <1>3. PICK n \in Nat : n = Len(hist)
    BY HistoryFields
  <1>4. \A i \in 0..n : g[1..i] \in Nat /\ (i > 0 => g[1..i] = g[1..(i - 1)] + hist[i].tokens)
    BY <1>2, <1>3, PrefixesSumUp
  <1>5. PICK p : p = [i \in 0..n |-> g[1..i]]
    OBVIOUS
  <1>6. p[0] = 0
    <2>1. 1..0 = {} /\ 0 \in 0..n
      OBVIOUS
    <2>2. g[{}] = 0
      BY <1>2, SumsUpEquations
    <2> QED
      BY <1>5, <2>1, <2>2
  <1>7. p \in [0..n -> Nat]
    BY <1>4, <1>5
  <1>8. ASSUME NEW i \in 1..n PROVE p[i] = p[i - 1] + hist[i].tokens
    BY <1>4, <1>5
  <1>9. PrefixSums(hist, p)
    BY <1>3, <1>6, <1>7, <1>8 DEF PrefixSums
  <1>10. Tokens(hist) = p[n]
    <2>1. DOMAIN hist = 1..n
      BY <1>3, HistoryFields
    <2> QED
      BY <1>1, <1>2, <1>5, <2>1
  <1> QED
    BY <1>3, <1>9, <1>10

LEMMA PrefixSumsUnique ==
  ASSUME NEW hist \in Seq(Messages), NEW p, NEW q, PrefixSums(hist, p), PrefixSums(hist, q)
  PROVE  \A i \in 0..Len(hist) : p[i] = q[i]
PROOF
  <1>1. PICK n \in Nat : n = Len(hist)
    BY HistoryFields
  <1>2. \A i \in 1..n : p[i] = p[i - 1] + hist[i].tokens /\ q[i] = q[i - 1] + hist[i].tokens
    BY <1>1 DEF PrefixSums
  <1>3. p[0] = q[0]
    BY DEF PrefixSums
  <1> DEFINE Bad == {i \in 0..n : p[i] # q[i]}
  <1>4. Bad \subseteq Nat
    OBVIOUS
  <1>5. \A i \in 0..n : i \notin Bad => p[i] = q[i]
    OBVIOUS
  <1>6. \A i \in Bad : p[i] # q[i] /\ i \in 0..n
    OBVIOUS
  <1> HIDE DEF Bad
  <1>7. ASSUME Bad # {} PROVE FALSE
    <2>1. PICK k \in Bad : \A j \in Bad : k <= j
      BY <1>4, <1>7, LeastOfSome
    <2>2. k \in 1..n
      BY <1>3, <1>6, <2>1
    <2>3. k - 1 \in 0..n /\ k - 1 \notin Bad
      BY <1>4, <2>1, <2>2
    <2> QED
      BY <1>2, <1>5, <1>6, <2>2, <2>3
  <1> QED
    BY <1>1, <1>5, <1>7

LEMMA TokensAre ==
  ASSUME NEW hist \in Seq(Messages), NEW p, PrefixSums(hist, p)
  PROVE  Tokens(hist) = p[Len(hist)] /\ Tokens(hist) \in Nat
PROOF
  <1>1. PICK q : PrefixSums(hist, q) /\ Tokens(hist) = q[Len(hist)]
    BY TokensSummed
  <1>2. Len(hist) \in Nat /\ Len(hist) \in 0..Len(hist)
    BY HistoryFields
  <1>3. p[Len(hist)] = q[Len(hist)]
    BY <1>1, <1>2, PrefixSumsUnique
  <1>4. p[Len(hist)] \in Nat
    BY <1>2 DEF PrefixSums
  <1> QED
    BY <1>1, <1>3, <1>4

(* What an end of a history weighs.                                        *)
LEMMA TokensOfEnd ==
  ASSUME NEW hist \in Seq(Messages), NEW p, PrefixSums(hist, p), NEW j \in 1..(Len(hist) + 1)
  PROVE  /\ SubSeq(hist, j, Len(hist)) \in Seq(Messages)
         /\ Tokens(SubSeq(hist, j, Len(hist))) = p[Len(hist)] - p[j - 1]
PROOF
  <1>1. PICK n \in Nat : n = Len(hist)
    BY HistoryFields
  <1>2. \A i \in 1..n : hist[i] \in Messages /\ hist[i].tokens \in Nat
    BY <1>1, HistoryFields
  <1>3. PICK s : s = SubSeq(hist, j, n)
    OBVIOUS
  <1>4. /\ s \in Seq(Messages) /\ Len(s) = n - j + 1
        /\ \A i \in 1..(n - j + 1) : s[i] = hist[j + i - 1]
    <2>1. j \in Int /\ n \in Int /\ j <= n + 1 /\ \A i \in j..n : hist[i] \in Messages
      BY <1>1, <1>2
    <2>2. /\ s \in Seq(Messages) /\ Len(s) = (IF j <= n THEN n - j + 1 ELSE 0)
          /\ \A i \in 1..(n - j + 1) : s[i] = hist[j + i - 1]
      BY <1>3, <2>1, SubSeqProperties
    <2> QED
      BY <2>1, <2>2
  <1>5. PICK q : q = [i \in 0..(n - j + 1) |-> p[j - 1 + i] - p[j - 1]]
    OBVIOUS
  <1>6. /\ \A i \in 0..n : p[i] \in Nat
        /\ \A i \in 1..n : p[i] = p[i - 1] + hist[i].tokens
    BY <1>1 DEF PrefixSums
  <1>7. \A i \in 1..(n - j + 1) : q[i] = q[i - 1] + s[i].tokens
    <2>1. ASSUME NEW i \in 1..(n - j + 1) PROVE q[i] = q[i - 1] + s[i].tokens
      <3>1. PICK k \in 1..n : k = j + i - 1
        BY <1>1
      <3>2. p[k] = p[k - 1] + hist[k].tokens /\ p[k] \in Nat /\ p[k - 1] \in Nat /\ p[j - 1] \in Nat
        BY <1>1, <1>6
      <3>3. q[i] = p[k] - p[j - 1]
        BY <1>1, <1>5, <3>1
      <3>4. q[i - 1] = p[k - 1] - p[j - 1]
        BY <1>1, <1>5, <3>1
      <3>5. s[i].tokens = hist[k].tokens /\ hist[k].tokens \in Nat
        BY <1>2, <1>4, <3>1
      <3>6. PICK x \in Nat, y \in Nat, z \in Nat :
              x = p[k] /\ y = p[k - 1] /\ z = p[j - 1] /\ x = y + hist[k].tokens
        BY <3>2
      <3>8. PICK w \in Nat : w = hist[k].tokens
        BY <3>5
      <3>9. x = y + w
        BY <3>6, <3>8
      <3>10. x - z = (y - z) + w
        BY <3>9
      <3>7. x - z = (y - z) + hist[k].tokens
        BY <3>8, <3>10
      <3> QED
        BY <3>3, <3>4, <3>5, <3>6, <3>7
    <2> QED
      BY <2>1
  <1>8. q[0] = 0
    BY <1>1, <1>5, <1>6
  <1>9. \A i \in 0..(n - j + 1) : q[i] \in Nat
    <2> DEFINE Bad == {i \in 0..(n - j + 1) : q[i] \notin Nat}
    <2>1. Bad \subseteq Nat
      OBVIOUS
    <2>2. \A i \in 0..(n - j + 1) : i \notin Bad => q[i] \in Nat
      OBVIOUS
    <2>3. \A i \in Bad : q[i] \notin Nat /\ i \in 0..(n - j + 1)
      OBVIOUS
    <2>4. \A i \in 1..(n - j + 1) : s[i].tokens \in Nat
      BY <1>4, HistoryFields
    <2> HIDE DEF Bad
    <2>5. ASSUME Bad # {} PROVE FALSE
      <3>1. PICK k \in Bad : \A i \in Bad : k <= i
        BY <2>1, <2>5, LeastOfSome
      <3>2. k \in 1..(n - j + 1)
        BY <1>8, <2>3, <3>1
      <3>3. k - 1 \in 0..(n - j + 1) /\ k - 1 \notin Bad
        BY <1>1, <2>1, <3>1, <3>2
      <3>4. q[k - 1] \in Nat
        BY <2>2, <3>3
      <3> QED
        BY <1>7, <2>3, <2>4, <3>1, <3>2, <3>4
    <2> QED
      BY <2>2, <2>5
  <1>10. PrefixSums(s, q)
    BY <1>4, <1>5, <1>7, <1>8, <1>9 DEF PrefixSums
  <1>11. Tokens(s) = q[n - j + 1]
    BY <1>4, <1>10, TokensAre
  <1>12. q[n - j + 1] = p[n] - p[j - 1]
    BY <1>1, <1>5
  <1> QED
    BY <1>1, <1>3, <1>4, <1>11, <1>12

-----------------------------------------------------------------------------
(* The loop of fit_to_budget.                                              *)

Accumulators == [kept : Seq(Messages), running : Nat, full : BOOLEAN]
NothingYet == [kept |-> <<>>, running |-> 0, full |-> FALSE]
Kept1(msg, acc, room) ==
  IF acc.full \/ acc.running + msg.tokens > room
  THEN [acc EXCEPT !.full = TRUE]
  ELSE [acc EXCEPT !.kept = <<msg>> \o @, !.running = @ + msg.tokens]

FitsIn(g, hist, room) ==
  g = [T \in SUBSET (DOMAIN hist) |->
        IF T = {} THEN NothingYet ELSE Kept1(hist[Min(T)], g[T \ {Min(T)}], room)]

LEMMA KeptOneMore ==
  ASSUME NEW room \in Nat, NEW msg \in Messages, NEW acc \in Accumulators
  PROVE  Kept1(msg, acc, room) \in Accumulators
PROOF
  <1>1. /\ acc.kept \in Seq(Messages) /\ acc.running \in Nat /\ acc.full \in BOOLEAN
        /\ msg.tokens \in Nat
    BY DEF Accumulators, Messages
  <1>2. <<msg>> \in Seq(Messages)
    OBVIOUS
  <1>3. <<msg>> \o acc.kept \in Seq(Messages)
    BY <1>1, <1>2, ConcatProperties
  <1>4. PICK k \in Seq(Messages) : k = <<msg>> \o acc.kept
    BY <1>3
  <1>7. PICK r \in Nat : r = acc.running + msg.tokens
    BY <1>1
  <1>5. [acc EXCEPT !.full = TRUE] \in Accumulators
    BY DEF Accumulators
  <1>6. [acc EXCEPT !.kept = k, !.running = r] \in Accumulators
    BY DEF Accumulators
  <1> QED
    BY <1>4, <1>5, <1>6, <1>7 DEF Kept1

LEMMA FitsInExists ==
  ASSUME NEW hist \in Seq(Messages), NEW room \in Nat
  PROVE  \E g : FitsIn(g, hist, room)
PROOF
  <1>1. PICK D : D = DOMAIN hist
    OBVIOUS
  <1>2. Len(hist) \in Nat /\ D = 1..Len(hist) /\ IsFiniteSet(D) /\ \A i \in D : hist[i] \in Messages
    BY <1>1, HistoryFields
  <1>3. PICK top : top = [T \in SUBSET D |-> Min(T)]
    OBVIOUS
  <1>4. \A T \in SUBSET D : T # {} => top[T] \in T /\ top[T] = Min(T)
    BY <1>2, <1>3, LeastChosen
  <1>5. PICK add : add = [x \in D \X Accumulators |-> Kept1(hist[x[1]], x[2], room)]
    OBVIOUS
  <1>6. \A i \in D, acc \in Accumulators :
          add[<<i, acc>>] = Kept1(hist[i], acc, room) /\ add[<<i, acc>>] \in Accumulators
    BY <1>2, <1>5, KeptOneMore
  <1>7. add \in [D \X Accumulators -> Accumulators]
    BY <1>5, <1>6
  <1>8. NothingYet \in Accumulators /\ \A T \in SUBSET D : T # {} => top[T] \in T
    BY <1>4 DEF NothingYet, Accumulators
  <1>9. PICK g \in [SUBSET D -> Accumulators] : Folding(g, D, NothingYet, add, top)
    BY <1>2, <1>7, <1>8, FoldingExists
  <1>10. ASSUME NEW T \in SUBSET D, T # {}
         PROVE  g[T] = Kept1(hist[Min(T)], g[T \ {Min(T)}], room)
    <2>1. g[T] = add[<<top[T], g[T \ {top[T]}]>>]
      BY <1>9, <1>10 DEF Folding
    <2>2. Min(T) \in D /\ g[T \ {Min(T)}] \in Accumulators /\ top[T] = Min(T)
      BY <1>4, <1>10
    <2> QED
      BY <1>6, <2>1, <2>2
  <1>11. g[{}] = NothingYet
    BY <1>9 DEF Folding
  <1>12. g = [T \in SUBSET D |-> IF T = {} THEN NothingYet
                                 ELSE Kept1(hist[Min(T)], g[T \ {Min(T)}], room)]
    BY <1>10, <1>11
  <1> QED
    BY <1>1, <1>12 DEF FitsIn

LEMMA FitsInEquations ==
  ASSUME NEW hist \in Seq(Messages), NEW room \in Nat, NEW g, FitsIn(g, hist, room)
  PROVE  /\ g[{}] = NothingYet
         /\ \A T \in SUBSET (DOMAIN hist) :
              T # {} => g[T] = Kept1(hist[Min(T)], g[T \ {Min(T)}], room)
PROOF
  <1>1. g = [T \in SUBSET (DOMAIN hist) |->
              IF T = {} THEN NothingYet ELSE Kept1(hist[Min(T)], g[T \ {Min(T)}], room)]
    BY DEF FitsIn
  <1>2. g[{}] = NothingYet
    BY <1>1
  <1>3. \A T \in SUBSET (DOMAIN hist) :
          g[T] = IF T = {} THEN NothingYet ELSE Kept1(hist[Min(T)], g[T \ {Min(T)}], room)
    BY <1>1
  <1> QED
    BY <1>2, <1>3

(* Once the loop has been through the messages from k on, it has kept those *)
(* from j on: all of them, or as many as there was room for.               *)
KeptFrom(acc, hist, p, room, k, j) ==
  /\ j \in k..(Len(hist) + 1)
  /\ acc.kept = SubSeq(hist, j, Len(hist))
  /\ acc.running = p[Len(hist)] - p[j - 1]
  /\ acc.running <= room
  /\ acc.full \in BOOLEAN
  /\ acc.full => j > k /\ acc.running + hist[j - 1].tokens > room
  /\ ~ acc.full => j = k

LEMMA KeptStep ==
  ASSUME NEW hist \in Seq(Messages), NEW room \in Nat, NEW p, PrefixSums(hist, p),
         NEW k \in 1..Len(hist), NEW j, NEW acc \in Accumulators,
         KeptFrom(acc, hist, p, room, k + 1, j)
  PROVE  \E i : KeptFrom(Kept1(hist[k], acc, room), hist, p, room, k, i)
PROOF
  <1>1. PICK n \in Nat : n = Len(hist)
    BY HistoryFields
  <1>2. PICK t \in Nat : t = hist[k].tokens
    BY HistoryFields
  <1>3. j \in (k + 1)..(n + 1) /\ j \in 1..(n + 1) /\ k \in 1..n
    BY <1>1 DEF KeptFrom
  <1>4. CASE acc.full \/ acc.running + t > room
    <2>1. Kept1(hist[k], acc, room) = [acc EXCEPT !.full = TRUE]
      BY <1>2, <1>4 DEF Kept1
    <2>2. PICK new : new = Kept1(hist[k], acc, room)
      OBVIOUS
    <2>3. new.full = TRUE /\ new.kept = acc.kept /\ new.running = acc.running
      BY <2>1, <2>2 DEF Accumulators
    <2>4. acc.running + hist[j - 1].tokens > room
      <3>1. CASE acc.full
        BY <3>1 DEF KeptFrom
      <3>2. CASE ~ acc.full
        <4>1. j = k + 1 /\ j - 1 = k
          BY <3>2 DEF KeptFrom
        <4> QED
          BY <1>2, <1>4, <3>2, <4>1
      <3> QED
        BY <3>1, <3>2
    <2>5. j \in k..(Len(hist) + 1) /\ j > k
      <3>1. j \in k..(n + 1) /\ j > k
        BY <1>3
      <3> QED
        BY <1>1, <3>1
    <2>6. KeptFrom(new, hist, p, room, k, j)
      BY <2>3, <2>4, <2>5 DEF KeptFrom
    <2> QED
      BY <2>2, <2>6
  <1>5. CASE ~ (acc.full \/ acc.running + t > room)
    <2>1. j = k + 1 /\ acc.full = FALSE
      BY <1>5 DEF KeptFrom
    <2>2. PICK new : new = Kept1(hist[k], acc, room)
      OBVIOUS
    <2>3. new = [acc EXCEPT !.kept = <<hist[k]>> \o acc.kept, !.running = acc.running + hist[k].tokens]
      BY <1>2, <1>5, <2>2 DEF Kept1
    <2>4. /\ new.full = FALSE /\ new.kept = <<hist[k]>> \o acc.kept
          /\ new.running = acc.running + t
      BY <1>2, <2>1, <2>3 DEF Accumulators
    <2>5. <<hist[k]>> \o SubSeq(hist, k + 1, n) = SubSeq(hist, k, n)
      BY <1>1, <1>3, SubSeqRecursiveFirst
    <2>6. new.kept = SubSeq(hist, k, n)
      BY <1>1, <2>1, <2>4, <2>5 DEF KeptFrom
    <2>7. new.running = p[n] - p[k - 1]
      <3>1. acc.running = p[n] - p[k]
        <4>1. acc.running = p[n] - p[j - 1]
          BY <1>1 DEF KeptFrom
        <4>2. j - 1 = k
          BY <2>1
        <4> QED
          BY <4>1, <4>2
      <3>2. p[k] = p[k - 1] + t /\ p[k] \in Nat /\ p[k - 1] \in Nat /\ p[n] \in Nat
        <4>1. k \in 0..n /\ k - 1 \in 0..n /\ n \in 0..n
          BY <1>3
        <4>2. \A i \in 0..n : p[i] \in Nat
          BY <1>1 DEF PrefixSums
        <4>3. p[k] = p[k - 1] + hist[k].tokens
          BY DEF PrefixSums
        <4> QED
          BY <1>2, <4>1, <4>2, <4>3
      <3> QED
        BY <2>4, <3>1, <3>2
    <2>8. new.running <= room
      BY <1>5, <2>4 DEF Accumulators
    <2>9. k \in k..(n + 1)
      BY <1>3
    <2>10. KeptFrom(new, hist, p, room, k, k)
      BY <1>1, <2>4, <2>6, <2>7, <2>8, <2>9 DEF KeptFrom
    <2> QED
      BY <2>2, <2>10
  <1> QED
    BY <1>4, <1>5

LEMMA KeptEnd ==
  ASSUME NEW hist \in Seq(Messages), NEW room \in Nat, NEW p, PrefixSums(hist, p)
  PROVE  \E j \in 1..(Len(hist) + 1) :
           /\ Kept(hist, room) = SubSeq(hist, j, Len(hist))
           /\ p[Len(hist)] - p[j - 1] <= room
           /\ j > 1 => p[Len(hist)] - p[j - 1] + hist[j - 1].tokens > room
PROOF
  <1> DEFINE iter == CHOOSE g : FitsIn(g, hist, room)
  <1>1. Kept(hist, room) = iter[DOMAIN hist].kept
    BY DEF Kept, FoldRight, MapThenFoldSet, FitsIn, Kept1, NothingYet
  <1>2. PICK g : FitsIn(g, hist, room) /\ g = iter
    BY FitsInExists
  <1>3. PICK n \in Nat : n = Len(hist)
    BY HistoryFields
  <1>4. DOMAIN hist = 1..n /\ \A k \in 1..n : hist[k] \in Messages
    BY <1>3, HistoryFields
  <1> HIDE DEF iter
  <1> DEFINE Fine(k) == g[k..n] \in Accumulators /\ \E j : KeptFrom(g[k..n], hist, p, room, k, j)
  <1>5. Fine(n + 1)
    <2>1. PICK m \in Nat : m = n + 1
      OBVIOUS
    <2>2. m..n = {}
      BY <2>1
    <2>3. g[m..n] = NothingYet
      BY <1>2, <2>2, FitsInEquations
    <2>4. SubSeq(hist, m, n) = <<>>
      BY <2>1, SubSeqEmpty
    <2>5. p[n] - p[m - 1] = 0
      <3>1. p[n] \in Nat /\ m - 1 = n
        BY <1>3, <2>1 DEF PrefixSums
      <3> QED
        BY <3>1
    <2>6. m \in m..(n + 1)
      BY <2>1
    <2>7. /\ NothingYet.kept = <<>> /\ NothingYet.running = 0 /\ NothingYet.full = FALSE
          /\ NothingYet \in Accumulators
      BY DEF NothingYet, Accumulators
    <2>8. KeptFrom(NothingYet, hist, p, room, m, m)
      <3>1. NothingYet.kept = SubSeq(hist, m, Len(hist))
        BY <1>3, <2>4, <2>7
      <3>2. NothingYet.running = p[Len(hist)] - p[m - 1] /\ NothingYet.running <= room
        BY <1>3, <2>5, <2>7
      <3>3. m \in m..(Len(hist) + 1)
        BY <1>3, <2>6
      <3> HIDE DEF NothingYet
      <3> QED
        BY <2>7, <3>1, <3>2, <3>3 DEF KeptFrom
    <2> QED
      BY <2>1, <2>3, <2>7, <2>8
  <1>6. ASSUME NEW k \in 1..n, Fine(k + 1) PROVE Fine(k)
    <2>1. Min(k..n) = k /\ (k..n) \ {k} = (k + 1)..n
      BY LeastOfFinal
    <2>2. k..n \in SUBSET (1..n) /\ k..n # {}
      BY LeastOfFinal
    <2>3. g[k..n] = Kept1(hist[Min(k..n)], g[(k..n) \ {Min(k..n)}], room)
      <3>1. PICK T \in SUBSET (DOMAIN hist) : T = k..n
        BY <1>4, <2>2
      <3>2. T # {}
        BY <2>2, <3>1
      <3>3. g[T] = Kept1(hist[Min(T)], g[T \ {Min(T)}], room)
        BY <1>2, <3>2, FitsInEquations
      <3> QED
        BY <3>1, <3>3
    <2>4. PICK acc \in Accumulators : acc = g[(k + 1)..n]
      BY <1>6
    <2>5. g[k..n] = Kept1(hist[k], acc, room)
      BY <2>1, <2>3, <2>4
    <2>6. PICK j : KeptFrom(acc, hist, p, room, k + 1, j)
      BY <1>6, <2>4
    <2>7. \E i : KeptFrom(Kept1(hist[k], acc, room), hist, p, room, k, i)
      BY <1>3, <2>6, KeptStep
    <2>8. Kept1(hist[k], acc, room) \in Accumulators
      BY <1>4, KeptOneMore
    <2> QED
      BY <2>5, <2>7, <2>8
  <1> DEFINE Bad == {d \in 0..n : ~ Fine(n + 1 - d)}
  <1>7. Bad = {}
    <2>1. Bad \subseteq Nat
      OBVIOUS
    <2>2. \A d \in 0..n : d \notin Bad => Fine(n + 1 - d)
      OBVIOUS
    <2>3. \A d \in Bad : d \in 0..n /\ ~ Fine(n + 1 - d)
      OBVIOUS
    <2> HIDE DEF Bad, Fine
    <2>4. SUFFICES ASSUME Bad # {} PROVE FALSE
      OBVIOUS
    <2>5. PICK d \in Bad : \A e \in Bad : d <= e
      BY <2>1, <2>4, LeastOfSome
    <2>6. d # 0
      BY <1>5, <2>3
    <2>7. d - 1 \in 0..n /\ d - 1 \notin Bad
      BY <2>3, <2>5, <2>6
    <2>8. PICK k \in 1..n : k = n + 1 - d
      BY <2>3, <2>6
    <2>9. k + 1 = n + 1 - (d - 1)
      BY <2>3, <2>8
    <2>10. Fine(k + 1)
      BY <2>2, <2>7, <2>9
    <2> QED
      BY <1>6, <2>3, <2>8, <2>10
  <1>8. Fine(1)
    <2>1. n \in 0..n /\ n + 1 - n = 1
      OBVIOUS
    <2>2. n \notin Bad
      BY <1>7
    <2> QED
      BY <2>1, <2>2
  <1>9. PICK j : KeptFrom(g[1..n], hist, p, room, 1, j)
    BY <1>8
  <1>10. g[1..n] \in Accumulators
    BY <1>8
  <1>11. Kept(hist, room) = g[1..n].kept
    BY <1>1, <1>2, <1>4
  <1>12. j \in 1..(Len(hist) + 1) /\ (g[1..n].full <=> j # 1)
    BY <1>9 DEF KeptFrom
  <1> QED
    BY <1>3, <1>9, <1>11, <1>12 DEF KeptFrom

-----------------------------------------------------------------------------
(* What fit_to_budget returns.                                             *)

Contexts == [system : Nat, handoff : Nat, history : Seq(Messages)]

FitTo(ctx, budget, j) ==
  /\ j \in 1..(Len(ctx.history) + 1)
  /\ Fit(ctx, budget).system = ctx.system /\ Fit(ctx, budget).handoff = ctx.handoff
  /\ Fit(ctx, budget).history = SubSeq(ctx.history, j, Len(ctx.history))
  /\ Total(Fit(ctx, budget)) <= budget
  /\ j > 1 => Total(Fit(ctx, budget)) + ctx.history[j - 1].tokens > budget

LEMMA FitCuts ==
  ASSUME NEW ctx \in Contexts, NEW budget \in Nat, ~ Refused(ctx, budget), HandoffBudget \in Nat
  PROVE  \E j : FitTo(ctx, budget, j)
PROOF
  <1>1. PICK hist \in Seq(Messages) : hist = ctx.history
    BY DEF Contexts
  <1>2. PICK fixed \in Nat : fixed = Fixed(ctx)
    BY DEF Fixed, Contexts
  <1>3. fixed <= budget
    BY <1>2 DEF Refused, Fixed, Contexts
  <1>4. PICK room \in Nat : room = budget - fixed
    BY <1>3
  <1>5. PICK p : PrefixSums(hist, p)
    BY TokensSummed
  <1>6. PICK j \in 1..(Len(hist) + 1) :
          /\ Kept(hist, room) = SubSeq(hist, j, Len(hist))
          /\ p[Len(hist)] - p[j - 1] <= room
          /\ j > 1 => p[Len(hist)] - p[j - 1] + hist[j - 1].tokens > room
    BY <1>5, KeptEnd
  <1>7. PICK fit : fit = Fit(ctx, budget)
    OBVIOUS
  <1>8. fit = [ctx EXCEPT !.history = Kept(hist, room)]
    BY <1>1, <1>2, <1>4, <1>7 DEF Fit
  <1>9. /\ fit.system = ctx.system /\ fit.handoff = ctx.handoff
        /\ fit.history = SubSeq(hist, j, Len(hist))
    BY <1>6, <1>8 DEF Contexts
  <1>10. Tokens(fit.history) = p[Len(hist)] - p[j - 1] /\ Tokens(fit.history) \in Nat
    <2>1. SubSeq(hist, j, Len(hist)) \in Seq(Messages)
      BY <1>5, TokensOfEnd
    <2>2. Tokens(SubSeq(hist, j, Len(hist))) \in Nat
      BY <2>1, TokensSummed, TokensAre
    <2> QED
      BY <1>5, <1>9, <2>2, TokensOfEnd
  <1>11. Total(fit) = fixed + Tokens(fit.history)
    BY <1>2, <1>9 DEF Total, Fixed
  <1>12. Total(fit) <= budget
    BY <1>4, <1>6, <1>10, <1>11
  <1>13. ASSUME j > 1 PROVE Total(fit) + hist[j - 1].tokens > budget
    <2>1. j - 1 \in DOMAIN hist
      BY <1>13, HistoryFields
    <2>2. hist[j - 1].tokens \in Nat
      BY <2>1, HistoryFields
    <2>3. Tokens(fit.history) + hist[j - 1].tokens > room
      BY <1>6, <1>10, <1>13
    <2> QED
      BY <1>3, <1>4, <1>10, <1>11, <2>2, <2>3
  <1> QED
    BY <1>1, <1>6, <1>7, <1>9, <1>12, <1>13 DEF FitTo

-----------------------------------------------------------------------------
(* Types: whatever was sent last was not refused, and a handoff is within  *)
(* its budget.                                                             *)

Places == {"summarize", "retry", "trim", "build", "agent", "borrower", "done", "failed"}

TypesOK ==
  /\ pc \in Places
  /\ excerpt \in Nat /\ answer \in Nat /\ prompt \in Nat
  /\ handoff \in Nat /\ handoff <= HandoffBudget
  /\ history \in Seq(Messages)
  /\ sent \in [who : Callers \cup {"nobody"}, context : Contexts, budget : Nat]
  /\ ~ Refused(sent.context, sent.budget)
  /\ why # "asserted"

Bounds ==
  /\ AgentBudget \in Nat /\ HandoffBudget \in Nat /\ MetaBudget \in Nat
  /\ AgentBudget <= MetaBudget
  /\ SummarizerPrompt \in Nat /\ Complaint \in Nat /\ BorrowerPrompt \in Nat
  /\ MaxTurns \in Nat
  /\ \A n \in AgentPrompts \cup Excerpts \cup BadAnswers \cup AgentTurns \cup BorrowerTurns : n \in Nat

LEMMA BoundsHold == Bounds
PROOF
  BY ContextAssumption DEF Bounds

LEMMA FlipTypes ==
  ASSUME NEW hist \in Seq(Messages)
  PROVE  Flip(hist) \in Seq(Messages)
PROOF
  <1>1. PICK n \in Nat : n = Len(hist) /\ DOMAIN hist = 1..n
    BY HistoryFields
  <1>2. ASSUME NEW i \in 1..n
        PROVE  [hist[i] EXCEPT !.role = IF @ = "assistant" THEN "user" ELSE "assistant"] \in Messages
    <2>1. PICK msg \in Messages : msg = hist[i]
      BY <1>1, HistoryFields
    <2>2. [msg EXCEPT !.role = IF @ = "assistant" THEN "user" ELSE "assistant"] \in Messages
      BY DEF Messages, Roles
    <2> QED
      BY <2>1, <2>2
  <1>3. Flip(hist) \in [1..n -> Messages]
    BY <1>1, <1>2 DEF Flip
  <1> QED
    BY <1>3

LEMMA RequestTypes ==
  ASSUME TypesOK, NEW who \in Callers
  PROVE  /\ Request(who) \in Contexts
         /\ BudgetOf(who) \in Nat /\ AssertedOf(who) \in Nat /\ BudgetOf(who) <= AssertedOf(who)
PROOF
  <1>1. Bounds
    BY BoundsHold
  <1>2. BudgetOf(who) \in Nat /\ AssertedOf(who) \in Nat /\ BudgetOf(who) <= AssertedOf(who)
    BY <1>1 DEF BudgetOf, AssertedOf, Bounds
  <1>3. \A role \in Roles, n \in Nat : Message(role, n) \in Messages
    BY DEF Message, Messages
  <1>4. SummaryRequest \in Seq(Messages)
    BY <1>3 DEF SummaryRequest, TypesOK, Roles
  <1>5. RetryRequest \in Seq(Messages)
    <2>1. <<Message("assistant", answer), Message("user", Complaint)>> \in Seq(Messages)
      BY <1>1, <1>3 DEF TypesOK, Roles, Bounds
    <2> QED
      BY <1>4, <2>1, ConcatProperties DEF RetryRequest
  <1>6. Flip(history) \in Seq(Messages)
    BY FlipTypes DEF TypesOK
  <1>7. \A s \in Nat, h \in Nat, hist \in Seq(Messages) : Bundle(s, h, hist) \in Contexts
    BY DEF Bundle, Contexts
  <1>8. CASE who = "summarize"
    BY <1>1, <1>2, <1>4, <1>7, <1>8 DEF Request, Bounds
  <1>9. CASE who = "retry"
    BY <1>1, <1>2, <1>5, <1>7, <1>9 DEF Request, Bounds
  <1>10. CASE who = "agent"
    <2>1. Request(who) = Bundle(prompt, handoff, history)
      BY <1>10 DEF Request
    <2> QED
      BY <1>2, <1>7, <2>1 DEF TypesOK
  <1>11. CASE who = "borrower"
    BY <1>1, <1>2, <1>6, <1>7, <1>11 DEF Request, Bounds
  <1> QED
    BY <1>8, <1>9, <1>10, <1>11 DEF Callers

(* The assertion after fit_to_budget never fires.                          *)
LEMMA NeverAsserted ==
  ASSUME TypesOK, NEW who \in Callers, ~ Accepted(who)
  PROVE  Refused(Request(who), BudgetOf(who))
PROOF
  <1>1. SUFFICES ASSUME ~ Refused(Request(who), BudgetOf(who)) PROVE FALSE
    OBVIOUS
  <1>2. PICK ctx \in Contexts, b \in Nat, a \in Nat :
          ctx = Request(who) /\ b = BudgetOf(who) /\ a = AssertedOf(who) /\ b <= a
    BY RequestTypes
  <1>3. HandoffBudget \in Nat
    BY BoundsHold DEF Bounds
  <1>4. PICK j : FitTo(ctx, b, j)
    BY <1>1, <1>2, <1>3, FitCuts
  <1>5. Total(Fit(ctx, b)) <= b /\ Fit(ctx, b).handoff = ctx.handoff
    BY <1>4 DEF FitTo
  <1>6. ctx.handoff <= HandoffBudget
    BY <1>1, <1>2, <1>3 DEF Refused, Contexts
  <1>7. Total(Fit(ctx, b)) \in Nat
    <2>1. SubSeq(ctx.history, j, Len(ctx.history)) \in Seq(Messages)
      <3>1. PICK p : PrefixSums(ctx.history, p)
        BY TokensSummed DEF Contexts
      <3> QED
        BY <1>4, <3>1, TokensOfEnd DEF Contexts, FitTo
    <2>2. Tokens(Fit(ctx, b).history) \in Nat
      BY <1>4, <2>1, TokensSummed, TokensAre DEF FitTo
    <2>3. Fixed(Fit(ctx, b)) \in Nat
      BY <1>4 DEF Fixed, FitTo, Contexts
    <2> QED
      BY <2>2, <2>3 DEF Total
  <1>8. Within(Fit(ctx, b), a)
    BY <1>2, <1>5, <1>6, <1>7 DEF Within
  <1> QED
    BY <1>1, <1>2, <1>8 DEF Accepted

LEMMA InitTypes == Init => TypesOK
PROOF
  <1> SUFFICES ASSUME Init PROVE TypesOK
    OBVIOUS
  <1>1. Bounds
    BY BoundsHold
  <1>2. <<>> \in Seq(Messages)
    OBVIOUS
  <1>3. PICK ctx \in Contexts : ctx = Bundle(0, 0, <<>>)
    BY <1>2 DEF Bundle, Contexts
  <1>4. Fixed(ctx) = 0 /\ ctx.handoff = 0
    BY <1>3 DEF Bundle, Fixed
  <1>5. ~ Refused(ctx, 0)
    BY <1>1, <1>4 DEF Refused, Bounds
  <1>6. sent = [who |-> "nobody", context |-> ctx, budget |-> 0]
    BY <1>3 DEF Init
  <1>7. /\ sent \in [who : Callers \cup {"nobody"}, context : Contexts, budget : Nat]
        /\ ~ Refused(sent.context, sent.budget)
    BY <1>5, <1>6
  <1>8. pc \in Places /\ excerpt \in Nat
    <2>1. \A n \in Excerpts : n \in Nat
      BY <1>1 DEF Bounds
    <2>2. (pc = "summarize" /\ excerpt \in Excerpts) \/ (pc = "build" /\ excerpt = 0)
      BY DEF Init
    <2> QED
      BY <2>1, <2>2 DEF Places
  <1>9. /\ answer \in Nat /\ prompt \in Nat /\ handoff \in Nat /\ handoff <= HandoffBudget
        /\ history \in Seq(Messages) /\ why # "asserted"
    <2>1. 0 <= HandoffBudget
      BY <1>1 DEF Bounds
    <2>2. answer = 0 /\ prompt = 0 /\ handoff = 0 /\ history = <<>> /\ why = ""
      BY DEF Init
    <2> QED
      BY <1>2, <2>1, <2>2
  <1> QED
    BY <1>7, <1>8, <1>9 DEF TypesOK

LEMMA SendTypes ==
  ASSUME TypesOK, NEW who \in Callers, Send(who)
  PROVE  /\ sent' \in [who : Callers \cup {"nobody"}, context : Contexts, budget : Nat]
         /\ ~ Refused(sent'.context, sent'.budget)
PROOF
  <1>1. PICK ctx \in Contexts, b \in Nat : ctx = Request(who) /\ b = BudgetOf(who)
    BY RequestTypes
  <1>2. sent' = [who |-> who, context |-> ctx, budget |-> b]
    BY <1>1 DEF Send
  <1>3. ~ Refused(ctx, b)
    BY <1>1 DEF Send, Accepted
  <1> QED
    BY <1>2, <1>3

(* Texts kept, pc and what is sent aside.                                  *)
TextsOK ==
  /\ excerpt \in Nat /\ answer \in Nat /\ prompt \in Nat
  /\ handoff \in Nat /\ handoff <= HandoffBudget
  /\ history \in Seq(Messages)

SentOK ==
  /\ sent \in [who : Callers \cup {"nobody"}, context : Contexts, budget : Nat]
  /\ ~ Refused(sent.context, sent.budget)

LEMMA TypesParts == TypesOK <=> (pc \in Places /\ TextsOK /\ SentOK /\ why # "asserted")
PROOF
  BY DEF TypesOK, TextsOK, SentOK

LEMMA TextsUnchanged ==
  (TextsOK /\ UNCHANGED <<excerpt, answer, prompt, handoff, history>>) => TextsOK'
PROOF
  BY DEF TextsOK

LEMMA SummarizerTypes ==
  ASSUME TypesOK, Summarize \/ Retry
  PROVE  TypesOK'
PROOF
  <1>1. Bounds
    BY BoundsHold
  <1>2. SentOK' /\ why' # "asserted"
    BY SendTypes DEF Summarize, Retry, SentOK, TypesOK, Callers
  <1>3. pc' \in Places
    BY DEF Summarize, Retry, ToTrim, Places
  <1>4. answer' \in Nat
    BY <1>1 DEF Summarize, Retry, TypesOK, Bounds
  <1>5. TextsOK'
    BY <1>4 DEF Summarize, Retry, TypesOK, TextsOK, talk
  <1> QED
    BY <1>2, <1>3, <1>5 DEF TypesOK, TextsOK, SentOK

LEMMA HeardTypes ==
  ASSUME TypesOK, NEW n \in BorrowerTurns, Heard(n)
  PROVE  pc' \in Places /\ TextsOK' /\ why' # "asserted"
PROOF
  <1>1. n \in Nat
    BY BoundsHold DEF Bounds
  <1>2. Message("user", n) \in Messages
    BY <1>1 DEF Message, Messages, Roles
  <1>3. history' \in Seq(Messages)
    BY <1>2, AppendProperties DEF Heard, TypesOK
  <1>4. pc' \in Places /\ why' # "asserted"
    BY DEF Heard, Places, TypesOK
  <1>5. TextsOK'
    BY <1>3 DEF Heard, TypesOK, TextsOK, summary
  <1> QED
    BY <1>4, <1>5

LEMMA TalkTypes ==
  ASSUME TypesOK, Build \/ AgentSpeaks \/ BorrowerSpeaks \/ PersonSpeaks
  PROVE  TypesOK'
PROOF
  <1>1. CASE Build
    <2>1. prompt' \in Nat
      BY <1>1, BoundsHold DEF Build, Bounds
    <2>2. TextsOK' /\ SentOK' /\ why' # "asserted" /\ pc' \in Places
      BY <1>1, <2>1 DEF Build, TypesOK, TextsOK, SentOK, Places, summary
    <2> QED
      BY <2>2 DEF TypesOK, TextsOK, SentOK
  <1>2. CASE AgentSpeaks
    <2>1. SentOK'
      BY <1>2, SendTypes DEF AgentSpeaks, SentOK, Callers
    <2>2. PICK n \in AgentTurns : history' = Append(history, Message("assistant", n))
      BY <1>2 DEF AgentSpeaks
    <2>3. n \in Nat
      BY BoundsHold DEF Bounds
    <2>4. Message("assistant", n) \in Messages
      BY <2>3 DEF Message, Messages, Roles
    <2>5. history' \in Seq(Messages)
      BY <2>2, <2>4, AppendProperties DEF TypesOK
    <2>6. TextsOK' /\ why' # "asserted" /\ pc' \in Places
      BY <1>2, <2>5 DEF AgentSpeaks, TypesOK, TextsOK, Places, summary
    <2> QED
      BY <2>1, <2>6 DEF TypesOK, TextsOK, SentOK
  <1>3. CASE BorrowerSpeaks
    <2>1. SentOK'
      BY <1>3, SendTypes DEF BorrowerSpeaks, SentOK, Callers
    <2>2. pc' \in Places /\ TextsOK' /\ why' # "asserted"
      BY <1>3, HeardTypes DEF BorrowerSpeaks
    <2> QED
      BY <2>1, <2>2 DEF TypesOK, TextsOK, SentOK
  <1>4. CASE PersonSpeaks
    <2>1. SentOK'
      BY <1>4 DEF PersonSpeaks, SentOK, TypesOK
    <2>2. pc' \in Places /\ TextsOK' /\ why' # "asserted"
      BY <1>4, HeardTypes DEF PersonSpeaks
    <2> QED
      BY <2>1, <2>2 DEF TypesOK, TextsOK, SentOK
  <1> QED
    BY <1>1, <1>2, <1>3, <1>4

LEMMA FailTypes ==
  ASSUME TypesOK, NEW reason, reason # "asserted", Fail(reason)
  PROVE  TypesOK'
PROOF
  <1>1. TextsOK' /\ SentOK' /\ why' # "asserted" /\ pc' \in Places
    BY DEF Fail, TypesOK, TextsOK, SentOK, Places, summary, talk
  <1> QED
    BY <1>1 DEF TypesOK, TextsOK, SentOK

LEMMA FailuresTypes ==
  ASSUME TypesOK, TrimRaises \/ Refuse \/ CallFails
  PROVE  TypesOK'
PROOF
  <1>1. CASE TrimRaises
    BY <1>1, FailTypes DEF TrimRaises
  <1>2. CASE Refuse
    <2>1. PICK who \in Callers :
            /\ ~ Accepted(who)
            /\ Fail(IF Refused(Request(who), BudgetOf(who)) THEN "refused" ELSE "asserted")
      BY <1>2 DEF Refuse
    <2>2. Refused(Request(who), BudgetOf(who))
      BY <2>1, NeverAsserted
    <2>3. Fail("refused")
      BY <2>1, <2>2
    <2> QED
      BY <2>3, FailTypes
  <1>3. CASE CallFails
    BY <1>3, FailTypes DEF CallFails
  <1> QED
    BY <1>1, <1>2, <1>3

-----------------------------------------------------------------------------
(* trim_to_budget: what is left follows from what was given and how much   *)
(* of each field is gone, and with one item less gone it was too much.     *)

TooMuch(p, q, o, t) == PayloadTokens(Left(p, q, o, t)) > HandoffBudget

(* p was given; q, o and t items of its fields are gone.                   *)
Trimmed(p, q, o, t) ==
  /\ p \in Payloads \cup {Fallback}
  /\ q \in 0..Len(p.quotes) /\ o \in 0..Len(p.objections) /\ t \in 0..Len(p.threads)
  /\ o > 0 => q = Len(p.quotes)
  /\ t > 0 => q = Len(p.quotes) /\ o = Len(p.objections)
  /\ t > 0 => TooMuch(p, q, o, t - 1)
  /\ t = 0 /\ o > 0 => TooMuch(p, q, o - 1, t)
  /\ t = 0 /\ o = 0 /\ q > 0 => TooMuch(p, q - 1, o, t)

Trims(q, o, t) ==
  [f \in Trimmable |-> IF f = "quotes" THEN q ELSE IF f = "objections" THEN o ELSE t]

TrimmingOK ==
  /\ pc \in {"summarize", "retry"} => trimmed = [f \in Trimmable |-> 0]
  /\ pc = "trim" =>
       \E q, o, t \in Nat : /\ Trimmed(original, q, o, t)
                            /\ payload = Left(original, q, o, t)
                            /\ trimmed = Trims(q, o, t)

LEMMA SeqEnds ==
  ASSUME NEW s \in Seq(Nat), NEW k \in 0..(Len(s) - 1)
  PROVE  /\ Front(SubSeq(s, 1, k + 1)) = SubSeq(s, 1, k)
         /\ Append(SubSeq(s, 1, k), s[k + 1]) = SubSeq(s, 1, k + 1)
         /\ Tail(SubSeq(s, k + 1, Len(s))) = SubSeq(s, k + 2, Len(s))
         /\ <<s[k + 1]>> \o SubSeq(s, k + 2, Len(s)) = SubSeq(s, k + 1, Len(s))
PROOF
  <1>1. PICK n \in Nat : n = Len(s)
    BY LenProperties
  <1>2. PICK m \in 1..n : m = k + 1
    BY <1>1
  <1>3. \A i \in 1..n : s[i] \in Nat
    BY <1>1, ElementOfSeq
  <1>4. SubSeq(s, 1, m) \in Seq(Nat) /\ Len(SubSeq(s, 1, m)) = m
    BY <1>2, <1>3, SubSeqProperties
  <1>5. SubSeq(s, 1, k) \in Seq(Nat) /\ Len(SubSeq(s, 1, k)) = k
    <2>1. k \in Int /\ 1 \in Int /\ (\A i \in 1..k : s[i] \in Nat) /\ k \in Nat
      BY <1>1, <1>3
    <2>2. SubSeq(s, 1, k) \in Seq(Nat) /\ Len(SubSeq(s, 1, k)) = IF 1 <= k THEN k - 1 + 1 ELSE 0
      BY <2>1, SubSeqProperties
    <2> QED
      BY <2>1, <2>2
  <1>6. SubSeq(s, 1, m) = SubSeq(s, 1, k) \o <<s[m]>>
    <2>1. 1 \in 1..Len(s) /\ m \in 1..Len(s)
      BY <1>1, <1>2
    <2>2. SubSeq(s, 1, m) = SubSeq(s, 1, m - 1) \o <<s[m]>>
      BY <2>1, SubSeqRecursiveSecond
    <2>3. m - 1 = k
      BY <1>2
    <2> QED
      BY <2>2, <2>3
  <1>7. Append(SubSeq(s, 1, k), s[m]) = SubSeq(s, 1, m)
    BY <1>3, <1>5, <1>6, AppendIsConcat
  <1>8. Front(SubSeq(s, 1, m)) = SubSeq(s, 1, k)
    <2>1. Front(SubSeq(s, 1, m)) = SubSeq(SubSeq(s, 1, m), 1, k)
      BY <1>2, <1>4 DEF Front
    <2>2. CASE k = 0
      <3>1. SubSeq(SubSeq(s, 1, m), 1, 0) = <<>> /\ SubSeq(s, 1, 0) = <<>>
        BY SubSeqEmpty
      <3> QED
        BY <2>1, <2>2, <3>1
    <2>3. CASE k # 0
      <3>1. k \in 1..m /\ k \in 1..n
        BY <1>1, <1>2, <2>3
      <3>2. PICK r \in Seq(Nat) : r = SubSeq(s, 1, m) /\ Len(r) = m
        BY <1>4
      <3>3. \A i \in 1..m : r[i] = s[i]
        BY <1>2, <1>3, <3>2, SubSeqProperties
      <3>4. /\ SubSeq(r, 1, k) \in Seq(Nat) /\ Len(SubSeq(r, 1, k)) = k
            /\ \A i \in 1..k : SubSeq(r, 1, k)[i] = r[i]
        <4>1. \A i \in 1..k : r[i] \in Nat
          BY <1>2, <1>3, <3>1, <3>3
        <4> QED
          BY <3>1, <4>1, SubSeqProperties
      <3>5. \A i \in 1..k : SubSeq(s, 1, k)[i] = s[i]
        <4>1. \A i \in 1..k : s[i] \in Nat
          BY <1>3, <3>1
        <4> QED
          BY <3>1, <4>1, SubSeqProperties
      <3>6. \A i \in 1..k : SubSeq(r, 1, k)[i] = SubSeq(s, 1, k)[i]
        BY <1>2, <3>1, <3>3, <3>4, <3>5
      <3>7. SubSeq(r, 1, k) = SubSeq(s, 1, k)
        BY <1>5, <3>4, <3>6, SeqEqual
      <3> QED
        BY <2>1, <3>2, <3>7
    <2> QED
      BY <2>2, <2>3
  <1>12. m \in 1..Len(s) /\ n \in m..Len(s)
    BY <1>1
  <1>9. Tail(SubSeq(s, m, n)) = SubSeq(s, m + 1, n)
    BY <1>12, HeadTailOfSubSeq
  <1>10. <<s[m]>> \o SubSeq(s, m + 1, n) = SubSeq(s, m, n)
    BY <1>12, SubSeqRecursiveFirst
  <1>11. m + 1 = k + 2
    BY <1>2
  <1> QED
    BY <1>1, <1>2, <1>7, <1>8, <1>9, <1>10, <1>11

LEMMA LeftFields ==
  ASSUME NEW p \in HandoffPayload,
         NEW q \in 0..Len(p.quotes), NEW o \in 0..Len(p.objections), NEW t \in 0..Len(p.threads)
  PROVE  /\ Left(p, q, o, t).quotes = SubSeq(p.quotes, 1, Len(p.quotes) - q)
         /\ Left(p, q, o, t).objections = SubSeq(p.objections, o + 1, Len(p.objections))
         /\ Left(p, q, o, t).threads = SubSeq(p.threads, t + 1, Len(p.threads))
         /\ Left(p, q, o, t).locked = p.locked
         /\ Left(p, q, o, t).quotes = <<>> <=> q = Len(p.quotes)
         /\ Left(p, q, o, t).objections = <<>> <=> o = Len(p.objections)
         /\ Left(p, q, o, t).threads = <<>> <=> t = Len(p.threads)
         /\ Len(Left(p, q, o, t).quotes) = Len(p.quotes) - q
PROOF
  <1>1. \A s \in Seq(Nat) : \A a \in 1..(Len(s) + 1), b \in 0..Len(s) :
          /\ Len(SubSeq(s, a, b)) = (IF a <= b THEN b - a + 1 ELSE 0)
          /\ SubSeq(s, a, b) \in Seq(Nat)
    <2>1. ASSUME NEW s \in Seq(Nat), NEW a \in 1..(Len(s) + 1), NEW b \in 0..Len(s)
          PROVE  /\ Len(SubSeq(s, a, b)) = (IF a <= b THEN b - a + 1 ELSE 0)
                 /\ SubSeq(s, a, b) \in Seq(Nat)
      <3>1. a \in Int /\ b \in Int /\ \A i \in a..b : s[i] \in Nat
        <4>1. Len(s) \in Nat
          BY LenProperties
        <4>2. \A i \in a..b : i \in 1..Len(s)
          BY <4>1
        <4>3. ASSUME NEW i \in a..b PROVE s[i] \in Nat
          <5>1. i \in 1..Len(s)
            BY <4>2
          <5> QED
            BY <5>1, ElementOfSeq
        <4> QED
          BY <4>1, <4>3
      <3> QED
        BY <3>1, SubSeqProperties
    <2> QED
      BY <2>1
  <1>2. p.quotes \in Seq(Nat) /\ p.objections \in Seq(Nat) /\ p.threads \in Seq(Nat)
    BY DEF HandoffPayload
  <1>3. \A s \in Seq(Nat) : Len(s) \in Nat /\ (s = <<>> <=> Len(s) = 0)
    BY LenProperties, EmptySeq
  <1>4. PICK a \in Seq(Nat), n \in Nat : a = p.quotes /\ n = Len(p.quotes)
    BY <1>2, <1>3
  <1>5. PICK b \in Seq(Nat), m \in Nat : b = p.objections /\ m = Len(p.objections)
    BY <1>2, <1>3
  <1>6. PICK c \in Seq(Nat), l \in Nat : c = p.threads /\ l = Len(p.threads)
    BY <1>2, <1>3
  <1>7. Len(SubSeq(a, 1, n - q)) = n - q /\ SubSeq(a, 1, n - q) \in Seq(Nat)
    <2>2. q \in 0..n
      BY <1>4
    <2>3. PICK r \in 0..n : r = n - q
      BY <2>2
    <2>4. 1 \in 1..(n + 1) /\ (IF 1 <= r THEN r - 1 + 1 ELSE 0) = r
      OBVIOUS
    <2>1. 1 \in 1..(n + 1) /\ n - q \in 0..n /\ (IF 1 <= n - q THEN (n - q) - 1 + 1 ELSE 0) = n - q
      BY <2>3, <2>4
    <2> QED
      BY <1>1, <1>4, <2>1
  <1>8. Len(SubSeq(b, o + 1, m)) = m - o /\ SubSeq(b, o + 1, m) \in Seq(Nat)
    <2>1. o + 1 \in 1..(m + 1) /\ m \in 0..m /\ (IF o + 1 <= m THEN m - (o + 1) + 1 ELSE 0) = m - o
      BY <1>5
    <2> QED
      BY <1>1, <1>5, <2>1
  <1>9. Len(SubSeq(c, t + 1, l)) = l - t /\ SubSeq(c, t + 1, l) \in Seq(Nat)
    <2>1. t + 1 \in 1..(l + 1) /\ l \in 0..l /\ (IF t + 1 <= l THEN l - (t + 1) + 1 ELSE 0) = l - t
      BY <1>6
    <2> QED
      BY <1>1, <1>6, <2>1
  <1>10. SubSeq(a, 1, n - q) = <<>> <=> q = n
    <2>1. SubSeq(a, 1, n - q) = <<>> <=> n - q = 0
      BY <1>3, <1>7
    <2> QED
      BY <1>4, <2>1
  <1>11. SubSeq(b, o + 1, m) = <<>> <=> o = m
    <2>1. SubSeq(b, o + 1, m) = <<>> <=> m - o = 0
      BY <1>3, <1>8
    <2> QED
      BY <1>5, <2>1
  <1>12. SubSeq(c, t + 1, l) = <<>> <=> t = l
    <2>1. SubSeq(c, t + 1, l) = <<>> <=> l - t = 0
      BY <1>3, <1>9
    <2> QED
      BY <1>6, <2>1
  <1> QED
    BY <1>4, <1>5, <1>6, <1>7, <1>10, <1>11, <1>12 DEF Left

Fields(a, b, c, d) == [locked |-> a, quotes |-> b, objections |-> c, threads |-> d]
LEMMA LeftIs ==
  ASSUME NEW p, NEW q, NEW o, NEW t
  PROVE  Left(p, q, o, t) = Fields(p.locked, SubSeq(p.quotes, 1, Len(p.quotes) - q),
                                   SubSeq(p.objections, o + 1, Len(p.objections)),
                                   SubSeq(p.threads, t + 1, Len(p.threads)))
PROOF
  BY DEF Left, Fields

LEMMA LeftOneField ==
  ASSUME NEW p, NEW q, NEW o, NEW t, NEW u
  PROVE  /\ [Left(p, q, o, t) EXCEPT !.quotes = Left(p, u, o, t).quotes] = Left(p, u, o, t)
         /\ [Left(p, q, o, t) EXCEPT !.objections = Left(p, q, u, t).objections] = Left(p, q, u, t)
         /\ [Left(p, q, o, t) EXCEPT !.threads = Left(p, q, o, u).threads] = Left(p, q, o, u)
PROOF
  <1>1. PICK lk, qs, os, ts :
          /\ lk = p.locked /\ qs = SubSeq(p.quotes, 1, Len(p.quotes) - q)
          /\ os = SubSeq(p.objections, o + 1, Len(p.objections))
          /\ ts = SubSeq(p.threads, t + 1, Len(p.threads))
          /\ Left(p, q, o, t) = Fields(lk, qs, os, ts)
    BY LeftIs
  <1>2. [Left(p, q, o, t) EXCEPT !.quotes = Left(p, u, o, t).quotes] = Left(p, u, o, t)
    <2>1. PICK x : x = Left(p, u, o, t).quotes
      OBVIOUS
    <2>2. Left(p, u, o, t) = Fields(lk, x, os, ts)
      BY <1>1, <2>1, LeftIs DEF Fields
    <2>3. [Fields(lk, qs, os, ts) EXCEPT !.quotes = x] = Fields(lk, x, os, ts)
      BY DEF Fields
    <2>4. [Fields(lk, qs, os, ts) EXCEPT !.quotes = x] = Left(p, u, o, t)
      BY <2>2, <2>3
    <2> QED
      BY <1>1, <2>1, <2>4
  <1>3. [Left(p, q, o, t) EXCEPT !.objections = Left(p, q, u, t).objections] = Left(p, q, u, t)
    <2>1. PICK x : x = Left(p, q, u, t).objections
      OBVIOUS
    <2>2. Left(p, q, u, t) = Fields(lk, qs, x, ts)
      BY <1>1, <2>1, LeftIs DEF Fields
    <2>3. [Fields(lk, qs, os, ts) EXCEPT !.objections = x] = Fields(lk, qs, x, ts)
      BY DEF Fields
    <2>4. [Fields(lk, qs, os, ts) EXCEPT !.objections = x] = Left(p, q, u, t)
      BY <2>2, <2>3
    <2> QED
      BY <1>1, <2>1, <2>4
  <1>4. [Left(p, q, o, t) EXCEPT !.threads = Left(p, q, o, u).threads] = Left(p, q, o, u)
    <2>1. PICK x : x = Left(p, q, o, u).threads
      OBVIOUS
    <2>2. Left(p, q, o, u) = Fields(lk, qs, os, x)
      BY <1>1, <2>1, LeftIs DEF Fields
    <2>3. [Fields(lk, qs, os, ts) EXCEPT !.threads = x] = Fields(lk, qs, os, x)
      BY DEF Fields
    <2>4. [Fields(lk, qs, os, ts) EXCEPT !.threads = x] = Left(p, q, o, u)
      BY <2>2, <2>3
    <2> QED
      BY <1>1, <2>1, <2>4
  <1> QED
    BY <1>2, <1>3, <1>4

OneDropped(left, p, q, o, t) ==
  /\ q < Len(p.quotes) => [left EXCEPT !.quotes = Front(@)] = Left(p, q + 1, o, t)
  /\ o < Len(p.objections) => [left EXCEPT !.objections = Tail(@)] = Left(p, q, o + 1, t)
  /\ t < Len(p.threads) => [left EXCEPT !.threads = Tail(@)] = Left(p, q, o, t + 1)

LEMMA LeftDropped ==
  ASSUME NEW p \in HandoffPayload,
         NEW q \in 0..Len(p.quotes), NEW o \in 0..Len(p.objections), NEW t \in 0..Len(p.threads),
         NEW left, left = Left(p, q, o, t)
  PROVE  OneDropped(left, p, q, o, t)
PROOF
  <1>1. p.quotes \in Seq(Nat) /\ p.objections \in Seq(Nat) /\ p.threads \in Seq(Nat)
    BY DEF HandoffPayload
  <1>2. Len(p.quotes) \in Nat /\ Len(p.objections) \in Nat /\ Len(p.threads) \in Nat
    BY <1>1, LenProperties
  <1>3. ASSUME q < Len(p.quotes)
        PROVE  Front(SubSeq(p.quotes, 1, Len(p.quotes) - q)) = SubSeq(p.quotes, 1, Len(p.quotes) - (q + 1))
    <2>0. PICK n \in Nat : n = Len(p.quotes)
      BY <1>2
    <2>3. q \in 0..n /\ q < n
      BY <1>3, <2>0
    <2>4. n - (q + 1) \in 0..(n - 1) /\ (n - (q + 1)) + 1 = n - q
      BY <2>3
    <2>1. PICK k \in 0..(Len(p.quotes) - 1) : k = Len(p.quotes) - (q + 1)
      BY <2>0, <2>4
    <2>2. k + 1 = Len(p.quotes) - q
      BY <2>0, <2>1, <2>4
    <2> QED
      BY <1>1, <2>1, <2>2, SeqEnds
  <1>4. ASSUME o < Len(p.objections)
        PROVE  Tail(SubSeq(p.objections, o + 1, Len(p.objections)))
                 = SubSeq(p.objections, (o + 1) + 1, Len(p.objections))
    <2>1. PICK k \in 0..(Len(p.objections) - 1) : k = o
      BY <1>2, <1>4
    <2>2. k + 2 = (o + 1) + 1 /\ k + 1 = o + 1
      BY <2>1
    <2> QED
      BY <1>1, <2>2, SeqEnds
  <1>5. ASSUME t < Len(p.threads)
        PROVE  Tail(SubSeq(p.threads, t + 1, Len(p.threads)))
                 = SubSeq(p.threads, (t + 1) + 1, Len(p.threads))
    <2>1. PICK k \in 0..(Len(p.threads) - 1) : k = t
      BY <1>2, <1>5
    <2>2. k + 2 = (t + 1) + 1 /\ k + 1 = t + 1
      BY <2>1
    <2> QED
      BY <1>1, <2>2, SeqEnds
  <1>6. ASSUME q < Len(p.quotes) PROVE [left EXCEPT !.quotes = Front(@)] = Left(p, q + 1, o, t)
    <2>1. [left EXCEPT !.quotes = Front(@)] = [left EXCEPT !.quotes = Left(p, q + 1, o, t).quotes]
      BY <1>3, <1>6 DEF Left
    <2> QED
      BY <2>1, LeftOneField
  <1>7. ASSUME o < Len(p.objections) PROVE [left EXCEPT !.objections = Tail(@)] = Left(p, q, o + 1, t)
    <2>1. [left EXCEPT !.objections = Tail(@)] = [left EXCEPT !.objections = Left(p, q, o + 1, t).objections]
      BY <1>4, <1>7 DEF Left
    <2> QED
      BY <2>1, LeftOneField
  <1>8. ASSUME t < Len(p.threads) PROVE [left EXCEPT !.threads = Tail(@)] = Left(p, q, o, t + 1)
    <2>1. [left EXCEPT !.threads = Tail(@)] = [left EXCEPT !.threads = Left(p, q, o, t + 1).threads]
      BY <1>5, <1>8 DEF Left
    <2> QED
      BY <2>1, LeftOneField
  <1> QED
    BY <1>6, <1>7, <1>8 DEF OneDropped

OneRestored(left, p, q, o, t) ==
  /\ q > 0 => [left EXCEPT !.quotes = Append(@, p.quotes[Len(@) + 1])] = Left(p, q - 1, o, t)
  /\ o > 0 => [left EXCEPT !.objections = <<p.objections[o]>> \o @] = Left(p, q, o - 1, t)
  /\ t > 0 => [left EXCEPT !.threads = <<p.threads[t]>> \o @] = Left(p, q, o, t - 1)

LEMMA LeftRestored ==
  ASSUME NEW p \in HandoffPayload,
         NEW q \in 0..Len(p.quotes), NEW o \in 0..Len(p.objections), NEW t \in 0..Len(p.threads),
         NEW left, left = Left(p, q, o, t)
  PROVE  OneRestored(left, p, q, o, t)
PROOF
  <1>1. p.quotes \in Seq(Nat) /\ p.objections \in Seq(Nat) /\ p.threads \in Seq(Nat)
    BY DEF HandoffPayload
  <1>2. Len(p.quotes) \in Nat /\ Len(p.objections) \in Nat /\ Len(p.threads) \in Nat
    BY <1>1, LenProperties
  <1>3. ASSUME q > 0
        PROVE  Append(left.quotes, p.quotes[Len(left.quotes) + 1]) = SubSeq(p.quotes, 1, Len(p.quotes) - (q - 1))
    <2>0. PICK n \in Nat : n = Len(p.quotes)
      BY <1>2
    <2>4. q \in 0..n /\ q > 0
      BY <1>3, <2>0
    <2>5. n - q \in 0..(n - 1) /\ (n - q) + 1 = n - (q - 1)
      BY <2>4
    <2>1. PICK k \in 0..(Len(p.quotes) - 1) : k = Len(p.quotes) - q
      BY <2>0, <2>5
    <2>2. k + 1 = Len(p.quotes) - (q - 1)
      BY <2>0, <2>1, <2>5
    <2>3. left.quotes = SubSeq(p.quotes, 1, k) /\ Len(left.quotes) = k
      BY <2>1, LeftFields
    <2>6. Append(SubSeq(p.quotes, 1, k), p.quotes[k + 1]) = SubSeq(p.quotes, 1, k + 1)
      BY <1>1, SeqEnds
    <2> QED
      BY <2>2, <2>3, <2>6
  <1>4. ASSUME o > 0
        PROVE  <<p.objections[o]>> \o left.objections
                 = SubSeq(p.objections, (o - 1) + 1, Len(p.objections))
    <2>1. PICK k \in 0..(Len(p.objections) - 1) : k = o - 1
      BY <1>2, <1>4
    <2>2. k + 2 = o + 1 /\ k + 1 = o /\ k + 1 = (o - 1) + 1
      BY <2>1
    <2>3. left.objections = SubSeq(p.objections, o + 1, Len(p.objections))
      BY LeftFields
    <2>4. <<p.objections[k + 1]>> \o SubSeq(p.objections, k + 2, Len(p.objections)) = SubSeq(p.objections, k + 1, Len(p.objections))
      BY <1>1, SeqEnds
    <2> QED
      BY <2>2, <2>3, <2>4
  <1>5. ASSUME t > 0
        PROVE  <<p.threads[t]>> \o left.threads
                 = SubSeq(p.threads, (t - 1) + 1, Len(p.threads))
    <2>1. PICK k \in 0..(Len(p.threads) - 1) : k = t - 1
      BY <1>2, <1>5
    <2>2. k + 2 = t + 1 /\ k + 1 = t /\ k + 1 = (t - 1) + 1
      BY <2>1
    <2>3. left.threads = SubSeq(p.threads, t + 1, Len(p.threads))
      BY LeftFields
    <2>4. <<p.threads[k + 1]>> \o SubSeq(p.threads, k + 2, Len(p.threads)) = SubSeq(p.threads, k + 1, Len(p.threads))
      BY <1>1, SeqEnds
    <2> QED
      BY <2>2, <2>3, <2>4
  <1>6. ASSUME q > 0 PROVE [left EXCEPT !.quotes = Append(@, p.quotes[Len(@) + 1])] = Left(p, q - 1, o, t)
    <2>1. [left EXCEPT !.quotes = Append(@, p.quotes[Len(@) + 1])] = [left EXCEPT !.quotes = Left(p, q - 1, o, t).quotes]
      BY <1>3, <1>6 DEF Left
    <2> QED
      BY <2>1, LeftOneField
  <1>7. ASSUME o > 0 PROVE [left EXCEPT !.objections = <<p.objections[o]>> \o @] = Left(p, q, o - 1, t)
    <2>1. [left EXCEPT !.objections = <<p.objections[o]>> \o @] = [left EXCEPT !.objections = Left(p, q, o - 1, t).objections]
      BY <1>4, <1>7 DEF Left
    <2> QED
      BY <2>1, LeftOneField
  <1>8. ASSUME t > 0 PROVE [left EXCEPT !.threads = <<p.threads[t]>> \o @] = Left(p, q, o, t - 1)
    <2>1. [left EXCEPT !.threads = <<p.threads[t]>> \o @] = [left EXCEPT !.threads = Left(p, q, o, t - 1).threads]
      BY <1>5, <1>8 DEF Left
    <2> QED
      BY <2>1, LeftOneField
  <1> QED
    BY <1>6, <1>7, <1>8 DEF OneRestored

LEMMA GivenTypes ==
  ASSUME NEW p \in Payloads \cup {Fallback}
  PROVE  /\ p \in HandoffPayload
         /\ Len(p.quotes) \in Nat /\ Len(p.objections) \in Nat /\ Len(p.threads) \in Nat
PROOF
  <1>1. p \in HandoffPayload
    BY ContextAssumption
  <1> QED
    BY <1>1, LenProperties DEF HandoffPayload

LEMMA TrimsFields ==
  ASSUME NEW q, NEW o, NEW t
  PROVE  /\ Trims(q, o, t)["quotes"] = q
         /\ Trims(q, o, t)["objections"] = o
         /\ Trims(q, o, t)["threads"] = t
         /\ \A n : /\ [Trims(q, o, t) EXCEPT !["quotes"] = n] = Trims(n, o, t)
                   /\ [Trims(q, o, t) EXCEPT !["objections"] = n] = Trims(q, n, t)
                   /\ [Trims(q, o, t) EXCEPT !["threads"] = n] = Trims(q, o, n)
PROOF
  <1>1. /\ Trims(q, o, t)["quotes"] = q
        /\ Trims(q, o, t)["objections"] = o
        /\ Trims(q, o, t)["threads"] = t
    BY DEF Trims, Trimmable
  <1>2. ASSUME NEW n PROVE [Trims(q, o, t) EXCEPT !["quotes"] = n] = Trims(n, o, t)
    BY DEF Trims, Trimmable
  <1>3. ASSUME NEW n PROVE [Trims(q, o, t) EXCEPT !["objections"] = n] = Trims(q, n, t)
    BY DEF Trims, Trimmable
  <1>4. ASSUME NEW n PROVE [Trims(q, o, t) EXCEPT !["threads"] = n] = Trims(q, o, n)
    BY DEF Trims, Trimmable
  <1> QED
    BY <1>1, <1>2, <1>3, <1>4

LEMMA InitTrimming == Init => TrimmingOK
PROOF
  BY DEF Init, TrimmingOK

LEMMA GivenTrimming ==
  ASSUME TrimmingOK, Summarize \/ Retry
  PROVE  TrimmingOK'
PROOF
  <1>1. trimmed = [f \in Trimmable |-> 0] /\ trimmed' = trimmed
    BY DEF TrimmingOK, Summarize, Retry, Send
  <1>2. trimmed = Trims(0, 0, 0)
    BY <1>1 DEF Trims
  <1>3. CASE pc' = "retry"
    BY <1>1, <1>3 DEF TrimmingOK
  <1>4. CASE \E p \in Payloads \cup {Fallback} : ToTrim(p)
    <2>1. PICK p \in Payloads \cup {Fallback} : ToTrim(p)
      BY <1>4
    <2>2. original' = p /\ payload' = p /\ pc' = "trim"
      BY <2>1 DEF ToTrim
    <2>3. Left(p, 0, 0, 0) = p
      <3>1. p \in HandoffPayload
        BY GivenTypes
      <3>2. p.quotes \in Seq(Nat) /\ p.objections \in Seq(Nat) /\ p.threads \in Seq(Nat)
        BY <3>1 DEF HandoffPayload
      <3>3. SubSeq(p.quotes, 1, Len(p.quotes) - 0) = p.quotes
        <4>1. Len(p.quotes) - 0 = Len(p.quotes)
          BY GivenTypes
        <4> QED
          BY <3>2, <4>1, SubSeqFull
      <3>4. SubSeq(p.objections, 0 + 1, Len(p.objections)) = p.objections
        BY <3>2, SubSeqFull
      <3>5. SubSeq(p.threads, 0 + 1, Len(p.threads)) = p.threads
        BY <3>2, SubSeqFull
      <3> QED
        BY <3>1, <3>3, <3>4, <3>5 DEF Left, HandoffPayload
    <2>4. Trimmed(p, 0, 0, 0)
      BY GivenTypes DEF Trimmed
    <2> QED
      BY <1>1, <1>2, <2>2, <2>3, <2>4 DEF TrimmingOK
  <1> QED
    BY <1>3, <1>4 DEF Summarize, Retry

LEMMA DropTrimming ==
  ASSUME TrimmingOK, DropQuote \/ DropObjection \/ DropThread
  PROVE  TrimmingOK'
PROOF
  <1>1. pc = "trim" /\ pc' = "trim" /\ original' = original
    BY DEF DropQuote, DropObjection, DropThread, Dropped
  <1>11. PICK p : p = original
    OBVIOUS
  <1>2. PICK q \in Nat, o \in Nat, t \in Nat :
          /\ p = original /\ Trimmed(p, q, o, t)
          /\ payload = Left(p, q, o, t) /\ trimmed = Trims(q, o, t)
    BY <1>1, <1>11 DEF TrimmingOK
  <1>3. /\ p \in Payloads \cup {Fallback} /\ p \in HandoffPayload
        /\ q \in 0..Len(p.quotes) /\ o \in 0..Len(p.objections) /\ t \in 0..Len(p.threads)
    BY <1>2, GivenTypes DEF Trimmed
  <1>4. Len(p.quotes) \in Nat /\ Len(p.objections) \in Nat /\ Len(p.threads) \in Nat
    BY <1>3, GivenTypes
  <1>5. TooMuch(p, q, o, t)
    BY <1>2 DEF DropQuote, DropObjection, DropThread, OverBudget, TooMuch
  <1>6. PICK left : left = payload /\ left = Left(p, q, o, t)
    BY <1>2
  <1>7. /\ left.quotes = <<>> <=> q = Len(p.quotes)
        /\ left.objections = <<>> <=> o = Len(p.objections)
        /\ left.threads = <<>> <=> t = Len(p.threads)
    <2>1. /\ Left(p, q, o, t).quotes = <<>> <=> q = Len(p.quotes)
          /\ Left(p, q, o, t).objections = <<>> <=> o = Len(p.objections)
          /\ Left(p, q, o, t).threads = <<>> <=> t = Len(p.threads)
      BY <1>3, LeftFields
    <2> QED
      BY <1>6, <2>1
  <1>12. /\ q < Len(p.quotes) => [left EXCEPT !.quotes = Front(@)] = Left(p, q + 1, o, t)
         /\ o < Len(p.objections) => [left EXCEPT !.objections = Tail(@)] = Left(p, q, o + 1, t)
         /\ t < Len(p.threads) => [left EXCEPT !.threads = Tail(@)] = Left(p, q, o, t + 1)
    <2>1. OneDropped(left, p, q, o, t)
      BY <1>3, <1>6, LeftDropped
    <2> QED
      BY <2>1 DEF OneDropped
  <1>13. PICK counts : counts = trimmed /\ counts = Trims(q, o, t)
    BY <1>2
  <1>14. /\ [counts EXCEPT !["quotes"] = @ + 1] = Trims(q + 1, o, t)
         /\ [counts EXCEPT !["objections"] = @ + 1] = Trims(q, o + 1, t)
         /\ [counts EXCEPT !["threads"] = @ + 1] = Trims(q, o, t + 1)
    <2>1. counts["quotes"] = q /\ counts["objections"] = o /\ counts["threads"] = t
      BY <1>13, TrimsFields
    <2>2. \A n : /\ [counts EXCEPT !["quotes"] = n] = Trims(n, o, t)
                 /\ [counts EXCEPT !["objections"] = n] = Trims(q, n, t)
                 /\ [counts EXCEPT !["threads"] = n] = Trims(q, o, n)
      BY <1>13, TrimsFields
    <2> QED
      BY <2>1, <2>2
  <1>8. CASE DropQuote
    <2>1. q < Len(p.quotes)
      BY <1>3, <1>4, <1>6, <1>7, <1>8 DEF DropQuote
    <2>2. o = 0 /\ t = 0
      BY <1>2, <1>3, <1>4, <2>1 DEF Trimmed
    <2>3. payload' = Left(p, q + 1, o, t)
      BY <1>6, <1>12, <1>8, <2>1 DEF DropQuote, Dropped
    <2>4. trimmed' = Trims(q + 1, o, t)
      BY <1>13, <1>14, <1>8 DEF DropQuote, Dropped
    <2>5. PICK n \in Nat : n = q + 1 /\ n - 1 = q /\ n \in 0..Len(p.quotes)
      BY <1>3, <1>4, <2>1
    <2>6. Trimmed(p, n, o, t)
      BY <1>3, <1>5, <2>2, <2>5 DEF Trimmed
    <2> QED
      BY <1>1, <1>2, <2>3, <2>4, <2>5, <2>6 DEF TrimmingOK
  <1>9. CASE DropObjection
    <2>1. q = Len(p.quotes) /\ o < Len(p.objections)
      BY <1>3, <1>4, <1>6, <1>7, <1>9 DEF DropObjection
    <2>2. t = 0
      BY <1>2, <1>3, <1>4, <2>1 DEF Trimmed
    <2>3. payload' = Left(p, q, o + 1, t)
      BY <1>6, <1>12, <1>9, <2>1 DEF DropObjection, Dropped
    <2>4. trimmed' = Trims(q, o + 1, t)
      BY <1>13, <1>14, <1>9 DEF DropObjection, Dropped
    <2>5. PICK n \in Nat : n = o + 1 /\ n - 1 = o /\ n > 0 /\ n \in 0..Len(p.objections)
      BY <1>3, <1>4, <2>1
    <2>6. Trimmed(p, q, n, t)
      BY <1>3, <1>5, <2>1, <2>2, <2>5 DEF Trimmed
    <2> QED
      BY <1>1, <1>2, <2>3, <2>4, <2>5, <2>6 DEF TrimmingOK
  <1>10. CASE DropThread
    <2>1. q = Len(p.quotes) /\ o = Len(p.objections) /\ t < Len(p.threads)
      BY <1>3, <1>4, <1>6, <1>7, <1>10 DEF DropThread
    <2>3. payload' = Left(p, q, o, t + 1)
      BY <1>6, <1>12, <1>10, <2>1 DEF DropThread, Dropped
    <2>4. trimmed' = Trims(q, o, t + 1)
      BY <1>13, <1>14, <1>10 DEF DropThread, Dropped
    <2>5. PICK n \in Nat : n = t + 1 /\ n - 1 = t /\ n > 0 /\ n \in 0..Len(p.threads)
      BY <1>3, <1>4, <2>1
    <2>6. Trimmed(p, q, o, n)
      BY <1>3, <1>5, <2>1, <2>5 DEF Trimmed
    <2> QED
      BY <1>1, <1>2, <2>3, <2>4, <2>5, <2>6 DEF TrimmingOK
  <1> QED
    BY <1>8, <1>9, <1>10

LEMMA OtherTrimming ==
  ASSUME TrimmingOK,
         \/ TrimRaises \/ HandOver \/ Build \/ AgentSpeaks \/ BorrowerSpeaks \/ PersonSpeaks
         \/ Refuse \/ CallFails
  PROVE  TrimmingOK'
PROOF
  <1>1. pc' \notin {"summarize", "retry", "trim"}
    BY DEF TrimRaises, HandOver, Build, AgentSpeaks, BorrowerSpeaks, PersonSpeaks,
           Refuse, CallFails, Fail, Heard
  <1> QED
    BY <1>1 DEF TrimmingOK

(* What is handed over is counted, and within its budget.                  *)
LEMMA HandOverTypes ==
  ASSUME TypesOK, TrimmingOK, HandOver
  PROVE  TypesOK'
PROOF
  <1>1. PICK q \in Nat, o \in Nat, t \in Nat :
          Trimmed(original, q, o, t) /\ payload = Left(original, q, o, t)
    BY DEF TrimmingOK, HandOver
  <1>2. PICK p \in Payloads \cup {Fallback} : p = original /\ Trimmed(p, q, o, t)
    BY <1>1 DEF Trimmed
  <1>3. PayloadTokens(payload) \in Nat
    <2>1. PayloadTokens(Left(p, q, o, t)) \in Nat
      BY <1>2, ContextAssumption DEF Trimmed
    <2> QED
      BY <1>1, <1>2, <2>1
  <1>4. handoff' \in Nat /\ handoff' <= HandoffBudget
    <2>1. PICK n \in Nat : n = PayloadTokens(payload)
      BY <1>3
    <2>2. ~ (n > HandoffBudget) /\ handoff' = n
      BY <2>1 DEF HandOver, OverBudget
    <2>3. n <= HandoffBudget
      BY <2>2, BoundsHold DEF Bounds
    <2> QED
      BY <2>2, <2>3
  <1>5. excerpt' = 0 /\ answer' = 0 /\ pc' = "build" /\ UNCHANGED <<prompt, history, why, sent>>
    BY DEF HandOver
  <1> QED
    BY <1>4, <1>5 DEF TypesOK, Places

LEMMA DropTypes ==
  ASSUME TypesOK, DropQuote \/ DropObjection \/ DropThread
  PROVE  TypesOK'
PROOF
  <1>1. UNCHANGED <<pc, excerpt, answer, talk, why, sent>>
    BY DEF DropQuote, DropObjection, DropThread, Dropped
  <1> QED
    BY <1>1 DEF TypesOK, talk

ContextInv == TypesOK /\ TrimmingOK

LEMMA StutterContext == (ContextInv /\ UNCHANGED vars) => ContextInv'
PROOF
  BY DEF ContextInv, TypesOK, TrimmingOK, vars, summary, talk

LEMMA NextContext == (ContextInv /\ [Next]_vars) => ContextInv'
PROOF
  <1> SUFFICES ASSUME ContextInv, [Next]_vars PROVE ContextInv'
    OBVIOUS
  <1>1. TypesOK /\ TrimmingOK
    BY DEF ContextInv
  <1>2. CASE Summarize \/ Retry
    BY <1>1, <1>2, SummarizerTypes, GivenTrimming DEF ContextInv
  <1>3. CASE DropQuote \/ DropObjection \/ DropThread
    BY <1>1, <1>3, DropTypes, DropTrimming DEF ContextInv
  <1>4. CASE TrimRaises \/ Refuse \/ CallFails
    BY <1>1, <1>4, FailuresTypes, OtherTrimming DEF ContextInv
  <1>5. CASE HandOver
    BY <1>1, <1>5, HandOverTypes, OtherTrimming DEF ContextInv
  <1>6. CASE Build \/ AgentSpeaks \/ BorrowerSpeaks \/ PersonSpeaks
    BY <1>1, <1>6, TalkTypes, OtherTrimming DEF ContextInv
  <1>7. CASE UNCHANGED vars
    BY <1>7, StutterContext
  <1> QED
    BY <1>2, <1>3, <1>4, <1>5, <1>6, <1>7 DEF Next, Over

(* What the stage keeps is of its type throughout: texts have lengths, a   *)
(* handoff given to an agent is within its budget, what was sent was not   *)
(* refused, and what trimming has left follows from what it was given.     *)
THEOREM ContextTypes == Spec => []ContextInv
PROOF
  <1>1. Init => ContextInv
    BY InitTypes, InitTrimming DEF ContextInv
  <1> QED
    BY <1>1, NextContext, PTL DEF Spec

-----------------------------------------------------------------------------
(* What was sent last.                                                     *)
LEMMA SentFit ==
  ASSUME TypesOK
  PROVE  /\ sent.context \in Contexts /\ sent.budget \in Nat
         /\ sent.context.handoff <= HandoffBudget
         /\ \E j : FitTo(sent.context, sent.budget, j)
PROOF
  <1>1. sent.context \in Contexts /\ sent.budget \in Nat /\ ~ Refused(sent.context, sent.budget)
    BY DEF TypesOK
  <1>2. HandoffBudget \in Nat
    BY BoundsHold DEF Bounds
  <1>3. \E j : FitTo(sent.context, sent.budget, j)
    BY <1>1, <1>2, FitCuts
  <1>4. sent.context.handoff <= HandoffBudget
    BY <1>1, <1>2 DEF Refused, Contexts
  <1> QED
    BY <1>1, <1>3, <1>4

LEMMA TypesWithinBudget == TypesOK => WithinBudget
PROOF
  <1> SUFFICES ASSUME TypesOK PROVE WithinBudget
    OBVIOUS
  <1>1. PICK j : FitTo(sent.context, sent.budget, j)
    BY SentFit
  <1>2. Total(Got) <= sent.budget /\ Got.handoff <= HandoffBudget
    BY <1>1, SentFit DEF FitTo, Got
  <1> QED
    BY <1>2 DEF WithinBudget, Within, TypesOK

(* Whatever is sent is within its budget, the handoff in it within its     *)
(* own, and the assertion that follows fit_to_budget never fires, even on  *)
(* the retry, which asserts another budget than it was cut to.             *)
THEOREM SentWithinBudget == Spec => []WithinBudget
PROOF
  <1>1. ContextInv => WithinBudget
    BY TypesWithinBudget DEF ContextInv
  <1> QED
    BY <1>1, ContextTypes, PTL

LEMMA EndOfHistory ==
  ASSUME NEW hist \in Seq(Messages), NEW j \in 1..(Len(hist) + 1)
  PROVE  /\ SubSeq(hist, j, Len(hist)) \in Seq(Messages)
         /\ Len(SubSeq(hist, j, Len(hist))) = Len(hist) - j + 1
         /\ DOMAIN SubSeq(hist, j, Len(hist)) = 1..(Len(hist) - j + 1)
PROOF
  <1>1. PICK n \in Nat : n = Len(hist)
    BY HistoryFields
  <1>2. j \in Int /\ n \in Int /\ \A i \in j..n : hist[i] \in Messages
    BY <1>1, HistoryFields
  <1>3. /\ SubSeq(hist, j, n) \in Seq(Messages)
        /\ Len(SubSeq(hist, j, n)) = IF j <= n THEN n - j + 1 ELSE 0
    BY <1>2, SubSeqProperties
  <1>4. (IF j <= n THEN n - j + 1 ELSE 0) = n - j + 1
    BY <1>1
  <1> QED
    BY <1>1, <1>3, <1>4, LenProperties

LEMMA TypesLongestEnd == TypesOK => LongestEndSent
PROOF
  <1> SUFFICES ASSUME TypesOK PROVE LongestEndSent
    OBVIOUS
  <1>1. PICK j : FitTo(sent.context, sent.budget, j)
    BY SentFit
  <1>2. PICK whole \in Seq(Messages) : whole = sent.context.history
    BY SentFit DEF Contexts
  <1>3. PICK m \in Nat : m = Len(whole)
    BY HistoryFields
  <1>4. j \in 1..(m + 1) /\ Got.history = SubSeq(whole, j, m)
    BY <1>1, <1>2, <1>3 DEF FitTo, Got
  <1>5. Len(Got.history) = m - j + 1
    BY <1>3, <1>4, EndOfHistory
  <1>6. PICK n \in Nat : n = Len(Got.history) /\ n = m - j + 1
    BY <1>4, <1>5
  <1>7. n <= m /\ m - n + 1 = j /\ m - n = j - 1 /\ (n < m => j > 1)
    BY <1>4, <1>6
  <1>8. n < m => Total(Got) + whole[m - n].tokens > sent.budget
    BY <1>1, <1>2, <1>3, <1>7 DEF FitTo, Got
  <1>9. Got.history = SubSeq(whole, m - n + 1, m)
    BY <1>4, <1>7
  <1> QED
    BY <1>2, <1>3, <1>6, <1>7, <1>8, <1>9 DEF LongestEndSent

(* What is sent of a history is its longest end that fits, for histories   *)
(* of any length and messages of any size.                                 *)
THEOREM SentLongestEnd == Spec => []LongestEndSent
PROOF
  <1>1. ContextInv => LongestEndSent
    BY TypesLongestEnd DEF ContextInv
  <1> QED
    BY <1>1, ContextTypes, PTL

LEMMA TypesStartWithUser == TypesOK => StartsWithUser
PROOF
  <1> SUFFICES ASSUME TypesOK PROVE RolesSent(Got) # <<>> /\ RolesSent(Got)[1] = "user"
    BY DEF StartsWithUser
  <1>1. PICK j : FitTo(sent.context, sent.budget, j)
    BY SentFit
  <1>2. PICK whole \in Seq(Messages) : whole = sent.context.history
    BY SentFit DEF Contexts
  <1>3. PICK h \in Seq(Messages) : h = Got.history
    BY <1>1, <1>2, EndOfHistory DEF FitTo, Got
  <1>4. Got.handoff \in Nat
    BY <1>1, SentFit DEF FitTo, Got, Contexts
  <1>5. PICK roles : roles = [i \in DOMAIN h |-> h[i].role]
    OBVIOUS
  <1>6. PICK n \in Nat : n = Len(h) /\ DOMAIN h = 1..n
    BY HistoryFields
  <1>7. roles \in Seq(Roles) /\ Len(roles) = n
    <2>1. \A i \in 1..n : h[i].role \in Roles
      BY <1>6, HistoryFields
    <2>2. roles \in [1..n -> Roles]
      BY <1>5, <1>6, <2>1
    <2> QED
      BY <1>6, <2>2
  <1>8. CASE Got.handoff > 0 \/ NeedsKickoff(Got)
    <2>1. RolesSent(Got) = <<"user">> \o roles
      BY <1>3, <1>5, <1>8 DEF RolesSent
    <2>2. <<"user">> \in Seq(Roles) /\ Len(<<"user">>) = 1 /\ <<"user">>[1] = "user"
      BY DEF Roles
    <2>3. /\ RolesSent(Got) \in Seq(Roles) /\ Len(RolesSent(Got)) = 1 + n
          /\ RolesSent(Got)[1] = "user"
      <3>1. PICK one \in Seq(Roles) : one = <<"user">> /\ Len(one) = 1 /\ one[1] = "user"
        BY <2>2
      <3>2. /\ one \o roles \in Seq(Roles) /\ Len(one \o roles) = 1 + n
            /\ \A i \in 1..(1 + n) : (one \o roles)[i] = IF i <= 1 THEN one[i] ELSE roles[i - 1]
        BY <1>7, <3>1, ConcatProperties
      <3>3. 1 \in 1..(1 + n)
        OBVIOUS
      <3> QED
        BY <2>1, <3>1, <3>2, <3>3
    <2>4. Len(RolesSent(Got)) # 0
      BY <2>3
    <2> QED
      BY <2>3, <2>4, EmptySeq
  <1>9. CASE ~ (Got.handoff > 0 \/ NeedsKickoff(Got))
    <2>1. RolesSent(Got) = <<>> \o roles
      BY <1>3, <1>5, <1>9 DEF RolesSent
    <2>2. RolesSent(Got) = roles
      BY <1>7, <2>1, ConcatEmptySeq
    <2>3. Got.handoff = 0
      BY <1>4, <1>9
    <2>4. h # <<>> /\ h[1].role = "user"
      BY <1>3, <1>9, <2>3 DEF NeedsKickoff
    <2>5. n > 0
      BY <1>6, <2>4, EmptySeq
    <2>6. roles[1] = "user"
      BY <1>5, <1>6, <2>4, <2>5
    <2>7. roles # <<>>
      BY <1>7, <2>5, EmptySeq
    <2> QED
      BY <2>2, <2>6, <2>7
  <1> QED
    BY <1>8, <1>9

(* The first message the provider gets is from the user, whatever was cut  *)
(* from the start of the history.                                          *)
THEOREM SentStartsWithUser == Spec => []StartsWithUser
PROOF
  <1>1. ContextInv => StartsWithUser
    BY TypesStartWithUser DEF ContextInv
  <1> QED
    BY <1>1, ContextTypes, PTL

-----------------------------------------------------------------------------
(* What trimming has left.                                                 *)
LEMMA SplitAnywhere ==
  ASSUME NEW s \in Seq(Nat), NEW k \in 0..Len(s)
  PROVE  s = SubSeq(s, 1, k) \o SubSeq(s, k + 1, Len(s))
PROOF
  <1>1. PICK n \in Nat : n = Len(s)
    BY LenProperties
  <1>2. 1 \in 1..(n + 1) /\ k \in (1 - 1)..n /\ n \in k..n
    BY <1>1
  <1>3. SubSeq(s, 1, k) \o SubSeq(s, k + 1, n) = SubSeq(s, 1, n)
    BY <1>1, <1>2, ConcatAdjacentSubSeq
  <1> QED
    BY <1>1, <1>3, SubSeqFull

LEMMA TrimmingInOrder == TrimmingOK => TrimmedInOrder
PROOF
  <1> SUFFICES ASSUME TrimmingOK, pc = "trim" PROVE TrimmedInOrder
    BY DEF TrimmedInOrder
  <1>1. PICK q \in Nat, o \in Nat, t \in Nat :
          /\ Trimmed(original, q, o, t) /\ payload = Left(original, q, o, t)
          /\ trimmed = Trims(q, o, t)
    BY DEF TrimmingOK
  <1>2. PICK p \in HandoffPayload :
          /\ p = original /\ Trimmed(p, q, o, t) /\ payload = Left(p, q, o, t)
    BY <1>1, GivenTypes DEF Trimmed
  <1>3. q \in 0..Len(p.quotes) /\ o \in 0..Len(p.objections) /\ t \in 0..Len(p.threads)
    BY <1>2 DEF Trimmed
  <1>4. PICK qs \in Seq(Nat), os \in Seq(Nat), ts \in Seq(Nat) :
          qs = p.quotes /\ os = p.objections /\ ts = p.threads
    BY DEF HandoffPayload
  <1>5. PICK n \in Nat : n = Len(qs)
    BY LenProperties
  <1>6. /\ payload.quotes = SubSeq(qs, 1, n - q) /\ Len(payload.quotes) = n - q
        /\ payload.objections = SubSeq(os, o + 1, Len(os))
        /\ payload.threads = SubSeq(ts, t + 1, Len(ts))
        /\ payload.locked = p.locked
        /\ (payload.quotes = <<>> <=> q = n) /\ (payload.objections = <<>> <=> o = Len(os))
    <2>1. PICK left : left = payload /\ left = Left(p, q, o, t)
      BY <1>2
    <2>2. /\ Left(p, q, o, t).quotes = SubSeq(p.quotes, 1, Len(p.quotes) - q)
          /\ Left(p, q, o, t).objections = SubSeq(p.objections, o + 1, Len(p.objections))
          /\ Left(p, q, o, t).threads = SubSeq(p.threads, t + 1, Len(p.threads))
          /\ Left(p, q, o, t).locked = p.locked
      BY <1>3, LeftFields
    <2>3. /\ Left(p, q, o, t).quotes = <<>> <=> q = Len(p.quotes)
          /\ Left(p, q, o, t).objections = <<>> <=> o = Len(p.objections)
          /\ Len(Left(p, q, o, t).quotes) = Len(p.quotes) - q
      BY <1>3, LeftFields
    <2> QED
      BY <1>4, <1>5, <2>1, <2>2, <2>3
  <1>7. trimmed["quotes"] = q /\ trimmed["objections"] = o /\ trimmed["threads"] = t
    BY <1>1, TrimsFields
  <1>8. qs = SubSeq(qs, 1, n - q) \o SubSeq(qs, (n - q) + 1, (n - q) + q)
    <2>1. n - q \in 0..n /\ (n - q) + q = n
      BY <1>3, <1>4, <1>5
    <2> QED
      BY <1>5, <2>1, SplitAnywhere
  <1>9. os = SubSeq(os, 1, o) \o SubSeq(os, o + 1, Len(os))
    BY <1>3, <1>4, SplitAnywhere
  <1>10. ts = SubSeq(ts, 1, t) \o SubSeq(ts, t + 1, Len(ts))
    BY <1>3, <1>4, SplitAnywhere
  <1>11. /\ original.quotes = qs /\ original.objections = os /\ original.threads = ts
         /\ original["objections"] = os /\ original["threads"] = ts
    BY <1>2, <1>4
  <1>12. original.quotes = payload.quotes \o
           SubSeq(original.quotes, Len(payload.quotes) + 1, Len(payload.quotes) + trimmed["quotes"])
    BY <1>6, <1>7, <1>8, <1>11
  <1>13. /\ original.objections = SubSeq(original["objections"], 1, trimmed["objections"]) \o payload.objections
         /\ original.threads = SubSeq(original["threads"], 1, trimmed["threads"]) \o payload.threads
    BY <1>6, <1>7, <1>9, <1>10, <1>11
  <1>14. /\ trimmed["objections"] > 0 => payload.quotes = <<>>
         /\ trimmed["threads"] > 0 => payload.quotes = <<>> /\ payload.objections = <<>>
    BY <1>2, <1>4, <1>5, <1>6, <1>7 DEF Trimmed
  <1>15. payload.locked = original.locked
    BY <1>2, <1>6
  <1> QED
    BY <1>12, <1>13, <1>14, <1>15 DEF TrimmedInOrder

(* Quotes go from the end, then objections from the start, then threads,   *)
(* one kind used up before the next, and the counts are of what is gone:   *)
(* for payloads of any length, whatever a token count is.                  *)
THEOREM TrimmingIsInOrder == Spec => []TrimmedInOrder
PROOF
  <1>1. ContextInv => TrimmedInOrder
    BY TrimmingInOrder DEF ContextInv
  <1> QED
    BY <1>1, ContextTypes, PTL

LEMMA TrimmingNotInVain == TrimmingOK => NothingTrimmedInVain
PROOF
  <1> SUFFICES ASSUME TrimmingOK, pc = "trim", \E f \in Trimmable : trimmed[f] > 0
               PROVE  PayloadTokens(BeforeLastDrop) > HandoffBudget
    BY DEF NothingTrimmedInVain
  <1>1. PICK q \in Nat, o \in Nat, t \in Nat :
          /\ Trimmed(original, q, o, t) /\ payload = Left(original, q, o, t)
          /\ trimmed = Trims(q, o, t)
    BY DEF TrimmingOK
  <1>2. PICK p \in HandoffPayload : p = original /\ Trimmed(p, q, o, t)
    BY <1>1, GivenTypes DEF Trimmed
  <1>3. q \in 0..Len(p.quotes) /\ o \in 0..Len(p.objections) /\ t \in 0..Len(p.threads)
    BY <1>2 DEF Trimmed
  <1>4. PICK left : left = payload /\ left = Left(p, q, o, t)
    BY <1>1, <1>2
  <1>5. OneRestored(left, p, q, o, t)
    BY <1>3, <1>4, LeftRestored
  <1>6. trimmed["quotes"] = q /\ trimmed["objections"] = o /\ trimmed["threads"] = t
    BY <1>1, TrimsFields
  <1>7. q > 0 \/ o > 0 \/ t > 0
    BY <1>6 DEF Trimmable
  <1>8. CASE t > 0
    <2>1. BeforeLastDrop = [left EXCEPT !.threads = <<p.threads[t]>> \o @]
      BY <1>2, <1>4, <1>6, <1>8 DEF BeforeLastDrop
    <2>2. BeforeLastDrop = Left(p, q, o, t - 1)
      BY <1>5, <1>8, <2>1 DEF OneRestored
    <2> QED
      BY <1>2, <1>8, <2>2 DEF Trimmed, TooMuch
  <1>9. CASE t = 0 /\ o > 0
    <2>1. BeforeLastDrop = [left EXCEPT !.objections = <<p.objections[o]>> \o @]
      BY <1>2, <1>4, <1>6, <1>9 DEF BeforeLastDrop
    <2>2. BeforeLastDrop = Left(p, q, o - 1, t)
      BY <1>5, <1>9, <2>1 DEF OneRestored
    <2> QED
      BY <1>2, <1>9, <2>2 DEF Trimmed, TooMuch
  <1>10. CASE t = 0 /\ o = 0 /\ q > 0
    <2>1. BeforeLastDrop = [left EXCEPT !.quotes = Append(@, p.quotes[Len(@) + 1])]
      BY <1>2, <1>4, <1>6, <1>10 DEF BeforeLastDrop
    <2>2. BeforeLastDrop = Left(p, q - 1, o, t)
      BY <1>5, <1>10, <2>1 DEF OneRestored
    <2> QED
      BY <1>2, <1>10, <2>2 DEF Trimmed, TooMuch
  <1> QED
    BY <1>7, <1>8, <1>9, <1>10

(* Nothing is dropped that there was room for: the payload with the last   *)
(* dropped item back in its place is over the budget, even if dropping an  *)
(* item does not always make the count smaller.                            *)
THEOREM NoTrimmingInVain == Spec => []NothingTrimmedInVain
PROOF
  <1>1. ContextInv => NothingTrimmedInVain
    BY TrimmingNotInVain DEF ContextInv
  <1> QED
    BY <1>1, ContextTypes, PTL

-----------------------------------------------------------------------------
(* What a stage is refused for.                                            *)
Refusals == RefusedOnlyForPrompts /\ (why # "" => pc = "failed")

LEMMA RefusedWhy ==
  ASSUME TypesOK, NEW who \in Callers, Refused(Request(who), BudgetOf(who))
  PROVE  \/ prompt + handoff > AgentBudget
         \/ BorrowerPrompt > AgentBudget \/ SummarizerPrompt > AgentBudget
         \/ SummarizerPrompt > MetaBudget
PROOF
  <1>1. Bounds
    BY BoundsHold
  <1>2. \A s, h, hist : /\ Fixed(Bundle(s, h, hist)) = s + h
                       /\ Bundle(s, h, hist).handoff = h
    BY DEF Fixed, Bundle
  <1>3. PICK ctx : ctx = Request(who)
    OBVIOUS
  <1>4. Fixed(ctx) > BudgetOf(who) \/ ctx.handoff > HandoffBudget
    BY <1>3 DEF Refused
  <1>5. CASE who = "agent"
    <2>1. ctx = Bundle(prompt, handoff, history) /\ BudgetOf(who) = AgentBudget
      BY <1>3, <1>5 DEF Request, BudgetOf
    <2>2. Fixed(ctx) = prompt + handoff /\ ctx.handoff = handoff
      BY <1>2, <2>1
    <2>3. ~ (handoff > HandoffBudget)
      BY <1>1 DEF TypesOK, Bounds
    <2> QED
      BY <1>4, <2>1, <2>2, <2>3
  <1>6. CASE who = "borrower"
    <2>1. ctx = Bundle(BorrowerPrompt, 0, Flip(history)) /\ BudgetOf(who) = AgentBudget
      BY <1>3, <1>6 DEF Request, BudgetOf
    <2>2. Fixed(ctx) = BorrowerPrompt + 0 /\ ctx.handoff = 0
      BY <1>2, <2>1
    <2>3. BorrowerPrompt + 0 = BorrowerPrompt /\ ~ (0 > HandoffBudget)
      BY <1>1 DEF Bounds
    <2> QED
      BY <1>4, <2>1, <2>2, <2>3
  <1>7. CASE who \in {"summarize", "retry"}
    <2>1. \E hist : ctx = Bundle(SummarizerPrompt, 0, hist)
      BY <1>3, <1>7 DEF Request
    <2>2. Fixed(ctx) = SummarizerPrompt + 0 /\ ctx.handoff = 0
      BY <1>2, <2>1
    <2>3. SummarizerPrompt + 0 = SummarizerPrompt /\ ~ (0 > HandoffBudget)
      BY <1>1 DEF Bounds
    <2>4. BudgetOf(who) \in {MetaBudget, AgentBudget}
      BY <1>7 DEF BudgetOf
    <2> QED
      BY <1>4, <2>2, <2>3, <2>4
  <1> QED
    BY <1>5, <1>6, <1>7 DEF Callers

LEMMA NextRefusals ==
  (ContextInv /\ Refusals /\ [Next]_vars) => Refusals'
PROOF
  <1> SUFFICES ASSUME ContextInv, Refusals, [Next]_vars PROVE Refusals'
    OBVIOUS
  <1>1. TypesOK /\ (why # "" => pc = "failed")
    BY DEF ContextInv, Refusals
  <1>2. CASE Refuse
    <2>1. PICK who \in Callers :
            /\ ~ Accepted(who)
            /\ Fail(IF Refused(Request(who), BudgetOf(who)) THEN "refused" ELSE "asserted")
      BY <1>2 DEF Refuse
    <2>2. UNCHANGED <<prompt, handoff>> /\ pc' = "failed"
      BY <2>1 DEF Fail, talk
    <2>3. Refused(Request(who), BudgetOf(who))
      BY <1>1, <2>1, NeverAsserted
    <2>4. \/ prompt' + handoff' > AgentBudget
          \/ BorrowerPrompt > AgentBudget \/ SummarizerPrompt > AgentBudget
          \/ SummarizerPrompt > MetaBudget
      BY <1>1, <2>2, <2>3, RefusedWhy
    <2> QED
      BY <2>2, <2>4 DEF Refusals, RefusedOnlyForPrompts
  <1>3. CASE TrimRaises \/ CallFails
    <2>1. why' # "refused" /\ pc' = "failed"
      BY <1>3 DEF TrimRaises, CallFails, Fail
    <2> QED
      BY <2>1 DEF Refusals, RefusedOnlyForPrompts
  <1>4. CASE \/ Summarize \/ Retry \/ DropQuote \/ DropObjection \/ DropThread \/ HandOver
             \/ Build \/ AgentSpeaks \/ BorrowerSpeaks \/ PersonSpeaks
    <2>1. pc # "failed" /\ why' = why
      BY <1>4 DEF Summarize, Retry, DropQuote, DropObjection, DropThread, Dropped, HandOver,
                  Build, AgentSpeaks, BorrowerSpeaks, PersonSpeaks, Heard, Send
    <2>2. why' = ""
      BY <1>1, <2>1
    <2> QED
      BY <2>2 DEF Refusals, RefusedOnlyForPrompts
  <1>5. CASE UNCHANGED vars
    BY <1>5 DEF Refusals, RefusedOnlyForPrompts, vars, talk
  <1> QED
    BY <1>2, <1>3, <1>4, <1>5 DEF Next, Over

(* A handoff the summarizer let through is one the next agent's guard      *)
(* takes: a stage is refused only if its prompts alone are too long.       *)
THEOREM RefusalsOnlyForPrompts == Spec => []RefusedOnlyForPrompts
PROOF
  <1>1. Init => Refusals
    BY DEF Init, Refusals, RefusedOnlyForPrompts
  <1>2. Refusals => RefusedOnlyForPrompts
    BY DEF Refusals
  <1> QED
    BY <1>1, <1>2, NextRefusals, ContextTypes, PTL DEF Spec
=============================================================================
