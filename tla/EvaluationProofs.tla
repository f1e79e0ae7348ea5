-------------------------- MODULE EvaluationProofs --------------------------
(***************************************************************************)
(* Theorems about Evaluation: that the gate compares every borrower with   *)
(* himself, that what is adopted beats what it replaces, and which         *)
(* conversations are scored though they never ended.                       *)
(***************************************************************************)
EXTENDS Evaluation, FiniteSetTheorems, SequenceTheorems, WellFoundedInduction, TLAPS

-----------------------------------------------------------------------------
(* Folds.                                                                  *)

LEMMA LeastOfSome ==
  ASSUME NEW T, T \subseteq Nat, T # {}
  PROVE  \E x \in T : \A y \in T : x <= y
PROOF
  <1>1. \E x \in T : \A y \in T : ~ (<<y, x>> \in OpToRel(<, Nat))
    BY NatLessThanWellFounded, WFMin
  <1>2. PICK x \in T : \A y \in T : ~ (<<y, x>> \in OpToRel(<, Nat))
    BY <1>1
  <1>3. ASSUME NEW y \in T PROVE x <= y
    <2>1. x \in Nat /\ y \in Nat
      OBVIOUS
    <2>2. <<y, x>> \notin OpToRel(<, Nat)
      BY <1>2
    <2>3. ~ (y < x)
      BY <2>1, <2>2 DEF OpToRel
    <2> QED
      BY <2>1, <2>3
  <1> QED
    BY <1>3

(* A fold takes the elements of a finite set one after the other, the one  *)
(* ch chooses first: the function it is defined by exists.                 *)
Folding(g, S, start, step, ch) ==
  \A T \in SUBSET S : g[T] = IF T = {} THEN start ELSE step[<<ch[T], g[T \ {ch[T]}]>>]

LEMMA FoldingExists ==
  ASSUME NEW S, IsFiniteSet(S), NEW V, NEW start \in V, NEW step \in [S \X V -> V],
         NEW ch, \A T \in SUBSET S : T # {} => ch[T] \in T
  PROVE  \E g \in [SUBSET S -> V] : Folding(g, S, start, step, ch)
PROOF
  <1> DEFINE Eq(g, T) == g[T] = IF T = {} THEN start ELSE step[<<ch[T], g[T \ {ch[T]}]>>]
             Upto(k) == \E g \in [SUBSET S -> V] : \A T \in SUBSET S : Cardinality(T) <= k => Eq(g, T)
             Bad == {k \in Nat : ~ Upto(k)}
             Step1(g) == [T \in SUBSET S |-> IF T = {} THEN start ELSE step[<<ch[T], g[T \ {ch[T]}]>>]]
  <1>1. \A T \in SUBSET S : IsFiniteSet(T) /\ Cardinality(T) \in Nat /\ Cardinality(T) <= Cardinality(S)
    BY FS_Subset, FS_CardinalityType
  <1>2. \A T \in SUBSET S : T # {} => Cardinality(T \ {ch[T]}) = Cardinality(T) - 1
    BY <1>1, FS_RemoveElement
  <1>3. \A T \in SUBSET S : Cardinality(T) = 0 => T = {}
    BY <1>1, FS_EmptySet
  <1>4. ASSUME NEW g \in [SUBSET S -> V]
        PROVE  /\ Step1(g) \in [SUBSET S -> V]
               /\ \A T \in SUBSET S : T # {} => Step1(g)[T] = step[<<ch[T], g[T \ {ch[T]}]>>]
               /\ Step1(g)[{}] = start
    <2>1. \A T \in SUBSET S : T # {} => step[<<ch[T], g[T \ {ch[T]}]>>] \in V
      <3>1. ASSUME NEW T \in SUBSET S, T # {} PROVE <<ch[T], g[T \ {ch[T]}]>> \in S \X V
        <4>1. ch[T] \in S
          BY <3>1
        <4>2. g[T \ {ch[T]}] \in V
          OBVIOUS
        <4> QED
          BY <4>1, <4>2
      <3> QED
        BY <3>1
    <2> QED
      BY <2>1
  <1>5. Upto(0)
    <2>1. PICK g \in [SUBSET S -> V] : g = [T \in SUBSET S |-> start]
      OBVIOUS
    <2>2. \A T \in SUBSET S : Cardinality(T) <= 0 => T = {}
      BY <1>1, <1>3
    <2>3. \A T \in SUBSET S : Cardinality(T) <= 0 => Eq(g, T)
      BY <2>1, <2>2
    <2> QED
      BY <2>3
  <1>6. ASSUME NEW m \in Nat, m # 0, Upto(m - 1) PROVE Upto(m)
    <2>1. PICK g \in [SUBSET S -> V] : \A T \in SUBSET S : Cardinality(T) <= m - 1 => Eq(g, T)
      BY <1>6
    <2>2. PICK h \in [SUBSET S -> V] : h = Step1(g)
      BY <1>4
    <2>3. ASSUME NEW T \in SUBSET S, Cardinality(T) <= m PROVE Eq(h, T)
      <3>1. CASE T = {}
        BY <1>4, <2>2, <3>1
      <3>2. CASE T # {}
        <4>1. PICK R \in SUBSET S : R = T \ {ch[T]}
          OBVIOUS
        <4>2. Cardinality(R) <= m - 1
          BY <1>1, <1>2, <2>3, <3>2, <4>1
        <4>3. Eq(g, R)
          BY <2>1, <4>2
        <4>4. h[R] = g[R]
          BY <4>3, <2>2
        <4>5. h[T] = step[<<ch[T], g[R]>>]
          BY <1>4, <2>2, <3>2, <4>1
        <4> QED
          BY <3>2, <4>1, <4>4, <4>5
      <3> QED
        BY <3>1, <3>2
    <2> QED
      BY <2>3
  <1>7. Bad = {}
    <2>1. SUFFICES ASSUME Bad # {} PROVE FALSE
      OBVIOUS
    <2>2. Bad \subseteq Nat
      OBVIOUS
    <2>3. \A k \in Nat : k \notin Bad => Upto(k)
      OBVIOUS
    <2>4. \A k \in Bad : ~ Upto(k)
      OBVIOUS
    <2> HIDE DEF Bad, Upto
    <2>5. PICK m \in Bad : \A k \in Bad : m <= k
      BY <2>1, <2>2, LeastOfSome
    <2>6. m \in Nat /\ m # 0
      BY <1>5, <2>2, <2>4, <2>5
    <2>7. m - 1 \in Nat /\ m - 1 \notin Bad
      BY <2>2, <2>5, <2>6
    <2> QED
      BY <1>6, <2>3, <2>4, <2>5, <2>6, <2>7
  <1>8. Upto(Cardinality(S))
    BY <1>1, <1>7
  <1> QED
    BY <1>1, <1>8 DEF Folding

-----------------------------------------------------------------------------
(* The tokens of a history are its last prefix sum.                        *)

Roles == {"user", "assistant"}
Messages == [role : Roles, tokens : Nat]
-----------------------------------------------------------------------------
(* A sum of natural numbers is one, and of two of them it is what it says. *)

LEMMA GreatestChosen ==
  ASSUME NEW n \in Nat, NEW T \in SUBSET (1..n), T # {}
  PROVE  Max(T) \in T /\ \A y \in T : y <= Max(T)
PROOF
  <1> DEFINE D == {n - t : t \in T}
  <1>1. D \subseteq Nat /\ D # {}
    <2>1. \A t \in T : n - t \in Nat
      OBVIOUS
    <2> QED
      BY <2>1
  <1>2. \A t \in T : n - t \in D
    OBVIOUS
  <1>3. \A d \in D : \E t \in T : d = n - t
    OBVIOUS
  <1> HIDE DEF D
  <1>4. PICK d \in D : \A e \in D : d <= e
    BY <1>1, LeastOfSome
  <1>5. PICK x \in T : d = n - x
    BY <1>3
  <1>6. \A y \in T : n - x <= n - y
    BY <1>2, <1>4, <1>5
  <1>7. \A y \in T : x >= y
    BY <1>6
  <1>8. \A y \in T : Max(T) >= y /\ Max(T) \in T
    BY <1>7 DEF Max
  <1> QED
    BY <1>8

LEMMA GreatestOfInitial ==
  ASSUME NEW n \in Nat, NEW k \in 1..n
  PROVE  Max(1..k) = k /\ (1..k) \ {k} = 1..(k - 1)
PROOF
  <1>1. PICK T \in SUBSET (1..n) : T = 1..k
    OBVIOUS
  <1>3. k \in T
    BY <1>1
  <1>2. Max(T) \in T /\ \A y \in T : y <= Max(T)
    BY <1>3, GreatestChosen
  <1>4. Max(T) = k
    BY <1>1, <1>2, <1>3
  <1> QED
    BY <1>1, <1>4

SumsUp(g, s) ==
  g = [T \in SUBSET (DOMAIN s) |-> IF T = {} THEN 0 ELSE g[T \ {Max(T)}] + s[Max(T)]]

LEMMA NumbersOf ==
  ASSUME NEW s \in Seq(Nat)
  PROVE  /\ Len(s) \in Nat /\ DOMAIN s = 1..Len(s) /\ IsFiniteSet(DOMAIN s)
         /\ \A i \in DOMAIN s : s[i] \in Nat
PROOF
  <1>1. Len(s) \in Nat /\ DOMAIN s = 1..Len(s)
    BY LenProperties
  <1>2. IsFiniteSet(DOMAIN s)
    BY <1>1, FS_Interval
  <1>3. \A i \in DOMAIN s : s[i] \in Nat
    BY <1>1, ElementOfSeq
  <1> QED
    BY <1>1, <1>2, <1>3

LEMMA SumsUpExists ==
  ASSUME NEW s \in Seq(Nat)
  PROVE  \E g : SumsUp(g, s)
PROOF
  <1>1. PICK D : D = DOMAIN s
    OBVIOUS
  <1>2. Len(s) \in Nat /\ D = 1..Len(s) /\ IsFiniteSet(D) /\ \A i \in D : s[i] \in Nat
    BY <1>1, NumbersOf
  <1>3. PICK top : top = [T \in SUBSET D |-> Max(T)]
    OBVIOUS
  <1>4. \A T \in SUBSET D : T # {} => top[T] \in T /\ top[T] = Max(T)
    BY <1>2, <1>3, GreatestChosen
  <1>5. PICK add : add = [x \in D \X Nat |-> x[2] + s[x[1]]]
    OBVIOUS
  <1>6. add \in [D \X Nat -> Nat]
    BY <1>2, <1>5
  <1>7. \A i \in D, v \in Nat : add[<<i, v>>] = v + s[i]
    BY <1>5
  <1>8. 0 \in Nat /\ \A T \in SUBSET D : T # {} => top[T] \in T
    BY <1>4
  <1>9. PICK g \in [SUBSET D -> Nat] : Folding(g, D, 0, add, top)
    BY <1>2, <1>6, <1>8, FoldingExists
  <1>10. ASSUME NEW T \in SUBSET D, T # {}
         PROVE  g[T] = g[T \ {Max(T)}] + s[Max(T)]
    <2>1. g[T] = add[<<top[T], g[T \ {top[T]}]>>]
      BY <1>9, <1>10 DEF Folding
    <2>2. Max(T) \in D /\ g[T \ {Max(T)}] \in Nat /\ top[T] = Max(T)
      BY <1>4, <1>10
    <2> QED
      BY <1>7, <2>1, <2>2
  <1>11. g[{}] = 0
    BY <1>9 DEF Folding
  <1>12. g = [T \in SUBSET D |-> IF T = {} THEN 0 ELSE g[T \ {Max(T)}] + s[Max(T)]]
    BY <1>10, <1>11
  <1> QED
    BY <1>1, <1>12 DEF SumsUp

(* Only the sums of what comes first are needed.                           *)
LEMMA PrefixesSumUp ==
  ASSUME NEW s \in Seq(Nat), NEW g, SumsUp(g, s)
  PROVE  /\ g[1..0] = 0
         /\ \A i \in 1..Len(s) : g[1..i] = g[1..(i - 1)] + s[i]
         /\ \A i \in 0..Len(s) : g[1..i] \in Nat
PROOF
  <1>1. PICK n \in Nat : n = Len(s)
    BY NumbersOf
  <1>2. DOMAIN s = 1..n /\ \A i \in 1..n : s[i] \in Nat
    BY <1>1, NumbersOf
  <1>3. ASSUME NEW i \in 1..n PROVE g[1..i] = g[1..(i - 1)] + s[i]
    <2>1. Max(1..i) = i /\ (1..i) \ {i} = 1..(i - 1)
      BY GreatestOfInitial
    <2>2. 1..i \in SUBSET (DOMAIN s) /\ 1..i # {}
      BY <1>2
    <2>3. \A T \in SUBSET (DOMAIN s) : T # {} => g[T] = g[T \ {Max(T)}] + s[Max(T)]
      BY DEF SumsUp
    <2>4. g[1..i] = g[(1..i) \ {Max(1..i)}] + s[Max(1..i)]
      BY <2>2, <2>3
    <2> QED
      BY <2>1, <2>4
  <1>4. g[1..0] = 0
    <2>1. 1..0 = {}
      OBVIOUS
    <2>2. {} \in SUBSET (DOMAIN s)
      OBVIOUS
    <2>3. g[{}] = 0
      BY <2>2 DEF SumsUp
    <2> QED
      BY <2>1, <2>3
  <1> DEFINE Bad == {i \in 0..n : g[1..i] \notin Nat}
  <1>5. Bad = {}
    <2>1. Bad \subseteq Nat /\ \A i \in 0..n : i \notin Bad => g[1..i] \in Nat
      OBVIOUS
    <2>2. \A i \in Bad : g[1..i] \notin Nat /\ i \in 0..n
      OBVIOUS
    <2> HIDE DEF Bad
    <2>3. SUFFICES ASSUME Bad # {} PROVE FALSE
      OBVIOUS
    <2>4. PICK k \in Bad : \A j \in Bad : k <= j
      BY <2>1, <2>3, LeastOfSome
    <2>5. k \in 1..n
      BY <1>4, <2>2, <2>4
    <2>6. k - 1 \in 0..n /\ k - 1 \notin Bad
      BY <2>1, <2>4, <2>5
    <2>7. g[1..(k - 1)] \in Nat
      BY <2>1, <2>6
    <2>8. g[1..k] = g[1..(k - 1)] + s[k]
      BY <1>3, <2>5
    <2>9. s[k] \in Nat
      BY <1>2, <2>5
    <2>10. g[1..k] \notin Nat
      BY <2>2
    <2> QED
      BY <2>7, <2>8, <2>9, <2>10
  <1>6. \A i \in 0..n : g[1..i] \in Nat
    BY <1>5
  <1> QED
    BY <1>1, <1>3, <1>4, <1>6

LEMMA SumIs ==
  ASSUME NEW s \in Seq(Nat)
  PROVE  /\ Sum(s) \in Nat
         /\ Len(s) = 0 => Sum(s) = 0
         /\ Len(s) = 2 => Sum(s) = s[1] + s[2]
PROOF
  <1> DEFINE iter == CHOOSE g : SumsUp(g, s)
  <1>1. Sum(s) = iter[DOMAIN s]
    BY DEF Sum, FoldLeft, MapThenFoldSet, SumsUp
  <1>2. PICK g : SumsUp(g, s) /\ g = iter
    BY SumsUpExists
  <1>3. PICK n \in Nat : n = Len(s) /\ DOMAIN s = 1..n /\ \A i \in 1..n : s[i] \in Nat
    BY NumbersOf
  <1>4. /\ g[1..0] = 0
        /\ \A i \in 1..n : g[1..i] = g[1..(i - 1)] + s[i]
        /\ \A i \in 0..n : g[1..i] \in Nat
    BY <1>2, <1>3, PrefixesSumUp
  <1>5. Sum(s) = g[1..n]
    BY <1>1, <1>2, <1>3
  <1>6. n \in 0..n
    BY <1>3
  <1>7. n = 2 => g[1..2] = g[1..1] + s[2] /\ g[1..1] = g[1..0] + s[1]
    BY <1>4
  <1>8. n = 2 => s[1] \in Nat /\ s[2] \in Nat
    BY <1>3
  <1>9. n = 2 => g[1..2] = s[1] + s[2]
    BY <1>4, <1>7, <1>8
  <1> QED
    BY <1>3, <1>4, <1>5, <1>6, <1>9

-----------------------------------------------------------------------------
(* _pick_borrowers takes nobody twice: the order of the candidates is a    *)
(* strict total one, so each has a place of his own.                       *)

LEMMA GroupIs ==
  ASSUME NEW persona \in Seq(STRING), NEW i \in DOMAIN persona
  PROVE  Group(persona, i) \in Nat
PROOF
  <1>1. PICK n \in Nat : DOMAIN persona = 1..n
    BY LenProperties
  <1>2. PICK T \in SUBSET (1..n) : \A j \in 1..n : j \in T <=> persona[j] = persona[i]
    <2>1. {j \in 1..n : persona[j] = persona[i]} \in SUBSET (1..n)
      OBVIOUS
    <2> QED
      BY <2>1
  <1>3. T \subseteq Nat /\ T # {}
    BY <1>1, <1>2
  <1>4. PICK x \in T : \A y \in T : x <= y
    BY <1>3, LeastOfSome
  <1>5. x \in DOMAIN persona /\ persona[x] = persona[i]
    BY <1>1, <1>2
  <1>6. \A k \in 1..(x - 1) : persona[k] # persona[i]
    <2>1. ASSUME NEW k \in 1..(x - 1) PROVE persona[k] # persona[i]
      <3>1. k \in 1..n /\ k < x
        BY <1>1, <1>5
      <3>2. k \notin T
        BY <1>4, <1>3, <3>1
      <3> QED
        BY <1>2, <3>1, <3>2
    <2> QED
      BY <2>1
  <1>7. Group(persona, i) \in DOMAIN persona
    BY <1>5, <1>6 DEF Group
  <1> QED
    BY <1>1, <1>7

LEMMA BeforeOrders ==
  ASSUME NEW persona \in Seq(STRING), NEW n, NEW i \in DOMAIN persona,
         NEW j \in DOMAIN persona, NEW k \in DOMAIN persona
  PROVE  /\ ~ Before(persona, n, i, i)
         /\ i # j => Before(persona, n, i, j) \/ Before(persona, n, j, i)
         /\ Before(persona, n, i, j) /\ Before(persona, n, j, k) => Before(persona, n, i, k)
PROOF
  <1>1. PICK a \in Nat, b \in Nat, c \in Nat :
          a = Group(persona, i) /\ b = Group(persona, j) /\ c = Group(persona, k)
    BY GroupIs
  <1>2. PICK p \in {0, 1}, q \in {0, 1}, r \in {0, 1} :
          p = Late(persona, n, i) /\ q = Late(persona, n, j) /\ r = Late(persona, n, k)
    BY DEF Late
  <1>3. i \in Nat /\ j \in Nat /\ k \in Nat
    BY LenProperties
  <1>4. /\ Before(persona, n, i, j) <=> p < q \/ (p = q /\ (a < b \/ (a = b /\ i < j)))
        /\ Before(persona, n, j, i) <=> q < p \/ (p = q /\ (b < a \/ (a = b /\ j < i)))
        /\ Before(persona, n, j, k) <=> q < r \/ (q = r /\ (b < c \/ (b = c /\ j < k)))
        /\ Before(persona, n, i, k) <=> p < r \/ (p = r /\ (a < c \/ (a = c /\ i < k)))
        /\ Before(persona, n, i, i) <=> p < p \/ a < a \/ i < i
    BY <1>1, <1>2 DEF Before
  <1>5. p \in Nat /\ q \in Nat /\ r \in Nat
    OBVIOUS
  <1>6. ~ Before(persona, n, i, i)
    BY <1>1, <1>3, <1>4, <1>5
  <1>7. i # j => Before(persona, n, i, j) \/ Before(persona, n, j, i)
    BY <1>1, <1>3, <1>4, <1>5
  <1>8. Before(persona, n, i, j) /\ Before(persona, n, j, k) => Before(persona, n, i, k)
    BY <1>1, <1>3, <1>4, <1>5
  <1> QED
    BY <1>6, <1>7, <1>8

LEMMA Places ==
  ASSUME NEW persona \in Seq(STRING), NEW n, NEW i \in DOMAIN persona
  PROVE  /\ Cardinality(Ahead(persona, n, i)) \in 0..(Len(persona) - 1)
         /\ \A j \in DOMAIN persona :
              Cardinality(Ahead(persona, n, i)) = Cardinality(Ahead(persona, n, j)) => i = j
PROOF
  <1>1. PICK m \in Nat : m = Len(persona) /\ DOMAIN persona = 1..m
    BY LenProperties
  <1>2. IsFiniteSet(1..m) /\ Cardinality(1..m) = m
    BY FS_Interval
  <1>3. \A j \in 1..m : Ahead(persona, n, j) \in SUBSET (1..m) /\ j \notin Ahead(persona, n, j)
    BY <1>1, BeforeOrders DEF Ahead
  <1>4. \A j \in 1..m : /\ IsFiniteSet(Ahead(persona, n, j))
                        /\ Cardinality(Ahead(persona, n, j)) \in Nat
                        /\ Cardinality(Ahead(persona, n, j)) <= m
                        /\ Cardinality(Ahead(persona, n, j)) # m
    BY <1>2, <1>3, FS_Subset, FS_CardinalityType
  <1>5. ASSUME NEW j \in 1..m, NEW k \in 1..m, Before(persona, n, j, k)
        PROVE  Cardinality(Ahead(persona, n, j)) # Cardinality(Ahead(persona, n, k))
    <2>1. Ahead(persona, n, j) \subseteq Ahead(persona, n, k)
      BY <1>1, <1>5, BeforeOrders DEF Ahead
    <2>2. j \in Ahead(persona, n, k) /\ j \notin Ahead(persona, n, j)
      BY <1>1, <1>3, <1>5 DEF Ahead
    <2> QED
      BY <1>4, <2>1, <2>2, FS_Subset
  <1>6. \A j \in 1..m : Cardinality(Ahead(persona, n, i)) = Cardinality(Ahead(persona, n, j)) => i = j
    <2>1. \A j \in 1..m : i # j => Before(persona, n, i, j) \/ Before(persona, n, j, i)
      BY <1>1, BeforeOrders
    <2> QED
      BY <1>1, <1>5, <2>1
  <1>7. Cardinality(Ahead(persona, n, i)) \in 0..(m - 1)
    BY <1>1, <1>4
  <1> QED
    BY <1>1, <1>6, <1>7

LEMMA BalancedIs ==
  ASSUME NEW persona \in Seq(STRING), NEW n \in Nat
  PROVE  /\ Balanced(persona, n) \in Seq(DOMAIN persona)
         /\ IsInjective(Balanced(persona, n))
PROOF
  <1>1. PICK m \in Nat : m = Len(persona) /\ DOMAIN persona = 1..m
    BY LenProperties
  <1>2. PICK place : place = [i \in 1..m |-> Cardinality(Ahead(persona, n, i)) + 1]
    OBVIOUS
  <1>3. \A i \in 1..m : place[i] \in 1..m
    <2>1. \A i \in 1..m : Cardinality(Ahead(persona, n, i)) \in 0..(m - 1)
      BY <1>1, Places
    <2> QED
      BY <1>2, <2>1
  <1>4. place \in [1..m -> 1..m] /\ IsInjective(place)
    <2>1. \A i \in 1..m : Cardinality(Ahead(persona, n, i)) \in Nat
      BY <1>1, Places
    <2>2. \A i, j \in 1..m : place[i] = place[j] =>
            Cardinality(Ahead(persona, n, i)) = Cardinality(Ahead(persona, n, j))
      BY <1>2, <2>1
    <2>3. \A i, j \in 1..m : place[i] = place[j] => i = j
      BY <1>1, <2>2, Places
    <2> QED
      BY <1>2, <1>3, <2>3 DEF IsInjective
  <1>5. place \in Surjection(1..m, 1..m)
    <2>1. place \in Injection(1..m, 1..m)
      BY <1>4 DEF Injection
    <2>2. IsFiniteSet(1..m)
      BY FS_Interval
    <2> QED
      BY <2>1, <2>2, FS_Injection
  <1>6. PICK w \in Nat : w = Least(n, Len(persona)) /\ w <= m
    BY <1>1 DEF Least
  <1>7. ASSUME NEW k \in 1..w
        PROVE  /\ Balanced(persona, n)[k] \in 1..m
               /\ Cardinality(Ahead(persona, n, Balanced(persona, n)[k])) = k - 1
    <2>1. PICK i \in 1..m : place[i] = k
      BY <1>5, <1>6 DEF Surjection
    <2>2. Cardinality(Ahead(persona, n, i)) \in Nat
      BY <1>1, Places
    <2>3. Cardinality(Ahead(persona, n, i)) = k - 1
      BY <1>2, <2>1, <2>2
    <2>4. Balanced(persona, n)[k] =
            CHOOSE j \in DOMAIN persona : Cardinality(Ahead(persona, n, j)) = k - 1
      BY <1>6 DEF Balanced
    <2> QED
      BY <1>1, <2>3, <2>4
  <1>8. DOMAIN Balanced(persona, n) = 1..w
    BY <1>6 DEF Balanced
  <1>9. Balanced(persona, n) = [k \in 1..w |-> Balanced(persona, n)[k]]
    BY <1>6 DEF Balanced
  <1>10. Balanced(persona, n) \in [1..w -> DOMAIN persona]
    BY <1>1, <1>7, <1>9
  <1>11. Balanced(persona, n) \in Seq(DOMAIN persona)
    BY <1>10, SeqDef
  <1>12. \A k, l \in 1..w : Balanced(persona, n)[k] = Balanced(persona, n)[l] => k - 1 = l - 1
    BY <1>7
  <1>13. IsInjective(Balanced(persona, n))
    BY <1>8, <1>12 DEF IsInjective
  <1> QED
    BY <1>11, <1>13

-----------------------------------------------------------------------------
(* What is stored and scored.                                              *)

Borrowers == 1..Len(Profiles)
Outcomes == UNION {ConversationOutcomes(a) : a \in Agents}
Said == Conversations(Outcomes \cup {NULL})
Samples == [borrower : Borrowers, primary : Nat, compliance : Nat, system : {0, 1}, ended : BOOLEAN]

Types ==
  /\ agent \in 1..3 /\ stage \in 1..3
  /\ \A s \in stored : s.borrower \in Borrowers /\ s.said \in Said
  /\ pc \in {"idle", "baseline", "propose", "variant", "gate", "check", "decided"}
  /\ borrowers \in Seq(Borrowers) /\ at \in Nat /\ checked \in Nat
  /\ scored \in Said
  /\ baseline \in Seq(Samples) /\ variant \in Seq(Samples)

(* A side has been through the first n borrowers of the iteration.         *)
Met(side, n) == Len(side) = n /\ \A i \in 1..n : side[i].borrower = borrowers[i]

InStep ==
  /\ IsInjective(borrowers)
  /\ pc = "idle" => baseline = <<>> /\ variant = <<>> /\ at = 0
  /\ pc = "baseline" => at <= Len(borrowers) /\ Met(baseline, at) /\ variant = <<>>
  /\ pc \notin {"idle", "baseline"} => Met(baseline, Len(borrowers))
  /\ pc = "variant" => at <= Len(borrowers) /\ Met(variant, at)
  /\ pc \in {"gate", "check", "decided"} => Met(variant, Len(borrowers))
  /\ pc \notin {"baseline", "variant"} => at = 0

OpenOnlyIfCut == \A s \in stored : s.said.outcome = NULL => cut
AdoptedAtGate == decision = "adopt" => pc \in {"check", "decided"}

EvaluationInv == Types /\ InStep /\ OpenOnlyIfCut /\ AdoptedAtGate

LEMMA ProfilesAre == Profiles \in Seq(STRING) /\ N \in Nat
PROOF
  BY EvaluationAssumption

LEMMA AgentOfStage ==
  ASSUME NEW k \in 1..3
  PROVE  Pipeline[k] \in Agents
PROOF
  <1>1. k = 1 \/ k = 2 \/ k = 3
    OBVIOUS
  <1>2. Pipeline[1] = "agent_1" /\ Pipeline[2] = "agent_2" /\ Pipeline[3] = "agent_3"
    BY DEF Pipeline
  <1> QED
    BY <1>1, <1>2 DEF Agents

LEMMA NoOutcomeIsNull ==
  ASSUME NEW a \in Agents
  PROVE  NULL \notin ConversationOutcomes(a)
PROOF
  <1>1. a = "agent_1" \/ a = "agent_2" \/ a = "agent_3"
    BY DEF Agents
  <1>2. /\ ClassifiedOutcomes["agent_1"] = {"opt_out", "assessed", "partial", "no_response"}
        /\ ClassifiedOutcomes["agent_2"] = {"opt_out", "deal_agreed", "escalate_hardship", "no_deal"}
        /\ ClassifiedOutcomes["agent_3"] = {"opt_out", "resolved", "no_resolution"}
    BY DEF ClassifiedOutcomes
  <1>3. NULL \notin ReasonOutcomes
    BY DEF NULL, ReasonOutcomes, EndReasons
  <1>4. NULL \notin ClassifiedOutcomes[a]
    BY <1>1, <1>2 DEF NULL
  <1> QED
    BY <1>3, <1>4 DEF ConversationOutcomes

LEMMA HeardIs ==
  ASSUME NEW k \in 1..3, NEW c \in Heard[Pipeline[k]]
  PROVE  c \in Said /\ c.outcome \in ConversationOutcomes(Pipeline[k]) /\ c.outcome # NULL
PROOF
  <1>1. PICK a \in Agents : a = Pipeline[k]
    BY AgentOfStage
  <1>2. c \in Conversations(ConversationOutcomes(a))
    BY <1>1, EvaluationAssumption
  <1>3. ConversationOutcomes(a) \subseteq Outcomes
    BY DEF Outcomes
  <1>4. c \in Said
    BY <1>2, <1>3 DEF Said, Conversations
  <1>5. c.outcome \in ConversationOutcomes(a)
    BY <1>2 DEF Conversations
  <1> QED
    BY <1>1, <1>4, <1>5, NoOutcomeIsNull

LEMMA ComplianceIs ==
  ASSUME NEW c
  PROVE  Compliance(c) \in Nat
PROOF
  <1>1. Rules(c) \in SUBSET (1..8)
    BY DEF Rules
  <1>2. IsFiniteSet(1..8)
    <2>1. \A k \in Nat : IsFiniteSet(1..k)
      BY FS_Interval
    <2> QED
      BY <2>1
  <1> QED
    BY <1>1, <1>2, FS_Subset, FS_CardinalityType DEF Compliance

LEMMA SampleIs ==
  ASSUME NEW b \in Borrowers, NEW c \in Said, NEW last, agent \in 1..3
  PROVE  /\ Sample(b, c, last) \in Samples
         /\ Sample(b, c, last).borrower = b
         /\ Sample(b, c, last).ended = (last # NULL)
PROOF
  <1>1. c.fields \in Nat
    BY DEF Said, Conversations
  <1>2. \A sign : \A w \in Nat : Points(c, sign, w) \in Nat
    BY DEF Points
  <1>3. Least(c.fields, 3) \in Nat
    BY <1>1 DEF Least
  <1>4. /\ Goal(c)[1] = Points(c, "verify_identity", 24) + 8 * Least(c.fields, 3)
        /\ Goal(c)[2] = Points(c, "present_offer", 24) + Points(c, "record_commitment", 24)
        /\ Goal(c)[3] = Points(c, "issue_final_offer", 30) + Points(c, "accepted_by_borrower", 18)
    BY DEF Goal
  <1>5. Goal(c)[1] \in Nat
    BY <1>2, <1>3, <1>4
  <1>6. Goal(c)[2] \in Nat
    BY <1>2, <1>4
  <1>7. Goal(c)[3] \in Nat
    BY <1>2, <1>4
  <1>8. agent = 1 \/ agent = 2 \/ agent = 3
    OBVIOUS
  <1>9. Goal(c)[agent] \in Nat
    BY <1>5, <1>6, <1>7, <1>8
  <1>10. Primary(c) \in Nat
    BY <1>9, ComplianceIs DEF Primary
  <1>11. (IF last = "no_response" THEN 0 ELSE 1) \in {0, 1} /\ (last # NULL) \in BOOLEAN
    OBVIOUS
  <1> QED
    BY <1>10, <1>11, ComplianceIs DEF Sample, Samples

-----------------------------------------------------------------------------
(* Every step keeps EvaluationInv.                                         *)

LEMMA NothingMet ==
  /\ <<>> \in Seq(Samples) /\ <<>> \in Seq(Borrowers) /\ IsInjective(<<>>)
  /\ Len(<<>>) = 0 /\ Met(<<>>, 0)
PROOF
  BY DEF Met, IsInjective

LEMMA MissedIsSaid == Missed \in Said
PROOF
  <1>1. {} \in SUBSET Signs /\ 0 \in 0..6 /\ 0 \in 0..3
    OBVIOUS
  <1> QED
    BY <1>1 DEF Missed, Said, Conversations

LEMMA InitEvaluation == Init => EvaluationInv
PROOF
  <1> SUFFICES ASSUME Init PROVE EvaluationInv
    OBVIOUS
  <1>1. Types
    BY NothingMet, MissedIsSaid DEF Init, Types
  <1>2. InStep
    BY NothingMet DEF Init, InStep
  <1>3. OpenOnlyIfCut /\ AdoptedAtGate
    BY DEF Init, OpenOnlyIfCut, AdoptedAtGate, NULL
  <1> QED
    BY <1>1, <1>2, <1>3 DEF EvaluationInv

LEMMA PickedIs ==
  ASSUME NEW n \in Nat
  PROVE  Picked(n) \in Seq(Borrowers) /\ IsInjective(Picked(n))
PROOF
  <1>1. DOMAIN Profiles = Borrowers
    BY ProfilesAre DEF Borrowers
  <1>2. Balanced(Profiles, n) \in Seq(DOMAIN Profiles) /\ IsInjective(Balanced(Profiles, n))
    BY ProfilesAre, BalancedIs
  <1> QED
    BY <1>1, <1>2 DEF Picked

LEMMA StartEvaluation == (EvaluationInv /\ StartIteration) => EvaluationInv'
PROOF
  <1> SUFFICES ASSUME EvaluationInv, StartIteration PROVE EvaluationInv'
    OBVIOUS
  <1>1. borrowers' \in Seq(Borrowers) /\ IsInjective(borrowers') /\ Len(borrowers') \in Nat
    BY ProfilesAre, PickedIs, LenProperties DEF StartIteration
  <1>2. /\ pc = "idle" /\ pc' = "baseline" /\ stage' \in 1..3
        /\ UNCHANGED <<agent, stored, at, scored, baseline, variant, checked, decision, cut>>
    BY DEF StartIteration, First, EvaluationInv, Types, sides, checks
  <1>3. at = 0 /\ baseline = <<>> /\ variant = <<>>
    BY <1>2 DEF EvaluationInv, InStep
  <1>4. Types'
    BY <1>1, <1>2 DEF EvaluationInv, Types
  <1>5. InStep'
    <2>1. at' = 0 /\ baseline' = <<>> /\ variant' = <<>> /\ Met(<<>>, 0)' /\ 0 <= Len(borrowers')
      BY <1>1, <1>2, <1>3 DEF Met
    <2> QED
      BY <1>1, <1>2, <2>1 DEF InStep
  <1>6. OpenOnlyIfCut' /\ AdoptedAtGate'
    BY <1>2 DEF EvaluationInv, OpenOnlyIfCut, AdoptedAtGate
  <1> QED
    BY <1>4, <1>5, <1>6 DEF EvaluationInv

LEMMA CandidatesAre ==
  ASSUME NEW s \in Candidates
  PROVE  \E k \in Nat : /\ s \in [1..k -> stored]
                        /\ \A i, j \in 1..k : s[i].borrower = s[j].borrower => i = j
PROOF
  <1>1. PICK k \in N..Len(Profiles) : s \in [1..k -> stored]
    BY DEF Candidates
  <1>2. k \in Nat
    BY <1>1, ProfilesAre
  <1>3. IsInjective([i \in 1..k |-> s[i].borrower])
    BY <1>1 DEF Candidates
  <1>4. \A i, j \in 1..k : s[i].borrower = s[j].borrower => i = j
    BY <1>3 DEF IsInjective
  <1> QED
    BY <1>1, <1>2, <1>4

LEMMA ReuseIs ==
  ASSUME EvaluationInv, ReuseBaseline
  PROVE  /\ borrowers' \in Seq(Borrowers) /\ IsInjective(borrowers') /\ Len(borrowers') = N
         /\ baseline' \in Seq(Samples) /\ Len(baseline') = N
         /\ \A i \in 1..N : /\ baseline'[i].borrower = borrowers'[i]
                            /\ baseline'[i].ended \/ cut
PROOF
  <1>1. PICK s \in Candidates :
          LET order  == Balanced([i \in DOMAIN s |-> Profiles[s[i].borrower]], N)
              chosen == [i \in DOMAIN order |-> s[order[i]]]
          IN /\ Len(chosen) = N
             /\ baseline' = Rescored(chosen)
             /\ borrowers' = Reused(chosen)
    BY DEF ReuseBaseline
  <1>2. PICK k \in Nat : /\ s \in [1..k -> stored]
                         /\ \A i, j \in 1..k : s[i].borrower = s[j].borrower => i = j
    BY CandidatesAre
  <1>3. PICK persona : persona = [i \in 1..k |-> Profiles[s[i].borrower]]
    OBVIOUS
  <1>4. \A i \in 1..k : s[i].borrower \in Borrowers /\ s[i].said \in Said
    BY <1>2 DEF EvaluationInv, Types
  <1>5. persona \in Seq(STRING) /\ DOMAIN persona = 1..k
    <2>1. \A i \in 1..k : Profiles[s[i].borrower] \in STRING
      BY <1>4, ProfilesAre DEF Borrowers
    <2> QED
      BY <1>3, <2>1, SeqDef
  <1>6. PICK order : order = Balanced(persona, N)
    OBVIOUS
  <1>7. order \in Seq(1..k) /\ IsInjective(order)
    BY <1>5, <1>6, ProfilesAre, BalancedIs
  <1>8. PICK m \in Nat : DOMAIN order = 1..m /\ \A i \in 1..m : order[i] \in 1..k
    BY <1>7, LenProperties, ElementOfSeq
  <1>9. PICK chosen : chosen = [i \in 1..m |-> s[order[i]]]
    OBVIOUS
  <1>10. /\ Len(chosen) = N
         /\ baseline' = [i \in 1..N |-> Sample(chosen[i].borrower, chosen[i].said, chosen[i].said.outcome)]
         /\ borrowers' = Reused(chosen)
    <2>1. DOMAIN s = 1..k
      BY <1>2
    <2>2. order = Balanced([i \in DOMAIN s |-> Profiles[s[i].borrower]], N)
      BY <1>3, <1>6, <2>1
    <2>3. chosen = [i \in DOMAIN order |-> s[order[i]]]
      BY <1>8, <1>9
    <2>4. Len(chosen) = N /\ baseline' = Rescored(chosen) /\ borrowers' = Reused(chosen)
      BY <1>1, <2>2, <2>3
    <2> QED
      BY <2>4 DEF Rescored
  <1>11. \A i \in 1..m : chosen[i] \in stored /\ chosen[i].borrower \in Borrowers /\ chosen[i].said \in Said
    BY <1>2, <1>4, <1>8, <1>9
  <1>12. chosen \in Seq(stored)
    BY <1>9, <1>11, SeqDef
  <1>13. m = N /\ N \in Nat
    BY <1>9, <1>10, <1>12, LenProperties
  <1>14. borrowers' = [i \in 1..N |-> chosen[i].borrower]
    BY <1>9, <1>10, <1>13 DEF Reused
  <1>15. borrowers' \in Seq(Borrowers) /\ Len(borrowers') = N
    BY <1>11, <1>13, <1>14, SeqDef
  <1>16. IsInjective(borrowers')
    <2>1. \A i, j \in 1..N : borrowers'[i] = borrowers'[j] => order[i] = order[j]
      BY <1>2, <1>8, <1>9, <1>13, <1>14
    <2>2. \A i, j \in 1..N : order[i] = order[j] => i = j
      BY <1>7, <1>8, <1>13 DEF IsInjective
    <2> QED
      BY <1>14, <2>1, <2>2 DEF IsInjective
  <1>17. \A i \in 1..N :
           /\ Sample(chosen[i].borrower, chosen[i].said, chosen[i].said.outcome) \in Samples
           /\ Sample(chosen[i].borrower, chosen[i].said, chosen[i].said.outcome).borrower = chosen[i].borrower
           /\ Sample(chosen[i].borrower, chosen[i].said, chosen[i].said.outcome).ended
                = (chosen[i].said.outcome # NULL)
    BY <1>11, <1>13, SampleIs DEF EvaluationInv, Types
  <1>18. baseline' \in Seq(Samples) /\ Len(baseline') = N
    BY <1>10, <1>13, <1>17, SeqDef
  <1>19. ASSUME NEW i \in 1..N
         PROVE  baseline'[i].borrower = borrowers'[i] /\ (baseline'[i].ended \/ cut)
    <2>1. baseline'[i] = Sample(chosen[i].borrower, chosen[i].said, chosen[i].said.outcome)
      BY <1>10
    <2>2. baseline'[i].borrower = chosen[i].borrower
      BY <1>17, <2>1
    <2>3. baseline'[i].ended = (chosen[i].said.outcome # NULL)
      BY <1>17, <2>1
    <2>4. chosen[i].said.outcome = NULL => cut
      BY <1>11, <1>13 DEF EvaluationInv, OpenOnlyIfCut
    <2> QED
      BY <1>14, <2>2, <2>3, <2>4
  <1> QED
    BY <1>15, <1>16, <1>18, <1>19

LEMMA ReuseEvaluation == (EvaluationInv /\ ReuseBaseline) => EvaluationInv'
PROOF
  <1> SUFFICES ASSUME EvaluationInv, ReuseBaseline PROVE EvaluationInv'
    OBVIOUS
  <1>1. /\ borrowers' \in Seq(Borrowers) /\ IsInjective(borrowers') /\ Len(borrowers') = N
        /\ baseline' \in Seq(Samples) /\ Len(baseline') = N
        /\ \A i \in 1..N : baseline'[i].borrower = borrowers'[i]
    BY ReuseIs
  <1>2. /\ pc = "baseline" /\ pc' = "propose" /\ baseline = <<>>
        /\ UNCHANGED <<agent, stored, at, stage, scored, variant, checked, decision, cut>>
    BY DEF ReuseBaseline, checks, notes
  <1>3. at = 0
    BY <1>2, NothingMet DEF EvaluationInv, InStep, Met
  <1>4. Types'
    BY <1>1, <1>2 DEF EvaluationInv, Types
  <1>5. InStep'
    <2>1. Met(baseline, Len(borrowers))'
      BY <1>1 DEF Met
    <2> QED
      BY <1>1, <1>2, <1>3, <2>1 DEF InStep
  <1>6. OpenOnlyIfCut' /\ AdoptedAtGate'
    BY <1>2 DEF EvaluationInv, OpenOnlyIfCut, AdoptedAtGate
  <1> QED
    BY <1>4, <1>5, <1>6 DEF EvaluationInv

LEMMA StoreIs ==
  ASSUME Types, OpenOnlyIfCut, NEW b \in Borrowers, NEW k \in 1..3, NEW c \in Heard[Pipeline[k]],
         Store(b, c)
  PROVE  \A s \in stored' : /\ s.borrower \in Borrowers /\ s.said \in Said
                            /\ s.said.outcome = NULL => cut
PROOF
  <1>1. c \in Said /\ c.outcome # NULL
    BY HeardIs
  <1>2. PICK r : r = [borrower |-> b, said |-> c]
    OBVIOUS
  <1>3. r.borrower = b /\ r.said = c
    BY <1>2
  <1>4. \A s \in stored' : s \in stored \/ s = r
    BY <1>2 DEF Store
  <1> QED
    BY <1>1, <1>3, <1>4 DEF Types, OpenOnlyIfCut

LEMMA StoreOpenIs ==
  ASSUME Types, NEW b \in Borrowers, NEW k \in 1..3, NEW c \in Heard[Pipeline[k]],
         StoreOpen(b, c)
  PROVE  \A s \in stored' : s.borrower \in Borrowers /\ s.said \in Said
PROOF
  <1>1. c \in Said
    BY HeardIs
  <1>2. [c EXCEPT !.outcome = NULL] \in Said
    BY <1>1 DEF Said, Conversations
  <1>3. PICK r : r = [borrower |-> b, said |-> [c EXCEPT !.outcome = NULL]]
    OBVIOUS
  <1>4. r.borrower \in Borrowers /\ r.said \in Said
    BY <1>2, <1>3
  <1>5. \A s \in stored' : s \in stored \/ s = r
    BY <1>3 DEF StoreOpen
  <1> QED
    BY <1>4, <1>5 DEF Types

(* One more sample of a side, of the borrower whose turn it was.           *)
LEMMA OneMoreMet ==
  ASSUME NEW side \in Seq(Samples), NEW n \in Nat, Met(side, n), NEW e \in Samples,
         e.borrower = borrowers[n + 1]
  PROVE  Append(side, e) \in Seq(Samples) /\ Met(Append(side, e), n + 1)
PROOF
  <1>1. Len(side) = n /\ \A i \in 1..n : side[i].borrower = borrowers[i]
    BY DEF Met
  <1>2. PICK more : more = Append(side, e)
    OBVIOUS
  <1>3. /\ more \in Seq(Samples) /\ Len(more) = n + 1 /\ more[n + 1] = e
        /\ \A i \in 1..n : more[i] = side[i]
    BY <1>1, <1>2, AppendProperties
  <1>4. ASSUME NEW i \in 1..(n + 1) PROVE more[i].borrower = borrowers[i]
    <2>1. i \in 1..n \/ i = n + 1
      OBVIOUS
    <2> QED
      BY <1>1, <1>3, <2>1
  <1> QED
    BY <1>2, <1>3, <1>4 DEF Met

LEMMA LastStage ==
  ASSUME Types, NEW c \in Heard[Pipeline[stage]], GoesOn(c)
  PROVE  stage + 1 \in 1..3
PROOF
  <1>1. stage \in 1..3
    BY DEF Types
  <1>2. stage # 3
    <2>1. SUFFICES ASSUME stage = 3 PROVE FALSE
      OBVIOUS
    <2>2. c.outcome \in ConversationOutcomes(Pipeline[3])
      BY <1>1, <2>1, HeardIs
    <2>3. Pipeline[3] = "agent_3" /\ Stops[3] = ConversationOutcomes("agent_3")
      BY DEF Pipeline, Stops
    <2> QED
      BY <2>1, <2>2, <2>3 DEF GoesOn
  <1> QED
    BY <1>1, <1>2

(* What a conversation adds to the side at hand, if it was the last one of *)
(* the sample.                                                             *)
LEMMA HoldAdds ==
  ASSUME EvaluationInv, NEW c \in Heard[Pipeline[stage]], Hold(c)
  PROVE  \/ UNCHANGED <<baseline, variant, at>> /\ stage' = stage + 1 /\ GoesOn(c)
         \/ /\ at' = at + 1 /\ at + 1 \in 1..Len(borrowers) /\ stage' = First(mode)
            /\ \E e \in Samples :
                 /\ e.borrower = borrowers[at + 1] /\ e.ended
                 /\ \/ pc = "baseline" /\ baseline' = Append(baseline, e) /\ UNCHANGED variant
                    \/ pc = "variant" /\ variant' = Append(variant, e) /\ UNCHANGED baseline
PROOF
  <1>1. stage \in 1..3 /\ agent \in 1..3 /\ scored \in Said /\ at \in Nat /\ borrowers \in Seq(Borrowers)
    BY DEF EvaluationInv, Types
  <1>2. c \in Said /\ c.outcome # NULL
    BY <1>1, HeardIs
  <1>3. PICK said \in Said : said = IF stage = agent THEN c ELSE scored
    BY <1>1, <1>2
  <1>4. at + 1 \in 1..Len(borrowers) /\ borrowers[at + 1] \in Borrowers
    <2>1. at < Len(borrowers) /\ Len(borrowers) \in Nat
      BY <1>1, LenProperties DEF Hold
    <2>2. at + 1 \in 1..Len(borrowers)
      BY <1>1, <2>1
    <2> QED
      BY <1>1, <2>2, ElementOfSeq
  <1>5. CASE GoesOn(c) /\ stage' = stage + 1 /\ UNCHANGED <<at, sides>>
    BY <1>5 DEF sides
  <1>6. CASE Add(borrowers[at + 1], said, c.outcome) /\ at' = at + 1 /\ stage' = First(mode)
    <2>1. PICK e \in Samples : /\ e = Sample(borrowers[at + 1], said, c.outcome)
                               /\ e.borrower = borrowers[at + 1] /\ e.ended
      <3>1. PICK b \in Borrowers : b = borrowers[at + 1]
        BY <1>4
      <3>2. /\ Sample(b, said, c.outcome) \in Samples
            /\ Sample(b, said, c.outcome).borrower = b
            /\ Sample(b, said, c.outcome).ended = (c.outcome # NULL)
        BY <1>1, <3>1, SampleIs
      <3> QED
        BY <1>2, <3>1, <3>2
    <2>2. \/ pc = "baseline" /\ baseline' = Append(baseline, e) /\ UNCHANGED variant
          \/ pc = "variant" /\ variant' = Append(variant, e) /\ UNCHANGED baseline
      BY <1>6, <2>1 DEF Add, Hold
    <2> QED
      BY <1>4, <1>6, <2>1, <2>2
  <1> QED
    BY <1>3, <1>5, <1>6 DEF Hold

LEMMA HoldEvaluation ==
  ASSUME EvaluationInv, NEW c \in Heard[Pipeline[stage]], Hold(c)
  PROVE  EvaluationInv'
PROOF
  <1>1. /\ pc \in {"baseline", "variant"} /\ Store(borrowers[at + 1], c)
        /\ UNCHANGED <<agent, pc, borrowers, checked, decision, cut>>
        /\ scored' \in {c, scored, Missed}
    BY DEF Hold, checks, notes
  <1>2. stage \in 1..3 /\ agent \in 1..3 /\ at \in Nat /\ borrowers \in Seq(Borrowers)
    BY DEF EvaluationInv, Types
  <1>3. borrowers[at + 1] \in Borrowers
    <2>1. at < Len(borrowers) /\ Len(borrowers) \in Nat
      BY <1>2, LenProperties DEF Hold
    <2>2. at + 1 \in 1..Len(borrowers)
      BY <1>2, <2>1
    <2> QED
      BY <1>2, <2>2, ElementOfSeq
  <1>4. \A s \in stored' : /\ s.borrower \in Borrowers /\ s.said \in Said
                           /\ s.said.outcome = NULL => cut
    BY <1>1, <1>2, <1>3, StoreIs DEF EvaluationInv
  <1>5. scored' \in Said
    BY <1>1, <1>2, HeardIs, MissedIsSaid DEF EvaluationInv, Types
  <1>6. stage' \in 1..3
    <2>1. CASE GoesOn(c) /\ stage' = stage + 1
      BY <2>1, LastStage DEF EvaluationInv
    <2>2. CASE stage' = First(mode)
      BY <1>2, <2>2 DEF First
    <2> QED
      BY <2>1, <2>2, HoldAdds
  <1>7. CASE UNCHANGED <<baseline, variant, at>>
    <2>1. Types'
      BY <1>1, <1>4, <1>5, <1>6, <1>7 DEF EvaluationInv, Types
    <2>2. InStep'
      BY <1>1, <1>7 DEF EvaluationInv, InStep, Met
    <2>3. OpenOnlyIfCut' /\ AdoptedAtGate'
      BY <1>1, <1>4 DEF EvaluationInv, OpenOnlyIfCut, AdoptedAtGate
    <2> QED
      BY <2>1, <2>2, <2>3 DEF EvaluationInv
  <1>8. CASE /\ at' = at + 1 /\ at + 1 \in 1..Len(borrowers)
             /\ \E e \in Samples :
                  /\ e.borrower = borrowers[at + 1] /\ e.ended
                  /\ \/ pc = "baseline" /\ baseline' = Append(baseline, e) /\ UNCHANGED variant
                     \/ pc = "variant" /\ variant' = Append(variant, e) /\ UNCHANGED baseline
    <2>1. PICK e \in Samples :
            /\ e.borrower = borrowers[at + 1]
            /\ \/ pc = "baseline" /\ baseline' = Append(baseline, e) /\ UNCHANGED variant
               \/ pc = "variant" /\ variant' = Append(variant, e) /\ UNCHANGED baseline
      BY <1>8
    <2>2. baseline \in Seq(Samples) /\ variant \in Seq(Samples)
      BY DEF EvaluationInv, Types
    <2>3. CASE pc = "baseline" /\ baseline' = Append(baseline, e) /\ UNCHANGED variant
      <3>1. Met(baseline, at)
        BY <2>3 DEF EvaluationInv, InStep
      <3>2. baseline' \in Seq(Samples) /\ Met(baseline', at + 1)
        BY <1>2, <2>1, <2>2, <2>3, <3>1, OneMoreMet
      <3>3. Met(baseline, at)'
        BY <1>1, <1>8, <3>2 DEF Met
      <3>4. Types'
        BY <1>1, <1>2, <1>4, <1>5, <1>6, <1>8, <2>3, <3>2 DEF EvaluationInv, Types
      <3>5. InStep'
        BY <1>1, <1>8, <2>3, <3>3 DEF EvaluationInv, InStep
      <3>6. OpenOnlyIfCut' /\ AdoptedAtGate'
        BY <1>1, <1>4 DEF EvaluationInv, OpenOnlyIfCut, AdoptedAtGate
      <3> QED
        BY <3>4, <3>5, <3>6 DEF EvaluationInv
    <2>4. CASE pc = "variant" /\ variant' = Append(variant, e) /\ UNCHANGED baseline
      <3>1. Met(variant, at) /\ Met(baseline, Len(borrowers))
        BY <2>4 DEF EvaluationInv, InStep
      <3>2. variant' \in Seq(Samples) /\ Met(variant', at + 1)
        BY <1>2, <2>1, <2>2, <2>4, <3>1, OneMoreMet
      <3>3. Met(variant, at)' /\ Met(baseline, Len(borrowers))'
        BY <1>1, <1>8, <2>4, <3>1, <3>2 DEF Met
      <3>4. Types'
        BY <1>1, <1>2, <1>4, <1>5, <1>6, <1>8, <2>4, <3>2 DEF EvaluationInv, Types
      <3>5. InStep'
        BY <1>1, <1>8, <2>4, <3>3 DEF EvaluationInv, InStep
      <3>6. OpenOnlyIfCut' /\ AdoptedAtGate'
        BY <1>1, <1>4 DEF EvaluationInv, OpenOnlyIfCut, AdoptedAtGate
      <3> QED
        BY <3>4, <3>5, <3>6 DEF EvaluationInv
    <2> QED
      BY <2>1, <2>3, <2>4
  <1> QED
    BY <1>7, <1>8, HoldAdds

LEMMA EvaluatedEvaluation == (EvaluationInv /\ Evaluated) => EvaluationInv'
PROOF
  <1> SUFFICES ASSUME EvaluationInv, Evaluated PROVE EvaluationInv'
    OBVIOUS
  <1>1. /\ pc \in {"baseline", "variant"} /\ at = Len(borrowers) /\ at' = 0
        /\ pc' = IF pc = "baseline" THEN "propose" ELSE "gate"
        /\ UNCHANGED <<agent, stored, borrowers, stage, scored, baseline, variant, checked, decision, cut>>
    BY DEF Evaluated, sides, checks, notes
  <1>2. Types'
    BY <1>1 DEF EvaluationInv, Types
  <1>3. InStep'
    BY <1>1 DEF EvaluationInv, InStep, Met
  <1>4. OpenOnlyIfCut' /\ AdoptedAtGate'
    BY <1>1 DEF EvaluationInv, OpenOnlyIfCut, AdoptedAtGate
  <1> QED
    BY <1>2, <1>3, <1>4 DEF EvaluationInv

LEMMA NextVariantEvaluation == (EvaluationInv /\ NextVariant) => EvaluationInv'
PROOF
  <1> SUFFICES ASSUME EvaluationInv, NextVariant PROVE EvaluationInv'
    OBVIOUS
  <1>1. /\ pc = "propose" /\ pc' = "variant" /\ variant' = <<>> /\ decision' = NULL /\ checked' = 0
        /\ UNCHANGED <<agent, stored, borrowers, at, stage, scored, baseline, cut>>
    BY DEF NextVariant, notes
  <1>2. Types'
    BY <1>1, NothingMet DEF EvaluationInv, Types
  <1>3. InStep'
    <2>1. at = 0 /\ Met(baseline, Len(borrowers)) /\ IsInjective(borrowers)
      BY <1>1 DEF EvaluationInv, InStep
    <2>2. Met(baseline, Len(borrowers))' /\ Met(variant, 0)'
      BY <1>1, <2>1, NothingMet DEF Met
    <2>3. 0 <= Len(borrowers)
      BY LenProperties DEF EvaluationInv, Types
    <2> QED
      BY <1>1, <2>1, <2>2, <2>3 DEF InStep
  <1>4. OpenOnlyIfCut' /\ AdoptedAtGate'
    BY <1>1 DEF EvaluationInv, OpenOnlyIfCut, AdoptedAtGate, NULL
  <1> QED
    BY <1>2, <1>3, <1>4 DEF EvaluationInv

(* Gate, GateAgain and Reject touch no sample.                             *)
LEMMA JudgedEvaluation ==
  ASSUME EvaluationInv,
         UNCHANGED <<agent, stored, borrowers, at, stage, scored, baseline, variant, checked, cut>>,
         \/ pc = "gate" /\ pc' \in {"check", "decided"}
         \/ pc = "check" /\ pc' = "decided"
         \/ pc = "decided" /\ pc' = "propose" /\ decision # "adopt" /\ UNCHANGED decision
  PROVE  EvaluationInv'
PROOF
  <1>1. Types'
    BY DEF EvaluationInv, Types
  <1>2. InStep'
    BY DEF EvaluationInv, InStep, Met
  <1>3. OpenOnlyIfCut' /\ AdoptedAtGate'
    BY DEF EvaluationInv, OpenOnlyIfCut, AdoptedAtGate
  <1> QED
    BY <1>1, <1>2, <1>3 DEF EvaluationInv

LEMMA CheckEvaluation == (EvaluationInv /\ CheckPipelines) => EvaluationInv'
PROOF
  <1> SUFFICES ASSUME EvaluationInv, CheckPipelines PROVE EvaluationInv'
    OBVIOUS
  <1>1. /\ UNCHANGED <<agent, pc, borrowers, at, stage, scored, baseline, variant, decision>>
        /\ checked' = checked + 1
    BY DEF CheckPipelines, sides
  <1>2. agent \in 1..3 /\ checked \in Nat
    BY DEF EvaluationInv, Types
  <1>3. \A s \in stored' : s.borrower \in Borrowers /\ s.said \in Said /\ (s.said.outcome = NULL => cut')
    <2>1. CASE UNCHANGED <<stored, cut>>
      BY <2>1 DEF EvaluationInv, Types, OpenOnlyIfCut
    <2>2. ASSUME NEW c \in Heard[Pipeline[agent]],
                 \/ Store(Picked(NChecked)[checked + 1], c) /\ UNCHANGED cut
                 \/ StoreOpen(Picked(NChecked)[checked + 1], c) /\ cut' = TRUE
          PROVE  \A s \in stored' : s.borrower \in Borrowers /\ s.said \in Said /\ (s.said.outcome = NULL => cut')
      <3>1. PICK b \in Borrowers : b = Picked(NChecked)[checked + 1]
        <4>1. Picked(NChecked) \in Seq(Borrowers)
          BY EvaluationAssumption, PickedIs
        <4>2. checked + 1 \in 1..Len(Picked(NChecked))
          BY <1>2, <4>1, LenProperties DEF CheckPipelines
        <4> QED
          BY <4>1, <4>2, ElementOfSeq
      <3> QED
        BY <1>2, <2>2, <3>1, StoreIs, StoreOpenIs DEF EvaluationInv
    <2> QED
      BY <2>1, <2>2 DEF CheckPipelines
  <1>4. Types'
    BY <1>1, <1>3 DEF EvaluationInv, Types
  <1>5. InStep'
    BY <1>1 DEF EvaluationInv, InStep, Met
  <1>6. OpenOnlyIfCut' /\ AdoptedAtGate'
    BY <1>1, <1>3 DEF EvaluationInv, OpenOnlyIfCut, AdoptedAtGate
  <1> QED
    BY <1>4, <1>5, <1>6 DEF EvaluationInv

(* Whatever ends the iteration.                                            *)
LEMMA LeaveEvaluation ==
  ASSUME EvaluationInv, Leave, UNCHANGED agent,
         \A s \in stored' : /\ s.borrower \in Borrowers /\ s.said \in Said
                            /\ s.said.outcome = NULL => cut'
  PROVE  EvaluationInv'
PROOF
  <1>1. /\ pc' = "idle" /\ borrowers' = <<>> /\ at' = 0 /\ stage' = agent /\ scored' = Missed
        /\ baseline' = <<>> /\ variant' = <<>> /\ checked' = 0 /\ decision' = NULL
    BY DEF Leave
  <1>2. Types'
    BY <1>1, NothingMet, MissedIsSaid DEF EvaluationInv, Types
  <1>3. InStep'
    BY <1>1, NothingMet DEF InStep
  <1>4. OpenOnlyIfCut' /\ AdoptedAtGate'
    BY <1>1 DEF OpenOnlyIfCut, AdoptedAtGate, NULL
  <1> QED
    BY <1>2, <1>3, <1>4 DEF EvaluationInv

LEMMA CutOffEvaluation == (EvaluationInv /\ CutOff) => EvaluationInv'
PROOF
  <1> SUFFICES ASSUME EvaluationInv, CutOff PROVE EvaluationInv'
    OBVIOUS
  <1>1. Leave /\ UNCHANGED agent /\ cut' = (cut \/ stored' # stored)
    BY DEF CutOff
  <1>2. agent \in 1..3 /\ at \in Nat /\ borrowers \in Seq(Borrowers)
    BY DEF EvaluationInv, Types
  <1>3. CASE UNCHANGED stored
    <2>1. \A s \in stored' : /\ s.borrower \in Borrowers /\ s.said \in Said
                             /\ s.said.outcome = NULL => cut'
      BY <1>1, <1>3 DEF EvaluationInv, Types, OpenOnlyIfCut
    <2> QED
      BY <1>1, <2>1, LeaveEvaluation
  <1>4. CASE stored' # stored
    <2>1. at < Len(borrowers) /\ \E c \in Heard[Pipeline[agent]] : StoreOpen(borrowers[at + 1], c)
      BY <1>4 DEF CutOff
    <2>2. PICK b \in Borrowers : b = borrowers[at + 1]
      <3>1. at + 1 \in 1..Len(borrowers)
        BY <1>2, <2>1, LenProperties
      <3> QED
        BY <1>2, <3>1, ElementOfSeq
    <2>3. \A s \in stored' : s.borrower \in Borrowers /\ s.said \in Said
      BY <1>2, <2>1, <2>2, StoreOpenIs DEF EvaluationInv
    <2>4. cut'
      BY <1>1, <1>4
    <2> QED
      BY <1>1, <2>3, <2>4, LeaveEvaluation
  <1> QED
    BY <1>3, <1>4

LEMMA StutterEvaluation == (EvaluationInv /\ UNCHANGED vars) => EvaluationInv'
PROOF
  <1> SUFFICES ASSUME EvaluationInv, UNCHANGED vars PROVE EvaluationInv'
    OBVIOUS
  <1>1. UNCHANGED <<agent, stored, pc, borrowers, at, stage, scored, baseline, variant,
                    checked, decision, cut>>
    BY DEF vars, sides, checks, notes
  <1> QED
    BY <1>1 DEF EvaluationInv, Types, InStep, Met, OpenOnlyIfCut, AdoptedAtGate

LEMMA GateEvaluation == (EvaluationInv /\ Gate) => EvaluationInv'
PROOF
  <1> SUFFICES ASSUME EvaluationInv, Gate PROVE EvaluationInv'
    OBVIOUS
  <1>1. /\ pc = "gate" /\ pc' \in {"check", "decided"}
        /\ UNCHANGED <<agent, stored, borrowers, at, stage, scored, baseline, variant, checked, cut>>
    BY DEF Gate, sides, notes
  <1> QED
    BY <1>1, JudgedEvaluation

LEMMA NextEvaluation == (EvaluationInv /\ [Next]_vars) => EvaluationInv'
PROOF
  <1> SUFFICES ASSUME EvaluationInv, [Next]_vars PROVE EvaluationInv'
    OBVIOUS
  <1>1. CASE GateAgain
    <2>1. /\ pc = "check" /\ pc' = "decided"
          /\ UNCHANGED <<agent, stored, borrowers, at, stage, scored, baseline, variant, checked, cut>>
      BY <1>1 DEF GateAgain, sides, notes
    <2> QED
      BY <2>1, JudgedEvaluation
  <1>2. CASE Reject
    <2>1. /\ pc = "decided" /\ pc' = "propose" /\ decision # "adopt" /\ UNCHANGED decision
          /\ UNCHANGED <<agent, stored, borrowers, at, stage, scored, baseline, variant, checked, cut>>
      BY <1>2 DEF Reject, sides, checks, notes
    <2> QED
      BY <2>1, JudgedEvaluation
  <1>3. CASE Adopt
    <2>1. Leave /\ UNCHANGED agent /\ stored' = {}
      BY <1>3 DEF Adopt
    <2> QED
      BY <2>1, LeaveEvaluation
  <1>4. CASE NoVariantLeft
    <2>1. Leave /\ UNCHANGED <<agent, stored, cut>>
      BY <1>4 DEF NoVariantLeft, notes
    <2>2. \A s \in stored' : /\ s.borrower \in Borrowers /\ s.said \in Said
                             /\ s.said.outcome = NULL => cut'
      BY <2>1 DEF EvaluationInv, Types, OpenOnlyIfCut
    <2> QED
      BY <2>1, <2>2, LeaveEvaluation
  <1>5. CASE \E c \in Heard[Pipeline[stage]] : Hold(c)
    BY <1>5, HoldEvaluation
  <1>6. CASE UNCHANGED vars \/ Over
    BY <1>6, StutterEvaluation DEF Over
  <1> QED
    BY <1>1, <1>2, <1>3, <1>4, <1>5, <1>6, StartEvaluation, ReuseEvaluation, EvaluatedEvaluation,
       NextVariantEvaluation, GateEvaluation, CheckEvaluation, CutOffEvaluation DEF Next

(* Every variable has its type, and each side of the comparison has the    *)
(* samples of the borrowers it has been through, in their order.           *)
THEOREM EvaluationTypes == Spec => []EvaluationInv
PROOF
  <1> QED
    BY InitEvaluation, NextEvaluation, PTL DEF Spec

-----------------------------------------------------------------------------
LEMMA StepMatches == EvaluationInv => PairsMatch
PROOF
  <1> SUFFICES ASSUME EvaluationInv, pc = "gate"
               PROVE  /\ Column(baseline, "borrower") = Column(variant, "borrower")
                      /\ IsInjective(Column(baseline, "borrower"))
    BY DEF PairsMatch
  <1>1. PICK n \in Nat : n = Len(borrowers) /\ DOMAIN borrowers = 1..n
    BY LenProperties DEF EvaluationInv, Types
  <1>2. /\ DOMAIN baseline = 1..n /\ DOMAIN variant = 1..n
        /\ \A i \in 1..n : baseline[i].borrower = borrowers[i] /\ variant[i].borrower = borrowers[i]
    <2>1. Met(baseline, n) /\ Met(variant, n)
      BY <1>1 DEF EvaluationInv, InStep
    <2>2. baseline \in Seq(Samples) /\ variant \in Seq(Samples)
      BY DEF EvaluationInv, Types
    <2> QED
      BY <2>1, <2>2, LenProperties DEF Met
  <1>3. Column(baseline, "borrower") = [i \in 1..n |-> borrowers[i]]
    BY <1>2 DEF Column
  <1>4. Column(variant, "borrower") = [i \in 1..n |-> borrowers[i]]
    BY <1>2 DEF Column
  <1>5. \A i, j \in 1..n : borrowers[i] = borrowers[j] => i = j
    BY <1>1 DEF EvaluationInv, InStep, IsInjective
  <1>6. IsInjective(Column(baseline, "borrower"))
    BY <1>3, <1>5 DEF IsInjective
  <1> QED
    BY <1>3, <1>4, <1>6

(* The gate compares each borrower's score with his own, and none of them  *)
(* counts twice.                                                           *)
THEOREM ComparedWithHimself == Spec => []PairsMatch
PROOF
  <1> QED
    BY EvaluationTypes, StepMatches, PTL

-----------------------------------------------------------------------------
(* Which samples may be of a conversation that never ended.                *)
Whole ==
  /\ \A i \in DOMAIN variant : variant[i].ended
  /\ \A i \in DOMAIN baseline : baseline[i].ended \/ (mode = "isolated" /\ cut)

LEMMA OneMoreWhole ==
  ASSUME NEW side \in Seq(Samples), NEW e \in Samples, e.ended, NEW excuse \in BOOLEAN,
         \A i \in DOMAIN side : side[i].ended \/ excuse
  PROVE  \A i \in DOMAIN Append(side, e) : Append(side, e)[i].ended \/ excuse
PROOF
  <1>1. PICK more : more = Append(side, e)
    OBVIOUS
  <1>2. PICK n \in Nat : n = Len(side) /\ DOMAIN side = 1..n
    BY LenProperties
  <1>3. DOMAIN more = 1..(n + 1) /\ more[n + 1] = e /\ \A i \in 1..n : more[i] = side[i]
    BY <1>1, <1>2, AppendProperties, LenProperties
  <1>4. ASSUME NEW i \in 1..(n + 1) PROVE more[i].ended \/ excuse
    <2>1. i \in 1..n \/ i = n + 1
      OBVIOUS
    <2> QED
      BY <1>2, <1>3, <2>1
  <1> QED
    BY <1>1, <1>3, <1>4

LEMMA CutStays == [Next]_vars => (cut => cut')
PROOF
  BY DEF Next, StartIteration, ReuseBaseline, Hold, Evaluated, NextVariant, Gate, CheckPipelines,
         GateAgain, Adopt, Reject, NoVariantLeft, CutOff, Over, vars, notes

LEMMA NextWhole == (EvaluationInv /\ Whole /\ [Next]_vars) => Whole'
PROOF
  <1> SUFFICES ASSUME EvaluationInv, Whole, [Next]_vars PROVE Whole'
    OBVIOUS
  <1>1. CASE UNCHANGED <<baseline, variant, mode>>
    BY <1>1, CutStays DEF Whole
  <1>2. CASE baseline' = <<>> /\ variant' = <<>>
    BY <1>2 DEF Whole
  <1>3. CASE StartIteration
    <2>1. baseline = <<>> /\ variant = <<>> /\ UNCHANGED <<baseline, variant>>
      BY <1>3 DEF StartIteration, sides, EvaluationInv, InStep
    <2> QED
      BY <1>2, <2>1
  <1>4. CASE ReuseBaseline
    <2>1. /\ baseline' \in Seq(Samples) /\ Len(baseline') = N
          /\ \A i \in 1..N : baseline'[i].ended \/ cut
      BY <1>4, ReuseIs
    <2>2. mode' = "isolated" /\ cut' = cut /\ UNCHANGED variant
      BY <1>4 DEF ReuseBaseline, notes
    <2>3. DOMAIN baseline' = 1..N
      BY <2>1, LenProperties
    <2> QED
      BY <2>1, <2>2, <2>3 DEF Whole
  <1>5. CASE NextVariant
    BY <1>5, CutStays DEF NextVariant, Whole
  <1>6. ASSUME NEW c \in Heard[Pipeline[stage]], Hold(c) PROVE Whole'
    <2>1. UNCHANGED <<mode, cut>>
      BY <1>6 DEF Hold, notes
    <2>2. CASE UNCHANGED <<baseline, variant>>
      BY <1>1, <2>1, <2>2
    <2>3. ASSUME NEW e \in Samples, e.ended,
                 \/ baseline' = Append(baseline, e) /\ UNCHANGED variant
                 \/ variant' = Append(variant, e) /\ UNCHANGED baseline
          PROVE  Whole'
      <3>1. baseline \in Seq(Samples) /\ variant \in Seq(Samples)
        BY DEF EvaluationInv, Types
      <3>2. PICK excuse \in BOOLEAN : excuse <=> (mode = "isolated" /\ cut)
        <4>1. (mode = "isolated" /\ cut) \in BOOLEAN
          OBVIOUS
        <4> QED
          BY <4>1
      <3>3. \A i \in DOMAIN baseline : baseline[i].ended \/ excuse
        BY <3>2 DEF Whole
      <3>4. \A i \in DOMAIN variant : variant[i].ended \/ FALSE
        BY DEF Whole
      <3>5. CASE baseline' = Append(baseline, e) /\ UNCHANGED variant
        <4>1. \A i \in DOMAIN baseline' : baseline'[i].ended \/ excuse
          BY <2>3, <3>1, <3>3, <3>5, OneMoreWhole
        <4> QED
          BY <2>1, <3>2, <3>5, <4>1 DEF Whole
      <3>6. CASE variant' = Append(variant, e) /\ UNCHANGED baseline
        <4>1. \A i \in DOMAIN variant' : variant'[i].ended \/ FALSE
          BY <2>3, <3>1, <3>4, <3>6, OneMoreWhole
        <4> QED
          BY <2>1, <3>6, <4>1 DEF Whole
      <3> QED
        BY <2>3, <3>5, <3>6
    <2> QED
      BY <1>6, <2>2, <2>3, HoldAdds
  <1> QED
    BY <1>1, <1>2, <1>3, <1>4, <1>5, <1>6
       DEF Next, Evaluated, Gate, CheckPipelines, GateAgain, Adopt, Reject, NoVariantLeft, CutOff,
           Leave, Over, vars, sides, checks, notes

LEMMA WholeSamples == Whole => SamplesAreWhole
PROOF
  BY DEF Whole, SamplesAreWhole, Range

LEMMA InitWhole == Init => Whole
PROOF
  BY DEF Init, Whole

(* A conversation that never ended is scored only in a reused baseline,    *)
(* and only after an iteration was cut off.                                *)
THEOREM ScoredAreWhole == Spec => []SamplesAreWhole
PROOF
  <1>1. Spec => []Whole
    BY InitWhole, NextWhole, EvaluationTypes, PTL DEF Spec
  <1> QED
    BY <1>1, WholeSamples, PTL

-----------------------------------------------------------------------------
(* What the gate lets through.                                             *)

(* The body of AdoptedBeatsBaseline, of any two sides.                     *)
Beats(base, new) ==
  LET Of(side, b) == side[CHOOSE i \in DOMAIN side : side[i].borrower = b]
      Whom        == {s.borrower : s \in Range(base)}
      Total(side, name) == Sum(Column(side, name))
  IN /\ Total(new, "primary") > Total(base, "primary")
     /\ Total(new, "compliance") >= Total(base, "compliance")
     /\ \E b \in Whom : Of(new, b).primary > Of(base, b).primary
     /\ \E b \in Whom : Of(new, b).system >= Of(base, b).system
     /\ Cardinality(Whom) <= 2 => \E side \in {base, new} :
                                    \E s, t \in Range(side) : s.primary # t.primary

LEMMA BeatsAdopted == AdoptedBeatsBaseline <=> (decision = "adopt" => Beats(baseline, variant))
PROOF
  BY DEF AdoptedBeatsBaseline, Beats

LEMMA ColumnIs ==
  ASSUME NEW side \in Seq(Samples), NEW name \in {"primary", "compliance", "system"}
  PROVE  /\ Column(side, name) \in Seq(Nat) /\ Len(Column(side, name)) = Len(side)
         /\ \A i \in 1..Len(side) : Column(side, name)[i] = side[i][name] /\ side[i][name] \in Nat
PROOF
  <1>1. PICK n \in Nat : n = Len(side) /\ DOMAIN side = 1..n
    BY LenProperties
  <1>2. \A i \in 1..n : side[i] \in Samples
    BY <1>1, ElementOfSeq
  <1>3. \A i \in 1..n : side[i].primary \in Nat /\ side[i].compliance \in Nat /\ side[i].system \in Nat
    BY <1>2 DEF Samples
  <1>4. \A i \in 1..n : side[i][name] \in Nat
    <2>1. name = "primary" \/ name = "compliance" \/ name = "system"
      OBVIOUS
    <2> QED
      BY <1>3, <2>1
  <1>5. Column(side, name) = [i \in 1..n |-> side[i][name]]
    BY <1>1 DEF Column
  <1>6. Column(side, name) \in Seq(Nat) /\ Len(Column(side, name)) = n
    BY <1>4, <1>5, SeqDef
  <1> QED
    BY <1>1, <1>4, <1>5, <1>6

LEMMA SettledIs ==
  ASSUME NEW wins, NEW pairs, NEW answer \in Settled(wins, pairs)
  PROVE  /\ answer \in BOOLEAN
         /\ answer = TRUE => wins # {} \/ pairs = {}
         /\ answer = FALSE => wins # pairs
PROOF
  BY DEF Settled

(* Two equal numbers have no spread.                                       *)
LEMMA NoSpread ==
  ASSUME NEW s \in Seq(Nat), Len(s) = 2, s[1] = s[2]
  PROVE  Spread(s) = 0
PROOF
  <1>1. PICK x \in Nat : x = s[1] /\ x = s[2]
    BY NumbersOf
  <1>2. DOMAIN s = 1..2
    BY LenProperties
  <1>3. PICK q \in Nat : q = x * x
    OBVIOUS
  <1>4. PICK squares : squares = [i \in DOMAIN s |-> s[i] * s[i]]
    OBVIOUS
  <1>5. \A i \in 1..2 : i = 1 \/ i = 2
    OBVIOUS
  <1>6. squares = [i \in 1..2 |-> q]
    BY <1>1, <1>2, <1>3, <1>4, <1>5
  <1>7. squares \in Seq(Nat) /\ Len(squares) = 2 /\ squares[1] = q /\ squares[2] = q
    BY <1>6, SeqDef
  <1>8. Sum(squares) = q + q
    BY <1>7, SumIs
  <1>9. Sum(s) = x + x
    BY <1>1, SumIs
  <1>10. (x + x) * (x + x) = 4 * q
    BY <1>3
  <1>11. Spread(s) = 2 * (q + q) - 4 * q
    BY <1>4, <1>8, <1>9, <1>10 DEF Spread
  <1> QED
    BY <1>11

LEMMA LargeOrNot ==
  ASSUME NEW b, NEW v, NEW large \in LargeEnough(b, v)
  PROVE  large \in BOOLEAN
PROOF
  <1>1. PICK n, gain, effect, noise :
          /\ n = Len(b) /\ gain = Sum(v) - Sum(b)
          /\ effect = 200 * (n - 1) * gain * gain /\ noise = n * (Spread(b) + Spread(v))
    OBVIOUS
  <1>2. large \in IF gain <= 0 \/ n = 1 THEN {FALSE}
                  ELSE IF noise = 0 THEN (IF n = 2 THEN {FALSE} ELSE BOOLEAN)
                  ELSE IF effect = noise THEN BOOLEAN
                  ELSE {effect > noise}
    BY <1>1 DEF LargeEnough
  <1>3. (effect > noise) \in BOOLEAN
    OBVIOUS
  <1>4. {effect > noise} \subseteq BOOLEAN
    BY <1>3
  <1> QED
    BY <1>2, <1>4

LEMMA LargeMeans ==
  ASSUME NEW b \in Seq(Nat), NEW v \in Seq(Nat), Len(b) = Len(v), TRUE \in LargeEnough(b, v)
  PROVE  /\ Sum(v) > Sum(b) /\ Len(b) # 0 /\ Len(b) # 1
         /\ Len(b) = 2 => b[1] # b[2] \/ v[1] # v[2]
PROOF
  <1>1. PICK x \in Nat, y \in Nat : x = Sum(b) /\ y = Sum(v)
    BY SumIs
  <1>2. y - x > 0 /\ Len(b) # 1
    <2>1. Sum(v) - Sum(b) <= 0 \/ Len(b) = 1 => LargeEnough(b, v) = {FALSE}
      BY Zenon DEF LargeEnough
    <2>2. ~ (Sum(v) - Sum(b) <= 0) /\ Len(b) # 1
      BY <2>1
    <2> QED
      BY <1>1, <2>2
  <1>3. Len(b) # 0
    BY <1>1, <1>2, SumIs
  <1>4. ASSUME Len(b) = 2, b[1] = b[2], v[1] = v[2] PROVE FALSE
    <2>1. Spread(b) = 0 /\ Spread(v) = 0
      BY <1>4, NoSpread
    <2>2. Len(b) * (Spread(b) + Spread(v)) = 0
      BY <1>4, <2>1
    <2>3. LargeEnough(b, v) = {FALSE}
      BY <1>1, <1>2, <1>4, <2>2 DEF LargeEnough
    <2> QED
      BY <2>3
  <1>5. y > x
    BY <1>2
  <1> QED
    BY <1>1, <1>2, <1>3, <1>4, <1>5

LEMMA AdoptMeans ==
  ASSUME NEW better \in BOOLEAN, NEW large \in BOOLEAN, NEW worse \in BOOLEAN,
         Decision(better, large, worse) = "adopt"
  PROVE  /\ better = TRUE /\ large = TRUE /\ worse = FALSE
         /\ ~ (Sum(Column(variant, "compliance")) < Sum(Column(baseline, "compliance")))
PROOF
  BY DEF Decision

(* The gate finds each borrower's own sample on either side.               *)
LEMMA OfIs ==
  ASSUME NEW side \in Seq(Samples), NEW n \in Nat, n = Len(borrowers), borrowers \in Seq(Borrowers),
         Met(side, n), IsInjective(borrowers), NEW i \in 1..n
  PROVE  side[CHOOSE j \in DOMAIN side : side[j].borrower = borrowers[i]] = side[i]
PROOF
  <1>1. DOMAIN side = 1..n /\ \A j \in 1..n : side[j].borrower = borrowers[j]
    BY LenProperties DEF Met
  <1>2. \A j \in 1..n : borrowers[j] = borrowers[i] => j = i
    BY LenProperties DEF IsInjective
  <1>3. (CHOOSE j \in DOMAIN side : side[j].borrower = borrowers[i]) = i
    BY <1>1, <1>2
  <1> QED
    BY <1>3

LEMMA FirstNumbers ==
  ASSUME NEW n \in Nat
  PROVE  IsFiniteSet(1..n) /\ Cardinality(1..n) = n
PROOF
  BY FS_Interval

LEMMA WhomMany ==
  ASSUME NEW side \in Seq(Samples), NEW n \in Nat, n = Len(borrowers), borrowers \in Seq(Borrowers),
         Met(side, n), IsInjective(borrowers)
  PROVE  /\ Cardinality({s.borrower : s \in Range(side)}) = n
         /\ \A i \in 1..n : borrowers[i] \in {s.borrower : s \in Range(side)}
PROOF
  <1>1. DOMAIN side = 1..n /\ \A j \in 1..n : side[j].borrower = borrowers[j]
    BY LenProperties DEF Met
  <1>2. PICK whom : whom = {s.borrower : s \in Range(side)}
    OBVIOUS
  <1>3. PICK f : f = [i \in 1..n |-> borrowers[i]]
    OBVIOUS
  <1>4. \A i \in 1..n : borrowers[i] \in whom
    BY <1>1, <1>2 DEF Range
  <1>5. \A b \in whom : \E i \in 1..n : b = borrowers[i]
    BY <1>1, <1>2 DEF Range
  <1>6. \A i, j \in 1..n : borrowers[i] = borrowers[j] => i = j
    BY LenProperties DEF IsInjective
  <1>7. f \in Bijection(1..n, whom)
    BY <1>3, <1>4, <1>5, <1>6 DEF Bijection, Injection, Surjection, IsInjective
  <1>8. IsFiniteSet(1..n) /\ Cardinality(1..n) = n
    BY FirstNumbers
  <1>9. Cardinality(whom) = n
    BY <1>7, <1>8, FS_Bijection DEF ExistsBijection
  <1> QED
    BY <1>2, <1>4, <1>9

LEMMA GateBeats ==
  ASSUME EvaluationInv, Gate, decision' = "adopt"
  PROVE  Beats(baseline, variant)
PROOF
  <1>1. /\ pc = "gate"
        /\ borrowers \in Seq(Borrowers) /\ IsInjective(borrowers)
        /\ baseline \in Seq(Samples) /\ variant \in Seq(Samples)
        /\ Met(baseline, Len(borrowers)) /\ Met(variant, Len(borrowers))
    BY DEF Gate, EvaluationInv, Types, InStep
  <1>2. PICK n \in Nat : n = Len(borrowers)
    BY <1>1, LenProperties
  <1>3. Met(baseline, n) /\ Met(variant, n) /\ Len(baseline) = n /\ Len(variant) = n
    BY <1>1, <1>2 DEF Met
  <1>4. PICK b \in Seq(Nat), v \in Seq(Nat) : b = Column(baseline, "primary") /\ v = Column(variant, "primary")
    BY <1>1, ColumnIs
  <1>5. PICK c \in Seq(Nat), d \in Seq(Nat) : c = Column(baseline, "system") /\ d = Column(variant, "system")
    BY <1>1, ColumnIs
  <1>6. /\ Len(b) = n /\ DOMAIN b = 1..n /\ Len(v) = n
        /\ \A i \in 1..n : /\ b[i] = baseline[i].primary /\ v[i] = variant[i].primary
                           /\ b[i] \in Nat /\ v[i] \in Nat
    <2>1. DOMAIN b = 1..n /\ Len(b) = n /\ Len(v) = n
      BY <1>1, <1>3, <1>4, ColumnIs, LenProperties
    <2>2. \A i \in 1..n : b[i] = baseline[i].primary /\ b[i] \in Nat
      BY <1>1, <1>3, <1>4, ColumnIs
    <2>3. \A i \in 1..n : v[i] = variant[i].primary /\ v[i] \in Nat
      BY <1>1, <1>3, <1>4, ColumnIs
    <2> QED
      BY <2>1, <2>2, <2>3
  <1>7. /\ DOMAIN c = 1..n
        /\ \A i \in 1..n : /\ c[i] = baseline[i].system /\ d[i] = variant[i].system
                           /\ c[i] \in Nat /\ d[i] \in Nat
    <2>1. DOMAIN c = 1..n
      BY <1>1, <1>3, <1>5, ColumnIs, LenProperties
    <2>2. \A i \in 1..n : c[i] = baseline[i].system /\ c[i] \in Nat
      BY <1>1, <1>3, <1>5, ColumnIs
    <2>3. \A i \in 1..n : d[i] = variant[i].system /\ d[i] \in Nat
      BY <1>1, <1>3, <1>5, ColumnIs
    <2> QED
      BY <2>1, <2>2, <2>3
  <1>8. PICK better \in SurelyBetter(b, v), large \in LargeEnough(b, v), worse \in Worse(c, d) :
          decision' = Decision(better, large, worse)
    BY <1>4, <1>5 DEF Gate
  <1>9. /\ better \in BOOLEAN /\ (better = TRUE => {i \in DOMAIN b : v[i] > b[i]} # {} \/ DOMAIN b = {})
        /\ worse \in BOOLEAN /\ (worse = FALSE => {i \in DOMAIN c : d[i] < c[i]} # DOMAIN c)
    <2>1. PICK wins : wins = {i \in DOMAIN b : v[i] > b[i]}
      OBVIOUS
    <2>2. better \in Settled(wins, DOMAIN b)
      BY <1>8, <2>1 DEF SurelyBetter
    <2>3. PICK losses : losses = {i \in DOMAIN c : d[i] < c[i]}
      OBVIOUS
    <2>4. worse \in Settled(losses, DOMAIN c)
      BY <1>8, <2>3 DEF Worse
    <2>5. better \in BOOLEAN /\ (better = TRUE => wins # {} \/ DOMAIN b = {})
      BY <2>2, SettledIs
    <2>6. worse \in BOOLEAN /\ (worse = FALSE => losses # DOMAIN c)
      BY <2>4, SettledIs
    <2> QED
      BY <2>1, <2>3, <2>5, <2>6
  <1>10. large \in BOOLEAN
    BY <1>8, LargeOrNot
  <1>11. /\ better = TRUE /\ large = TRUE /\ worse = FALSE
         /\ ~ (Sum(Column(variant, "compliance")) < Sum(Column(baseline, "compliance")))
    BY <1>8, <1>9, <1>10, AdoptMeans
  <1>12. /\ Sum(v) > Sum(b) /\ n # 0 /\ n # 1
         /\ n = 2 => b[1] # b[2] \/ v[1] # v[2]
    BY <1>6, <1>8, <1>11, LargeMeans
  <1>13. Sum(Column(variant, "compliance")) >= Sum(Column(baseline, "compliance"))
    <2>1. PICK x \in Nat, y \in Nat :
            x = Sum(Column(variant, "compliance")) /\ y = Sum(Column(baseline, "compliance"))
      BY <1>1, ColumnIs, SumIs
    <2> QED
      BY <1>11, <2>1
  <1>14. PICK whom : whom = {s.borrower : s \in Range(baseline)}
    OBVIOUS
  <1>15. Cardinality(whom) = n /\ \A i \in 1..n : borrowers[i] \in whom
    BY <1>1, <1>2, <1>3, <1>14, WhomMany
  <1>16. ASSUME NEW i \in 1..n
         PROVE  /\ baseline[CHOOSE j \in DOMAIN baseline : baseline[j].borrower = borrowers[i]] = baseline[i]
                /\ variant[CHOOSE j \in DOMAIN variant : variant[j].borrower = borrowers[i]] = variant[i]
    BY <1>1, <1>2, <1>3, OfIs
  <1>17. \E x \in whom : variant[CHOOSE j \in DOMAIN variant : variant[j].borrower = x].primary
                       > baseline[CHOOSE j \in DOMAIN baseline : baseline[j].borrower = x].primary
    <2>1. DOMAIN b # {}
      <3>1. 1 \in 1..n
        BY <1>12
      <3> QED
        BY <1>6, <3>1
    <2>2. {i \in DOMAIN b : v[i] > b[i]} # {}
      BY <1>9, <1>11, <2>1
    <2>3. PICK i \in 1..n : v[i] > b[i]
      BY <1>6, <2>2
    <2>4. variant[i].primary > baseline[i].primary
      BY <1>6, <2>3
    <2> QED
      BY <1>15, <1>16, <2>4
  <1>18. \E x \in whom : variant[CHOOSE j \in DOMAIN variant : variant[j].borrower = x].system
                      >= baseline[CHOOSE j \in DOMAIN baseline : baseline[j].borrower = x].system
    <2>1. PICK i \in 1..n : ~ (d[i] < c[i])
      BY <1>7, <1>9, <1>11
    <2>2. variant[i].system >= baseline[i].system
      BY <1>7, <2>1
    <2> QED
      BY <1>15, <1>16, <2>2
  <1>19. n <= 2 => \E side \in {baseline, variant} : \E s, t \in Range(side) : s.primary # t.primary
    <2>1. SUFFICES ASSUME n <= 2
                   PROVE  \E side \in {baseline, variant} : \E s, t \in Range(side) : s.primary # t.primary
      OBVIOUS
    <2>2. n = 2
      BY <1>12, <2>1
    <2>3. DOMAIN baseline = 1..2 /\ DOMAIN variant = 1..2
      BY <1>1, <1>3, <2>2, LenProperties
    <2>4. 1 \in 1..2 /\ 2 \in 1..2
      OBVIOUS
    <2>5. CASE b[1] # b[2]
      <3>1. baseline[1].primary # baseline[2].primary
        BY <1>6, <2>2, <2>4, <2>5
      <3>2. baseline[1] \in Range(baseline) /\ baseline[2] \in Range(baseline)
        BY <2>3, <2>4 DEF Range
      <3> QED
        BY <3>1, <3>2
    <2>6. CASE v[1] # v[2]
      <3>1. variant[1].primary # variant[2].primary
        BY <1>6, <2>2, <2>4, <2>6
      <3>2. variant[1] \in Range(variant) /\ variant[2] \in Range(variant)
        BY <2>3, <2>4 DEF Range
      <3> QED
        BY <3>1, <3>2
    <2> QED
      BY <1>12, <2>2, <2>5, <2>6
  <1> QED
    BY <1>4, <1>12, <1>13, <1>14, <1>15, <1>17, <1>18, <1>19 DEF Beats

(* Nothing else adopts, and what is judged stays as it is until it is used.*)
LEMMA OnlyGateAdopts ==
  ASSUME EvaluationInv, [Next]_vars, ~ Gate, decision' = "adopt"
  PROVE  decision = "adopt" /\ UNCHANGED <<baseline, variant>>
PROOF
  <1>1. pc \notin {"check", "decided"} => decision # "adopt"
    BY DEF EvaluationInv, AdoptedAtGate
  <1>2. CASE GateAgain
    BY <1>2 DEF GateAgain, sides
  <1>3. CASE \E c \in Heard[Pipeline[stage]] : Hold(c)
    BY <1>1, <1>3 DEF Hold, checks
  <1>4. CASE StartIteration \/ ReuseBaseline \/ Evaluated
    BY <1>1, <1>4 DEF StartIteration, ReuseBaseline, Evaluated, checks
  <1>5. CASE NextVariant \/ Adopt \/ NoVariantLeft \/ CutOff
    BY <1>5 DEF NextVariant, Adopt, NoVariantLeft, CutOff, Leave, NULL
  <1>6. CASE CheckPipelines \/ Reject \/ Over \/ UNCHANGED vars
    BY <1>6 DEF CheckPipelines, Reject, Over, vars, sides, checks
  <1> QED
    BY <1>2, <1>3, <1>4, <1>5, <1>6 DEF Next

LEMMA NextBeats ==
  (EvaluationInv /\ AdoptedBeatsBaseline /\ [Next]_vars) => AdoptedBeatsBaseline'
PROOF
  <1> SUFFICES ASSUME EvaluationInv, AdoptedBeatsBaseline, [Next]_vars, decision' = "adopt"
               PROVE  Beats(baseline', variant')
    BY DEF AdoptedBeatsBaseline, Beats
  <1>1. CASE Gate
    <2>1. UNCHANGED <<baseline, variant>>
      BY <1>1 DEF Gate, sides
    <2> QED
      BY <1>1, <2>1, GateBeats
  <1>2. CASE ~ Gate
    <2>1. decision = "adopt" /\ UNCHANGED <<baseline, variant>>
      BY <1>2, OnlyGateAdopts
    <2> QED
      BY <2>1, BeatsAdopted
  <1> QED
    BY <1>1, <1>2

(* A variant is adopted only if it scored higher in all, and with at least *)
(* one borrower, without breaking more rules or ending every journey worse.*)
THEOREM AdoptedIsBetter == Spec => []AdoptedBeatsBaseline
PROOF
  <1>1. Init => AdoptedBeatsBaseline
    BY DEF Init, AdoptedBeatsBaseline, NULL
  <1> QED
    BY <1>1, EvaluationTypes, NextBeats, PTL DEF Spec

=============================================================================
