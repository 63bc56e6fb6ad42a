---------------------------- MODULE SequenceSets ----------------------------
(***************************************************************************)
(* What the queue operations do to the set of a sequence's elements, and   *)
(* to the fact that no element occurs twice; and the least element of a    *)
(* set of numbers.                                                         *)
(***************************************************************************)
EXTENDS SequencesExt, FiniteSetTheorems, SequenceTheorems, TLAPS

LEMMA ToSetAppend ==
  ASSUME NEW S, NEW s \in Seq(S), NEW x \in S
  PROVE  ToSet(Append(s, x)) = ToSet(s) \cup {x}
<1>1. /\ DOMAIN Append(s, x) = 1..(Len(s) + 1)
      /\ DOMAIN s = 1..Len(s)
      /\ \A k \in 1..Len(s) : Append(s, x)[k] = s[k]
      /\ Append(s, x)[Len(s) + 1] = x
      /\ Len(s) \in Nat
  OBVIOUS
<1>2. ASSUME NEW y \in ToSet(Append(s, x)) PROVE y \in ToSet(s) \cup {x}
  <2>1. PICK k \in 1..(Len(s) + 1) : y = Append(s, x)[k]
    BY <1>1 DEF ToSet
  <2>2. CASE k = Len(s) + 1
    BY <2>1, <2>2, <1>1
  <2>3. CASE k # Len(s) + 1
    BY <2>1, <2>3, <1>1 DEF ToSet
  <2> QED BY <2>2, <2>3
<1>3. ASSUME NEW y \in ToSet(s) \cup {x} PROVE y \in ToSet(Append(s, x))
  <2>1. CASE y = x
    BY <2>1, <1>1 DEF ToSet
  <2>2. CASE y \in ToSet(s)
    BY <2>2, <1>1 DEF ToSet
  <2> QED BY <2>1, <2>2
<1> QED BY <1>2, <1>3

LEMMA ToSetConcat ==
  ASSUME NEW S, NEW s \in Seq(S), NEW t \in Seq(S)
  PROVE  /\ ToSet(s \o t) = ToSet(s) \cup ToSet(t)
         /\ (IsInjective(s) /\ IsInjective(t) /\ ToSet(s) \cap ToSet(t) = {})
              => IsInjective(s \o t)
<1>1. /\ DOMAIN (s \o t) = 1..(Len(s) + Len(t))
      /\ DOMAIN s = 1..Len(s)
      /\ DOMAIN t = 1..Len(t)
      /\ Len(s) \in Nat /\ Len(t) \in Nat
      /\ \A k \in 1..Len(s) : (s \o t)[k] = s[k]
      /\ \A k \in 1..(Len(s) + Len(t)) : k > Len(s) => (s \o t)[k] = t[k - Len(s)]
  OBVIOUS
<1>2. ASSUME NEW y \in ToSet(s \o t) PROVE y \in ToSet(s) \cup ToSet(t)
  <2>1. PICK k \in 1..(Len(s) + Len(t)) : y = (s \o t)[k]
    BY <1>1 DEF ToSet
  <2>2. CASE k <= Len(s)
    BY <2>1, <2>2, <1>1 DEF ToSet
  <2>3. CASE k > Len(s)
    <3>1. k - Len(s) \in 1..Len(t) /\ y = t[k - Len(s)]
      BY <2>1, <2>3, <1>1
    <3> QED BY <3>1, <1>1 DEF ToSet
  <2> QED BY <2>2, <2>3, <1>1
<1>3. ASSUME NEW y \in ToSet(s) PROVE y \in ToSet(s \o t)
  <2>1. PICK k \in 1..Len(s) : y = s[k]
    BY <1>1 DEF ToSet
  <2>2. k \in 1..(Len(s) + Len(t)) /\ (s \o t)[k] = y
    BY <2>1, <1>1
  <2> QED BY <2>2, <1>1 DEF ToSet
<1>4. ASSUME NEW y \in ToSet(t) PROVE y \in ToSet(s \o t)
  <2>1. PICK k \in 1..Len(t) : y = t[k]
    BY <1>1 DEF ToSet
  <2>2. /\ k + Len(s) \in 1..(Len(s) + Len(t))
        /\ (k + Len(s)) - Len(s) = k
        /\ (s \o t)[k + Len(s)] = y
    BY <2>1, <1>1
  <2> QED BY <2>2, <1>1 DEF ToSet
<1>5. ASSUME IsInjective(s), IsInjective(t), ToSet(s) \cap ToSet(t) = {},
             NEW j \in DOMAIN (s \o t), NEW k \in DOMAIN (s \o t),
             (s \o t)[j] = (s \o t)[k]
      PROVE  j = k
  <2>1. j \in 1..(Len(s) + Len(t)) /\ k \in 1..(Len(s) + Len(t))
    BY <1>1
  <2>2. CASE j <= Len(s) /\ k <= Len(s)
    <3>1. j \in DOMAIN s /\ k \in DOMAIN s /\ s[j] = s[k]
      BY <2>1, <2>2, <1>5, <1>1
    <3> QED BY <3>1, <1>5 DEF IsInjective
  <2>3. CASE j > Len(s) /\ k > Len(s)
    <3>1. /\ j - Len(s) \in DOMAIN t /\ k - Len(s) \in DOMAIN t
          /\ t[j - Len(s)] = t[k - Len(s)]
      BY <2>1, <2>3, <1>5, <1>1
    <3>2. j - Len(s) = k - Len(s)
      BY <3>1, <1>5 DEF IsInjective
    <3> QED BY <3>2, <2>1, <1>1
  <2>4. CASE j <= Len(s) /\ k > Len(s)
    <3>1. /\ j \in DOMAIN s /\ (s \o t)[j] = s[j]
          /\ k - Len(s) \in DOMAIN t /\ (s \o t)[k] = t[k - Len(s)]
      BY <2>1, <2>4, <1>1
    <3> QED BY <3>1, <1>5 DEF ToSet
  <2>5. CASE j > Len(s) /\ k <= Len(s)
    <3>1. /\ k \in DOMAIN s /\ (s \o t)[k] = s[k]
          /\ j - Len(s) \in DOMAIN t /\ (s \o t)[j] = t[j - Len(s)]
      BY <2>1, <2>5, <1>1
    <3> QED BY <3>1, <1>5 DEF ToSet
  <2> QED BY <2>1, <2>2, <2>3, <2>4, <2>5, <1>1
<1> QED BY <1>2, <1>3, <1>4, <1>5 DEF IsInjective

LEMMA ToSetTail ==
  ASSUME NEW S, NEW s \in Seq(S), s # <<>>, IsInjective(s)
  PROVE  /\ Head(s) \in ToSet(s)
         /\ ToSet(Tail(s)) = ToSet(s) \ {Head(s)}
         /\ IsInjective(Tail(s))
<1>1. /\ Len(s) \in Nat \ {0}
      /\ DOMAIN s = 1..Len(s)
      /\ DOMAIN Tail(s) = 1..(Len(s) - 1)
      /\ Head(s) = s[1]
      /\ \A k \in 1..(Len(s) - 1) : Tail(s)[k] = s[k + 1]
  OBVIOUS
<1>2. Head(s) \in ToSet(s)
  BY <1>1 DEF ToSet
<1>3. ASSUME NEW y \in ToSet(Tail(s)) PROVE y \in ToSet(s) \ {Head(s)}
  <2>1. PICK k \in 1..(Len(s) - 1) : y = Tail(s)[k]
    BY <1>1 DEF ToSet
  <2>2. k + 1 \in DOMAIN s /\ 1 \in DOMAIN s /\ k + 1 # 1 /\ y = s[k + 1]
    BY <2>1, <1>1
  <2> QED BY <2>2, <1>1 DEF ToSet, IsInjective
<1>4. ASSUME NEW y \in ToSet(s) \ {Head(s)} PROVE y \in ToSet(Tail(s))
  <2>1. PICK k \in 1..Len(s) : y = s[k]
    BY <1>1 DEF ToSet
  <2>2. k # 1
    BY <2>1, <1>1
  <2>3. k - 1 \in 1..(Len(s) - 1) /\ (k - 1) + 1 = k
    BY <2>1, <2>2, <1>1
  <2>4. Tail(s)[k - 1] = y
    BY <2>1, <2>3, <1>1
  <2> QED BY <2>3, <2>4, <1>1 DEF ToSet
<1>5. ASSUME NEW j \in DOMAIN Tail(s), NEW k \in DOMAIN Tail(s), Tail(s)[j] = Tail(s)[k]
      PROVE  j = k
  <2>1. /\ j + 1 \in DOMAIN s /\ k + 1 \in DOMAIN s /\ s[j + 1] = s[k + 1]
        /\ j \in Nat /\ k \in Nat
    BY <1>1, <1>5
  <2>2. j + 1 = k + 1
    BY <2>1 DEF IsInjective
  <2> QED BY <2>1, <2>2
<1> QED BY <1>2, <1>3, <1>4, <1>5 DEF IsInjective

LEMMA InjectiveAppend ==
  ASSUME NEW S, NEW s \in Seq(S), NEW x \in S, IsInjective(s), x \notin ToSet(s)
  PROVE  IsInjective(Append(s, x))
<1>1. /\ DOMAIN Append(s, x) = 1..(Len(s) + 1)
      /\ DOMAIN s = 1..Len(s) /\ Len(s) \in Nat
      /\ \A k \in 1..Len(s) : Append(s, x)[k] = s[k]
      /\ Append(s, x)[Len(s) + 1] = x
  OBVIOUS
<1>2. \A k \in 1..Len(s) : s[k] # x
  BY <1>1 DEF ToSet
<1> QED BY <1>1, <1>2 DEF IsInjective

\* A sequence without its first n elements.
LEMMA ToSetSuffix ==
  ASSUME NEW S, NEW s \in Seq(S), IsInjective(s), NEW n \in 0..Len(s)
  PROVE  /\ SubSeq(s, n + 1, Len(s)) \in Seq(S)
         /\ Len(SubSeq(s, n + 1, Len(s))) = Len(s) - n
         /\ IsInjective(SubSeq(s, n + 1, Len(s)))
         /\ ToSet(SubSeq(s, n + 1, Len(s))) = ToSet(s) \ {s[k] : k \in 1..n}
<1> DEFINE r == SubSeq(s, n + 1, Len(s))
<1>1. Len(s) \in Nat /\ DOMAIN s = 1..Len(s) /\ n \in Nat /\ n <= Len(s)
  OBVIOUS
<1>2. r \in Seq(S) /\ Len(r) = Len(s) - n /\ \A k \in 1..Len(r) : r[k] = s[k + n]
  <2>1. n + 1 \in Int /\ Len(s) \in Int /\ \A k \in n + 1..Len(s) : s[k] \in S
    BY <1>1
  <2>2. /\ r \in Seq(S)
        /\ Len(r) = IF n + 1 <= Len(s) THEN Len(s) - (n + 1) + 1 ELSE 0
        /\ \A k \in 1..Len(s) - (n + 1) + 1 : r[k] = s[n + 1 + k - 1]
    BY <2>1, SubSeqProperties
  <2> HIDE DEF r
  <2>3. Len(r) = Len(s) - n
    <3> DEFINE l == Len(s)
    <3>1. l \in Nat /\ n \in Nat /\ n <= l
      BY <1>1
    <3>2. Len(r) = IF n + 1 <= l THEN l - (n + 1) + 1 ELSE 0
      BY <2>2
    <3> HIDE DEF l
    <3>3. Len(r) = l - n
      BY <3>1, <3>2
    <3> QED BY <3>3 DEF l
  <2>4. ASSUME NEW k \in 1..Len(r) PROVE r[k] = s[k + n]
    <3>1. k \in 1..Len(s) - (n + 1) + 1 /\ n + 1 + k - 1 = k + n
      BY <1>1, <2>3
    <3> QED BY <2>2, <3>1
  <2> QED BY <2>2, <2>3, <2>4
<1> HIDE DEF r
<1>3. DOMAIN r = 1..(Len(s) - n)
  BY <1>1, <1>2
<1>4. IsInjective(r)
  <2> SUFFICES ASSUME NEW j \in DOMAIN r, NEW k \in DOMAIN r, r[j] = r[k]
               PROVE  j = k
    BY DEF IsInjective
  <2>1. j + n \in DOMAIN s /\ k + n \in DOMAIN s /\ s[j + n] = s[k + n]
    BY <1>1, <1>2, <1>3
  <2>2. j + n = k + n
    BY <2>1 DEF IsInjective
  <2> QED BY <1>1, <1>3, <2>2
<1>5. ASSUME NEW y \in ToSet(r) PROVE y \in ToSet(s) \ {s[k] : k \in 1..n}
  <2>1. PICK j \in 1..(Len(s) - n) : y = r[j]
    BY <1>3 DEF ToSet
  <2>2. j + n \in DOMAIN s /\ y = s[j + n] /\ j + n > n
    BY <1>1, <1>2, <1>3, <2>1
  <2>3. \A k \in 1..n : k \in DOMAIN s /\ k # j + n
    BY <1>1, <2>2
  <2>4. \A k \in 1..n : s[k] # y
    BY <2>2, <2>3 DEF IsInjective
  <2> QED BY <2>2, <2>4 DEF ToSet
<1>6. ASSUME NEW y \in ToSet(s) \ {s[k] : k \in 1..n} PROVE y \in ToSet(r)
  <2>1. PICK k \in 1..Len(s) : y = s[k]
    BY <1>1 DEF ToSet
  <2>2. k \notin 1..n
    BY <2>1
  <2>3. k - n \in 1..(Len(s) - n) /\ (k - n) + n = k
    BY <1>1, <2>1, <2>2
  <2>4. r[k - n] = y
    BY <1>1, <1>2, <2>1, <2>3
  <2> QED BY <1>3, <2>3, <2>4 DEF ToSet
<1> QED BY <1>2, <1>4, <1>5, <1>6 DEF r

\* No element twice: as many elements as positions.
LEMMA ToSetCardinality ==
  ASSUME NEW S, NEW s \in Seq(S), IsInjective(s)
  PROVE  IsFiniteSet(ToSet(s)) /\ Cardinality(ToSet(s)) = Len(s)
<1>1. Len(s) \in Nat /\ DOMAIN s = 1..Len(s) /\ s = [k \in 1..Len(s) |-> s[k]]
  OBVIOUS
<1>2. s \in Bijection(1..Len(s), ToSet(s))
  BY <1>1 DEF Bijection, Injection, Surjection, IsInjective, ToSet
<1>3. ExistsBijection(1..Len(s), ToSet(s))
  BY <1>2 DEF ExistsBijection
<1>4. IsFiniteSet(1..Len(s)) /\ Cardinality(1..Len(s)) = Len(s)
  <2>1. 1 \in Int /\ Len(s) \in Int
    BY <1>1
  <2>2. IsFiniteSet(1..Len(s)) /\ Cardinality(1..Len(s)) = IF 1 > Len(s) THEN 0 ELSE Len(s) - 1 + 1
    BY <2>1, FS_Interval
  <2> QED BY <1>1, <2>2
<1> QED BY <1>3, <1>4, FS_Bijection

\* A finite set, listed: every element once.
LEMMA SetListed ==
  ASSUME NEW S, IsFiniteSet(S)
  PROVE  /\ SetToSeq(S) \in Seq(S) /\ IsInjective(SetToSeq(S))
         /\ Len(SetToSeq(S)) = Cardinality(S) /\ Cardinality(S) \in Nat
         /\ (SetToSeq(S) = <<>> <=> S = {})
<1> DEFINE n == Cardinality(S)
<1>1. PICK m \in Nat : ExistsBijection(1..m, S)
  BY FS_NatBijection
<1>2. m = n
  BY <1>1, FS_CountingElements
<1>3. \E f \in [1..n -> S] : IsInjective(f)
  BY <1>1, <1>2 DEF ExistsBijection, Bijection, Injection
<1>4. SetToSeq(S) \in [1..n -> S] /\ IsInjective(SetToSeq(S))
  BY <1>3 DEF SetToSeq
<1>5. n \in Nat /\ (n = 0 <=> S = {})
  BY FS_CardinalityType, FS_EmptySet
<1> HIDE DEF n
<1>6. SetToSeq(S) \in Seq(S) /\ Len(SetToSeq(S)) = n
  BY <1>4, <1>5
<1>7. SetToSeq(S) = <<>> <=> n = 0
  BY <1>5, <1>6
<1> QED BY <1>4, <1>5, <1>6, <1>7 DEF n

\* Every set of natural numbers that has an element has a least one.
LEMMA LeastNumber ==
  ASSUME NEW S \in SUBSET Nat, S # {}
  PROVE  Min(S) \in S /\ \A y \in S : Min(S) <= y
<1>1. IsWellFoundedOn(OpToRel(<, Nat), Nat)
  BY NatLessThanWellFounded
<1>2. PICK x \in S : \A y \in S : ~ <<y, x>> \in OpToRel(<, Nat)
  BY <1>1, WFMin
<1>3. \A y \in S : ~ (y < x)
  BY <1>2 DEF OpToRel
<1>4. \A y \in S : x <= y
  BY <1>3
<1> QED BY <1>4 DEF Min

\* Every finite set of integers that has an element has a greatest one: a smallest set
\* without one would have one as soon as an element is taken out.
LEMMA GreatestInteger ==
  ASSUME NEW S \in SUBSET Int, S # {}, IsFiniteSet(S)
  PROVE  Max(S) \in S /\ \A y \in S : y <= Max(S)
<1> DEFINE Bad == {T \in SUBSET Int : /\ T # {} /\ IsFiniteSet(T)
                                     /\ \A x \in T : \E y \in T : ~ (y <= x)}
           Sizes == {Cardinality(T) : T \in Bad}
<1>1. Bad = {}
  <2> SUFFICES ASSUME Bad # {} PROVE FALSE
    OBVIOUS
  <2>1. Sizes \in SUBSET Nat /\ Sizes # {}
    BY FS_CardinalityType
  <2>2. Min(Sizes) \in Sizes /\ \A n \in Sizes : Min(Sizes) <= n
    <3> HIDE DEF Sizes
    <3> QED BY <2>1, LeastNumber
  <2>3. PICK T \in Bad : \A V \in Bad : Cardinality(T) <= Cardinality(V)
    BY <2>2
  <2>4. PICK x \in T : TRUE
    OBVIOUS
  <2> DEFINE R == T \ {x}
  <2>5. R \in SUBSET Int /\ IsFiniteSet(R) /\ Cardinality(R) = Cardinality(T) - 1
        /\ Cardinality(T) \in Nat /\ x \in Int
    BY FS_RemoveElement, FS_CardinalityType
  <2>6. R \notin Bad
    <3> HIDE DEF Bad
    <3> QED BY <2>3, <2>5
  <2>7. R # {}
    BY <2>5
  <2>8. PICK m \in R : \A y \in R : y <= m
    BY <2>5, <2>6, <2>7
  <2>9. m \in Int /\ \A y \in T : y = x \/ y <= m
    BY <2>8
  <2>10. \E z \in T : \A y \in T : y <= z
    <3>1. CASE x <= m
      BY <2>8, <2>9, <3>1
    <3>2. CASE ~ (x <= m)
      <4>1. \A y \in T : y \in Int
        OBVIOUS
      <4>2. \A y \in T : y <= x
        BY <2>5, <2>9, <3>2, <4>1
      <4> QED BY <2>4, <4>2
    <3> QED BY <3>1, <3>2
  <2> QED BY <2>10
<1>2. PICK x \in S : \A y \in S : y <= x
  BY <1>1
<1>3. \A y \in S : x >= y
  BY <1>2
<1> QED BY <1>3 DEF Max

LEMMA GreatestNumber ==
  ASSUME NEW S \in SUBSET Nat, S # {}, IsFiniteSet(S)
  PROVE  Max(S) \in S /\ \A y \in S : y <= Max(S)
<1>1. S \in SUBSET Int
  OBVIOUS
<1> QED BY <1>1, GreatestInteger

\* Consecutive numbers are told by the last one and by how many there are.
LEMMA RunOfNumbers ==
  ASSUME NEW S \in SUBSET Nat, S # {}, IsFiniteSet(S),
         \A i, j \in S : \A k \in i..j : k \in S
  PROVE  /\ Cardinality(S) \in Nat
         /\ S = (Max(S) + 1 - Cardinality(S))..Max(S)
<1>1. /\ Max(S) \in S /\ \A y \in S : y <= Max(S)
      /\ Min(S) \in S /\ \A y \in S : Min(S) <= y
  BY GreatestNumber, LeastNumber
<1> DEFINE a == Min(S)
           b == Max(S)
<1>2. a \in Nat /\ b \in Nat /\ a <= b
  BY <1>1
<1>3. S = a..b
  <2>1. a..b \subseteq S
    BY <1>1
  <2>2. ASSUME NEW y \in S PROVE y \in a..b
    BY <1>1, <1>2
  <2> QED BY <2>1, <2>2
<1>4. Cardinality(a..b) = b - a + 1
  <2> HIDE DEF a, b
  <2>1. a \in Int /\ b \in Int
    BY <1>2
  <2>2. Cardinality(a..b) = IF a > b THEN 0 ELSE b - a + 1
    BY <2>1, FS_Interval
  <2> QED BY <1>2, <2>2
<1>5. Cardinality(S) = b - a + 1
  BY <1>3, <1>4
<1> HIDE DEF a, b
<1>6. Cardinality(S) \in Nat /\ b + 1 - Cardinality(S) = a
  BY <1>2, <1>5
<1> QED BY <1>3, <1>6 DEF b

\* Numbers in order stay in order when a greater one, or a sequence of greater ones, is added.
LEMMA IncreasingConcat ==
  ASSUME NEW S \in SUBSET Int, NEW s \in Seq(S), NEW t \in Seq(S),
         \A j, k \in DOMAIN s : j < k => s[j] < s[k],
         \A j, k \in DOMAIN t : j < k => t[j] < t[k],
         \A x \in ToSet(s), y \in ToSet(t) : x < y
  PROVE  \A j, k \in DOMAIN (s \o t) : j < k => (s \o t)[j] < (s \o t)[k]
<1> DEFINE c == s \o t
<1>1. /\ DOMAIN c = 1..(Len(s) + Len(t))
      /\ DOMAIN s = 1..Len(s) /\ DOMAIN t = 1..Len(t)
      /\ Len(s) \in Nat /\ Len(t) \in Nat
      /\ \A k \in 1..(Len(s) + Len(t)) : c[k] = IF k <= Len(s) THEN s[k] ELSE t[k - Len(s)]
  OBVIOUS
<1> HIDE DEF c
<1> SUFFICES ASSUME NEW j \in DOMAIN c, NEW k \in DOMAIN c, j < k PROVE c[j] < c[k]
  BY DEF c
<1>2. CASE k <= Len(s)
  <2>1. j \in DOMAIN s /\ k \in DOMAIN s /\ c[j] = s[j] /\ c[k] = s[k]
    BY <1>1, <1>2
  <2> QED BY <2>1
<1>3. CASE j <= Len(s) /\ ~ (k <= Len(s))
  <2>1. j \in DOMAIN s /\ k - Len(s) \in DOMAIN t /\ c[j] = s[j] /\ c[k] = t[k - Len(s)]
    BY <1>1, <1>3
  <2>2. c[j] \in ToSet(s) /\ c[k] \in ToSet(t)
    BY <2>1 DEF ToSet
  <2> QED BY <2>2
<1>4. CASE ~ (j <= Len(s)) /\ ~ (k <= Len(s))
  <2>1. /\ j - Len(s) \in DOMAIN t /\ k - Len(s) \in DOMAIN t /\ j - Len(s) < k - Len(s)
        /\ c[j] = t[j - Len(s)] /\ c[k] = t[k - Len(s)]
    BY <1>1, <1>4
  <2> QED BY <2>1
<1> QED BY <1>1, <1>2, <1>3, <1>4

LEMMA IncreasingAppend ==
  ASSUME NEW S \in SUBSET Int, NEW s \in Seq(S), NEW x \in S,
         \A j, k \in DOMAIN s : j < k => s[j] < s[k],
         \A y \in ToSet(s) : y < x
  PROVE  \A j, k \in DOMAIN Append(s, x) : j < k => Append(s, x)[j] < Append(s, x)[k]
<1>1. Append(s, x) = s \o <<x>> /\ <<x>> \in Seq(S)
  OBVIOUS
<1>2. DOMAIN <<x>> = {1} /\ ToSet(<<x>>) = {x}
  BY DEF ToSet
<1>3. \A j, k \in DOMAIN <<x>> : j < k => <<x>>[j] < <<x>>[k]
  BY <1>2
<1>4. \A y \in ToSet(s), z \in ToSet(<<x>>) : y < z
  BY <1>2
<1>5. \A j, k \in DOMAIN (s \o <<x>>) : j < k => (s \o <<x>>)[j] < (s \o <<x>>)[k]
  BY <1>1, <1>3, <1>4, IncreasingConcat
<1> QED BY <1>1, <1>5
=============================================================================
