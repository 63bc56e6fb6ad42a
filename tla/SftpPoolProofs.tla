---------------------------- MODULE SftpPoolProofs ----------------------------
(***************************************************************************)
(* The safety of the SFTP pool, for every set of tasks and every limit:    *)
(* leases are exclusive, _total counts what it should, the limit is passed *)
(* by no more than the tasks that were creating, and nobody waits for      *)
(* nothing until a connection is dropped.  IInv (in SftpPool) is           *)
(* inductive; the steps are taken apart by the operations that acquire,    *)
(* release and close share.                                                *)
(***************************************************************************)
EXTENDS SftpPool, SequenceSets

\* The total, counted where the connections are.
Counted == total = Len(idle) + Cardinality(InUse) + Cardinality(With("recreating")) + leaked

-----------------------------------------------------------------------------
(* Counting *)

LEMMA Finite ==
  ASSUME TypeOK
  PROVE  /\ IsFiniteSet(Conns) /\ Cardinality(Conns) = NumConns
         /\ IsFiniteSet(InUse) /\ Cardinality(InUse) \in Nat
         /\ IsFiniteSet(ToSet(idle)) /\ Cardinality(ToSet(idle)) = Len(idle) /\ Len(idle) \in Nat
         /\ \A s : IsFiniteSet(With(s)) /\ Cardinality(With(s)) \in Nat
         /\ Cardinality(Tasks) \in Nat /\ Cardinality(Tasks) >= 1
<1> USE PoolAssumption
<1>1. IsFiniteSet(Conns) /\ Cardinality(Conns) = NumConns
  <2>1. 1 \in Int /\ NumConns \in Int /\ NumConns >= 0
    OBVIOUS
  <2>2. IsFiniteSet(1..NumConns)
        /\ Cardinality(1..NumConns) = IF 1 > NumConns THEN 0 ELSE NumConns - 1 + 1
    BY <2>1, FS_Interval
  <2> QED BY <2>1, <2>2 DEF Conns
<1>2. InUse \in SUBSET Conns
  BY DEF TypeOK, InUse
<1>3. IsFiniteSet(InUse) /\ Cardinality(InUse) \in Nat
  BY <1>1, <1>2, FS_Subset, FS_CardinalityType
<1>4. IsFiniteSet(ToSet(idle)) /\ Cardinality(ToSet(idle)) = Len(idle) /\ Len(idle) \in Nat
  BY ToSetCardinality DEF TypeOK
<1>5. ASSUME NEW s PROVE IsFiniteSet(With(s)) /\ Cardinality(With(s)) \in Nat
  <2>1. With(s) \in SUBSET Tasks
    BY DEF With
  <2> QED BY <2>1, FS_Subset, FS_CardinalityType
<1>6. Cardinality(Tasks) \in Nat /\ Cardinality(Tasks) # 0
  BY FS_CardinalityType, FS_EmptySet
<1> QED BY <1>1, <1>3, <1>4, <1>5, <1>6

\* In either place, never in both: the open connections are the sum.
LEMMA OpenCount ==
  ASSUME TypeOK, ToSet(idle) \cap InUse = {}
  PROVE  Cardinality(Open) = Len(idle) + Cardinality(InUse)
<1>1. Cardinality(ToSet(idle) \cup InUse)
        = Cardinality(ToSet(idle)) + Cardinality(InUse) - Cardinality(ToSet(idle) \cap InUse)
  BY Finite, FS_Union
<1>2. Cardinality(ToSet(idle) \cap InUse) = 0
  BY FS_EmptySet
<1> QED BY <1>1, <1>2, Finite DEF Open

\* A task goes from one state to another.
LEMMA Moved ==
  ASSUME TypeOK, NEW t \in Tasks, NEW s \in TaskStates, at' = [at EXCEPT ![t] = s]
  PROVE  /\ at' \in [Tasks -> TaskStates] /\ at'[t] = s
         /\ \A u \in Tasks \ {t} : at'[u] = at[u]
         /\ \A x : With(x)' = IF s = x THEN With(x) \cup {t} ELSE With(x) \ {t}
         /\ \A x : Cardinality(With(x)') =
              Cardinality(With(x)) + (IF s = x /\ at[t] # x THEN 1 ELSE 0)
                                   - (IF s # x /\ at[t] = x THEN 1 ELSE 0)
<1>1. at' \in [Tasks -> TaskStates] /\ at'[t] = s /\ \A u \in Tasks \ {t} : at'[u] = at[u]
  BY DEF TypeOK
<1>2. ASSUME NEW x
      PROVE  With(x)' = IF s = x THEN With(x) \cup {t} ELSE With(x) \ {t}
  BY <1>1 DEF With
<1>3. ASSUME NEW x
      PROVE  Cardinality(With(x)') =
               Cardinality(With(x)) + (IF s = x /\ at[t] # x THEN 1 ELSE 0)
                                    - (IF s # x /\ at[t] = x THEN 1 ELSE 0)
  <2>1. IsFiniteSet(With(x)) /\ Cardinality(With(x)) \in Nat
    BY Finite
  <2>2. t \in With(x) <=> at[t] = x
    BY DEF With
  <2>3. CASE s = x
    BY <1>2, <2>1, <2>2, <2>3, FS_AddElement
  <2>4. CASE s # x
    BY <1>2, <2>1, <2>2, <2>4, FS_RemoveElement
  <2> QED BY <2>3, <2>4
<1> QED BY <1>1, <1>2, <1>3

\* The cardinalities the counters are compared with, by name.
LEMMA Sizes ==
  ASSUME TypeOK
  PROVE  /\ Len(idle) \in Nat /\ Cardinality(InUse) \in Nat /\ Cardinality(Tasks) \in Nat
         /\ Cardinality(With("creating")) \in Nat /\ Cardinality(With("recreating")) \in Nat
         /\ total \in Nat /\ leaked \in Nat /\ PoolMaxSize \in Nat
<1>1. /\ Cardinality(With("creating")) \in Nat /\ Cardinality(With("recreating")) \in Nat
      /\ Len(idle) \in Nat /\ Cardinality(InUse) \in Nat /\ Cardinality(Tasks) \in Nat
  BY Finite
<1> QED BY <1>1, PoolAssumption DEF TypeOK

\* What a move does to the tasks that the counters and the waiters are about.
LEMMA Recounted ==
  ASSUME TypeOK, NEW t \in Tasks, NEW s \in TaskStates, at' = [at EXCEPT ![t] = s]
  PROVE  /\ at' \in [Tasks -> TaskStates] /\ at'[t] = s
         /\ \A u \in Tasks \ {t} : at'[u] = at[u]
         /\ Cardinality(With("creating")') =
              Cardinality(With("creating")) + (IF s = "creating" /\ at[t] # "creating" THEN 1 ELSE 0)
                                   - (IF s # "creating" /\ at[t] = "creating" THEN 1 ELSE 0)
         /\ Cardinality(With("recreating")') =
              Cardinality(With("recreating"))
                + (IF s = "recreating" /\ at[t] # "recreating" THEN 1 ELSE 0)
                - (IF s # "recreating" /\ at[t] = "recreating" THEN 1 ELSE 0)
         /\ s # "waiting" => With("waiting")' \subseteq With("waiting")
<1>1. \A x : With(x)' = IF s = x THEN With(x) \cup {t} ELSE With(x) \ {t}
  BY Moved
<1>2. \A x : Cardinality(With(x)') =
              Cardinality(With(x)) + (IF s = x /\ at[t] # x THEN 1 ELSE 0)
                                   - (IF s # x /\ at[t] = x THEN 1 ELSE 0)
  BY Moved
<1>3. at' \in [Tasks -> TaskStates] /\ at'[t] = s /\ \A u \in Tasks \ {t} : at'[u] = at[u]
  BY Moved
<1>4. s # "waiting" => With("waiting")' \subseteq With("waiting")
  BY <1>1
<1> QED BY <1>2, <1>3, <1>4

\* The move of a task that is not connecting.
LEMMA FromRest ==
  ASSUME TypeOK, NEW t \in Tasks, at[t] \in {"out", "waiting", "leased"},
         NEW s \in TaskStates, at' = [at EXCEPT ![t] = s]
  PROVE  /\ at' \in [Tasks -> TaskStates] /\ at'[t] = s
         /\ \A u \in Tasks \ {t} : at'[u] = at[u]
         /\ s # "creating" => Cardinality(With("creating")') = Cardinality(With("creating"))
         /\ s = "recreating" =>
              Cardinality(With("recreating")') = Cardinality(With("recreating")) + 1
         /\ s # "recreating" =>
              Cardinality(With("recreating")') = Cardinality(With("recreating"))
         /\ s # "waiting" => With("waiting")' \subseteq With("waiting")
<1> DEFINE a == Cardinality(With("creating"))
           b == Cardinality(With("recreating"))
           c == Cardinality(With("creating")')
           d == Cardinality(With("recreating")')
<1>1. a \in Nat /\ b \in Nat
  BY Sizes
<1>2. /\ at' \in [Tasks -> TaskStates] /\ at'[t] = s
      /\ \A u \in Tasks \ {t} : at'[u] = at[u]
      /\ s # "waiting" => With("waiting")' \subseteq With("waiting")
  BY Recounted
<1>3. c = a + (IF s = "creating" /\ at[t] # "creating" THEN 1 ELSE 0)
            - (IF s # "creating" /\ at[t] = "creating" THEN 1 ELSE 0)
  BY Recounted
<1>4. d = b + (IF s = "recreating" /\ at[t] # "recreating" THEN 1 ELSE 0)
            - (IF s # "recreating" /\ at[t] = "recreating" THEN 1 ELSE 0)
  BY Recounted
<1> HIDE DEF a, b, c, d
<1>5. s # "creating" => c = a
  BY <1>1, <1>3
<1>6. /\ s = "recreating" => d = b + 1
      /\ s # "recreating" => d = b
  BY <1>1, <1>4
<1> QED BY <1>2, <1>5, <1>6 DEF a, b, c, d

\* The move of a task that is connecting.
LEMMA FromWork ==
  ASSUME TypeOK, NEW t \in Tasks, at[t] \in {"creating", "recreating"},
         NEW s \in TaskStates \ {"creating"}, s # at[t], at' = [at EXCEPT ![t] = s]
  PROVE  /\ at' \in [Tasks -> TaskStates] /\ at'[t] = s
         /\ \A u \in Tasks \ {t} : at'[u] = at[u]
         /\ at[t] = "creating" =>
              /\ Cardinality(With("creating")') = Cardinality(With("creating")) - 1
              /\ Cardinality(With("recreating")') =
                   Cardinality(With("recreating")) + (IF s = "recreating" THEN 1 ELSE 0)
         /\ at[t] = "recreating" =>
              /\ Cardinality(With("creating")') = Cardinality(With("creating"))
              /\ Cardinality(With("recreating")') = Cardinality(With("recreating")) - 1
         /\ s # "waiting" => With("waiting")' \subseteq With("waiting")
<1> DEFINE a == Cardinality(With("creating"))
           b == Cardinality(With("recreating"))
           c == Cardinality(With("creating")')
           d == Cardinality(With("recreating")')
<1>1. a \in Nat /\ b \in Nat
  BY Sizes
<1>2. /\ at' \in [Tasks -> TaskStates] /\ at'[t] = s
      /\ \A u \in Tasks \ {t} : at'[u] = at[u]
      /\ s # "waiting" => With("waiting")' \subseteq With("waiting")
  BY Recounted
<1>3. c = a + (IF s = "creating" /\ at[t] # "creating" THEN 1 ELSE 0)
            - (IF s # "creating" /\ at[t] = "creating" THEN 1 ELSE 0)
  BY Recounted
<1>4. d = b + (IF s = "recreating" /\ at[t] # "recreating" THEN 1 ELSE 0)
            - (IF s # "recreating" /\ at[t] = "recreating" THEN 1 ELSE 0)
  BY Recounted
<1> HIDE DEF a, b, c, d
<1>5. at[t] = "creating" => c = a - 1 /\ d = b + (IF s = "recreating" THEN 1 ELSE 0)
  BY <1>1, <1>3, <1>4
<1>6. at[t] = "recreating" => c = a /\ d = b - 1
  BY <1>1, <1>3, <1>4
<1> QED BY <1>2, <1>5, <1>6 DEF a, b, c, d

\* A task gets a connection that nobody has.
LEMMA Leased ==
  ASSUME TypeOK, LeasesAreExclusive, NEW t \in Tasks, holds[t] = NoConn,
         NEW c \in Conns, c \notin InUse, holds' = [holds EXCEPT ![t] = c]
  PROVE  /\ InUse' = InUse \cup {c} /\ Cardinality(InUse') = Cardinality(InUse) + 1
         /\ holds' \in [Tasks -> Conns \cup {NoConn}]
         /\ holds'[t] # NoConn /\ \A u \in Tasks \ {t} : holds'[u] = holds[u]
         /\ \A u, v \in Tasks : holds'[u] = holds'[v] /\ holds'[u] # NoConn => u = v
<1>1. /\ holds' \in [Tasks -> Conns \cup {NoConn}] /\ holds'[t] = c
      /\ \A u \in Tasks \ {t} : holds'[u] = holds[u]
  BY DEF TypeOK
<1>2. c # NoConn
  BY PoolAssumption
<1>3. InUse' = InUse \cup {c}
  BY <1>1, <1>2 DEF InUse
<1>4. Cardinality(InUse') = Cardinality(InUse) + 1
  BY <1>3, Finite, FS_AddElement
<1>5. \A u \in Tasks : holds[u] # c
  BY <1>2 DEF InUse
<1>6. \A u, v \in Tasks : holds'[u] = holds'[v] /\ holds'[u] # NoConn => u = v
  BY <1>1, <1>5 DEF LeasesAreExclusive
<1> QED BY <1>1, <1>2, <1>3, <1>4, <1>6

\* A task gives up the connection it has.
LEMMA Returned ==
  ASSUME TypeOK, LeasesAreExclusive, NEW t \in Tasks, holds[t] # NoConn,
         holds' = [holds EXCEPT ![t] = NoConn]
  PROVE  /\ InUse' = InUse \ {holds[t]} /\ Cardinality(InUse') = Cardinality(InUse) - 1
         /\ holds[t] \in InUse /\ holds[t] \in Conns
         /\ holds' \in [Tasks -> Conns \cup {NoConn}]
         /\ holds'[t] = NoConn /\ \A u \in Tasks \ {t} : holds'[u] = holds[u]
         /\ \A u, v \in Tasks : holds'[u] = holds'[v] /\ holds'[u] # NoConn => u = v
<1>1. /\ holds' \in [Tasks -> Conns \cup {NoConn}] /\ holds'[t] = NoConn
      /\ \A u \in Tasks \ {t} : holds'[u] = holds[u]
  BY DEF TypeOK
<1>2. holds[t] \in InUse /\ holds[t] \in Conns
  BY DEF InUse, TypeOK
<1>3. InUse' = InUse \ {holds[t]}
  BY <1>1 DEF InUse, LeasesAreExclusive
<1>4. Cardinality(InUse') = Cardinality(InUse) - 1
  BY <1>2, <1>3, Finite, FS_RemoveElement
<1> QED BY <1>1, <1>2, <1>3, <1>4 DEF LeasesAreExclusive

\* What goes in or out of the places that are counted goes in or out of the total.
LEMMA Balance ==
  ASSUME TypeOK, Counted, NEW i \in Int, NEW u \in Int, NEW r \in Int, NEW l \in Int,
         Len(idle') = Len(idle) + i, Cardinality(InUse') = Cardinality(InUse) + u,
         Cardinality(With("recreating")') = Cardinality(With("recreating")) + r,
         leaked' = leaked + l, total' = total + i + u + r + l
  PROVE  Counted'
<1> DEFINE a == Len(idle)
           b == Cardinality(InUse)
           c == Cardinality(With("recreating"))
<1>1. a \in Nat /\ b \in Nat /\ c \in Nat /\ leaked \in Nat /\ total \in Nat
  BY Sizes
<1>2. total = a + b + c + leaked
  BY DEF Counted
<1>3. Len(idle') = a + i /\ Cardinality(InUse') = b + u
      /\ Cardinality(With("recreating")') = c + r
  OBVIOUS
<1> HIDE DEF a, b, c
<1>4. total' = (a + i) + (b + u) + (c + r) + leaked'
  BY <1>1, <1>2
<1> QED BY <1>3, <1>4 DEF Counted

-----------------------------------------------------------------------------
(* The invariant, with the total counted in parts *)

PoolInv == TypeOK /\ LeasesAreExclusive /\ Counted /\ OvershootBounded /\ SlotsKept

LEMMA SameInvariant == PoolInv <=> IInv
<1>1. ASSUME TypeOK, LeasesAreExclusive PROVE Counted <=> TotalIsExact
  <2>1. Cardinality(Open) = Len(idle) + Cardinality(InUse)
    BY <1>1, OpenCount DEF LeasesAreExclusive
  <2> QED BY <2>1 DEF Counted, TotalIsExact
<1> QED BY <1>1 DEF PoolInv, IInv

\* While a task is creating a connection there is a name for it.
LEMMA FreshIsFree ==
  ASSUME PoolInv, NEW t \in Tasks, at[t] \in {"creating", "recreating"}
  PROVE  Fresh \in Conns /\ Fresh \notin ToSet(idle) /\ Fresh \notin InUse
<1> USE DEF PoolInv
<1>1. Cardinality(Open) = Len(idle) + Cardinality(InUse)
  BY OpenCount DEF LeasesAreExclusive
<1>2. Cardinality(With("creating")) + Cardinality(With("recreating")) >= 1
  <2>1. With("creating") # {} \/ With("recreating") # {}
    BY DEF With
  <2>2. Cardinality(With("creating")) # 0 \/ Cardinality(With("recreating")) # 0
    BY <2>1, Finite, FS_EmptySet
  <2> QED BY <2>2, Finite
<1>3. Cardinality(Open) < NumConns
  <2>1. /\ Cardinality(With("creating")) \in Nat /\ Cardinality(With("recreating")) \in Nat
        /\ Len(idle) \in Nat /\ Cardinality(InUse) \in Nat /\ Cardinality(Tasks) \in Nat
        /\ leaked \in Nat /\ total \in Nat
    BY Finite DEF TypeOK
  <2>2. total + Cardinality(With("creating")) <= NumConns
    BY <2>1, PoolAssumption DEF OvershootBounded
  <2> QED BY <1>1, <1>2, <2>1, <2>2, PoolAssumption DEF Counted
<1>4. Conns # Open
  BY <1>3, Finite, PoolAssumption
<1>5. Open \subseteq Conns
  <2>1. ToSet(idle) \subseteq Conns
    BY DEF TypeOK, ToSet
  <2>2. InUse \subseteq Conns
    BY DEF TypeOK, InUse
  <2> QED BY <2>1, <2>2 DEF Open
<1>6. Conns \ (ToSet(idle) \cup InUse) # {}
  BY <1>4, <1>5 DEF Open
<1>7. Conns \ (ToSet(idle) \cup InUse) \in SUBSET Nat
  BY DEF Conns
<1>8. Fresh \in Conns \ (ToSet(idle) \cup InUse)
  BY <1>6, <1>7, LeastNumber DEF Fresh
<1> QED BY <1>8

\* Connections at the head of the queue are taken out of it: the one for a caller apart, all
\* are closed and no longer counted.
LEMMA Dequeued ==
  ASSUME PoolInv, NEW n \in 0..Len(idle)
  PROVE  /\ After(n) \in Seq(Conns) /\ IsInjective(After(n)) /\ Len(After(n)) = Len(idle) - n
         /\ ToSet(After(n)) = ToSet(idle) \ {idle[k] : k \in 1..n}
         /\ TotalLess(n) = total - n /\ total - n \in Nat
<1> USE DEF PoolInv
<1>1. total >= Len(idle)
  BY Finite DEF Counted, TypeOK
<1>2. TotalLess(n) = total - n /\ total - n \in Nat
  BY <1>1, Finite DEF TotalLess, TypeOK
<1>3. idle \in Seq(Conns) /\ IsInjective(idle)
  BY DEF TypeOK
<1> QED BY <1>2, <1>3, ToSetSuffix DEF After

-----------------------------------------------------------------------------
(* The steps *)

\* acquire, up to where it suspends or returns, of a task that holds nothing.
LEMMA ObtainStep ==
  ASSUME PoolInv, NEW t \in Tasks, at[t] \in {"out", "waiting"}, Obtain(t),
         uses' \in [Tasks -> 0..MaxUses]
  PROVE  PoolInv'
<1> USE DEF PoolInv
<1> DEFINE healthy == {k \in DOMAIN idle : idle[k] \notin broken}
           n == IF healthy = {} THEN Len(idle) ELSE Min(healthy) - 1
<1>1. Len(idle) \in Nat /\ DOMAIN idle = 1..Len(idle) /\ \A k \in 1..Len(idle) : idle[k] \in Conns
  BY DEF TypeOK
<1>2. n \in 0..Len(idle)
      /\ (healthy # {} => n + 1 \in 1..Len(idle) /\ idle[n + 1] \notin broken)
  <2>1. CASE healthy = {}
    BY <1>1, <2>1
  <2>2. CASE healthy # {}
    <3>1. healthy \in SUBSET Nat
      BY <1>1
    <3>2. Min(healthy) \in healthy
      BY <2>2, <3>1, LeastNumber
    <3> QED BY <1>1, <2>2, <3>2
  <2> QED BY <2>1, <2>2
<1>3. /\ total' = TotalLess(n) /\ dropped' = (dropped \/ n > 0) /\ leaked' = leaked
      /\ broken' = broken \ {idle[k] : k \in 1..n}
      /\ healthy # {} => idle' = After(n + 1) /\ Baseline(t, idle[n + 1])
      /\ healthy = {} =>
           /\ idle' = <<>> /\ UNCHANGED holds
           /\ at' = [at EXCEPT ![t] = IF UnderLimit(total') THEN "creating" ELSE "waiting"]
  BY DEF Obtain
<1> HIDE DEF n, healthy
<1>4. total' = total - n /\ total' \in Nat /\ total' <= total
  <2>1. TotalLess(n) = total - n /\ total - n \in Nat
    BY <1>2, Dequeued
  <2> QED BY <1>1, <1>2, <1>3, <2>1, Sizes
<1>5. holds[t] = NoConn
  BY DEF TypeOK
<1>6. dropped' \in BOOLEAN /\ (~dropped' => ~dropped /\ total' = total /\ leaked' = leaked)
  <2>1. (n > 0) \in BOOLEAN
    BY <1>2
  <2>2. ~(n > 0) => total' = total
    BY <1>1, <1>2, <1>4, Sizes
  <2> QED BY <1>3, <2>1, <2>2, Zenon DEF TypeOK
<1>7. CASE healthy # {}
  <2> DEFINE c == idle[n + 1]
  <2>1. n + 1 \in 0..Len(idle) /\ n + 1 \in 1..n + 1 /\ c \in Conns /\ c \notin broken
    BY <1>1, <1>2, <1>7
  <2>2. /\ idle' \in Seq(Conns) /\ IsInjective(idle') /\ Len(idle') = Len(idle) - (n + 1)
        /\ ToSet(idle') = ToSet(idle) \ {idle[k] : k \in 1..n + 1}
    BY <1>3, <1>7, <2>1, Dequeued
  <2>3. c \in ToSet(idle) /\ c \notin InUse /\ c \notin ToSet(idle')
    BY <1>1, <1>2, <1>7, <2>1, <2>2 DEF ToSet, LeasesAreExclusive
  <2>4. broken' \subseteq ToSet(idle') \cup InUse
    <3> SUFFICES ASSUME NEW b \in broken, b \notin {idle[k] : k \in 1..n}, b \notin InUse
                 PROVE  b \in ToSet(idle')
      BY <1>3
    <3>1. b \in ToSet(idle) /\ b # c
      BY <2>1 DEF TypeOK, Open
    <3>2. b \notin {idle[k] : k \in 1..n + 1}
      BY <1>1, <1>2, <3>1
    <3> QED BY <2>2, <3>1, <3>2
  <2> HIDE DEF c
  <2>5. CASE at' = [at EXCEPT ![t] = "leased"] /\ holds' = [holds EXCEPT ![t] = c]
    <3>1. "leased" \in TaskStates
      BY DEF TaskStates
    <3>2. /\ at' \in [Tasks -> TaskStates] /\ at'[t] = "leased"
          /\ \A u \in Tasks \ {t} : at'[u] = at[u]
          /\ Cardinality(With("recreating")') = Cardinality(With("recreating"))
          /\ Cardinality(With("creating")') = Cardinality(With("creating"))
          /\ With("waiting")' \subseteq With("waiting")
      BY <2>5, <3>1, FromRest
    <3>3. /\ InUse' = InUse \cup {c} /\ Cardinality(InUse') = Cardinality(InUse) + 1
          /\ holds' \in [Tasks -> Conns \cup {NoConn}]
          /\ holds'[t] # NoConn /\ \A u \in Tasks \ {t} : holds'[u] = holds[u]
          /\ \A u, v \in Tasks : holds'[u] = holds'[v] /\ holds'[u] # NoConn => u = v
      BY <1>5, <2>1, <2>3, <2>5, Leased
    <3>4. TypeOK'
      BY <1>3, <1>4, <1>6, <2>2, <2>4, <3>2, <3>3 DEF TypeOK, Open
    <3>5. LeasesAreExclusive'
      BY <2>2, <2>3, <3>3 DEF LeasesAreExclusive
    <3>6. Counted'
      <4>1. n \in Nat
        BY <1>1, <1>2
      <4>2. Len(idle') = Len(idle) + (-(n + 1)) /\ -(n + 1) \in Int
        <5>1. Len(idle') = Len(idle) - (n + 1)
          BY <2>2
        <5> QED BY <4>1, <5>1, Sizes
      <4>3. /\ Cardinality(InUse') = Cardinality(InUse) + 1
            /\ Cardinality(With("recreating")') = Cardinality(With("recreating")) + 0
        BY <3>2, <3>3, Sizes
      <4>4. leaked' = leaked + 0 /\ total' = total + (-(n + 1)) + 1 + 0 + 0
        BY <1>3, <1>4, <4>1, Sizes
      <4> QED BY <4>2, <4>3, <4>4, Balance
    <3>7. OvershootBounded'
      BY <1>4, <3>2, Sizes DEF OvershootBounded
    <3>8. SlotsKept'
      BY <1>6, <3>2 DEF SlotsKept
    <3> QED BY <3>4, <3>5, <3>6, <3>7, <3>8
  <2>6. CASE at' = [at EXCEPT ![t] = "recreating"] /\ UNCHANGED holds
    <3>1. "recreating" \in TaskStates
      BY DEF TaskStates
    <3>2. /\ at' \in [Tasks -> TaskStates] /\ at'[t] = "recreating"
          /\ \A u \in Tasks \ {t} : at'[u] = at[u]
          /\ Cardinality(With("recreating")') = Cardinality(With("recreating")) + 1
          /\ Cardinality(With("creating")') = Cardinality(With("creating"))
          /\ With("waiting")' \subseteq With("waiting")
      BY <2>6, <3>1, FromRest
    <3>3. InUse' = InUse
      BY <2>6 DEF InUse
    <3>4. TypeOK'
      BY <1>3, <1>4, <1>5, <1>6, <2>2, <2>4, <2>6, <3>2, <3>3 DEF TypeOK, Open
    <3>5. LeasesAreExclusive'
      BY <2>2, <2>6, <3>3 DEF LeasesAreExclusive
    <3>6. Counted'
      <4>1. n \in Nat
        BY <1>1, <1>2
      <4>2. Len(idle') = Len(idle) + (-(n + 1)) /\ -(n + 1) \in Int
        <5>1. Len(idle') = Len(idle) - (n + 1)
          BY <2>2
        <5> QED BY <4>1, <5>1, Sizes
      <4>3. /\ Cardinality(InUse') = Cardinality(InUse) + 0
            /\ Cardinality(With("recreating")') = Cardinality(With("recreating")) + 1
        BY <3>2, <3>3, Sizes
      <4>4. leaked' = leaked + 0 /\ total' = total + (-(n + 1)) + 0 + 1 + 0
        BY <1>3, <1>4, <4>1, Sizes
      <4> QED BY <4>2, <4>3, <4>4, Balance
    <3>7. OvershootBounded'
      BY <1>4, <3>2, Sizes DEF OvershootBounded
    <3>8. SlotsKept'
      BY <1>6, <3>2 DEF SlotsKept
    <3> QED BY <3>4, <3>5, <3>6, <3>7, <3>8
  <2> QED BY <1>3, <1>7, <2>5, <2>6 DEF Baseline, c
<1>8. CASE healthy = {}
  <2> DEFINE s == IF UnderLimit(total') THEN "creating" ELSE "waiting"
  <2>1. n = Len(idle)
    BY <1>8 DEF n
  <2>2. idle' = <<>> /\ UNCHANGED holds /\ at' = [at EXCEPT ![t] = s] /\ s \in TaskStates
        /\ InUse' = InUse
    BY <1>3, <1>8 DEF TaskStates, InUse
  <2>3. idle' \in Seq(Conns) /\ IsInjective(idle') /\ Len(idle') = 0 /\ ToSet(idle') = {}
    BY <2>2 DEF IsInjective, ToSet
  <2>4. broken' \subseteq InUse
    <3>1. {idle[k] : k \in 1..n} = ToSet(idle)
      BY <1>1, <2>1 DEF ToSet
    <3> QED BY <1>3, <3>1 DEF TypeOK, Open
  <2>5. s = "creating" => total' < PoolMaxSize
    BY DEF UnderLimit
  <2>6. s = "waiting" => total' >= PoolMaxSize
    BY <1>4, PoolAssumption DEF UnderLimit
  <2>7. s \in {"creating", "waiting"}
    OBVIOUS
  <2> HIDE DEF s
  <2>8. /\ at' \in [Tasks -> TaskStates] /\ at'[t] = s
        /\ \A u \in Tasks \ {t} : at'[u] = at[u]
        /\ Cardinality(With("recreating")') = Cardinality(With("recreating"))
        /\ s = "waiting" => Cardinality(With("creating")') = Cardinality(With("creating"))
        /\ s = "creating" => With("waiting")' \subseteq With("waiting")
    BY <2>2, <2>7, FromRest
  <2>9. TypeOK'
    BY <1>3, <1>4, <1>5, <1>6, <2>2, <2>3, <2>4, <2>7, <2>8 DEF TypeOK, Open
  <2>10. LeasesAreExclusive'
    BY <2>2, <2>3 DEF LeasesAreExclusive
  <2>11. Counted'
    <3>1. Len(idle') = Len(idle) + (-n) /\ -n \in Int
      BY <1>1, <2>1, <2>3
    <3>2. /\ Cardinality(InUse') = Cardinality(InUse) + 0
          /\ Cardinality(With("recreating")') = Cardinality(With("recreating")) + 0
      BY <2>2, <2>8, Sizes
    <3>3. leaked' = leaked + 0 /\ total' = total + (-n) + 0 + 0 + 0
      <4>1. n \in Nat
        BY <1>1, <2>1
      <4> QED BY <1>3, <1>4, <4>1, Sizes
    <3> QED BY <3>1, <3>2, <3>3, Balance
  <2>12. OvershootBounded'
    <3>1. CASE s = "waiting"
      BY <1>4, <2>8, <3>1, Sizes DEF OvershootBounded
    <3>2. CASE s = "creating"
      <4>1. IsFiniteSet(Tasks) /\ With("creating")' \in SUBSET Tasks
        BY PoolAssumption DEF With
      <4>2. Cardinality(With("creating")') <= Cardinality(Tasks)
            /\ Cardinality(With("creating")') \in Nat
        BY <4>1, FS_Subset, FS_CardinalityType
      <4> QED BY <1>4, <2>5, <3>2, <4>2, Sizes, Finite DEF OvershootBounded
    <3> QED BY <2>7, <3>1, <3>2
  <2>13. SlotsKept'
    BY <1>6, <2>6, <2>7, <2>8 DEF SlotsKept
  <2> QED BY <2>9, <2>10, <2>11, <2>12, <2>13
<1> QED BY <1>7, <1>8

\* A connection is there: it is counted, and leased or closed and replaced.
LEMMA CreatedStep ==
  ASSUME PoolInv, NEW t \in Tasks, Created(t)
  PROVE  PoolInv'
<1> USE DEF PoolInv
<1>1. /\ at[t] = "creating" /\ total' = total + 1 /\ Baseline(t, Fresh)
      /\ idle' = idle /\ uses' = uses /\ broken' = broken /\ leaked' = leaked
      /\ dropped' = dropped
  BY DEF Created
<1>2. Fresh \in Conns /\ Fresh \notin ToSet(idle) /\ Fresh \notin InUse
  BY <1>1, FreshIsFree
<1>3. holds[t] = NoConn /\ "leased" \in TaskStates /\ "recreating" \in TaskStates
  BY <1>1 DEF TypeOK, TaskStates
<1>4. total' \in Nat /\ Len(idle') = Len(idle) + 0 /\ leaked' = leaked + 0
  BY <1>1, Sizes
<1>5. CASE at' = [at EXCEPT ![t] = "leased"] /\ holds' = [holds EXCEPT ![t] = Fresh]
  <2>1. /\ at' \in [Tasks -> TaskStates] /\ at'[t] = "leased"
        /\ \A u \in Tasks \ {t} : at'[u] = at[u]
        /\ Cardinality(With("recreating")') = Cardinality(With("recreating")) + 0
        /\ Cardinality(With("creating")') = Cardinality(With("creating")) - 1
        /\ With("waiting")' \subseteq With("waiting")
    BY <1>1, <1>3, <1>5, FromWork
  <2>2. /\ InUse' = InUse \cup {Fresh} /\ Cardinality(InUse') = Cardinality(InUse) + 1
        /\ holds' \in [Tasks -> Conns \cup {NoConn}]
        /\ holds'[t] # NoConn /\ \A u \in Tasks \ {t} : holds'[u] = holds[u]
        /\ \A u, v \in Tasks : holds'[u] = holds'[v] /\ holds'[u] # NoConn => u = v
    BY <1>2, <1>3, <1>5, Leased
  <2>3. TypeOK'
    BY <1>1, <1>4, <2>1, <2>2 DEF TypeOK, Open
  <2>4. LeasesAreExclusive'
    BY <1>1, <1>2, <2>2 DEF LeasesAreExclusive
  <2>5. Counted'
    <3>1. total' = total + 0 + 1 + 0 + 0
      BY <1>1, Sizes
    <3>2. /\ Cardinality(InUse') = Cardinality(InUse) + 1
          /\ Cardinality(With("recreating")') = Cardinality(With("recreating")) + 0
      BY <2>1, <2>2
    <3> QED BY <1>4, <3>1, <3>2, Balance
  <2>6. OvershootBounded'
    BY <1>1, <2>1, Sizes DEF OvershootBounded
  <2>7. SlotsKept'
    BY <1>1, <2>1, Sizes DEF SlotsKept
  <2> QED BY <2>3, <2>4, <2>5, <2>6, <2>7
<1>6. CASE at' = [at EXCEPT ![t] = "recreating"] /\ UNCHANGED holds
  <2>1. /\ at' \in [Tasks -> TaskStates] /\ at'[t] = "recreating"
        /\ \A u \in Tasks \ {t} : at'[u] = at[u]
        /\ Cardinality(With("recreating")') = Cardinality(With("recreating")) + 1
        /\ Cardinality(With("creating")') = Cardinality(With("creating")) - 1
        /\ With("waiting")' \subseteq With("waiting")
    BY <1>1, <1>3, <1>6, FromWork
  <2>2. InUse' = InUse /\ Cardinality(InUse') = Cardinality(InUse) + 0
    BY <1>6, Sizes DEF InUse
  <2>3. TypeOK'
    BY <1>1, <1>3, <1>4, <1>6, <2>1, <2>2 DEF TypeOK, Open
  <2>4. LeasesAreExclusive'
    BY <1>1, <1>6, <2>2 DEF LeasesAreExclusive
  <2>5. Counted'
    <3>1. total' = total + 0 + 0 + 1 + 0
      BY <1>1, Sizes
    <3> QED BY <1>4, <2>1, <2>2, <3>1, Balance
  <2>6. OvershootBounded'
    BY <1>1, <2>1, Sizes DEF OvershootBounded
  <2>7. SlotsKept'
    BY <1>1, <2>1, Sizes DEF SlotsKept
  <2> QED BY <2>3, <2>4, <2>5, <2>6, <2>7
<1> QED BY <1>1, <1>5, <1>6 DEF Baseline

\* The attempt is given up, or a replacement arrives or is given up.
LEMMA ConnectStep ==
  ASSUME PoolInv, NEW t \in Tasks, CreationFails(t) \/ Recreated(t) \/ RecreationFails(t)
  PROVE  PoolInv'
<1> USE DEF PoolInv
<1>0. -1 \in Int /\ 0 \in Int /\ 1 \in Int
  OBVIOUS
<1>1. "leased" \in TaskStates /\ "out" \in TaskStates
  BY DEF TaskStates
<1>2. CASE CreationFails(t)
  <2>1. /\ at[t] = "creating" /\ at' = [at EXCEPT ![t] = "out"]
        /\ idle' = idle /\ total' = total /\ holds' = holds /\ uses' = uses
        /\ broken' = broken /\ leaked' = leaked /\ dropped' = dropped
    BY <1>2 DEF CreationFails
  <2>2. /\ at' \in [Tasks -> TaskStates] /\ at'[t] = "out"
        /\ \A u \in Tasks \ {t} : at'[u] = at[u]
        /\ Cardinality(With("recreating")') = Cardinality(With("recreating")) + 0
        /\ Cardinality(With("creating")') = Cardinality(With("creating")) - 1
        /\ With("waiting")' \subseteq With("waiting")
    BY <1>1, <2>1, FromWork
  <2>3. InUse' = InUse /\ Cardinality(InUse') = Cardinality(InUse) + 0
    BY <2>1, Sizes DEF InUse
  <2>4. TypeOK'
    BY <2>1, <2>2, <2>3 DEF TypeOK, Open
  <2>5. LeasesAreExclusive'
    BY <2>1, <2>3 DEF LeasesAreExclusive
  <2>6. Counted'
    <3>1. Len(idle') = Len(idle) + 0 /\ leaked' = leaked + 0 /\ total' = total + 0 + 0 + 0 + 0
      BY <2>1, Sizes
    <3> QED BY <2>2, <2>3, <3>1, Balance
  <2>7. OvershootBounded'
    BY <2>1, <2>2, Sizes DEF OvershootBounded
  <2>8. SlotsKept'
    BY <2>1, <2>2 DEF SlotsKept
  <2> QED BY <2>4, <2>5, <2>6, <2>7, <2>8
<1>3. CASE Recreated(t)
  <2>1. /\ at[t] = "recreating" /\ at' = [at EXCEPT ![t] = "leased"]
        /\ holds' = [holds EXCEPT ![t] = Fresh]
        /\ idle' = idle /\ total' = total /\ uses' = uses
        /\ broken' = broken /\ leaked' = leaked /\ dropped' = dropped
    BY <1>3 DEF Recreated
  <2>2. /\ at' \in [Tasks -> TaskStates] /\ at'[t] = "leased"
        /\ \A u \in Tasks \ {t} : at'[u] = at[u]
        /\ Cardinality(With("recreating")') = Cardinality(With("recreating")) + (-1)
        /\ Cardinality(With("creating")') = Cardinality(With("creating"))
        /\ With("waiting")' \subseteq With("waiting")
    BY <1>1, <2>1, Sizes, FromWork
  <2>3. /\ holds[t] = NoConn
        /\ Fresh \in Conns /\ Fresh \notin ToSet(idle) /\ Fresh \notin InUse
    BY <2>1, FreshIsFree DEF TypeOK
  <2>4. /\ InUse' = InUse \cup {Fresh} /\ Cardinality(InUse') = Cardinality(InUse) + 1
        /\ holds' \in [Tasks -> Conns \cup {NoConn}]
        /\ holds'[t] # NoConn /\ \A u \in Tasks \ {t} : holds'[u] = holds[u]
        /\ \A u, v \in Tasks : holds'[u] = holds'[v] /\ holds'[u] # NoConn => u = v
    BY <2>1, <2>3, Leased
  <2>5. TypeOK'
    BY <2>1, <2>2, <2>4 DEF TypeOK, Open
  <2>6. LeasesAreExclusive'
    BY <2>1, <2>3, <2>4 DEF LeasesAreExclusive
  <2>7. Counted'
    <3>1. Len(idle') = Len(idle) + 0 /\ leaked' = leaked + 0 /\ total' = total + 0 + 1 + (-1) + 0
      BY <2>1, Sizes
    <3>2. /\ Cardinality(InUse') = Cardinality(InUse) + 1
          /\ Cardinality(With("recreating")') = Cardinality(With("recreating")) + (-1)
      BY <2>2, <2>4
    <3> QED BY <1>0, <3>1, <3>2, Balance
  <2>8. OvershootBounded'
    BY <2>1, <2>2 DEF OvershootBounded
  <2>9. SlotsKept'
    BY <2>1, <2>2 DEF SlotsKept
  <2> QED BY <2>5, <2>6, <2>7, <2>8, <2>9
<1>4. CASE RecreationFails(t)
  <2>1. /\ at[t] = "recreating" /\ at' = [at EXCEPT ![t] = "out"]
        /\ leaked' = leaked + 1 /\ dropped' = TRUE
        /\ idle' = idle /\ total' = total /\ holds' = holds /\ uses' = uses /\ broken' = broken
    BY <1>4 DEF RecreationFails
  <2>2. /\ at' \in [Tasks -> TaskStates] /\ at'[t] = "out"
        /\ \A u \in Tasks \ {t} : at'[u] = at[u]
        /\ Cardinality(With("recreating")') = Cardinality(With("recreating")) + (-1)
        /\ Cardinality(With("creating")') = Cardinality(With("creating"))
    BY <1>1, <2>1, Sizes, FromWork
  <2>3. InUse' = InUse /\ Cardinality(InUse') = Cardinality(InUse) + 0
    BY <2>1, Sizes DEF InUse
  <2>4. TypeOK'
    BY <2>1, <2>2, <2>3, Sizes DEF TypeOK, Open
  <2>5. LeasesAreExclusive'
    BY <2>1, <2>3 DEF LeasesAreExclusive
  <2>6. Counted'
    <3>1. Len(idle') = Len(idle) + 0 /\ total' = total + 0 + 0 + (-1) + 1
      BY <2>1, Sizes
    <3> QED BY <1>0, <2>1, <2>2, <2>3, <3>1, Balance
  <2>7. OvershootBounded'
    BY <2>1, <2>2 DEF OvershootBounded
  <2>8. SlotsKept'
    BY <2>1 DEF SlotsKept
  <2> QED BY <2>4, <2>5, <2>6, <2>7, <2>8
<1> QED BY <1>2, <1>3, <1>4

\* The lease ends: the connection goes back to the queue, or is closed and no longer counted.
LEMMA ReleaseStep ==
  ASSUME PoolInv, NEW t \in Tasks, Release(t)
  PROVE  PoolInv'
<1> USE DEF PoolInv
<1> DEFINE c == holds[t]
<1>0. -1 \in Int /\ 0 \in Int /\ 1 \in Int
  OBVIOUS
<1>1. /\ at[t] = "leased" /\ at' = [at EXCEPT ![t] = "out"]
      /\ holds' = [holds EXCEPT ![t] = NoConn]
      /\ GiveBack(t) \/ CloseInstead(t)
      /\ uses' = uses /\ leaked' = leaked
  BY DEF Release
<1>2. c # NoConn /\ "out" \in TaskStates
  BY <1>1 DEF TypeOK, TaskStates
<1>3. /\ at' \in [Tasks -> TaskStates] /\ at'[t] = "out"
      /\ \A u \in Tasks \ {t} : at'[u] = at[u]
      /\ Cardinality(With("recreating")') = Cardinality(With("recreating"))
      /\ Cardinality(With("creating")') = Cardinality(With("creating"))
      /\ With("waiting")' \subseteq With("waiting")
  BY <1>1, <1>2, FromRest
<1>4. /\ InUse' = InUse \ {c} /\ Cardinality(InUse') = Cardinality(InUse) - 1
      /\ c \in InUse /\ c \in Conns
      /\ holds' \in [Tasks -> Conns \cup {NoConn}]
      /\ holds'[t] = NoConn /\ \A u \in Tasks \ {t} : holds'[u] = holds[u]
      /\ \A u, v \in Tasks : holds'[u] = holds'[v] /\ holds'[u] # NoConn => u = v
  BY <1>1, <1>2, Returned
<1>5. /\ Cardinality(With("recreating")') = Cardinality(With("recreating")) + 0
      /\ Cardinality(InUse') = Cardinality(InUse) + (-1) /\ leaked' = leaked + 0
  BY <1>1, <1>3, <1>4, Sizes
<1>6. c \notin ToSet(idle)
  BY <1>4 DEF LeasesAreExclusive
<1>7. \A u \in Tasks : holds'[u] # NoConn <=> at'[u] = "leased"
  BY <1>3, <1>4 DEF TypeOK
<1> HIDE DEF c
<1>8. CASE GiveBack(t)
  <2>1. /\ c \notin broken /\ idle' = Append(idle, c)
        /\ total' = total /\ broken' = broken /\ dropped' = dropped
    BY <1>8 DEF GiveBack, c
  <2>2. /\ idle' \in Seq(Conns) /\ IsInjective(idle') /\ Len(idle') = Len(idle) + 1
        /\ ToSet(idle') = ToSet(idle) \cup {c}
    <3>1. idle \in Seq(Conns) /\ IsInjective(idle)
      BY DEF TypeOK
    <3>2. IsInjective(idle') /\ ToSet(idle') = ToSet(idle) \cup {c}
      BY <1>4, <1>6, <2>1, <3>1, InjectiveAppend, ToSetAppend
    <3> QED BY <1>4, <2>1, <3>1, <3>2
  <2>3. TypeOK'
    BY <1>1, <1>3, <1>4, <1>7, <2>1, <2>2 DEF TypeOK, Open
  <2>4. LeasesAreExclusive'
    BY <1>4, <2>2 DEF LeasesAreExclusive
  <2>5. Counted'
    <3>1. total' = total + 1 + (-1) + 0 + 0 /\ Len(idle') = Len(idle) + 1
      BY <2>1, <2>2, Sizes
    <3> QED BY <1>0, <1>5, <3>1, Balance
  <2>6. OvershootBounded'
    BY <1>3, <2>1 DEF OvershootBounded
  <2>7. SlotsKept'
    BY <1>1, <1>3, <2>1 DEF SlotsKept
  <2> QED BY <2>3, <2>4, <2>5, <2>6, <2>7
<1>9. CASE CloseInstead(t)
  <2>1. /\ total' = TotalLess(1) /\ broken' = broken \ {c} /\ dropped' = TRUE /\ idle' = idle
    BY <1>9 DEF CloseInstead, c
  <2>2. total' = total - 1 /\ total' \in Nat
    <3>1. Cardinality(InUse) >= 1
      <4>1. Cardinality(InUse) # 0
        BY <1>4, Finite, FS_EmptySet
      <4> QED BY <4>1, Sizes
    <3>2. total >= 1
      BY <3>1, Sizes DEF Counted
    <3> QED BY <2>1, <3>2, Sizes DEF TotalLess
  <2>3. TypeOK'
    BY <1>1, <1>3, <1>4, <1>7, <2>1, <2>2 DEF TypeOK, Open
  <2>4. LeasesAreExclusive'
    BY <1>4, <2>1 DEF LeasesAreExclusive
  <2>5. Counted'
    <3>1. total' = total + 0 + (-1) + 0 + 0 /\ Len(idle') = Len(idle) + 0
      BY <2>1, <2>2, Sizes
    <3> QED BY <1>0, <1>5, <3>1, Balance
  <2>6. OvershootBounded'
    BY <1>3, <2>2, Sizes DEF OvershootBounded
  <2>7. SlotsKept'
    BY <2>1 DEF SlotsKept
  <2> QED BY <2>3, <2>4, <2>5, <2>6, <2>7
<1> QED BY <1>1, <1>8, <1>9

\* close() takes connections out of the queue.
LEMMA CloseStep ==
  ASSUME PoolInv, Close
  PROVE  PoolInv'
<1> USE DEF PoolInv
<1>1. PICK n \in DOMAIN idle : /\ idle' = After(n) /\ total' = TotalLess(n)
                              /\ broken' = broken \ {idle[k] : k \in 1..n}
  BY DEF Close
<1>2. /\ dropped' = TRUE /\ at' = at /\ holds' = holds /\ uses' = uses /\ leaked' = leaked
      /\ InUse' = InUse /\ With("recreating")' = With("recreating")
      /\ With("creating")' = With("creating")
  BY DEF Close, InUse, With
<1>3. n \in 0..Len(idle) /\ n \in Nat
  BY DEF TypeOK
<1>4. /\ idle' \in Seq(Conns) /\ IsInjective(idle') /\ Len(idle') = Len(idle) - n
      /\ ToSet(idle') = ToSet(idle) \ {idle[k] : k \in 1..n}
      /\ total' = total - n /\ total' \in Nat
  BY <1>1, <1>3, Dequeued
<1>5. broken' \subseteq ToSet(idle') \cup InUse'
  BY <1>1, <1>2, <1>4 DEF TypeOK, Open
<1>6. TypeOK'
  BY <1>2, <1>4, <1>5 DEF TypeOK, Open
<1>7. LeasesAreExclusive'
  BY <1>2, <1>4 DEF LeasesAreExclusive
<1>8. Counted'
  <2>1. Len(idle') = Len(idle) - n /\ total' = total - n
    BY <1>4
  <2>2. -n \in Int /\ Len(idle') = Len(idle) + (-n) /\ total' = total + (-n) + 0 + 0 + 0
    BY <1>3, <2>1, Sizes
  <2>3. /\ Cardinality(InUse') = Cardinality(InUse) + 0
        /\ Cardinality(With("recreating")') = Cardinality(With("recreating")) + 0
        /\ leaked' = leaked + 0 /\ 0 \in Int
    BY <1>2, Sizes
  <2> QED BY <2>2, <2>3, Balance
<1>9. OvershootBounded'
  <2>1. total' <= total /\ total' \in Nat
    BY <1>3, <1>4, Sizes
  <2> QED BY <1>2, <2>1, Sizes DEF OvershootBounded
<1>10. SlotsKept'
  BY <1>2 DEF SlotsKept
<1> QED BY <1>6, <1>7, <1>8, <1>9, <1>10

\* A connection breaks, or nothing happens.
LEMMA OtherStep ==
  ASSUME PoolInv, UNCHANGED vars \/ \E c \in Conns : Break(c)
  PROVE  PoolInv'
<1>1. /\ idle' = idle /\ total' = total /\ at' = at /\ holds' = holds /\ uses' = uses
      /\ leaked' = leaked /\ dropped' = dropped
      /\ broken' \subseteq broken \cup Open
  BY DEF vars, Break, Open
<1>2. InUse' = InUse /\ \A s : With(s)' = With(s)
  BY <1>1 DEF InUse, With
<1>3. TypeOK'
  BY <1>1, <1>2 DEF PoolInv, TypeOK, Open
<1>4. LeasesAreExclusive'
  BY <1>1, <1>2 DEF PoolInv, LeasesAreExclusive
<1>5. Counted' /\ OvershootBounded' /\ SlotsKept'
  <2>1. /\ With("recreating")' = With("recreating") /\ With("creating")' = With("creating")
        /\ With("waiting")' = With("waiting")
    BY <1>2
  <2> QED BY <1>1, <1>2, <2>1 DEF PoolInv, Counted, OvershootBounded, SlotsKept
<1> QED BY <1>3, <1>4, <1>5 DEF PoolInv

-----------------------------------------------------------------------------
(* The theorems *)

LEMMA InitInv == Init => PoolInv
<1> SUFFICES ASSUME Init PROVE PoolInv
  OBVIOUS
<1>1. /\ idle = <<>> /\ total = 0 /\ leaked = 0 /\ broken = {} /\ dropped = FALSE
      /\ at = [t \in Tasks |-> "out"] /\ holds = [t \in Tasks |-> NoConn]
      /\ uses = [t \in Tasks |-> 0]
  BY DEF Init
<1>2. InUse = {} /\ ToSet(idle) = {} /\ \A s : s # "out" => With(s) = {}
  BY <1>1 DEF InUse, ToSet, With
<1>3. With("recreating") = {} /\ With("creating") = {} /\ With("waiting") = {}
  BY <1>2
<1>4. TypeOK
  <2>1. idle \in Seq(Conns) /\ IsInjective(idle)
    BY <1>1 DEF IsInjective
  <2>2. uses \in [Tasks -> 0..MaxUses]
    BY <1>1, PoolAssumption
  <2>3. at \in [Tasks -> TaskStates] /\ holds \in [Tasks -> Conns \cup {NoConn}]
        /\ \A t \in Tasks : holds[t] # NoConn <=> at[t] = "leased"
    BY <1>1 DEF TaskStates
  <2> QED BY <1>1, <2>1, <2>2, <2>3 DEF TypeOK
<1>5. LeasesAreExclusive
  BY <1>1, <1>2 DEF LeasesAreExclusive
<1>6. /\ Cardinality(With("recreating")) = 0 /\ Cardinality(With("creating")) = 0
      /\ Cardinality(InUse) = 0 /\ Len(idle) = 0
  BY <1>1, <1>2, <1>3, FS_EmptySet
<1>7. Counted /\ SlotsKept
  BY <1>1, <1>3, <1>6 DEF Counted, SlotsKept
<1>8. OvershootBounded
  <2>1. Cardinality(Tasks) \in Nat /\ Cardinality(Tasks) >= 1
    BY <1>4, Finite
  <2> QED BY <1>1, <1>6, <2>1, PoolAssumption DEF OvershootBounded
<1> QED BY <1>4, <1>5, <1>7, <1>8 DEF PoolInv

LEMMA NextInv == PoolInv /\ [Next]_vars => PoolInv'
<1> SUFFICES ASSUME PoolInv, [Next]_vars PROVE PoolInv'
  OBVIOUS
<1>1. ASSUME NEW t \in Tasks, Acquire(t) PROVE PoolInv'
  <2>1. uses' \in [Tasks -> 0..MaxUses]
    BY <1>1, PoolAssumption DEF Acquire, PoolInv, TypeOK
  <2> QED BY <1>1, <2>1, ObtainStep DEF Acquire
<1>2. ASSUME NEW t \in Tasks, Woken(t) PROVE PoolInv'
  BY <1>2, ObtainStep DEF Woken, PoolInv, TypeOK
<1>3. ASSUME NEW t \in Tasks, TaskStep(t) PROVE PoolInv'
  BY <1>1, <1>2, <1>3, CreatedStep, ConnectStep, ReleaseStep DEF TaskStep
<1> QED BY <1>3, CloseStep, OtherStep DEF Next

\* The invariant of the pool: whatever tasks borrow at once, however connections break and
\* attempts to connect fail, and if close() is called in between, IInv holds.
THEOREM PoolInvariant == Spec => []IInv
<1>1. Spec => []PoolInv
  BY InitInv, NextInv, PTL DEF Spec
<1>2. PoolInv => IInv
  BY SameInvariant
<1> QED BY <1>1, <1>2, PTL

\* Every state of the pool is of the right kind: in particular the queue holds no connection
\* twice, and a task has a connection exactly while its lease runs.
THEOREM PoolTypeCorrect == Spec => []TypeOK
<1>1. IInv => TypeOK
  BY DEF IInv
<1> QED BY <1>1, PoolInvariant, PTL

\* acquire never hands out a connection that is in the queue or that another task has.
THEOREM PoolLeases == Spec => []LeasesAreExclusive
<1>1. IInv => LeasesAreExclusive
  BY DEF IInv
<1> QED BY <1>1, PoolInvariant, PTL

\* _total is the number of open connections, of those being replaced and of the slots that
\* a failed replacement leaves behind: no drop is forgotten and none counted twice.
THEOREM PoolTotal == Spec => []TotalIsExact
<1>1. IInv => TotalIsExact
  BY DEF IInv
<1> QED BY <1>1, PoolInvariant, PTL

\* pool_max_size is passed by at most the number of tasks less one, the tasks that looked at
\* the limit before the first of them was counted.
THEOREM PoolOvershoot == Spec => []OvershootBounded
<1>1. IInv => OvershootBounded
  BY DEF IInv
<1> QED BY <1>1, PoolInvariant, PTL

\* As long as no connection was dropped, a task waits only while pool_max_size connections
\* are open or being replaced, one of which will come back to the queue.
THEOREM PoolWaiters == Spec => []NobodyWaitsForNothing
<1>1. IInv => NobodyWaitsForNothing
  <2> SUFFICES ASSUME IInv, With("waiting") # {}, ~dropped
               PROVE  Cardinality(Open) + Cardinality(With("recreating")) >= PoolMaxSize
    BY DEF NobodyWaitsForNothing
  <2>1. total >= PoolMaxSize /\ leaked = 0
    BY DEF IInv, SlotsKept
  <2>2. total = Cardinality(Open) + Cardinality(With("recreating")) + leaked
    BY DEF IInv, TotalIsExact
  <2>3. Cardinality(Open) \in Nat /\ Cardinality(With("recreating")) \in Nat
    <3>1. Cardinality(Open) = Len(idle) + Cardinality(InUse)
      BY OpenCount DEF IInv, LeasesAreExclusive
    <3> QED BY <3>1, Sizes DEF IInv
  <2> QED BY <2>1, <2>2, <2>3
<1> QED BY <1>1, PoolInvariant, PTL
=============================================================================
