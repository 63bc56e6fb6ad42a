-------------------------- MODULE KVStoreQueueProofs --------------------------
(***************************************************************************)
(* The safety of the persistent queue, for every number of items, tasks,   *)
(* faults and process losses: an item is delivered at most once, one whose *)
(* enqueue returned is not lost, and, as long as no enqueue or clear has   *)
(* raised, the window is intact whenever the queue is at rest and items    *)
(* come out in the order they went in.                                     *)
(*                                                                         *)
(* IInv (in KVStoreQueue) is inductive.  Its parts are taken one after the *)
(* other, each for every action: the locals of the operation at hand, then *)
(* where items are, which of them are out of reach, which ids are stored,  *)
(* and in what order.                                                      *)
(***************************************************************************)
EXTENDS KVStoreQueue, SequenceSets

-----------------------------------------------------------------------------
(* The store *)

\* What a store operation does to the items.
Added(id, item) ==
  /\ DOMAIN items' = DOMAIN items \cup {id} /\ items'[id] = item
  /\ \A i \in DOMAIN items \ {id} : items'[i] = items[i]
Removed(id) ==
  /\ DOMAIN items' = DOMAIN items \ {id}
  /\ \A i \in DOMAIN items \ {id} : items'[i] = items[i]

LEMMA StoreWithoutRemoves ==
  ASSUME NEW id, items' = StoreWithout(id)
  PROVE  Removed(id)
BY DEF StoreWithout, Removed

LEMMA StoreWithAdds ==
  ASSUME NEW id, NEW item, items' = StoreWith(id, item)
  PROVE  Added(id, item)
BY DEF StoreWith, Added

\* The store operation at hand, by what the operation is at.
LEMMA WriteEffect ==
  ASSUME LocalsOK, Write
  PROVE  /\ op.at # "free"
         /\ op.at = "put_item" => Added(op.id, Head(op.batch)) /\ UNCHANGED <<next_id, size>>
         /\ op.at \in {"take", "clear_item"} => Removed(op.id) /\ UNCHANGED <<next_id, size>>
         /\ op.at = "rollback" =>
              /\ Min(op.undo) \in op.undo /\ Removed(Min(op.undo))
              /\ UNCHANGED <<next_id, size>>
         /\ op.at \in {"fix_next_id", "put_next_id", "clear_next_id"} =>
              items' = items /\ next_id' = op.id /\ size' = size
         /\ op.at \in {"fix_size", "put_size", "put_new_size", "clear_size"} =>
              items' = items /\ next_id' = next_id /\ size' = op.size
<1>1. op.at # "free"
  BY DEF Write
<1>2. op.at = "put_item" => Added(op.id, Head(op.batch)) /\ UNCHANGED <<next_id, size>>
  BY StoreWithAdds DEF Write
<1>3. op.at \in {"take", "clear_item"} => Removed(op.id) /\ UNCHANGED <<next_id, size>>
  BY StoreWithoutRemoves DEF Write, DeleteTaken
<1>4. op.at = "rollback" => Removed(Min(op.undo)) /\ UNCHANGED <<next_id, size>>
  BY StoreWithoutRemoves DEF Write
<1>5. op.at = "rollback" => Min(op.undo) \in op.undo
  <2> SUFFICES ASSUME op.at = "rollback" PROVE Min(op.undo) \in op.undo
    OBVIOUS
  <2>1. op.undo \in SUBSET Nat /\ op.undo # {}
    BY DEF LocalsOK, Locals
  <2> QED BY <2>1, LeastNumber
<1>6. op.at \in {"fix_next_id", "put_next_id", "clear_next_id"} =>
        items' = items /\ next_id' = op.id /\ size' = size
  BY DEF Write
<1>7. op.at \in {"fix_size", "put_size", "put_new_size", "clear_size"} =>
        items' = items /\ next_id' = next_id /\ size' = op.size
  BY DEF Write
<1> QED BY <1>1, <1>2, <1>3, <1>4, <1>5, <1>6, <1>7

-----------------------------------------------------------------------------
(* The locals *)

\* Everything but what follows from the other parts.
Typed ==
  /\ DOMAIN items \subseteq Nat /\ Stored \subseteq 1..MaxItems
  /\ next_id \in Nat /\ size \in Nat
  /\ initialized \in BOOLEAN /\ recovering \in Nat /\ passed \in Nat
  /\ recovering + passed <= MaxTasks
  /\ offered \in 0..MaxItems
  /\ LocalsOK

LEMMA NoOpTyped ==
  /\ NoOp \in Locals /\ NoOp.at = "free" /\ NoOp.batch = <<>> /\ NoOp.stored = {}
  /\ NoOp.undo = {} /\ NoOp.results = <<>> /\ NoOp.id = 0 /\ NoOp.size = 0
BY DEF NoOp, Locals, Steps

\* The counters that recovery computes.
LEMMA NextIdAfterAll ==
  ASSUME Typed
  PROVE  /\ NextIdAfter(DOMAIN items) \in Nat /\ Cardinality(DOMAIN items) \in Nat
         /\ \A i \in DOMAIN items : i < NextIdAfter(DOMAIN items)
         /\ DOMAIN items # {} =>
              NextIdAfter(DOMAIN items) = Max(DOMAIN items) + 1 /\ Max(DOMAIN items) \in DOMAIN items
         /\ DOMAIN items = {} => NextIdAfter(DOMAIN items) = 0 /\ Cardinality(DOMAIN items) = 0
<1> DEFINE D == DOMAIN items
<1>1. D \in SUBSET Nat /\ IsFiniteSet(D)
  BY DEF Typed, LocalsOK
<1> HIDE DEF D
<1>2. Cardinality(D) \in Nat
  BY <1>1, FS_CardinalityType
<1>3. D = {} => NextIdAfter(D) = 0 /\ Cardinality(D) = 0
  BY FS_EmptySet DEF NextIdAfter
<1>4. D # {} => /\ NextIdAfter(D) = Max(D) + 1 /\ Max(D) \in D
                /\ \A i \in D : i <= Max(D)
  BY <1>1, GreatestNumber DEF NextIdAfter
<1>5. D # {} => NextIdAfter(D) \in Nat /\ \A i \in D : i < NextIdAfter(D)
  <2> SUFFICES ASSUME D # {} PROVE NextIdAfter(D) \in Nat /\ \A i \in D : i < NextIdAfter(D)
    OBVIOUS
  <2>1. Max(D) \in Nat /\ NextIdAfter(D) = Max(D) + 1 /\ \A i \in D : i \in Nat /\ i <= Max(D)
    BY <1>1, <1>4
  <2> QED BY <2>1
<1> QED BY <1>2, <1>3, <1>4, <1>5 DEF D

\* A store operation leaves the store in order, whether it raises or not.
StoreTyped ==
  /\ DOMAIN items \subseteq Nat /\ Stored \subseteq 1..MaxItems
  /\ next_id \in Nat /\ size \in Nat
  /\ IsFiniteSet(DOMAIN items)

LEMMA WriteTyped ==
  ASSUME Typed, Write
  PROVE  StoreTyped'
<1>1. op \in Locals /\ DOMAIN items \subseteq Nat /\ IsFiniteSet(DOMAIN items)
      /\ \A i \in DOMAIN items : items[i] \in 1..MaxItems
  BY DEF Typed, LocalsOK, Stored
<1>2. CASE op.at = "put_item"
  <2>1. Added(op.id, Head(op.batch)) /\ next_id' = next_id /\ size' = size
    BY <1>2, WriteEffect DEF Typed
  <2>2. op.id \in Nat
    BY <1>1, <1>2 DEF Typed, LocalsOK, Locals, Enqueuing
  <2>3. Head(op.batch) \in 1..MaxItems
    <3>1. op.batch \in Seq(1..MaxItems) /\ op.batch # <<>>
      BY <1>1, <1>2 DEF Typed, LocalsOK, Locals
    <3> QED BY <3>1, HeadTailProperties
  <2>4. IsFiniteSet(DOMAIN items')
    BY <1>1, <2>1, FS_AddElement DEF Added
  <2> QED BY <1>1, <2>1, <2>2, <2>3, <2>4 DEF Added, StoreTyped, Stored, Typed
<1>3. ASSUME NEW d, Removed(d)
      PROVE  DOMAIN items' \subseteq Nat /\ Stored' \subseteq 1..MaxItems /\ IsFiniteSet(DOMAIN items')
  <2>1. IsFiniteSet(DOMAIN items')
    BY <1>1, <1>3, FS_RemoveElement DEF Removed
  <2> QED BY <1>1, <1>3, <2>1 DEF Removed, Stored
<1>4. CASE op.at \in {"take", "clear_item", "rollback"}
  BY <1>3, <1>4, WriteEffect DEF StoreTyped, Typed
<1>5. CASE op.at \in {"fix_next_id", "put_next_id", "clear_next_id"}
  <2>1. op.id \in Nat
    BY <1>1, <1>5, NextIdAfterAll DEF Typed, LocalsOK, Locals, Enqueuing, Fixing
  <2> QED BY <1>1, <1>5, <2>1, WriteEffect DEF StoreTyped, Stored, Typed
<1>6. CASE op.at \in {"fix_size", "put_size", "put_new_size", "clear_size"}
  <2>1. op.size \in Nat
    BY <1>1 DEF Locals
  <2> QED BY <1>1, <1>6, <2>1, WriteEffect DEF StoreTyped, Stored, Typed
<1>7. op.at \in Steps /\ op.at # "free"
  BY <1>1, WriteEffect DEF Locals, Typed
<1> QED BY <1>2, <1>4, <1>5, <1>6, <1>7
       DEF Steps, Fixing, Enqueuing, Dequeuing, Clearing

LEMMA FaultTyped ==
  ASSUME Typed, Fault
  PROVE  StoreTyped'
BY WriteTyped DEF Fault, store, StoreTyped, Typed, LocalsOK, Stored

\* After an operation ends, or is cut off, the next begins with nothing in its locals.
LEMMA EndTyped ==
  ASSUME Typed, StoreTyped', op' = NoOp, initialized' \in BOOLEAN,
         recovering' \in Nat, passed' \in Nat, recovering' + passed' <= MaxTasks,
         offered' \in 0..MaxItems
  PROVE  Typed'
BY NoOpTyped, FS_EmptySet
   DEF Typed, StoreTyped, LocalsOK, Fixing, Enqueuing, Dequeuing, Clearing

LEMMA TypedInit == Init => Typed
<1> SUFFICES ASSUME Init PROVE Typed
  OBVIOUS
<1>1. DOMAIN items = {} /\ Stored = {}
  BY DEF Init, Stored
<1>2. op = NoOp /\ next_id = 0 /\ size = 0 /\ initialized = FALSE /\ recovering = 0 /\ passed = 0
      /\ offered = 0
  BY DEF Init
<1>3. IsFiniteSet(DOMAIN items) /\ IsFiniteSet(op.stored) /\ op.undo \subseteq op.stored
  BY <1>1, <1>2, NoOpTyped, FS_EmptySet
<1>4. LocalsOK
  BY <1>2, <1>3, NoOpTyped DEF LocalsOK, Fixing, Enqueuing
<1>5. initialized \in BOOLEAN
  BY <1>2
<1>6. 0 \in Nat /\ 0 + 0 <= MaxTasks /\ 0 \in 0..MaxItems
  BY BoundsAssumption
<1> QED BY <1>1, <1>2, <1>4, <1>5, <1>6 DEF Typed

LEMMA TypedRecovery ==
  ASSUME Typed, CheckInitialized \/ BeginRecovery \/ FixCounter \/ RecoveryFault
  PROVE  Typed'
<1>1. CASE CheckInitialized
  <2>1. /\ items' = items /\ next_id' = next_id /\ size' = size /\ initialized' = initialized
        /\ op' = op /\ offered' = offered /\ undone' = undone /\ Stored' = Stored
        /\ recovering + passed < MaxTasks
        /\ \/ passed' = passed + 1 /\ recovering' = recovering
           \/ recovering' = recovering + 1 /\ passed' = passed
    BY <1>1 DEF CheckInitialized, store, history, Stored
  <2>2. recovering' \in Nat /\ passed' \in Nat /\ recovering' + passed' <= MaxTasks
        /\ recovering' >= recovering
    BY <2>1, BoundsAssumption DEF Typed
  <2>3. LocalsOK'
    BY <2>1, <2>2 DEF Typed, LocalsOK
  <2> QED BY <2>1, <2>2, <2>3 DEF Typed
<1>2. CASE BeginRecovery
  <2>1. /\ items' = items /\ next_id' = next_id /\ size' = size /\ offered' = offered
        /\ op.at = "free" /\ recovering > 0 /\ Stored' = Stored
        /\ StoreTyped'
    BY <1>2 DEF BeginRecovery, store, history, Stored, Typed, StoreTyped, LocalsOK
  <2>2. CASE Recovered /\ UNCHANGED op
    <3>1. initialized' \in BOOLEAN /\ recovering' \in Nat /\ passed' \in Nat
          /\ recovering' + passed' <= MaxTasks
      BY <2>1, <2>2, BoundsAssumption DEF Recovered, Typed
    <3>2. LocalsOK'
      BY <2>1, <2>2 DEF Typed, LocalsOK, Fixing, Enqueuing
    <3> QED BY <2>1, <2>2, <3>1, <3>2 DEF Typed
  <2>3. CASE /\ op' = [NoOp EXCEPT !.at = "fix_next_id", !.id = NextIdAfter(ScannedIds),
                                   !.size = Cardinality(ScannedIds)]
             /\ UNCHANGED <<initialized, tasks>>
    <3>1. /\ initialized' = initialized /\ recovering' = recovering /\ passed' = passed
      BY <2>3 DEF tasks
    <3> DEFINE a == NextIdAfter(DOMAIN items)
               b == Cardinality(DOMAIN items)
    <3>2. a \in Nat /\ b \in Nat
      BY NextIdAfterAll
    <3>3. op' = [NoOp EXCEPT !.at = "fix_next_id", !.id = a, !.size = b]
      BY <2>3 DEF ScannedIds
    <3> HIDE DEF a, b
    <3>4. /\ op' \in Locals /\ op'.at = "fix_next_id" /\ op'.id = a /\ op'.size = b
          /\ op'.stored = {} /\ op'.undo = {}
      <4>1. op' = [at |-> "fix_next_id", batch |-> <<>>, id |-> a, size |-> b, left |-> 0,
                   results |-> <<>>, stored |-> {}, undo |-> {}, rounds |-> 0]
        BY <3>3 DEF NoOp
      <4>2. /\ op'.at = "fix_next_id" /\ op'.id = a /\ op'.size = b
            /\ op'.stored = {} /\ op'.undo = {}
        BY <4>1
      <4>3. op' \in Locals
        BY <3>2, <4>1 DEF Locals, Steps, Fixing
      <4> QED BY <4>2, <4>3
    <3>5. LocalsOK'
      BY <2>1, <3>1, <3>4, FS_EmptySet
         DEF LocalsOK, Typed, Fixing, Enqueuing, a, b
    <3> QED BY <2>1, <3>1, <3>5 DEF Typed
  <2> QED BY <1>2, <2>2, <2>3 DEF BeginRecovery
<1>3. CASE FixCounter
  <2>1. /\ op.at \in Fixing /\ offered' = offered /\ StoreTyped' /\ recovering > 0
        /\ Write
    BY <1>3, WriteTyped DEF FixCounter, history, Typed, LocalsOK
  <2>2. CASE op.at = "fix_next_id"
    <3>1. /\ op' = [op EXCEPT !.at = "fix_size"] /\ initialized' = initialized
          /\ recovering' = recovering /\ passed' = passed
      BY <1>3, <2>2 DEF FixCounter, tasks
    <3>2. items' = items /\ next_id' = op.id /\ size' = size
      BY <2>1, <2>2, WriteEffect DEF Typed
    <3>3. op \in Locals
      BY DEF Typed, LocalsOK
    <3>4. /\ op' \in Locals /\ op'.at = "fix_size" /\ op'.id = op.id /\ op'.size = op.size
          /\ op'.stored = op.stored /\ op'.undo = op.undo
      BY <3>1, <3>3 DEF Locals, Steps, Fixing
    <3>5. LocalsOK'
      BY <2>1, <3>1, <3>2, <3>4 DEF LocalsOK, Typed, Fixing, Enqueuing
    <3> QED BY <2>1, <3>1, <3>5 DEF Typed, StoreTyped
  <2>3. CASE op.at = "fix_size"
    <3>1. op' = NoOp /\ Recovered
      BY <1>3, <2>3 DEF FixCounter
    <3>2. initialized' \in BOOLEAN /\ recovering' \in Nat /\ passed' \in Nat
          /\ recovering' + passed' <= MaxTasks
      BY <2>1, <3>1, BoundsAssumption DEF Recovered, Typed
    <3> QED BY <2>1, <3>1, <3>2, EndTyped DEF Typed
  <2> QED BY <2>1, <2>2, <2>3 DEF Fixing
<1>4. CASE RecoveryFault
  <2>1. /\ op.at \in Fixing /\ offered' = offered /\ StoreTyped' /\ recovering > 0
        /\ op' = NoOp /\ initialized' = initialized /\ passed' = passed
        /\ recovering' = recovering - 1
    BY <1>4, FaultTyped DEF RecoveryFault, history, Typed, LocalsOK
  <2>2. recovering' \in Nat /\ recovering' + passed' <= MaxTasks
    BY <2>1, BoundsAssumption DEF Typed
  <2> QED BY <2>1, <2>2, EndTyped DEF Typed
<1> QED BY <1>1, <1>2, <1>3, <1>4

LEMMA TypedEnqueue ==
  ASSUME Typed, NEW n \in 1..MaxBatch, BeginEnqueue(n)
  PROVE  /\ Typed'
         /\ op' = [at |-> "put_item", batch |-> [k \in 1..n |-> offered + k], id |-> next_id,
                   size |-> size + n, left |-> 0, results |-> <<>>, stored |-> {}, undo |-> {},
                   rounds |-> 0]
         /\ n \in Nat \ {0} /\ op'.batch \in Seq(1..MaxItems) /\ Len(op'.batch) = n
         /\ op.at = "free" /\ passed > 0 /\ offered' = offered + n /\ offered' <= MaxItems
         /\ UNCHANGED <<items, next_id, size, initialized, acked, delivered, forfeited, undone>>
<1> DEFINE b == [k \in 1..n |-> offered + k]
<1>1. /\ op.at = "free" /\ passed > 0 /\ passed' = passed - 1 /\ recovering' = recovering
      /\ items' = items /\ next_id' = next_id /\ size' = size /\ initialized' = initialized
      /\ offered' = offered + n /\ offered + n <= MaxItems /\ Stored' = Stored
      /\ UNCHANGED <<acked, delivered, forfeited, undone>>
  BY DEF BeginEnqueue, Locked, store, Stored
<1>2. n \in Nat \ {0}
  BY BoundsAssumption
<1>3. /\ next_id \in Nat /\ size + n \in Nat /\ offered \in Nat /\ offered + n \in 0..MaxItems
      /\ passed' \in Nat /\ recovering' + passed' <= MaxTasks
  BY <1>1, <1>2, BoundsAssumption DEF Typed
<1>4. b \in Seq(1..MaxItems) /\ Len(b) = n /\ b # <<>>
  <2>1. \A k \in 1..n : offered + k \in 1..MaxItems
    BY <1>2, <1>3, BoundsAssumption
  <2> QED BY <1>2, <2>1
<1> HIDE DEF b
<1>5. op' = [at |-> "put_item", batch |-> b, id |-> next_id, size |-> size + n, left |-> 0,
             results |-> <<>>, stored |-> {}, undo |-> {}, rounds |-> 0]
  BY DEF BeginEnqueue, NoOp, b
<1>6. op' \in Locals
  BY <1>3, <1>4, <1>5 DEF Locals, Steps, Enqueuing
<1>7. LocalsOK'
  <2>1. /\ op'.at = "put_item" /\ op'.batch = b /\ op'.id = next_id /\ op'.stored = {}
        /\ op'.undo = {}
    BY <1>5
  <2> QED BY <1>1, <1>3, <1>4, <1>6, <2>1, FS_EmptySet DEF Typed, LocalsOK, Fixing, Enqueuing
<1>8. Typed'
  BY <1>1, <1>3, <1>7 DEF Typed
<1> QED BY <1>1, <1>2, <1>4, <1>5, <1>8 DEF b

LEMMA TypedPutItem ==
  ASSUME Typed, PutItem
  PROVE  /\ Typed'
         /\ op.at = "put_item" /\ op.batch \in Seq(1..MaxItems) /\ op.batch # <<>>
         /\ Added(op.id, Head(op.batch))
         /\ op'.at = IF Len(op.batch) = 1 THEN "put_next_id" ELSE "put_item"
         /\ op'.batch = Tail(op.batch) /\ op'.id = op.id + 1 /\ op'.size = op.size
         /\ op'.stored = op.stored \cup {op.id} /\ op'.results = Append(op.results, Head(op.batch))
         /\ op.id \in Nat /\ op.id >= next_id
         /\ UNCHANGED <<next_id, size, initialized, passed>>
         /\ UNCHANGED <<offered, acked, delivered, forfeited, undone>>
<1>1. /\ op.at = "put_item" /\ Write
      /\ initialized' = initialized /\ recovering' = recovering /\ passed' = passed
      /\ UNCHANGED <<offered, acked, delivered, forfeited, undone>>
  BY DEF PutItem, tasks, history
<1>2. Added(op.id, Head(op.batch)) /\ next_id' = next_id /\ size' = size /\ StoreTyped'
  BY <1>1, WriteEffect, WriteTyped DEF Typed
<1> DEFINE a == IF Len(op.batch) = 1 THEN "put_next_id" ELSE "put_item"
           b == Tail(op.batch)
           r == Append(op.results, Head(op.batch))
           z == op.stored \cup {op.id}
<1>3. op \in Locals /\ op.id \in Nat /\ op.id >= next_id /\ op.batch \in Seq(1..MaxItems)
      /\ op.batch # <<>> /\ op.results \in Seq(1..MaxItems)
  BY <1>1 DEF Typed, LocalsOK, Locals, Enqueuing
<1>4. /\ b \in Seq(1..MaxItems) /\ Len(b) = Len(op.batch) - 1 /\ Head(op.batch) \in 1..MaxItems
  BY <1>3, HeadTailProperties
<1>5. (a = "put_item" => b # <<>>) /\ (a = "put_next_id" => b = <<>>) /\ a \in Enqueuing
      /\ a \in {"put_item", "put_next_id"}
  <2>1. Len(op.batch) \in Nat
    BY <1>3
  <2>2. Len(op.batch) = 1 <=> Len(b) = 0
    <3> HIDE DEF b
    <3> QED BY <1>4, <2>1
  <2>3. Len(b) = 0 <=> b = <<>>
    <3> HIDE DEF b
    <3> QED BY <1>4, EmptySeq
  <2>4. a = "put_next_id" <=> b = <<>>
    <3> HIDE DEF b
    <3> QED BY <2>2, <2>3
  <2> QED BY <2>4 DEF Enqueuing
<1>6. r \in Seq(1..MaxItems)
  BY <1>3, <1>4
<1>7. z \in SUBSET Nat /\ IsFiniteSet(z) /\ op.undo \subseteq z
  BY <1>3, FS_AddElement DEF Locals, Typed, LocalsOK
<1>8. op' = [at |-> a, batch |-> b, id |-> op.id + 1, size |-> op.size, left |-> op.left,
             results |-> r, stored |-> z, undo |-> op.undo, rounds |-> op.rounds]
  BY <1>3 DEF PutItem, Locals
<1> HIDE DEF a, b, r, z
<1>9. op' \in Locals
  BY <1>3, <1>4, <1>5, <1>6, <1>7, <1>8 DEF Locals, Steps
<1>10. LocalsOK'
  <2>1. /\ op'.at = a /\ op'.batch = b /\ op'.id = op.id + 1 /\ op'.stored = z
        /\ op'.undo = op.undo
    BY <1>8
  <2> QED BY <1>2, <1>3, <1>5, <1>7, <1>9, <2>1 DEF Typed, LocalsOK, Fixing, Enqueuing, StoreTyped
<1>11. Typed'
  BY <1>1, <1>2, <1>10 DEF Typed, StoreTyped
<1> QED BY <1>1, <1>2, <1>3, <1>8, <1>11 DEF a, b, r, z

LEMMA TypedPutCounter ==
  ASSUME Typed, PutCounter
  PROVE  /\ Typed' /\ op.at \in {"put_next_id", "put_size"} /\ items' = items
         /\ op.at = "put_next_id" =>
              /\ op' = [op EXCEPT !.at = "put_size"] /\ op'.at = "put_size"
              /\ op'.id = op.id /\ op'.size = op.size /\ op'.batch = op.batch
              /\ op'.stored = op.stored /\ op'.results = op.results
              /\ next_id' = op.id /\ size' = size /\ acked' = acked
         /\ op.at = "put_size" =>
              /\ op' = NoOp /\ next_id' = next_id /\ size' = op.size
              /\ acked' = acked \cup ToSet(op.results)
         /\ op.batch = <<>> /\ op.id \in Nat /\ op.id >= next_id
         /\ UNCHANGED <<initialized, passed>> /\ UNCHANGED <<offered, delivered, forfeited, undone>>
<1>1. /\ op.at \in {"put_next_id", "put_size"} /\ Write
      /\ initialized' = initialized /\ recovering' = recovering /\ passed' = passed
      /\ UNCHANGED <<offered, delivered, forfeited, undone>>
      /\ op.at = "put_next_id" => op' = [op EXCEPT !.at = "put_size"] /\ acked' = acked
      /\ op.at = "put_size" => op' = NoOp /\ acked' = acked \cup ToSet(op.results)
  BY DEF PutCounter, tasks
<1>2. op \in Locals /\ op.id >= next_id /\ op.id \in Nat /\ op.batch = <<>>
  BY <1>1 DEF Typed, LocalsOK, Locals, Enqueuing
<1>3. /\ items' = items /\ StoreTyped'
      /\ op.at = "put_next_id" => next_id' = op.id /\ size' = size
      /\ op.at = "put_size" => next_id' = next_id /\ size' = op.size
  BY <1>1, WriteEffect, WriteTyped DEF Typed
<1>4. CASE op.at = "put_next_id"
  <2>1. /\ op' \in Locals /\ op'.at = "put_size" /\ op'.id = op.id /\ op'.size = op.size
        /\ op'.batch = op.batch /\ op'.stored = op.stored /\ op'.results = op.results
        /\ op'.undo = op.undo
    BY <1>1, <1>2, <1>4 DEF Locals, Steps, Enqueuing
  <2>2. LocalsOK'
    BY <1>2, <1>3, <1>4, <2>1 DEF Typed, LocalsOK, Fixing, Enqueuing
  <2>3. Typed'
    BY <1>1, <1>3, <2>2 DEF Typed, StoreTyped
  <2> QED BY <1>1, <1>2, <1>3, <1>4, <2>1, <2>3
<1>5. CASE op.at = "put_size"
  <2>1. Typed'
    BY <1>1, <1>3, <1>5, EndTyped DEF Typed
  <2> QED BY <1>1, <1>2, <1>3, <1>5, <2>1
<1> QED BY <1>1, <1>4, <1>5

\* An enqueue that raises: whatever the store operation did, what was stored is to be deleted.
LEMMA TypedEnqueueFault ==
  ASSUME Typed, EnqueueFault
  PROVE  /\ Typed' /\ op.at \in Enqueuing /\ undone' = TRUE
         /\ Write \/ UNCHANGED store
         /\ op'.at \in {"free", "rollback"} /\ op'.stored = op.stored
         /\ UNCHANGED <<initialized, passed>> /\ UNCHANGED <<offered, acked, delivered, forfeited>>
<1>1. /\ op.at \in Enqueuing /\ undone' = TRUE /\ Fault /\ StoreTyped'
      /\ initialized' = initialized /\ recovering' = recovering /\ passed' = passed
      /\ UNCHANGED <<offered, acked, delivered, forfeited>>
  BY FaultTyped DEF EnqueueFault, tasks
<1>2. Write \/ UNCHANGED store
  BY <1>1 DEF Fault
<1>3. op \in Locals
  BY DEF Typed, LocalsOK
<1>4. CASE op.stored = {}
  <2>1. op' = NoOp
    BY <1>4 DEF EnqueueFault
  <2>2. Typed'
    BY <1>1, <2>1, EndTyped DEF Typed
  <2> QED BY <1>1, <1>2, <1>4, <2>1, <2>2, NoOpTyped
<1>5. CASE op.stored # {}
  <2> DEFINE r == IF op.at = "put_item" THEN 2 ELSE 1
  <2>1. op' = [op EXCEPT !.at = "rollback", !.undo = op.stored, !.rounds = r] /\ r \in 0..2
    BY <1>5 DEF EnqueueFault
  <2> HIDE DEF r
  <2>2. /\ op'.at = "rollback" /\ op'.undo = op.stored /\ op'.stored = op.stored
    BY <1>3, <2>1 DEF Locals
  <2>3. op' \in Locals
    BY <1>3, <2>1 DEF Locals, Steps
  <2>4. LocalsOK'
    BY <1>1, <1>5, <2>2, <2>3 DEF Typed, LocalsOK, Fixing, Enqueuing, StoreTyped
  <2>5. Typed'
    BY <1>1, <2>4 DEF Typed, StoreTyped
  <2> QED BY <1>1, <1>2, <2>2, <2>5
<1> QED BY <1>4, <1>5

LEMMA TypedRollback ==
  ASSUME Typed, Rollback \/ RollbackFault
  PROVE  /\ Typed' /\ op.at = "rollback" /\ undone /\ undone' = undone
         /\ items' = items \/ \E i \in op.stored : Removed(i)
         /\ op'.at \in {"free", "rollback"} /\ (op'.at = "rollback" => op'.stored = op.stored)
         /\ UNCHANGED <<next_id, size, initialized, passed>>
         /\ UNCHANGED <<offered, acked, delivered, forfeited>>
<1>1. /\ op.at = "rollback" /\ (Write \/ UNCHANGED store) /\ StoreTyped'
      /\ initialized' = initialized /\ recovering' = recovering /\ passed' = passed
      /\ UNCHANGED <<offered, acked, delivered, forfeited, undone>>
  BY WriteTyped, FaultTyped DEF Rollback, RollbackFault, Fault, tasks, history
<1>2. /\ op \in Locals /\ op.undo \subseteq op.stored /\ IsFiniteSet(op.stored) /\ op.undo # {}
      /\ undone
  BY <1>1 DEF Typed, LocalsOK
<1>3. /\ items' = items \/ \E i \in op.stored : Removed(i)
      /\ next_id' = next_id /\ size' = size
  BY <1>1, <1>2, WriteEffect DEF Typed, store
<1>4. CASE op' = NoOp
  <2>1. Typed'
    BY <1>1, <1>4, EndTyped DEF Typed
  <2> QED BY <1>1, <1>2, <1>3, <1>4, <2>1, NoOpTyped
<1>5. ASSUME NEW u \in SUBSET op.stored, u # {}, NEW r \in 0..2,
             op' = [op EXCEPT !.undo = u, !.rounds = r]
      PROVE  Typed' /\ op'.at = "rollback" /\ op'.stored = op.stored
  <2>1. op'.at = "rollback" /\ op'.undo = u /\ op'.stored = op.stored
    BY <1>1, <1>2, <1>5 DEF Locals
  <2>2. op' \in Locals
    BY <1>2, <1>5 DEF Locals
  <2>3. LocalsOK'
    BY <1>1, <1>2, <1>5, <2>1, <2>2 DEF Typed, LocalsOK, Fixing, Enqueuing, StoreTyped
  <2> QED BY <1>1, <2>1, <2>3 DEF Typed, StoreTyped
<1>6. CASE op' # NoOp
  <2>1. CASE Rollback
    <3> DEFINE u == op.undo \ {Min(op.undo)}
    <3>1. /\ op' = [op EXCEPT !.undo = u] /\ Cardinality(op.undo) # 1
      BY <1>6, <2>1 DEF Rollback
    <3>2. u # {}
      <4> SUFFICES ASSUME u = {} PROVE FALSE
        OBVIOUS
      <4>1. op.undo = {Min(op.undo)}
        BY <1>2
      <4> QED BY <3>1, <4>1, FS_Singleton
    <3>3. op' = [op EXCEPT !.undo = u, !.rounds = op.rounds] /\ op.rounds \in 0..2
      BY <1>2, <3>1 DEF Locals
    <3>4. u \in SUBSET op.stored
      BY <1>2
    <3> HIDE DEF u
    <3> QED BY <1>1, <1>2, <1>3, <1>5, <3>2, <3>3, <3>4
  <2>2. CASE RollbackFault
    <3>1. op' = [op EXCEPT !.undo = op.stored, !.rounds = 1]
      BY <1>6, <2>2 DEF RollbackFault
    <3>2. op.stored \in SUBSET op.stored /\ op.stored # {} /\ 1 \in 0..2
      BY <1>2
    <3>3. Typed' /\ op'.at = "rollback" /\ op'.stored = op.stored
      BY <1>5, <3>1, <3>2
    <3> QED BY <1>1, <1>2, <1>3, <3>3
  <2> QED BY <2>1, <2>2
<1> QED BY <1>4, <1>6

LEMMA TypedDequeue ==
  ASSUME Typed, NEW n \in 1..MaxBatch, BeginDequeue(n)
  PROVE  /\ Typed' /\ op.at = "free" /\ passed > 0
         /\ \/ size = 0 /\ op' = NoOp
            \/ \E l \in 1..size :
                 op' = [at |-> "take", batch |-> <<>>, id |-> next_id - size, size |-> size,
                        left |-> l, results |-> <<>>, stored |-> {}, undo |-> {}, rounds |-> 0]
         /\ UNCHANGED <<items, next_id, size, initialized>>
         /\ UNCHANGED <<offered, acked, delivered, forfeited, undone>>
<1>1. /\ op.at = "free" /\ passed > 0 /\ passed' = passed - 1 /\ recovering' = recovering
      /\ items' = items /\ next_id' = next_id /\ size' = size /\ initialized' = initialized
      /\ Stored' = Stored
      /\ UNCHANGED <<offered, acked, delivered, forfeited, undone>>
  BY DEF BeginDequeue, Locked, store, history, Stored
<1>2. passed' \in Nat /\ recovering' + passed' <= MaxTasks /\ StoreTyped'
  BY <1>1, BoundsAssumption DEF Typed, StoreTyped, LocalsOK
<1>3. CASE size = 0
  <2>1. op' = NoOp
    BY <1>3 DEF BeginDequeue
  <2>2. Typed'
    BY <1>1, <1>2, <2>1, EndTyped DEF Typed
  <2> QED BY <1>1, <1>3, <2>1, <2>2
<1>4. CASE size # 0
  <2> DEFINE l == IF n < size THEN n ELSE size
             i == next_id - size
  <2>1. l \in 1..size /\ l \in Nat /\ i \in Int /\ size \in Nat
    BY <1>4, BoundsAssumption DEF Typed
  <2>2. op' = [NoOp EXCEPT !.at = "take", !.id = i, !.size = size, !.left = l]
    BY <1>4 DEF BeginDequeue, StartId
  <2> HIDE DEF l, i
  <2>3. op' = [at |-> "take", batch |-> <<>>, id |-> i, size |-> size,
               left |-> l, results |-> <<>>, stored |-> {}, undo |-> {}, rounds |-> 0]
    BY <2>2 DEF NoOp
  <2>4. op' \in Locals
    BY <2>1, <2>3 DEF Locals, Steps, Dequeuing
  <2>5. LocalsOK'
    <3>1. op'.at = "take" /\ op'.stored = {} /\ op'.undo = {} /\ op'.left = l /\ op'.size = size
      BY <2>3
    <3> QED BY <1>1, <1>2, <2>1, <2>4, <3>1, FS_EmptySet
            DEF LocalsOK, StoreTyped, Fixing, Enqueuing
  <2>6. Typed'
    BY <1>1, <1>2, <2>5 DEF Typed
  <2> QED BY <1>1, <2>1, <2>3, <2>6 DEF i
<1> QED BY <1>3, <1>4

LEMMA TypedTake ==
  ASSUME Typed, Take
  PROVE  /\ Typed' /\ op.at = "take" /\ Removed(op.id) /\ op \in Locals
         /\ op'.at \in Dequeuing /\ op'.id = op.id + 1
         /\ op'.at = "take" <=> op.left # 1
         /\ op.id \in DOMAIN items =>
              op'.size = op.size - 1 /\ op'.results = Append(op.results, items[op.id])
         /\ op.id \notin DOMAIN items => op'.size = op.size /\ op'.results = op.results
         /\ UNCHANGED <<next_id, size, initialized, passed>>
         /\ UNCHANGED <<offered, acked, delivered, forfeited, undone>>
<1>1. /\ op.at = "take" /\ Write
      /\ initialized' = initialized /\ recovering' = recovering /\ passed' = passed
      /\ UNCHANGED <<offered, acked, delivered, forfeited, undone>>
  BY DEF Take, tasks, history
<1>2. Removed(op.id) /\ next_id' = next_id /\ size' = size /\ StoreTyped'
  BY <1>1, WriteEffect, WriteTyped DEF Typed
<1>3. op \in Locals /\ op.left \in 1..op.size /\ op.size \in Nat /\ op.left \in Nat
  BY <1>1 DEF Typed, LocalsOK, Locals
<1> DEFINE a == IF op.left = 1 THEN "put_new_size" ELSE "take"
           z == IF op.id \in DOMAIN items THEN op.size - 1 ELSE op.size
           r == IF op.id \in DOMAIN items THEN Append(op.results, items[op.id]) ELSE op.results
<1>4. op' = [at |-> a, batch |-> op.batch, id |-> op.id + 1, size |-> z, left |-> op.left - 1,
             results |-> r, stored |-> op.stored, undo |-> op.undo, rounds |-> op.rounds]
  BY <1>3 DEF Take, Locals
<1>5. z \in Nat /\ op.left - 1 \in Nat /\ (a = "take" => op.left - 1 \in 1..z)
      /\ a \in {"take", "put_new_size"}
  BY <1>3
<1>6. r \in Seq(1..MaxItems)
  <2>1. op.results \in Seq(1..MaxItems)
    BY <1>3 DEF Locals
  <2>2. op.id \in DOMAIN items => items[op.id] \in 1..MaxItems
    BY DEF Typed, Stored
  <2>3. CASE op.id \in DOMAIN items
    <3>1. Append(op.results, items[op.id]) \in Seq(1..MaxItems)
      BY <2>1, <2>2, <2>3
    <3> QED BY <2>3, <3>1
  <2>4. CASE op.id \notin DOMAIN items
    BY <2>1, <2>4
  <2> QED BY <2>3, <2>4
<1> HIDE DEF a, z, r
<1>7. op' \in Locals
  BY <1>3, <1>4, <1>5, <1>6 DEF Locals, Steps, Dequeuing
<1>8. LocalsOK'
  <2>1. op'.at = a /\ op'.stored = op.stored /\ op'.undo = op.undo /\ op'.left = op.left - 1
        /\ op'.size = z
    BY <1>4
  <2> QED BY <1>1, <1>2, <1>5, <1>7, <2>1 DEF Typed, LocalsOK, StoreTyped, Fixing, Enqueuing
<1>9. Typed'
  BY <1>1, <1>2, <1>8 DEF Typed, StoreTyped
<1> QED BY <1>1, <1>2, <1>3, <1>4, <1>9 DEF a, z, r, Dequeuing

LEMMA TypedPutNewSize ==
  ASSUME Typed, PutNewSize
  PROVE  /\ Typed' /\ op.at = "put_new_size" /\ op' = NoOp /\ items' = items
         /\ next_id' = next_id /\ size' = op.size /\ delivered' = delivered \o op.results
         /\ UNCHANGED <<initialized, passed>> /\ UNCHANGED <<offered, acked, forfeited, undone>>
<1>1. /\ op.at = "put_new_size" /\ Write /\ op' = NoOp /\ delivered' = delivered \o op.results
      /\ initialized' = initialized /\ recovering' = recovering /\ passed' = passed
      /\ UNCHANGED <<offered, acked, forfeited, undone>>
  BY DEF PutNewSize, tasks
<1>2. items' = items /\ next_id' = next_id /\ size' = op.size /\ StoreTyped'
  BY <1>1, WriteEffect, WriteTyped DEF Typed
<1>3. Typed'
  BY <1>1, <1>2, EndTyped DEF Typed
<1> QED BY <1>1, <1>2, <1>3

LEMMA TypedDequeueFault ==
  ASSUME Typed, DequeueFault
  PROVE  /\ Typed' /\ op.at \in Dequeuing /\ op' = NoOp /\ initialized' = FALSE
         /\ forfeited' = forfeited \cup Lost
         /\ op.at = "take" => Removed(op.id) \/ items' = items
         /\ op.at = "put_new_size" => items' = items
         /\ next_id' = next_id /\ size' \in {size, op.size}
         /\ op.at = "take" => size' = size
         /\ UNCHANGED passed /\ UNCHANGED <<offered, acked, delivered, undone>>
<1>1. /\ op.at \in Dequeuing /\ op' = NoOp /\ initialized' = FALSE
      /\ forfeited' = forfeited \cup Lost /\ (Write \/ UNCHANGED store) /\ StoreTyped'
      /\ recovering' = recovering /\ passed' = passed
      /\ UNCHANGED <<offered, acked, delivered, undone>>
  BY FaultTyped DEF DequeueFault, RecoverNext, Fault, tasks
<1>2. /\ op.at = "take" => (Removed(op.id) \/ items' = items) /\ size' = size
      /\ op.at = "put_new_size" => items' = items
      /\ next_id' = next_id /\ size' \in {size, op.size}
  BY <1>1, WriteEffect DEF Typed, store, Dequeuing
<1>3. Typed'
  BY <1>1, EndTyped DEF Typed
<1> QED BY <1>1, <1>2, <1>3

LEMMA TypedClear ==
  ASSUME Typed, BeginClear
  PROVE  /\ Typed' /\ op.at = "free" /\ passed > 0
         /\ \/ size = 0 /\ op' = NoOp /\ forfeited' = forfeited
            \/ /\ size # 0 /\ forfeited' = forfeited \cup Stored
               /\ op' = [at |-> "clear_item", batch |-> <<>>, id |-> next_id - size, size |-> 0,
                         left |-> size, results |-> <<>>, stored |-> {}, undo |-> {}, rounds |-> 0]
         /\ UNCHANGED <<items, next_id, size, initialized>>
         /\ UNCHANGED <<offered, acked, delivered, undone>>
<1>1. /\ op.at = "free" /\ passed > 0 /\ passed' = passed - 1 /\ recovering' = recovering
      /\ items' = items /\ next_id' = next_id /\ size' = size /\ initialized' = initialized
      /\ Stored' = Stored
      /\ UNCHANGED <<offered, acked, delivered, undone>>
  BY DEF BeginClear, Locked, store, Stored
<1>2. passed' \in Nat /\ recovering' + passed' <= MaxTasks /\ StoreTyped'
  BY <1>1, BoundsAssumption DEF Typed, StoreTyped, LocalsOK
<1>3. CASE size = 0
  <2>1. op' = NoOp /\ forfeited' = forfeited
    BY <1>3 DEF BeginClear
  <2>2. Typed'
    BY <1>1, <1>2, <2>1, EndTyped DEF Typed
  <2> QED BY <1>1, <1>3, <2>1, <2>2
<1>4. CASE size # 0
  <2> DEFINE i == next_id - size
  <2>1. i \in Int /\ size \in Nat /\ size > 0
    BY <1>4 DEF Typed
  <2>2. op' = [NoOp EXCEPT !.at = "clear_item", !.id = i, !.left = size]
        /\ forfeited' = forfeited \cup Stored
    BY <1>4 DEF BeginClear, StartId
  <2> HIDE DEF i
  <2>3. op' = [at |-> "clear_item", batch |-> <<>>, id |-> i, size |-> 0, left |-> size,
               results |-> <<>>, stored |-> {}, undo |-> {}, rounds |-> 0]
    BY <2>2 DEF NoOp
  <2>4. op' \in Locals
    BY <2>1, <2>3 DEF Locals, Steps, Clearing
  <2>5. LocalsOK'
    <3>1. op'.at = "clear_item" /\ op'.stored = {} /\ op'.undo = {} /\ op'.left = size
      BY <2>3
    <3> QED BY <1>1, <1>2, <2>1, <2>4, <3>1, FS_EmptySet
            DEF LocalsOK, StoreTyped, Fixing, Enqueuing
  <2>6. Typed'
    BY <1>1, <1>2, <2>5 DEF Typed
  <2> QED BY <1>1, <1>4, <2>2, <2>3, <2>6 DEF i
<1> QED BY <1>3, <1>4

LEMMA TypedClearing ==
  ASSUME Typed, Clear
  PROVE  /\ Typed' /\ op.at \in Clearing
         /\ op.at = "clear_item" =>
              /\ Removed(op.id) /\ next_id' = next_id /\ size' = size
              /\ \/ op.left > 1 /\ op'.at = "clear_item" /\ op'.id = op.id + 1
                    /\ op'.left = op.left - 1
                 \/ op.left = 1 /\ op'.at = "clear_size"
         /\ op.at = "clear_size" =>
              items' = items /\ next_id' = next_id /\ size' = 0 /\ op'.at = "clear_next_id"
         /\ op.at = "clear_next_id" =>
              items' = items /\ next_id' = 0 /\ size' = size /\ op' = NoOp
         /\ UNCHANGED <<initialized, passed>>
         /\ UNCHANGED <<offered, acked, delivered, forfeited, undone>>
<1>1. /\ op.at \in Clearing /\ Write /\ StoreTyped'
      /\ initialized' = initialized /\ recovering' = recovering /\ passed' = passed
      /\ UNCHANGED <<offered, acked, delivered, forfeited, undone>>
  BY WriteTyped DEF Clear, tasks, history
<1>2. /\ op.at = "clear_item" => Removed(op.id) /\ next_id' = next_id /\ size' = size
      /\ op.at = "clear_size" => items' = items /\ next_id' = next_id /\ size' = op.size
      /\ op.at = "clear_next_id" => items' = items /\ next_id' = op.id /\ size' = size
  BY <1>1, WriteEffect DEF Typed
<1>3. /\ op \in Locals
      /\ op.at = "clear_item" => op.left > 0
      /\ op.at \in {"clear_size", "clear_next_id"} => op.id = 0 /\ op.size = 0
  BY DEF Typed, LocalsOK
<1>4. ASSUME op' \in Locals, op'.at \in {"clear_item", "clear_size", "clear_next_id"},
             op'.stored \in {op.stored, {}}, op'.undo \in {op.undo, {}},
             op'.undo \subseteq op'.stored,
             op'.at = "clear_item" => op'.left > 0,
             op'.at # "clear_item" => op'.id = 0 /\ op'.size = 0
      PROVE  Typed'
  <2>1. LocalsOK'
    BY <1>1, <1>4, FS_EmptySet DEF Typed, LocalsOK, StoreTyped, Fixing, Enqueuing
  <2> QED BY <1>1, <2>1 DEF Typed, StoreTyped
<1>5. CASE op.at = "clear_item" /\ op.left > 1
  <2>1. op' = [op EXCEPT !.id = op.id + 1, !.left = op.left - 1]
    BY <1>5 DEF Clear
  <2>2. op.left - 1 \in Nat /\ op.left - 1 > 0 /\ op.id + 1 \in Int
    BY <1>3, <1>5 DEF Locals
  <2>3. /\ op'.at = "clear_item" /\ op'.id = op.id + 1 /\ op'.left = op.left - 1
        /\ op'.stored = op.stored /\ op'.undo = op.undo
    BY <1>3, <1>5, <2>1 DEF Locals
  <2>4. op' \in Locals
    BY <1>3, <2>1, <2>2 DEF Locals
  <2>5. op'.undo \subseteq op'.stored
    BY <2>3 DEF Typed, LocalsOK
  <2> QED BY <1>1, <1>2, <1>4, <1>5, <2>2, <2>3, <2>4, <2>5
<1>6. CASE op.at = "clear_item" /\ ~ (op.left > 1)
  <2>1. op.left = 1
    BY <1>3, <1>6 DEF Locals
  <2>2. op' = [NoOp EXCEPT !.at = "clear_size"]
    BY <1>6, <2>1 DEF Clear
  <2>3. op' = [at |-> "clear_size", batch |-> <<>>, id |-> 0, size |-> 0, left |-> 0,
               results |-> <<>>, stored |-> {}, undo |-> {}, rounds |-> 0]
    BY <2>2 DEF NoOp
  <2>4. op' \in Locals
    BY <2>3 DEF Locals, Steps, Clearing
  <2> QED BY <1>1, <1>2, <1>4, <1>6, <2>1, <2>3, <2>4
<1>7. CASE op.at = "clear_size"
  <2>1. op' = [NoOp EXCEPT !.at = "clear_next_id"]
    BY <1>7 DEF Clear
  <2>2. op' = [at |-> "clear_next_id", batch |-> <<>>, id |-> 0, size |-> 0, left |-> 0,
               results |-> <<>>, stored |-> {}, undo |-> {}, rounds |-> 0]
    BY <2>1 DEF NoOp
  <2>3. op' \in Locals
    BY <2>2 DEF Locals, Steps, Clearing
  <2> QED BY <1>1, <1>2, <1>3, <1>4, <1>7, <2>2, <2>3
<1>8. CASE op.at = "clear_next_id"
  <2>1. op' = NoOp
    BY <1>8 DEF Clear
  <2>2. Typed'
    BY <1>1, <2>1, EndTyped DEF Typed
  <2> QED BY <1>1, <1>2, <1>3, <1>8, <2>1, <2>2
<1> QED BY <1>1, <1>5, <1>6, <1>7, <1>8 DEF Clearing

LEMMA TypedClearFault ==
  ASSUME Typed, ClearFault
  PROVE  /\ Typed' /\ op.at \in Clearing /\ op' = NoOp /\ undone' = TRUE
         /\ items' = items \/ Removed(op.id)
         /\ next_id' \in {next_id, 0}
         /\ UNCHANGED <<initialized, passed>> /\ UNCHANGED <<offered, acked, delivered, forfeited>>
<1>1. /\ op.at \in Clearing /\ op' = NoOp /\ undone' = TRUE /\ StoreTyped'
      /\ (Write \/ UNCHANGED store)
      /\ initialized' = initialized /\ recovering' = recovering /\ passed' = passed
      /\ UNCHANGED <<offered, acked, delivered, forfeited>>
  BY FaultTyped DEF ClearFault, Fault, tasks
<1>2. op.at = "clear_next_id" => op.id = 0
  BY DEF Typed, LocalsOK
<1>3. (items' = items \/ Removed(op.id)) /\ next_id' \in {next_id, 0}
  BY <1>1, <1>2, WriteEffect DEF Typed, store, Clearing
<1>4. Typed'
  BY <1>1, EndTyped DEF Typed
<1> QED BY <1>1, <1>3, <1>4

LEMMA TypedCrash ==
  ASSUME Typed, Crash
  PROVE  /\ Typed' /\ op' = NoOp /\ initialized' = FALSE /\ passed' = 0
         /\ forfeited' = forfeited \cup (IF op.at \in Dequeuing THEN ToSet(op.results) ELSE {})
         /\ UNCHANGED <<items, next_id, size>>
         /\ UNCHANGED <<offered, acked, delivered, undone>>
<1>1. /\ op' = NoOp /\ initialized' = FALSE /\ recovering' = 0 /\ passed' = 0
      /\ forfeited' = forfeited \cup (IF op.at \in Dequeuing THEN ToSet(op.results) ELSE {})
      /\ UNCHANGED <<items, next_id, size>> /\ Stored' = Stored
      /\ UNCHANGED <<offered, acked, delivered, undone>>
  BY DEF Crash, store, Stored
<1>2. StoreTyped'
  BY <1>1 DEF Typed, StoreTyped, LocalsOK
<1>3. initialized' \in BOOLEAN /\ 0 \in Nat /\ 0 + 0 <= MaxTasks
  <2>1. initialized' \in BOOLEAN
    BY <1>1
  <2> QED BY <2>1, BoundsAssumption
<1>4. Typed'
  BY <1>1, <1>2, <1>3, EndTyped DEF Typed
<1> QED BY <1>1, <1>4

\* What recovery leaves alone.
LEMMA RecoveryEffect ==
  ASSUME Typed, BeginRecovery \/ FixCounter \/ RecoveryFault
  PROVE  /\ Typed' /\ items' = items /\ op.at \in {"free"} \cup Fixing
         /\ op'.at \in {"free"} \cup Fixing
         /\ UNCHANGED <<offered, acked, delivered, forfeited, undone>>
<1>1. Typed'
  BY TypedRecovery
<1>2. /\ op.at \in {"free"} \cup Fixing
      /\ UNCHANGED <<offered, acked, delivered, forfeited, undone>>
  BY DEF BeginRecovery, FixCounter, RecoveryFault, history
<1>3. items' = items
  BY WriteEffect DEF BeginRecovery, FixCounter, RecoveryFault, store, Fault, Typed, Fixing
<1>4. op'.at \in {"free"} \cup Fixing
  <2>1. op \in Locals /\ NoOp.at = "free"
    BY NoOpTyped DEF Typed, LocalsOK
  <2>2. CASE BeginRecovery
    BY <1>2, <2>1, <2>2 DEF BeginRecovery, NoOp, Fixing
  <2>3. CASE FixCounter
    BY <2>1, <2>3 DEF FixCounter, Locals, Fixing
  <2>4. CASE RecoveryFault
    BY <2>1, <2>4 DEF RecoveryFault
  <2> QED BY <2>2, <2>3, <2>4
<1> QED BY <1>1, <1>2, <1>3, <1>4

-----------------------------------------------------------------------------
(* Where items are *)

Places == OnePlace /\ DeliveredOnce

LEMMA KnownBound ==
  ASSUME Typed
  PROVE  /\ Known \in Int /\ Known <= offered /\ offered \in Nat
         /\ op.at # "put_item" => Known = offered
<1>1. offered \in Nat /\ Len(op.batch) \in Nat
  BY BoundsAssumption DEF Typed, LocalsOK, Locals
<1> QED BY <1>1 DEF Known

\* Nothing is taken or delivered; at most the next of the items to be stored is.
LEMMA NothingTaken ==
  ASSUME Typed, Typed', Places, NEW d,
         \A i \in DOMAIN items' : \/ i \in DOMAIN items /\ items'[i] = items[i]
                                  \/ i = d /\ items'[i] = Known + 1 /\ Known + 1 <= Known',
         delivered' = delivered, op'.at \notin Dequeuing,
         acked' \subseteq 1..Known', forfeited' \subseteq 1..Known',
         Known' >= Known, Known' \in 0..MaxItems,
         op'.at = "put_item" => \A k \in DOMAIN op'.batch : op'.batch[k] = Known' + k
  PROVE  Places'
<1> USE DEF Places, OnePlace
<1>1. Known \in Int /\ Known' \in Int /\ Known \in 0..MaxItems /\ MaxItems \in Nat
  BY BoundsAssumption
<1>2. \A i \in DOMAIN items : items[i] \in 1..Known
  BY DEF Stored
<1>3. Stored' \subseteq 1..Known'
  <2> SUFFICES ASSUME NEW i \in DOMAIN items' PROVE items'[i] \in 1..Known'
    BY DEF Stored
  <2> QED BY <1>1, <1>2
<1>4. \A i, j \in DOMAIN items' : items'[i] = items'[j] => i = j
  <2> SUFFICES ASSUME NEW i \in DOMAIN items', NEW j \in DOMAIN items', items'[i] = items'[j]
               PROVE  i = j
    OBVIOUS
  <2> QED BY <1>1, <1>2
<1>5. ToSet(delivered) \subseteq 1..Known /\ ToSet(delivered') \subseteq 1..Known'
  BY <1>1
<1>6. Stored' \cap ToSet(delivered') = {}
  <2> SUFFICES ASSUME NEW i \in DOMAIN items', items'[i] \in ToSet(delivered) PROVE FALSE
    BY DEF Stored
  <2>1. items'[i] \in 1..Known
    BY <1>5
  <2>2. i \in DOMAIN items /\ items'[i] = items[i]
    BY <1>1, <2>1
  <2> QED BY <2>2 DEF Stored
<1>7. DeliveredOnce'
  BY DEF DeliveredOnce
<1> QED BY <1>3, <1>4, <1>5, <1>6, <1>7

\* The same for a step that stores nothing, after which no item waits to be stored.
LEMMA NothingStored ==
  ASSUME Typed, Typed', Places,
         \A i \in DOMAIN items' : i \in DOMAIN items /\ items'[i] = items[i],
         delivered' = delivered, op'.at \notin Dequeuing \cup {"put_item"},
         offered' = offered, acked' \subseteq 1..offered, forfeited' \subseteq 1..offered
  PROVE  Places'
<1>1. Known' = offered /\ Known <= offered /\ offered \in 0..MaxItems
  BY KnownBound DEF Typed, Known
<1> QED BY <1>1, NothingTaken

LEMMA PlacesBound ==
  ASSUME Typed, Places
  PROVE  Stored \subseteq 1..offered /\ acked \subseteq 1..offered /\ forfeited \subseteq 1..offered
         /\ ToSet(delivered) \subseteq 1..offered
<1>1. 1..Known \subseteq 1..offered
  BY KnownBound
<1> QED BY <1>1 DEF Places, OnePlace

\* The head of the batch is the next item.
LEMMA BatchHead ==
  ASSUME Typed, Places, op.at = "put_item"
  PROVE  /\ op.batch \in Seq(1..MaxItems) /\ op.batch # <<>> /\ Head(op.batch) = Known + 1
         /\ Known + 1 <= offered /\ Known = offered - Len(op.batch) /\ Len(op.batch) \in Nat \ {0}
<1>1. op.batch \in Seq(1..MaxItems) /\ op.batch # <<>>
  BY DEF Typed, LocalsOK, Locals
<1>2. Len(op.batch) \in Nat \ {0}
  BY <1>1, EmptySeq
<1>3. Head(op.batch) = op.batch[1] /\ 1 \in DOMAIN op.batch
  BY <1>1, <1>2
<1>4. op.batch[1] = Known + 1
  BY <1>3 DEF Places, OnePlace
<1>5. Known = offered - Len(op.batch)
  BY DEF Known
<1> QED BY <1>1, <1>2, <1>3, <1>4, <1>5, KnownBound

\* Enqueue: the items of the batch are stored one by one, none of them twice.
LEMMA PlacesEnqueue ==
  ASSUME Typed, Places, OutOfReach,
         \/ \E n \in 1..MaxBatch : BeginEnqueue(n)
         \/ PutItem \/ PutCounter \/ EnqueueFault \/ Rollback \/ RollbackFault
  PROVE  Places'
<1> USE DEF Places
<1>1. ASSUME NEW n \in 1..MaxBatch, BeginEnqueue(n) PROVE Places'
  <2>1. /\ Typed' /\ op.at = "free" /\ items' = items /\ offered' = offered + n
        /\ offered' <= MaxItems /\ n \in Nat /\ Len(op'.batch) = n
        /\ acked' = acked /\ forfeited' = forfeited /\ delivered' = delivered
    BY <1>1, TypedEnqueue
  <2>2. op'.at = "put_item" /\ op'.batch = [k \in 1..n |-> offered + k]
    BY <1>1, TypedEnqueue
  <2>3. Known = offered /\ Known' = offered /\ offered \in 0..MaxItems
    BY <2>1, <2>2 DEF Known, Typed
  <2>4. \A k \in DOMAIN op'.batch : op'.batch[k] = offered + k
    BY <2>2
  <2>5. op'.at \notin Dequeuing
    BY <2>2 DEF Dequeuing
  <2>6. acked' \subseteq 1..Known' /\ forfeited' \subseteq 1..Known'
    BY <2>1, <2>3 DEF OnePlace
  <2>7. Known' >= Known /\ Known' \in 0..MaxItems
    BY <2>3
  <2> QED BY <2>1, <2>2, <2>3, <2>4, <2>5, <2>6, <2>7, NothingTaken
<1>3. CASE PutItem
  <2> DEFINE b == op.batch
             b1 == Tail(op.batch)
  <2>1. /\ Typed' /\ op.at = "put_item" /\ Added(op.id, Head(b))
        /\ op'.batch = b1 /\ op'.at = IF Len(b) = 1 THEN "put_next_id" ELSE "put_item"
        /\ offered' = offered /\ acked' = acked /\ forfeited' = forfeited
        /\ delivered' = delivered
    BY <1>3, TypedPutItem
  <2>2. /\ b \in Seq(1..MaxItems) /\ b # <<>> /\ Head(b) = Known + 1
        /\ Known + 1 <= offered /\ Known = offered - Len(b) /\ Len(b) \in Nat \ {0}
    BY <2>1, BatchHead
  <2>3. b1 \in Seq(1..MaxItems) /\ Len(b1) = Len(b) - 1 /\ \A k \in 1..Len(b1) : b1[k] = b[k + 1]
    BY <2>2, HeadTailProperties
  <2>4. \A k \in 1..Len(b) : b[k] = Known + k
    BY <2>1, <2>2 DEF OnePlace
  <2>5. DOMAIN b1 = 1..Len(b1)
    BY <2>3
  <2> HIDE DEF b, b1
  <2>6. offered \in 0..MaxItems /\ offered \in Nat /\ Known \in Int
    BY KnownBound DEF Typed
  <2>7. Known' = Known + 1
    <3>1. CASE Len(b) = 1
      BY <2>1, <2>2, <2>6, <3>1 DEF Known
    <3>2. CASE Len(b) # 1
      <4>1. Known' = offered - Len(b1)
        BY <2>1, <3>2 DEF Known
      <4>2. Len(b1) = Len(b) - 1 /\ Known = offered - Len(b) /\ Len(b) \in Nat
        BY <2>2, <2>3
      <4> QED BY <2>6, <4>1, <4>2
    <3> QED BY <3>1, <3>2
  <2>8. op'.at = "put_item" => \A k \in DOMAIN op'.batch : op'.batch[k] = Known' + k
    <3> SUFFICES ASSUME NEW k \in 1..Len(b1) PROVE b1[k] = Known + 1 + k
      BY <2>1, <2>5, <2>7
    <3>1. k \in Nat /\ k + 1 \in 1..Len(b)
      BY <2>2, <2>3
    <3>2. b1[k] = b[k + 1] /\ b[k + 1] = Known + (k + 1)
      BY <2>3, <2>4, <3>1
    <3> QED BY <2>6, <3>1, <3>2
  <2>9. op'.at \notin Dequeuing
    BY <2>1 DEF Dequeuing
  <2>10. Known \in 0..MaxItems /\ Known' >= Known /\ Known' \in 0..MaxItems
         /\ Known + 1 <= Known'
    BY <2>2, <2>6, <2>7, BoundsAssumption DEF OnePlace
  <2>11. 1..Known \subseteq 1..Known'
    BY <2>7, <2>6
  <2>12. acked' \subseteq 1..Known' /\ forfeited' \subseteq 1..Known'
    BY <2>1, <2>11 DEF OnePlace
  <2>13. \A i \in DOMAIN items' : \/ i \in DOMAIN items /\ items'[i] = items[i]
                                  \/ i = op.id /\ items'[i] = Known + 1 /\ Known + 1 <= Known'
    BY <2>1, <2>2, <2>10 DEF Added
  <2> QED BY <2>1, <2>8, <2>9, <2>10, <2>12, <2>13, NothingTaken
<1>4. CASE PutCounter
  <2>1. /\ Typed' /\ items' = items /\ offered' = offered /\ delivered' = delivered
        /\ forfeited' = forfeited /\ op.at \in {"put_next_id", "put_size"}
        /\ acked' \subseteq acked \cup ToSet(op.results)
        /\ op'.at \in {"put_size", "free"}
    BY <1>4, TypedPutCounter, NoOpTyped
  <2>2. ToSet(op.results) \subseteq Stored
    BY <2>1 DEF OutOfReach, Enqueuing, Stored
  <2>3. acked' \subseteq 1..offered /\ forfeited' \subseteq 1..offered
    BY <2>1, <2>2, PlacesBound
  <2>4. op'.at \notin Dequeuing \cup {"put_item"}
    BY <2>1 DEF Dequeuing
  <2> QED BY <2>1, <2>3, <2>4, NothingStored
<1>5. CASE EnqueueFault
  <2>1. /\ Typed' /\ op.at \in Enqueuing /\ op'.at \in {"free", "rollback"}
        /\ Write \/ UNCHANGED store
        /\ offered' = offered /\ acked' = acked /\ forfeited' = forfeited
        /\ delivered' = delivered
    BY <1>5, TypedEnqueueFault
  <2>2. Known' = offered /\ Known' >= Known /\ Known' \in 0..MaxItems /\ Known <= offered
    BY <2>1, KnownBound DEF Known, Typed
  <2>3. op'.at \notin Dequeuing \cup {"put_item"}
    BY <2>1 DEF Dequeuing
  <2>4. acked' \subseteq 1..Known' /\ forfeited' \subseteq 1..Known'
    BY <2>1, <2>2, PlacesBound
  <2>5. CASE items' = items
    BY <2>1, <2>2, <2>3, <2>4, <2>5, PlacesBound, NothingStored
  <2>6. CASE op.at = "put_item" /\ Added(op.id, Head(op.batch))
    <3>1. \A i \in DOMAIN items' : \/ i \in DOMAIN items /\ items'[i] = items[i]
                                   \/ i = op.id /\ items'[i] = Known + 1 /\ Known + 1 <= Known'
      BY <2>2, <2>6, BatchHead DEF Added
    <3>2. op'.at # "put_item" /\ op'.at \notin Dequeuing
      BY <2>3
    <3> QED BY <2>1, <2>2, <2>4, <3>1, <3>2, NothingTaken
  <2> QED BY <2>1, <2>5, <2>6, WriteEffect DEF Enqueuing, store, Typed
<1>6. CASE Rollback \/ RollbackFault
  <2>1. /\ Typed' /\ op'.at \in {"free", "rollback"}
        /\ items' = items \/ \E i \in op.stored : Removed(i)
        /\ offered' = offered /\ acked' = acked /\ forfeited' = forfeited
        /\ delivered' = delivered
    BY <1>6, TypedRollback
  <2>2. \A i \in DOMAIN items' : i \in DOMAIN items /\ items'[i] = items[i]
    BY <2>1 DEF Removed
  <2>3. op'.at \notin Dequeuing \cup {"put_item"}
    BY <2>1 DEF Dequeuing
  <2> QED BY <2>1, <2>2, <2>3, PlacesBound, NothingStored
<1> QED BY <1>1, <1>3, <1>4, <1>5, <1>6

\* Dequeue: an item goes from the store to the results, and with them to the caller.
LEMMA PlacesDequeue ==
  ASSUME Typed, Places,
         (\E n \in 1..MaxBatch : BeginDequeue(n)) \/ Take \/ PutNewSize \/ DequeueFault
  PROVE  Places'
<1> USE DEF Places
<1>1. ASSUME NEW n \in 1..MaxBatch, BeginDequeue(n) PROVE Places'
  <2>1. /\ Typed' /\ op.at = "free" /\ items' = items /\ offered' = offered
        /\ acked' = acked /\ forfeited' = forfeited /\ delivered' = delivered
    BY <1>1, TypedDequeue
  <2>2. CASE op' = NoOp
    BY <2>1, <2>2, NoOpTyped, PlacesBound, NothingStored DEF Dequeuing
  <2>3. CASE op'.at = "take" /\ op'.results = <<>>
    <3>1. Known' = Known /\ Stored' = Stored
      BY <2>1, <2>3 DEF Known, Stored
    <3>2. ToSet(op'.results) = {} /\ IsInjective(op'.results)
      BY <2>3 DEF ToSet, IsInjective
    <3> QED BY <2>1, <2>3, <3>1, <3>2 DEF OnePlace, DeliveredOnce
  <2> QED BY <1>1, <2>2, <2>3, TypedDequeue
<1>2. CASE Take
  <2>1. /\ Typed' /\ op.at = "take" /\ op \in Locals /\ Removed(op.id) /\ op'.at \in Dequeuing
        /\ op.id \in DOMAIN items => op'.results = Append(op.results, items[op.id])
        /\ op.id \notin DOMAIN items => op'.results = op.results
        /\ offered' = offered /\ acked' = acked /\ forfeited' = forfeited
        /\ delivered' = delivered
    BY <1>2, TypedTake
  <2>2. Known' = Known /\ Known = offered
    BY <2>1 DEF Known, Dequeuing
  <2>3. op.at \in Dequeuing /\ op.results \in Seq(1..MaxItems)
    BY <2>1 DEF Dequeuing, Locals
  <2>4. /\ \A i \in DOMAIN items' : i \in DOMAIN items /\ i # op.id /\ items'[i] = items[i]
        /\ Stored' \subseteq Stored
        /\ op.id \in DOMAIN items => items[op.id] \notin Stored' /\ items[op.id] \in Stored
    BY <2>1 DEF Removed, Stored, OnePlace
  <2>5. /\ ToSet(op'.results) \subseteq 1..offered /\ IsInjective(op'.results)
        /\ ToSet(op'.results) \cap (Stored' \cup ToSet(delivered)) = {}
    <3>1. CASE op.id \in DOMAIN items
      <4> DEFINE x == items[op.id]
      <4>1. x \in Stored /\ x \notin ToSet(op.results) /\ x \notin ToSet(delivered)
            /\ x \notin Stored' /\ x \in 1..MaxItems /\ x \in 1..offered
        BY <2>2, <2>3, <2>4, <3>1 DEF OnePlace, Typed
      <4>2. op'.results = Append(op.results, x)
        BY <2>1, <3>1
      <4> HIDE DEF x
      <4>3. ToSet(op'.results) = ToSet(op.results) \cup {x} /\ IsInjective(op'.results)
        <5>1. IsInjective(op.results)
          BY <2>3 DEF OnePlace
        <5>2. ToSet(Append(op.results, x)) = ToSet(op.results) \cup {x}
          <6> DEFINE I == 1..MaxItems
          <6>1. x \in I /\ op.results \in Seq(I)
            BY <2>3, <4>1
          <6> HIDE DEF I
          <6> QED BY <6>1, ToSetAppend
        <5>3. IsInjective(Append(op.results, x))
          BY <2>3, <4>1, <5>1, InjectiveAppend
        <5> QED BY <4>2, <5>2, <5>3
      <4> QED BY <2>3, <2>4, <4>1, <4>3 DEF OnePlace
    <3>2. CASE op.id \notin DOMAIN items
      BY <2>1, <2>3, <2>4, <3>2 DEF OnePlace
    <3> QED BY <3>1, <3>2
  <2>6. op'.at # "put_item"
    BY <2>1 DEF Dequeuing
  <2> QED BY <2>1, <2>2, <2>4, <2>5, <2>6 DEF OnePlace, DeliveredOnce
<1>3. CASE PutNewSize
  <2>1. /\ Typed' /\ op.at = "put_new_size" /\ op' = NoOp /\ items' = items
        /\ delivered' = delivered \o op.results
        /\ offered' = offered /\ acked' = acked /\ forfeited' = forfeited
    BY <1>3, TypedPutNewSize
  <2>2. op.at \in Dequeuing /\ op.results \in Seq(1..MaxItems) /\ delivered \in Seq(1..MaxItems)
    BY <2>1 DEF Dequeuing, Typed, LocalsOK, Locals, OnePlace
  <2>3. /\ ToSet(delivered') = ToSet(delivered) \cup ToSet(op.results)
        /\ IsInjective(delivered') /\ delivered' \in Seq(1..MaxItems)
    BY <2>1, <2>2, ToSetConcat DEF OnePlace, DeliveredOnce
  <2>4. Known' = Known /\ Known = offered /\ Stored' = Stored /\ op'.at = "free"
    BY <2>1, NoOpTyped DEF Known, Stored
  <2> QED BY <2>1, <2>2, <2>3, <2>4 DEF OnePlace, DeliveredOnce, Dequeuing
<1>4. CASE DequeueFault
  <2>1. /\ Typed' /\ op.at \in Dequeuing /\ op' = NoOp /\ forfeited' = forfeited \cup Lost
        /\ Removed(op.id) \/ items' = items
        /\ offered' = offered /\ acked' = acked /\ delivered' = delivered
    BY <1>4, TypedDequeueFault DEF Dequeuing
  <2>2. \A i \in DOMAIN items' : i \in DOMAIN items /\ items'[i] = items[i]
    BY <2>1 DEF Removed
  <2>3. Lost \subseteq 1..offered
    BY <2>1, PlacesBound DEF Lost, OnePlace
  <2>4. forfeited' \subseteq 1..offered /\ acked' \subseteq 1..offered
    BY <2>1, <2>3, PlacesBound
  <2>5. op'.at \notin Dequeuing \cup {"put_item"}
    BY <2>1, NoOpTyped DEF Dequeuing
  <2> QED BY <2>1, <2>2, <2>4, <2>5, NothingStored
<1> QED BY <1>1, <1>2, <1>3, <1>4

\* Recovery, clear and the loss of the process deliver and store nothing.
LEMMA PlacesOther ==
  ASSUME Typed, Places,
         \/ CheckInitialized \/ BeginRecovery \/ FixCounter \/ RecoveryFault
         \/ BeginClear \/ Clear \/ ClearFault \/ Crash \/ UNCHANGED vars
  PROVE  Places'
<1>1. CASE CheckInitialized \/ UNCHANGED vars
  <2>1. UNCHANGED <<items, op, offered, acked, delivered, forfeited>>
    BY <1>1 DEF CheckInitialized, vars, store, history
  <2>2. Known' = Known /\ Stored' = Stored
    BY <2>1 DEF Known, Stored
  <2> QED BY <2>1, <2>2 DEF Places, OnePlace, DeliveredOnce
<1>2. CASE BeginRecovery \/ FixCounter \/ RecoveryFault
  <2>1. /\ Typed' /\ items' = items /\ op'.at \in {"free"} \cup Fixing
        /\ offered' = offered /\ acked' = acked /\ delivered' = delivered /\ forfeited' = forfeited
    BY <1>2, RecoveryEffect
  <2>2. op'.at \notin Dequeuing \cup {"put_item"}
    BY <2>1 DEF Dequeuing, Fixing
  <2> QED BY <2>1, <2>2, PlacesBound, NothingStored
<1>3. CASE BeginClear
  <2>1. /\ Typed' /\ items' = items /\ forfeited' \subseteq forfeited \cup Stored
        /\ op' = NoOp \/ op'.at = "clear_item"
        /\ offered' = offered /\ acked' = acked /\ delivered' = delivered
    BY <1>3, TypedClear
  <2>2. op'.at \notin Dequeuing \cup {"put_item"}
    BY <2>1, NoOpTyped DEF Dequeuing
  <2>3. forfeited' \subseteq 1..offered /\ acked' \subseteq 1..offered
    BY <2>1, PlacesBound
  <2> QED BY <2>1, <2>2, <2>3, NothingStored
<1>4. CASE Clear \/ ClearFault
  <2>1. /\ Typed' /\ op.at \in Clearing /\ op'.at \in Clearing \cup {"free"}
        /\ items' = items \/ Removed(op.id)
        /\ offered' = offered /\ acked' = acked /\ delivered' = delivered /\ forfeited' = forfeited
    BY <1>4, TypedClearing, TypedClearFault, NoOpTyped DEF Clearing
  <2>2. op'.at \notin Dequeuing \cup {"put_item"}
    BY <2>1 DEF Dequeuing, Clearing
  <2>3. \A i \in DOMAIN items' : i \in DOMAIN items /\ items'[i] = items[i]
    BY <2>1 DEF Removed
  <2> QED BY <2>1, <2>2, <2>3, PlacesBound, NothingStored
<1>5. CASE Crash
  <2>1. /\ Typed' /\ items' = items /\ op' = NoOp
        /\ forfeited' = forfeited \cup (IF op.at \in Dequeuing THEN ToSet(op.results) ELSE {})
        /\ offered' = offered /\ acked' = acked /\ delivered' = delivered
    BY <1>5, TypedCrash
  <2>2. op'.at \notin Dequeuing \cup {"put_item"}
    BY <2>1, NoOpTyped DEF Dequeuing
  <2>3. forfeited' \subseteq 1..offered /\ acked' \subseteq 1..offered
    BY <2>1, PlacesBound DEF Places, OnePlace
  <2> QED BY <2>1, <2>2, <2>3, NothingStored
<1> QED BY <1>1, <1>2, <1>3, <1>4, <1>5

-----------------------------------------------------------------------------
(* Which items no enqueue and no rollback reaches *)

Safe == OutOfReach /\ AckedIsKept

\* Nothing is done to the items.
LEMMA SafeRecovery ==
  ASSUME Typed, Safe, CheckInitialized \/ BeginRecovery \/ FixCounter \/ RecoveryFault
                      \/ UNCHANGED vars
  PROVE  Safe'
<1> USE DEF Safe
<1>1. CASE CheckInitialized \/ UNCHANGED vars
  <2>1. UNCHANGED <<items, next_id, op, acked, delivered, forfeited>>
    BY <1>1 DEF CheckInitialized, vars, store, history
  <2>2. Stored' = Stored /\ InFlight' = InFlight
    BY <2>1 DEF Stored, InFlight
  <2> QED BY <2>1, <2>2 DEF OutOfReach, AckedIsKept
<1>2. CASE BeginRecovery \/ FixCounter \/ RecoveryFault
  <2>1. /\ items' = items /\ op.at \in {"free"} \cup Fixing /\ op'.at \in {"free"} \cup Fixing
        /\ acked' = acked /\ delivered' = delivered /\ forfeited' = forfeited
    BY <1>2, RecoveryEffect
  <2>2. next_id' = next_id \/ next_id' = NextIdAfter(DOMAIN items)
    <3>1. next_id' = next_id \/ (op.at \in Fixing /\ Write)
      BY <1>2 DEF BeginRecovery, FixCounter, RecoveryFault, Fault, store
    <3>2. op.at \in Fixing => op.id = NextIdAfter(DOMAIN items)
      BY DEF Typed, LocalsOK
    <3> QED BY <3>1, <3>2, WriteEffect DEF Fixing, Typed
  <2>3. \A i \in DOMAIN items : i < next_id => i < next_id'
    BY <2>2, NextIdAfterAll
  <2>4. Stored' = Stored /\ InFlight' = {} /\ InFlight = {}
    BY <2>1 DEF Stored, InFlight, Dequeuing, Fixing
  <2>5. op'.at \notin Enqueuing \cup Clearing \cup {"rollback"}
    BY <2>1 DEF Fixing, Enqueuing, Clearing
  <2> QED BY <2>1, <2>3, <2>4, <2>5 DEF OutOfReach, AckedIsKept
<1> QED BY <1>1, <1>2

\* What is stored, overwritten or rolled back is not acknowledged.
LEMMA SafeEnqueue ==
  ASSUME Typed, Places, Safe,
         \/ \E n \in 1..MaxBatch : BeginEnqueue(n)
         \/ PutItem \/ PutCounter \/ EnqueueFault \/ Rollback \/ RollbackFault
  PROVE  Safe'
<1> USE DEF Safe
<1>1. ASSUME NEW n \in 1..MaxBatch, BeginEnqueue(n) PROVE Safe'
  <2>1. /\ op.at = "free" /\ items' = items /\ next_id' = next_id
        /\ acked' = acked /\ forfeited' = forfeited /\ delivered' = delivered
        /\ op'.at = "put_item" /\ op'.stored = {} /\ op'.results = <<>>
    BY <1>1, TypedEnqueue
  <2>2. Stored' = Stored /\ InFlight' = {} /\ InFlight = {} /\ ToSet(op'.results) = {}
    BY <2>1 DEF Stored, InFlight, Dequeuing, ToSet
  <2>3. op'.at \notin Clearing
    BY <2>1 DEF Clearing
  <2> QED BY <2>1, <2>2, <2>3 DEF OutOfReach, AckedIsKept
\* An item stored at op.id, where no acknowledged item is that is still owed.
<1>2. ASSUME op.at = "put_item", Added(op.id, Head(op.batch))
      PROVE  /\ Head(op.batch) \notin acked
             /\ \A i \in DOMAIN items' : items'[i] \in acked =>
                  i # op.id /\ i \in DOMAIN items /\ items'[i] = items[i]
             /\ \A x \in Stored \cap acked : x \in Stored' \/ x \in forfeited
             /\ InFlight = {}
  <2>1. op.batch \in Seq(1..MaxItems) /\ op.batch # <<>> /\ op.id >= next_id
        /\ op.id \in Int /\ next_id \in Nat
    BY <1>2 DEF Typed, LocalsOK, Locals, Enqueuing
  <2>2. Len(op.batch) \in Nat \ {0}
    BY <2>1, EmptySeq
  <2>3. Head(op.batch) = op.batch[1] /\ 1 \in DOMAIN op.batch
    BY <2>1, <2>2
  <2>4. Head(op.batch) = Known + 1 /\ Known \in Int
    BY <1>2, <2>3, KnownBound DEF Places, OnePlace
  <2>5. Head(op.batch) \notin acked
    BY <2>4 DEF Places, OnePlace
  <2>6. ASSUME NEW i \in DOMAIN items', items'[i] \in acked
        PROVE  i # op.id /\ i \in DOMAIN items /\ items'[i] = items[i]
    BY <1>2, <2>5, <2>6 DEF Added
  <2>7. ASSUME NEW i \in DOMAIN items, items[i] \in acked
        PROVE  items[i] \in Stored' \/ items[i] \in forfeited
    <3>1. CASE i = op.id
      BY <2>1, <2>7, <3>1 DEF OutOfReach
    <3>2. CASE i # op.id
      BY <1>2, <3>2 DEF Added, Stored
    <3> QED BY <3>1, <3>2
  <2>8. InFlight = {}
    BY <1>2 DEF InFlight, Dequeuing
  <2> QED BY <2>5, <2>6, <2>7, <2>8 DEF Stored
<1>3. CASE PutItem
  <2>1. /\ op.at = "put_item" /\ Added(op.id, Head(op.batch)) /\ next_id' = next_id
        /\ op'.at \in {"put_item", "put_next_id"} /\ op'.id = op.id + 1
        /\ op'.stored = op.stored \cup {op.id} /\ op'.results = Append(op.results, Head(op.batch))
        /\ acked' = acked /\ forfeited' = forfeited /\ delivered' = delivered
        /\ op.id \in Nat /\ op.batch \in Seq(1..MaxItems) /\ op.batch # <<>>
    BY <1>3, TypedPutItem
  <2>2. /\ op.stored \subseteq DOMAIN items /\ \A i \in op.stored : i < op.id
        /\ ToSet(op.results) = {items[i] : i \in op.stored}
        /\ \A i \in op.stored : items[i] \notin acked
    BY <2>1 DEF OutOfReach, Enqueuing
  <2>3. op.results \in Seq(1..MaxItems) /\ op.stored \subseteq Nat
    BY DEF Typed, LocalsOK, Locals
  <2>4. ToSet(op'.results) = ToSet(op.results) \cup {Head(op.batch)}
    <3> DEFINE I == 1..MaxItems
    <3>1. Head(op.batch) \in I /\ op.results \in Seq(I)
      BY <2>1, <2>3, HeadTailProperties
    <3> HIDE DEF I
    <3> QED BY <2>1, <3>1, ToSetAppend
  <2>5. op.id \notin op.stored /\ \A i \in op.stored : i < op.id + 1
    BY <2>1, <2>2, <2>3
  <2>6. /\ op'.stored \subseteq DOMAIN items' /\ \A i \in op'.stored : i < op'.id
        /\ \A i \in op'.stored : items'[i] \notin acked'
    BY <1>2, <2>1, <2>2, <2>5 DEF Added
  <2>7. ToSet(op'.results) = {items'[i] : i \in op'.stored}
    BY <2>1, <2>2, <2>4, <2>5 DEF Added
  <2>8. op'.at \notin Clearing /\ InFlight' = {}
    BY <2>1 DEF Clearing, InFlight, Dequeuing
  <2>9. OutOfReach'
    BY <1>2, <2>1, <2>6, <2>7, <2>8 DEF OutOfReach
  <2>10. AckedIsKept'
    BY <1>2, <2>1, <2>8 DEF AckedIsKept
  <2> QED BY <2>9, <2>10
<1>4. CASE PutCounter
  <2>1. /\ op.at \in {"put_next_id", "put_size"} /\ items' = items
        /\ delivered' = delivered /\ forfeited' = forfeited
        /\ op.id \in Nat /\ op.id >= next_id /\ next_id \in Nat
    BY <1>4, TypedPutCounter DEF Typed
  <2>2. Stored' = Stored /\ InFlight = {}
    BY <2>1 DEF Stored, InFlight, Dequeuing
  <2>3. \A i \in DOMAIN items : i \in Nat
    BY DEF Typed
  <2>4. /\ op.stored \subseteq DOMAIN items /\ \A i \in op.stored : i < op.id
        /\ ToSet(op.results) = {items[i] : i \in op.stored}
        /\ \A i \in op.stored : items[i] \notin acked
    BY <2>1 DEF OutOfReach, Enqueuing
  <2>5. CASE op.at = "put_next_id"
    <3>1. /\ op'.at = "put_size" /\ op'.id = op.id /\ op'.stored = op.stored
          /\ op'.results = op.results /\ next_id' = op.id /\ acked' = acked
      BY <1>4, <2>5, TypedPutCounter
    <3>2. op'.at \notin Clearing /\ InFlight' = {}
      BY <3>1 DEF Clearing, InFlight, Dequeuing
    <3>3. \A i \in DOMAIN items : i < next_id => i < next_id'
      BY <2>1, <2>3, <3>1
    <3> QED BY <2>1, <2>2, <2>4, <3>1, <3>2, <3>3 DEF OutOfReach, AckedIsKept
  <2>6. CASE op.at = "put_size"
    <3>1. op' = NoOp /\ next_id' = next_id /\ acked' = acked \cup ToSet(op.results)
      BY <1>4, <2>6, TypedPutCounter
    <3>2. op'.at \notin Enqueuing \cup Clearing \cup {"rollback"} /\ InFlight' = {}
      BY <3>1, NoOpTyped DEF Enqueuing, Clearing, InFlight, Dequeuing
    <3>3. next_id = op.id
      BY <2>6 DEF Typed, LocalsOK
    <3>4. ASSUME NEW i \in DOMAIN items, items[i] \in ToSet(op.results) PROVE i < next_id
      <4>1. PICK j \in op.stored : items[i] = items[j]
        BY <2>4, <3>4
      <4>2. i = j
        BY <2>4, <4>1 DEF Places, OnePlace
      <4> QED BY <2>4, <3>3, <4>2
    <3>5. OutOfReach'
      BY <2>1, <3>1, <3>2, <3>4 DEF OutOfReach
    <3>6. ToSet(op.results) \subseteq Stored
      BY <2>4 DEF Stored
    <3> QED BY <2>1, <2>2, <3>1, <3>2, <3>5, <3>6 DEF AckedIsKept
  <2> QED BY <2>1, <2>5, <2>6
<1>5. CASE EnqueueFault
  <2>1. /\ op.at \in Enqueuing /\ op'.at \in {"free", "rollback"} /\ op'.stored = op.stored
        /\ Write \/ UNCHANGED store
        /\ acked' = acked /\ forfeited' = forfeited /\ delivered' = delivered
    BY <1>5, TypedEnqueueFault
  <2>2. op'.at \notin Enqueuing \cup Clearing /\ InFlight' = {} /\ InFlight = {}
    BY <2>1 DEF Enqueuing, Clearing, InFlight, Dequeuing
  <2>3. \A i \in op.stored : i \in DOMAIN items /\ items[i] \notin acked
    BY <2>1 DEF OutOfReach
  <2>4. CASE op.at = "put_item" /\ Added(op.id, Head(op.batch)) /\ next_id' = next_id
    <3>1. \A i \in op'.stored \cap DOMAIN items' : items'[i] \notin acked'
      BY <1>2, <2>1, <2>3, <2>4
    <3>2. OutOfReach'
      BY <1>2, <2>1, <2>2, <2>4, <3>1 DEF OutOfReach
    <3> QED BY <1>2, <2>1, <2>2, <2>4, <3>2 DEF AckedIsKept
  <2>5. CASE items' = items /\ next_id' \in {next_id, op.id}
    <3>1. Stored' = Stored
      BY <2>5 DEF Stored
    <3>2. op.id >= next_id /\ op.id \in Int /\ next_id \in Nat /\ DOMAIN items \subseteq Nat
      BY <2>1 DEF Typed, LocalsOK, Locals
    <3>3. \A i \in DOMAIN items : i < next_id => i < next_id'
      BY <2>5, <3>2
    <3> QED BY <2>1, <2>2, <2>3, <2>5, <3>1, <3>3 DEF OutOfReach, AckedIsKept
  <2>6. \/ op.at = "put_item" /\ Added(op.id, Head(op.batch)) /\ next_id' = next_id
        \/ items' = items /\ next_id' \in {next_id, op.id}
    BY <2>1, WriteEffect DEF Typed, store, Enqueuing
  <2> QED BY <2>4, <2>5, <2>6
<1>6. CASE Rollback \/ RollbackFault
  <2>1. /\ op.at = "rollback" /\ op'.at \in {"free", "rollback"}
        /\ op'.at = "rollback" => op'.stored = op.stored
        /\ items' = items \/ \E i \in op.stored : Removed(i)
        /\ next_id' = next_id
        /\ acked' = acked /\ forfeited' = forfeited /\ delivered' = delivered
    BY <1>6, TypedRollback
  <2>2. op'.at \notin Enqueuing \cup Clearing /\ InFlight' = {} /\ InFlight = {}
    BY <2>1 DEF Enqueuing, Clearing, InFlight, Dequeuing
  <2>3. \A i \in op.stored \cap DOMAIN items : items[i] \notin acked
    BY <2>1 DEF OutOfReach
  <2>4. \A i \in DOMAIN items' : i \in DOMAIN items /\ items'[i] = items[i]
    BY <2>1 DEF Removed
  <2>5. Stored \cap acked \subseteq Stored'
    BY <2>1, <2>3 DEF Removed, Stored
  <2>6. \A i \in op'.stored \cap DOMAIN items' : op'.at = "rollback" => items'[i] \notin acked'
    BY <2>1, <2>3, <2>4
  <2>7. OutOfReach'
    BY <2>1, <2>2, <2>4, <2>6 DEF OutOfReach
  <2> QED BY <2>1, <2>2, <2>5, <2>7 DEF AckedIsKept
<1> QED BY <1>1, <1>3, <1>4, <1>5, <1>6

\* What a dequeue takes out of the store it returns, or it is forfeited.
LEMMA SafeDequeue ==
  ASSUME Typed, Places, Safe,
         (\E n \in 1..MaxBatch : BeginDequeue(n)) \/ Take \/ PutNewSize \/ DequeueFault
  PROVE  Safe'
<1> USE DEF Safe
<1>1. ASSUME NEW n \in 1..MaxBatch, BeginDequeue(n) PROVE Safe'
  <2>1. /\ op.at = "free" /\ items' = items /\ next_id' = next_id
        /\ acked' = acked /\ forfeited' = forfeited /\ delivered' = delivered
        /\ op' = NoOp \/ (op'.at = "take" /\ op'.results = <<>>)
    <3>1. \/ op' = NoOp
          \/ \E l \in 1..size :
               op' = [at |-> "take", batch |-> <<>>, id |-> next_id - size, size |-> size,
                      left |-> l, results |-> <<>>, stored |-> {}, undo |-> {}, rounds |-> 0]
      BY <1>1, TypedDequeue
    <3>2. op' = NoOp \/ (op'.at = "take" /\ op'.results = <<>>)
      BY <3>1
    <3> QED BY <1>1, <3>2, TypedDequeue
  <2>2. op'.at \notin Enqueuing \cup Clearing \cup {"rollback"}
    BY <2>1, NoOpTyped DEF Enqueuing, Clearing
  <2>3. Stored' = Stored /\ InFlight' = {} /\ InFlight = {}
    BY <2>1, NoOpTyped DEF Stored, InFlight, Dequeuing, ToSet
  <2> QED BY <2>1, <2>2, <2>3 DEF OutOfReach, AckedIsKept
<1>2. CASE Take
  <2>1. /\ op.at = "take" /\ op \in Locals /\ Removed(op.id) /\ op'.at \in Dequeuing
        /\ op.id \in DOMAIN items => op'.results = Append(op.results, items[op.id])
        /\ op.id \notin DOMAIN items => op'.results = op.results
        /\ next_id' = next_id
        /\ acked' = acked /\ forfeited' = forfeited /\ delivered' = delivered
    BY <1>2, TypedTake
  <2>2. op'.at \notin Enqueuing \cup Clearing \cup {"rollback"}
    BY <2>1 DEF Enqueuing, Clearing, Dequeuing
  <2>3. \A i \in DOMAIN items' : i \in DOMAIN items /\ items'[i] = items[i]
    BY <2>1 DEF Removed
  <2>4. InFlight = ToSet(op.results) /\ InFlight' = ToSet(op'.results)
    BY <2>1 DEF InFlight, Dequeuing
  <2>5. Stored \cup ToSet(op.results) \subseteq Stored' \cup ToSet(op'.results)
    <3>1. CASE op.id \in DOMAIN items
      <4> DEFINE I == 1..MaxItems
                 x == items[op.id]
      <4>1. x \in I /\ op.results \in Seq(I)
        BY <2>1, <3>1 DEF Locals, Typed, Stored
      <4>2. op'.results = Append(op.results, x)
        BY <2>1, <3>1
      <4> HIDE DEF I, x
      <4>3. ToSet(op'.results) = ToSet(op.results) \cup {x}
        BY <4>1, <4>2, ToSetAppend
      <4>4. Stored \subseteq Stored' \cup {x}
        BY <2>1 DEF Removed, Stored, x
      <4> QED BY <4>3, <4>4
    <3>2. CASE op.id \notin DOMAIN items
      BY <2>1, <3>2 DEF Removed, Stored
    <3> QED BY <3>1, <3>2
  <2>6. OutOfReach'
    BY <2>1, <2>2, <2>3 DEF OutOfReach
  <2> QED BY <2>1, <2>4, <2>5, <2>6 DEF AckedIsKept
<1>3. CASE PutNewSize
  <2>1. /\ op.at = "put_new_size" /\ op' = NoOp /\ items' = items /\ next_id' = next_id
        /\ delivered' = delivered \o op.results
        /\ acked' = acked /\ forfeited' = forfeited
    BY <1>3, TypedPutNewSize
  <2>2. op'.at \notin Enqueuing \cup Clearing \cup {"rollback"}
    BY <2>1, NoOpTyped DEF Enqueuing, Clearing
  <2>3. Stored' = Stored /\ InFlight' = {} /\ InFlight = ToSet(op.results)
    BY <2>1, NoOpTyped DEF Stored, InFlight, Dequeuing
  <2>4. ToSet(delivered') = ToSet(delivered) \cup ToSet(op.results)
    <3>1. op.results \in Seq(1..MaxItems) /\ delivered \in Seq(1..MaxItems)
      BY DEF Typed, LocalsOK, Locals, Places, OnePlace
    <3> QED BY <2>1, <3>1, ToSetConcat
  <2> QED BY <2>1, <2>2, <2>3, <2>4 DEF OutOfReach, AckedIsKept
<1>4. CASE DequeueFault
  <2>1. /\ op.at \in Dequeuing /\ op' = NoOp /\ forfeited' = forfeited \cup Lost
        /\ Removed(op.id) \/ items' = items
        /\ next_id' = next_id /\ acked' = acked /\ delivered' = delivered
    BY <1>4, TypedDequeueFault DEF Dequeuing
  <2>2. op'.at \notin Enqueuing \cup Clearing \cup {"rollback"}
    BY <2>1, NoOpTyped DEF Enqueuing, Clearing
  <2>3. \A i \in DOMAIN items' : i \in DOMAIN items /\ items'[i] = items[i]
    BY <2>1 DEF Removed
  <2>4. InFlight' = {} /\ InFlight = ToSet(op.results)
    BY <2>1, NoOpTyped DEF InFlight, Dequeuing
  <2>5. Stored \subseteq Stored' \cup Lost /\ ToSet(op.results) \subseteq Lost
    BY DEF Lost, Stored
  <2>6. OutOfReach'
    BY <2>1, <2>2, <2>3 DEF OutOfReach
  <2> QED BY <2>1, <2>4, <2>5, <2>6 DEF AckedIsKept
<1> QED BY <1>1, <1>2, <1>3, <1>4

\* What a clear deletes it was asked to, and what is in flight when the process is lost is
\* forfeited.
LEMMA SafeClear ==
  ASSUME Typed, Safe, BeginClear \/ Clear \/ ClearFault \/ Crash
  PROVE  Safe'
<1> USE DEF Safe
<1>1. CASE BeginClear
  <2>1. /\ op.at = "free" /\ items' = items /\ next_id' = next_id
        /\ acked' = acked /\ delivered' = delivered
        /\ \/ op' = NoOp /\ forfeited' = forfeited
           \/ op'.at = "clear_item" /\ forfeited' = forfeited \cup Stored
    BY <1>1, TypedClear
  <2>2. op'.at \notin Enqueuing \cup {"rollback"} /\ (op'.at \in Clearing => Stored \subseteq forfeited')
    BY <2>1, NoOpTyped DEF Enqueuing, Clearing
  <2>3. Stored' = Stored /\ InFlight' = {} /\ InFlight = {} /\ forfeited \subseteq forfeited'
    BY <2>1, NoOpTyped DEF Stored, InFlight, Dequeuing
  <2> QED BY <2>1, <2>2, <2>3 DEF OutOfReach, AckedIsKept
<1>2. CASE Clear \/ ClearFault
  <2>1. /\ op.at \in Clearing /\ op'.at \in Clearing \cup {"free"}
        /\ items' = items \/ Removed(op.id)
        /\ acked' = acked /\ delivered' = delivered /\ forfeited' = forfeited
    BY <1>2, TypedClearing, TypedClearFault, NoOpTyped DEF Clearing
  <2>2. op'.at \notin Enqueuing \cup {"rollback"}
    BY <2>1 DEF Enqueuing, Clearing
  <2>3. \A i \in DOMAIN items' : i \in DOMAIN items /\ items'[i] = items[i]
    BY <2>1 DEF Removed
  <2>4. Stored \subseteq forfeited /\ Stored' \subseteq Stored
    BY <2>1, <2>3 DEF OutOfReach, Stored
  <2>5. InFlight' = {} /\ InFlight = {}
    BY <2>1 DEF InFlight, Clearing, Dequeuing
  <2>6. \A i \in DOMAIN items' : items'[i] \in forfeited'
    BY <2>1, <2>4 DEF Stored
  <2>7. OutOfReach'
    BY <2>1, <2>2, <2>4, <2>6 DEF OutOfReach
  <2> QED BY <2>1, <2>4, <2>5, <2>7 DEF AckedIsKept
<1>3. CASE Crash
  <2>1. /\ items' = items /\ op' = NoOp /\ next_id' = next_id
        /\ forfeited' = forfeited \cup InFlight
        /\ acked' = acked /\ delivered' = delivered
    BY <1>3, TypedCrash DEF InFlight
  <2>2. op'.at \notin Enqueuing \cup Clearing \cup {"rollback"}
    BY <2>1, NoOpTyped DEF Enqueuing, Clearing
  <2>3. Stored' = Stored /\ InFlight' = {}
    BY <2>1, NoOpTyped DEF Stored, InFlight, Dequeuing
  <2> QED BY <2>1, <2>2, <2>3 DEF OutOfReach, AckedIsKept
<1> QED BY <1>1, <1>2, <1>3

-----------------------------------------------------------------------------
(* Which ids are stored *)

\* The parts of Consecutive, and what they say of each kind of operation.
Run == \A i, j \in DOMAIN items : \A k \in i..j : k \in DOMAIN items
AtRest == op.at \in {"free", "rollback"} \cup Fixing

LEMMA BoundsAtRest ==
  ASSUME AtRest
  PROVE  /\ First = next_id - size /\ End = next_id
         /\ Active <=> initialized \/ passed > 0
BY DEF AtRest, First, End, Active, Fixing, Enqueuing, Dequeuing, Clearing

\* An operation has come to rest, or has never begun.
LEMMA RestIsConsecutive ==
  ASSUME Run', AtRest',
         initialized' \/ passed' > 0 =>
           /\ DOMAIN items' \subseteq (next_id' - size')..(next_id' - 1)
           /\ DOMAIN items' # {} => next_id' - 1 \in DOMAIN items',
         initialized' => DOMAIN items' = (next_id' - size')..(next_id' - 1)
  PROVE  Consecutive'
<1>1. /\ First' = next_id' - size' /\ End' = next_id'
      /\ Active' <=> initialized' \/ passed' > 0
  BY DEF AtRest, First, End, Active, Fixing, Enqueuing, Dequeuing, Clearing
<1>2. op'.at \notin Dequeuing \cup Enqueuing \cup {"clear_item", "clear_next_id"}
  BY DEF AtRest, Fixing, Dequeuing, Enqueuing
<1> QED BY <1>1, <1>2 DEF Consecutive, Run

\* Recovery finds the window, or makes the counters agree with what is stored.
LEMMA WindowRecovered ==
  ASSUME Typed, Run
  PROVE  /\ Consistent(DOMAIN items, next_id, size) =>
              DOMAIN items = (next_id - size)..(next_id - 1)
         /\ DOMAIN items = (NextIdAfter(DOMAIN items) - Cardinality(DOMAIN items))
                              ..(NextIdAfter(DOMAIN items) - 1)
<1> DEFINE D == DOMAIN items
<1>1. D \in SUBSET Nat /\ IsFiniteSet(D) /\ \A i, j \in D : \A k \in i..j : k \in D
  BY DEF Typed, LocalsOK, Run
<1>2. next_id \in Nat /\ size \in Nat
  BY DEF Typed
<1>3. /\ NextIdAfter(D) \in Nat /\ Cardinality(D) \in Nat
      /\ D = {} => NextIdAfter(D) = 0 /\ Cardinality(D) = 0
      /\ D # {} => NextIdAfter(D) = Max(D) + 1 /\ Max(D) \in D
  BY NextIdAfterAll
<1> HIDE DEF D
<1>4. CASE D = {}
  <2>1. D = (0 - 0)..(0 - 1)
    BY <1>4
  <2>2. Consistent(D, next_id, size) => next_id = 0 /\ size = 0
    BY <1>2, <1>4 DEF Consistent
  <2> QED BY <1>3, <1>4, <2>1, <2>2 DEF D
<1>5. CASE D # {}
  <2> DEFINE c == Cardinality(D)
             m == Max(D)
             l == Min(D)
  <2>1. D = (m + 1 - c)..m
    BY <1>1, <1>5, RunOfNumbers
  <2>2. m \in D /\ l \in D /\ (\A y \in D : l <= y) /\ c \in Nat /\ m \in Nat /\ l \in Nat
    BY <1>1, <1>3, <1>5, LeastNumber
  <2>3. Consistent(D, next_id, size) => l = next_id - size /\ c = size
    BY <1>5 DEF Consistent
  <2>4. NextIdAfter(D) = m + 1
    BY <1>3, <1>5
  <2> HIDE DEF c, m, l
  <2>5. m + 1 - c <= m /\ m + 1 - c \in D
    BY <2>1, <2>2
  <2>6. l = m + 1 - c
    BY <2>1, <2>2, <2>5
  <2>7. Consistent(D, next_id, size) => m + 1 = next_id
    BY <1>2, <2>2, <2>3, <2>6
  <2>8. Consistent(D, next_id, size) => D = (next_id - size)..(next_id - 1)
    BY <1>2, <2>1, <2>2, <2>3, <2>6, <2>7
  <2>9. D = (NextIdAfter(D) - c)..(NextIdAfter(D) - 1)
    BY <2>1, <2>2, <2>4
  <2> QED BY <2>8, <2>9 DEF D, c
<1> QED BY <1>4, <1>5

LEMMA ConsecutiveRecovery ==
  ASSUME Typed, Consecutive,
         CheckInitialized \/ BeginRecovery \/ FixCounter \/ RecoveryFault \/ UNCHANGED vars
  PROVE  Consecutive'
<1> SUFFICES ASSUME ~undone' PROVE Consecutive'
  BY DEF Consecutive
<1>1. CASE CheckInitialized \/ UNCHANGED vars
  <2>1. /\ UNCHANGED <<items, next_id, size, op, initialized, undone>>
        /\ passed' = passed \/ initialized
    BY <1>1 DEF CheckInitialized, vars, store, history, tasks
  <2>2. First' = First /\ End' = End /\ (Active' => Active)
    BY <2>1 DEF First, End, Active
  <2> QED BY <2>1, <2>2 DEF Consecutive
<1>2. CASE BeginRecovery \/ FixCounter \/ RecoveryFault
  <2>1. /\ Typed' /\ items' = items /\ op.at \in {"free"} \cup Fixing
        /\ op'.at \in {"free"} \cup Fixing /\ undone' = undone
    BY <1>2, RecoveryEffect
  <2>2. AtRest /\ AtRest' /\ ~undone
    BY <2>1 DEF AtRest
  <2>3. Run /\ Run'
    BY <2>1, <2>2 DEF Consecutive, Run
  <2>4. /\ initialized \/ passed > 0 =>
             /\ DOMAIN items \subseteq (next_id - size)..(next_id - 1)
             /\ DOMAIN items # {} => next_id - 1 \in DOMAIN items
        /\ initialized => DOMAIN items = (next_id - size)..(next_id - 1)
    BY <2>2, BoundsAtRest DEF Consecutive
  <2> DEFINE D == DOMAIN items
             N == NextIdAfter(D)
             C == Cardinality(D)
  <2>5. \/ next_id' = next_id /\ size' = size /\ initialized' = initialized /\ passed' = passed
        \/ D = (next_id' - size')..(next_id' - 1)
        \/ next_id' = N /\ size' = size /\ initialized' = initialized /\ passed' = passed
    <3>1. CASE BeginRecovery
      <4>1. next_id' = next_id /\ size' = size
        BY <3>1 DEF BeginRecovery, store
      <4>2. CASE Consistent(DOMAIN items, next_id, size)
        BY <2>3, <4>1, <4>2, WindowRecovered
      <4>3. CASE ~ Consistent(DOMAIN items, next_id, size)
        BY <3>1, <4>1, <4>3 DEF BeginRecovery, ScannedIds, tasks
      <4> QED BY <4>2, <4>3
    <3>2. CASE FixCounter \/ RecoveryFault
      <4>1. /\ op.at \in Fixing /\ op.id = N /\ op.size = C /\ (op.at = "fix_size" => next_id = N)
            /\ Write \/ UNCHANGED store
        BY <3>2 DEF FixCounter, RecoveryFault, Fault, Typed, LocalsOK
      <4>2. CASE op.at = "fix_next_id"
        <5>1. initialized' = initialized /\ passed' = passed
          BY <3>2, <4>2 DEF FixCounter, RecoveryFault, tasks
        <5> QED BY <4>1, <4>2, <5>1, WriteEffect DEF store, Typed
      <4>3. CASE op.at = "fix_size"
        <5>1. CASE Write
          <6>1. next_id' = N /\ size' = C
            BY <4>1, <4>3, <5>1, WriteEffect DEF Typed
          <6> QED BY <2>3, <6>1, WindowRecovered
        <5>2. CASE UNCHANGED store /\ RecoveryFault
          BY <5>2 DEF RecoveryFault, store
        <5> QED BY <3>2, <5>1, <5>2 DEF FixCounter, RecoveryFault, Fault
      <4> QED BY <4>1, <4>2, <4>3 DEF Fixing
    <3> QED BY <1>2, <3>1, <3>2
  <2>6. D \subseteq Nat /\ next_id \in Nat /\ size \in Nat /\ next_id' \in Nat /\ size' \in Nat
    BY <2>1 DEF Typed
  <2>7. /\ D = {} => N = 0
        /\ D # {} => N \in Nat /\ Max(D) \in D /\ N = Max(D) + 1 /\ \A i \in D : i < N
    BY NextIdAfterAll
  <2> HIDE DEF D, N, C
  <2>8. CASE next_id' = next_id /\ size' = size /\ initialized' = initialized /\ passed' = passed
    BY <2>1, <2>2, <2>3, <2>4, <2>8, RestIsConsecutive DEF D
  <2>9. CASE D = (next_id' - size')..(next_id' - 1)
    <3>1. D # {} => next_id' - 1 \in D
      <4> DEFINE a == next_id' - size'
                 b == next_id' - 1
      <4>1. a \in Int /\ b \in Int /\ D = a..b
        BY <2>6, <2>9
      <4> HIDE DEF a, b
      <4>2. D # {} => b \in D
        BY <4>1
      <4> QED BY <4>2 DEF b
    <3> QED BY <2>1, <2>2, <2>3, <2>9, <3>1, RestIsConsecutive DEF D
  <2>10. CASE next_id' = N /\ size' = size /\ initialized' = initialized /\ passed' = passed
    <3>1. CASE D = {}
      <4>1. initialized => size = 0
        <5> SUFFICES ASSUME initialized PROVE size = 0
          OBVIOUS
        <5>1. (next_id - size)..(next_id - 1) = {}
          BY <2>4, <3>1 DEF D
        <5>2. next_id - size > next_id - 1
          BY <2>6, <5>1
        <5> QED BY <2>6, <5>2
      <4>2. initialized => D = (next_id' - size')..(next_id' - 1)
        BY <2>7, <2>10, <3>1, <4>1
      <4> QED BY <2>1, <2>2, <2>3, <2>10, <3>1, <4>2, RestIsConsecutive DEF D
    <3>2. CASE D # {} /\ (initialized \/ passed > 0)
      <4>1. next_id - 1 \in D /\ D \subseteq (next_id - size)..(next_id - 1)
        BY <2>4, <3>2 DEF D
      <4>2. N = next_id
        <5>1. N \in Nat /\ Max(D) \in D /\ N = Max(D) + 1 /\ Max(D) \in Nat /\ next_id - 1 < N
          BY <2>6, <2>7, <3>2, <4>1
        <5>2. Max(D) <= next_id - 1
          BY <2>6, <4>1, <5>1
        <5> QED BY <2>6, <5>1, <5>2
      <4> QED BY <2>1, <2>2, <2>3, <2>4, <2>10, <4>2, RestIsConsecutive DEF D
    <3>3. CASE ~ (initialized \/ passed > 0)
      BY <2>2, <2>3, <2>10, <3>3, RestIsConsecutive
    <3> QED BY <3>1, <3>2, <3>3
  <2> QED BY <2>5, <2>8, <2>9, <2>10
<1> QED BY <1>1, <1>2

\* A run of numbers can grow at its end and shrink at its beginning.
LEMMA RunGrows ==
  ASSUME NEW D \in SUBSET Int, NEW e \in Int,
         \A i, j \in D : \A k \in i..j : k \in D,
         \A i \in D : i < e, D # {} => e - 1 \in D
  PROVE  \A i, j \in D \cup {e} : \A k \in i..j : k \in D \cup {e}
<1> SUFFICES ASSUME NEW i \in D \cup {e}, NEW j \in D \cup {e}, NEW k \in i..j
             PROVE  k \in D \cup {e}
  OBVIOUS
<1>1. i \in Int /\ j \in Int /\ k \in Int /\ i <= k /\ k <= j
  OBVIOUS
<1>2. CASE j \in D
  <2>1. i \in D
    BY <1>1, <1>2
  <2> QED BY <1>2, <2>1
<1>3. CASE j = e /\ k # e
  <2>1. i \in D /\ k \in i..(e - 1)
    BY <1>1, <1>3
  <2>2. e - 1 \in D
    BY <2>1
  <2> QED BY <2>1, <2>2
<1> QED BY <1>2, <1>3

LEMMA RunShrinks ==
  ASSUME NEW D \in SUBSET Int, NEW d \in Int,
         \A i, j \in D : \A k \in i..j : k \in D, \A i \in D : d <= i
  PROVE  \A i, j \in D \ {d} : \A k \in i..j : k \in D \ {d}
<1> SUFFICES ASSUME NEW i \in D \ {d}, NEW j \in D \ {d}, NEW k \in i..j
             PROVE  k \in D \ {d}
  OBVIOUS
<1>1. k \in D
  OBVIOUS
<1>2. i \in Int /\ j \in Int /\ k \in Int /\ i <= k /\ d <= i /\ i # d
  OBVIOUS
<1>3. k # d
  BY <1>2
<1> QED BY <1>1, <1>3

\* An enqueue adds to the end of the window.
LEMMA ConsecutiveEnqueue ==
  ASSUME Typed, Consecutive,
         \/ \E n \in 1..MaxBatch : BeginEnqueue(n)
         \/ PutItem \/ PutCounter \/ EnqueueFault \/ Rollback \/ RollbackFault
  PROVE  Consecutive'
<1> SUFFICES ASSUME ~undone' PROVE Consecutive'
  BY DEF Consecutive
<1> DEFINE D == DOMAIN items
<1>1. D \subseteq Nat /\ D \in SUBSET Int /\ next_id \in Nat /\ size \in Nat
  BY DEF Typed
<1>2. ASSUME NEW n \in 1..MaxBatch, BeginEnqueue(n) PROVE Consecutive'
  <2>1. /\ op.at = "free" /\ passed > 0 /\ n \in Nat
        /\ op'.at = "put_item" /\ Len(op'.batch) = n /\ op'.id = next_id /\ op'.size = size + n
        /\ UNCHANGED <<items, next_id, size, initialized, undone>>
    BY <1>2, TypedEnqueue
  <2>2. AtRest /\ Active /\ First = next_id - size /\ End = next_id
    BY <2>1, BoundsAtRest DEF AtRest, Active
  <2>3. op'.at \in Enqueuing /\ op'.at \notin Dequeuing \cup Clearing
    BY <2>1 DEF Enqueuing, Dequeuing, Clearing
  <2>4. First' = op'.id + Len(op'.batch) - op'.size /\ End' = op'.id
    BY <2>3 DEF First, End, Enqueuing, Dequeuing
  <2>5. First' = First /\ End' = End /\ Len(op'.batch) <= op'.size
    BY <1>1, <2>1, <2>2, <2>4
  <2>6. Run' /\ ~undone
    BY <2>1 DEF Consecutive, Run
  <2> QED BY <2>1, <2>2, <2>3, <2>5, <2>6 DEF Consecutive, Run, Clearing
<1>3. CASE PutItem
  <2>1. /\ op.at = "put_item" /\ op'.at \in {"put_item", "put_next_id"}
        /\ op.batch \in Seq(1..MaxItems) /\ op.batch # <<>> /\ op'.batch = Tail(op.batch)
        /\ DOMAIN items' = D \cup {op.id}
        /\ op'.id = op.id + 1 /\ op'.size = op.size /\ op.id \in Nat
        /\ UNCHANGED <<initialized, undone>>
    BY <1>3, TypedPutItem DEF Added
  <2>2. op.size \in Nat
    BY DEF Typed, LocalsOK, Locals
  <2>3. /\ op.at \in Enqueuing /\ op'.at \in Enqueuing
        /\ op'.at \notin Dequeuing \cup Clearing
    BY <2>1 DEF Enqueuing, Dequeuing, Clearing
  <2> DEFINE L == Len(op.batch)
  <2>4. L \in Nat /\ Len(op'.batch) = L - 1
    BY <2>1, HeadTailProperties
  <2>5. First = op.id + L - op.size /\ End = op.id /\ Active
    BY <2>3 DEF First, End, Active, Enqueuing, Dequeuing
  <2>6. First' = op'.id + Len(op'.batch) - op'.size /\ End' = op'.id /\ Active'
    BY <2>3 DEF First, End, Active, Enqueuing, Dequeuing
  <2>7. /\ Run /\ D \subseteq First..(End - 1) /\ (D # {} => End - 1 \in D)
        /\ initialized => D = First..(End - 1)
        /\ L <= op.size
    BY <2>1, <2>3, <2>5 DEF Consecutive, Run
  <2> DEFINE I == op.id
             F == First
  <2>8. F \in Int /\ F <= I /\ I \in Int
    BY <2>1, <2>2, <2>4, <2>5, <2>7
  <2>9. First' = F /\ End' = I + 1 /\ Len(op'.batch) <= op'.size
    <3>1. First' = (I + 1) + (L - 1) - op.size /\ F = I + L - op.size /\ I \in Nat /\ L - 1 <= op.size
      BY <2>1, <2>2, <2>4, <2>5, <2>6, <2>7
    <3>2. First' = F
      BY <2>2, <2>4, <3>1
    <3> QED BY <2>1, <2>4, <2>6, <3>1, <3>2
  <2>10. /\ D \subseteq F..(I - 1) /\ (D # {} => I - 1 \in D) /\ (initialized => D = F..(I - 1))
         /\ DOMAIN items' = D \cup {I}
    BY <2>1, <2>5, <2>7
  <2> HIDE DEF L, I, F, D
  <2>11. \A i \in D : i < I
    BY <2>8, <2>10
  <2>12. Run'
    <3>1. \A i, j \in D : \A k \in i..j : k \in D
      BY <2>7 DEF Run, D
    <3>2. \A i, j \in D \cup {I} : \A k \in i..j : k \in D \cup {I}
      BY <1>1, <2>8, <2>10, <2>11, <3>1, RunGrows
    <3> QED BY <2>10, <3>2 DEF Run
  <2>13. /\ D \cup {I} \subseteq F..I /\ I \in D \cup {I}
         /\ initialized => D \cup {I} = F..I
    BY <2>8, <2>10
  <2>14. (I + 1) - 1 = I
    BY <2>8
  <2> QED BY <2>1, <2>3, <2>9, <2>10, <2>12, <2>13, <2>14 DEF Consecutive, Run, Clearing
<1>4. CASE PutCounter
  <2>1. /\ op.at \in {"put_next_id", "put_size"} /\ items' = items
        /\ op.batch = <<>> /\ op.id \in Nat /\ op.size \in Nat
        /\ UNCHANGED <<initialized, passed, undone>>
    BY <1>4, TypedPutCounter DEF Typed, LocalsOK, Locals
  <2>2. Len(op.batch) = 0 /\ op.at \in Enqueuing
    BY <2>1, EmptySeq DEF Enqueuing
  <2>3. First = op.id - op.size /\ End = op.id /\ Active
    BY <2>1, <2>2 DEF First, End, Active, Enqueuing, Dequeuing
  <2>4. CASE op.at = "put_next_id"
    <3>1. op'.at = "put_size" /\ op'.id = op.id /\ op'.size = op.size /\ op'.batch = op.batch
      BY <1>4, <2>4, TypedPutCounter
    <3>2. op'.at \in Enqueuing /\ op'.at \notin Dequeuing \cup Clearing
      BY <3>1 DEF Enqueuing, Dequeuing, Clearing
    <3>3. First' = First /\ End' = End
      BY <2>2, <3>1, <3>2 DEF First, End, Enqueuing, Dequeuing
    <3> QED BY <2>1, <2>2, <2>3, <3>1, <3>2, <3>3 DEF Consecutive, Clearing
  <2>5. CASE op.at = "put_size"
    <3>1. next_id = op.id
      BY <2>5 DEF Typed, LocalsOK
    <3>2. op' = NoOp /\ next_id' = op.id /\ size' = op.size
      BY <1>4, <2>5, <3>1, TypedPutCounter
    <3>3. AtRest'
      BY <3>2, NoOpTyped DEF AtRest
    <3> QED BY <2>1, <2>3, <3>2, <3>3, RestIsConsecutive DEF Consecutive, Run
  <2> QED BY <2>1, <2>4, <2>5
<1>5. CASE EnqueueFault \/ Rollback \/ RollbackFault
  <2>1. undone'
    <3>1. CASE EnqueueFault
      <4>1. undone' = TRUE
        BY <3>1, TypedEnqueueFault
      <4> QED BY <4>1
    <3>2. CASE Rollback \/ RollbackFault
      <4>1. undone /\ undone' = undone
        BY <3>2, TypedRollback
      <4> QED BY <4>1
    <3> QED BY <1>5, <3>1, <3>2
  <2> QED BY <2>1
<1> QED BY <1>2, <1>3, <1>4, <1>5

\* The id at the beginning of the window is visited.
LEMMA FirstRemoved ==
  ASSUME Typed, Run, Removed(op.id), DOMAIN items \subseteq op.id..(next_id - 1),
         DOMAIN items # {} => next_id - 1 \in DOMAIN items
  PROVE  /\ Run'
         /\ DOMAIN items' \subseteq (op.id + 1)..(next_id - 1)
         /\ DOMAIN items' # {} => next_id - 1 \in DOMAIN items'
         /\ DOMAIN items = op.id..(next_id - 1) => DOMAIN items' = (op.id + 1)..(next_id - 1)
<1> DEFINE D == DOMAIN items
           f == op.id
           e == next_id - 1
<1>1. D \in SUBSET Int /\ f \in Int /\ e \in Int
  BY DEF Typed, LocalsOK, Locals
<1>2. D \subseteq f..e /\ (D # {} => e \in D) /\ DOMAIN items' = D \ {f}
  BY DEF Removed
<1>3. \A i, j \in D : \A k \in i..j : k \in D
  BY DEF Run
<1> HIDE DEF D, f, e
<1>4. \A i \in D : f <= i
  BY <1>1, <1>2
<1>5. \A i, j \in D \ {f} : \A k \in i..j : k \in D \ {f}
  BY <1>1, <1>3, <1>4, RunShrinks
<1>6. D \ {f} \subseteq (f + 1)..e
  BY <1>1, <1>2
<1>7. D \ {f} # {} => e \in D \ {f}
  <2> SUFFICES ASSUME NEW i \in D \ {f} PROVE e # f /\ e \in D
    OBVIOUS
  <2>1. i \in Int /\ f + 1 <= i /\ i <= e
    BY <1>1, <1>6
  <2>2. e # f
    BY <1>1, <2>1
  <2> QED BY <1>2, <2>2
<1>8. D = f..e => D \ {f} = (f + 1)..e
  BY <1>1
<1> QED BY <1>2, <1>5, <1>6, <1>7, <1>8 DEF Run, D, f, e

\* A dequeue takes from the beginning of the window; one that raises leaves less than its
\* size says.
LEMMA ConsecutiveDequeue ==
  ASSUME Typed, Consecutive,
         (\E n \in 1..MaxBatch : BeginDequeue(n)) \/ Take \/ PutNewSize \/ DequeueFault
  PROVE  Consecutive'
<1> SUFFICES ASSUME ~undone' PROVE Consecutive'
  BY DEF Consecutive
<1> DEFINE D == DOMAIN items
<1>1. /\ D \in SUBSET Int /\ next_id \in Nat /\ size \in Nat
      /\ op.id \in Int /\ op.size \in Nat /\ op.left \in Nat
  BY DEF Typed, LocalsOK, Locals
\* What holds while it lasts.
<1>2. ASSUME op.at \in Dequeuing, ~undone
      PROVE  /\ Run /\ D \subseteq op.id..(next_id - 1) /\ (D # {} => next_id - 1 \in D)
             /\ initialized => D = op.id..(next_id - 1) /\ next_id - op.size = op.id
             /\ next_id - op.size <= op.id /\ op.size <= size
  <2>1. First = op.id /\ End = next_id /\ Active
    BY <1>2 DEF First, End, Active, Enqueuing, Dequeuing
  <2> QED BY <1>2, <2>1 DEF Consecutive, Run
<1>3. ASSUME NEW n \in 1..MaxBatch, BeginDequeue(n) PROVE Consecutive'
  <2>1. /\ op.at = "free" /\ passed > 0
        /\ UNCHANGED <<items, next_id, size, initialized, undone>>
        /\ \/ size = 0 /\ op' = NoOp
           \/ op'.at = "take" /\ op'.id = next_id - size /\ op'.size = size
    BY <1>3, TypedDequeue
  <2>2. AtRest /\ Active /\ First = next_id - size /\ End = next_id
    BY <2>1, BoundsAtRest DEF AtRest, Active
  <2>3. /\ Run /\ D \subseteq (next_id - size)..(next_id - 1) /\ (D # {} => next_id - 1 \in D)
        /\ initialized => D = (next_id - size)..(next_id - 1)
    BY <2>1, <2>2 DEF Consecutive, Run
  <2>4. CASE op' = NoOp
    <3>1. AtRest' /\ Run'
      BY <2>1, <2>3, <2>4, NoOpTyped DEF AtRest, Run
    <3> QED BY <2>1, <2>3, <3>1, RestIsConsecutive
  <2>5. CASE op'.at = "take" /\ op'.id = next_id - size /\ op'.size = size
    <3>1. First' = next_id - size /\ End' = next_id
      BY <2>1, <2>5 DEF First, End, Enqueuing, Dequeuing
    <3>2. next_id - size <= next_id - size /\ size <= size
      BY <1>1
    <3> QED BY <2>1, <2>3, <2>5, <3>1, <3>2 DEF Consecutive, Run, Enqueuing
  <2> QED BY <2>1, <2>4, <2>5
<1>4. CASE Take
  <2>1. /\ op.at = "take" /\ Removed(op.id) /\ op'.at \in Dequeuing /\ op'.id = op.id + 1
        /\ op.id \in D => op'.size = op.size - 1
        /\ op.id \notin D => op'.size = op.size
        /\ UNCHANGED <<next_id, size, initialized, undone>>
    BY <1>4, TypedTake
  <2>2. op.at \in Dequeuing /\ ~undone /\ op.left \in 1..op.size
    BY <2>1 DEF Dequeuing, Typed, LocalsOK
  <2>3. /\ Run' /\ DOMAIN items' \subseteq (op.id + 1)..(next_id - 1)
        /\ DOMAIN items' # {} => next_id - 1 \in DOMAIN items'
        /\ initialized => DOMAIN items' = (op.id + 1)..(next_id - 1)
    BY <1>2, <2>1, <2>2, FirstRemoved
  <2>4. First' = op.id + 1 /\ End' = next_id
    BY <2>1 DEF First, End, Enqueuing, Dequeuing
  <2>5. op'.size \in Int /\ op'.size <= size /\ next_id - op'.size <= op.id + 1
    BY <1>1, <1>2, <2>1, <2>2
  <2>6. initialized => next_id - op'.size = op.id + 1
    <3> SUFFICES ASSUME initialized PROVE next_id - op'.size = op.id + 1
      OBVIOUS
    <3>1. D = op.id..(next_id - 1) /\ next_id - op.size = op.id /\ op.size >= 1
      BY <1>1, <1>2, <2>2
    <3>2. op.id <= next_id - 1
      BY <1>1, <3>1
    <3>3. op.id \in D
      BY <1>1, <3>1, <3>2
    <3> QED BY <1>1, <2>1, <3>1, <3>3
  <2> QED BY <2>1, <2>3, <2>4, <2>5, <2>6 DEF Consecutive, Run, Dequeuing, Enqueuing
<1>5. CASE PutNewSize
  <2>1. /\ op.at = "put_new_size" /\ op' = NoOp /\ items' = items /\ size' = op.size
        /\ UNCHANGED <<next_id, initialized, passed, undone>>
    BY <1>5, TypedPutNewSize
  <2>2. op.at \in Dequeuing /\ ~undone
    BY <2>1 DEF Dequeuing
  <2>3. D \subseteq (next_id - op.size)..(next_id - 1)
    BY <1>1, <1>2, <2>2
  <2>4. AtRest' /\ Run'
    BY <1>2, <2>1, <2>2, NoOpTyped DEF AtRest, Run
  <2> QED BY <1>2, <2>1, <2>2, <2>3, <2>4, RestIsConsecutive
<1>6. CASE DequeueFault
  <2>1. /\ op.at \in Dequeuing /\ op' = NoOp /\ initialized' = FALSE
        /\ Removed(op.id) \/ items' = items
        /\ next_id' = next_id /\ size' \in {size, op.size} /\ undone' = undone
    BY <1>6, TypedDequeueFault DEF Dequeuing
  <2>2. ~undone
    BY <2>1
  <2>3. /\ Run' /\ DOMAIN items' \subseteq op.id..(next_id - 1)
        /\ DOMAIN items' # {} => next_id - 1 \in DOMAIN items'
    <3>1. CASE items' = items
      BY <1>2, <2>1, <2>2, <3>1 DEF Run
    <3>2. CASE Removed(op.id)
      <4>1. /\ Run' /\ DOMAIN items' \subseteq (op.id + 1)..(next_id - 1)
            /\ DOMAIN items' # {} => next_id - 1 \in DOMAIN items'
        BY <1>2, <2>1, <2>2, <3>2, FirstRemoved
      <4>2. (op.id + 1)..(next_id - 1) \subseteq op.id..(next_id - 1)
        BY <1>1
      <4> QED BY <4>1, <4>2
    <3> QED BY <2>1, <3>1, <3>2
  <2>4. next_id - size' <= op.id /\ size' \in Nat
    BY <1>1, <1>2, <2>1, <2>2
  <2>5. op.id..(next_id - 1) \subseteq (next_id - size')..(next_id - 1)
    BY <1>1, <2>4
  <2>6. AtRest'
    BY <2>1, NoOpTyped DEF AtRest
  <2> QED BY <2>1, <2>3, <2>5, <2>6, RestIsConsecutive
<1> QED BY <1>3, <1>4, <1>5, <1>6

\* A clear empties the window from its beginning; what a process loss leaves of anything is
\* still a run.
LEMMA ConsecutiveClear ==
  ASSUME Typed, Consecutive, BeginClear \/ Clear \/ ClearFault \/ Crash
  PROVE  Consecutive'
<1> SUFFICES ASSUME ~undone' PROVE Consecutive'
  BY DEF Consecutive
<1> DEFINE D == DOMAIN items
<1>1. D \in SUBSET Int /\ next_id \in Nat /\ size \in Nat /\ op.id \in Int /\ op.left \in Nat
  BY DEF Typed, LocalsOK, Locals
<1>2. CASE BeginClear
  <2>1. /\ op.at = "free" /\ passed > 0
        /\ UNCHANGED <<items, next_id, size, initialized, undone>>
        /\ \/ op' = NoOp
           \/ op'.at = "clear_item" /\ op'.id = next_id - size /\ op'.left = size
    BY <1>2, TypedClear
  <2>2. AtRest /\ Active /\ First = next_id - size /\ End = next_id
    BY <2>1, BoundsAtRest DEF AtRest, Active
  <2>3. /\ Run /\ D \subseteq (next_id - size)..(next_id - 1) /\ (D # {} => next_id - 1 \in D)
        /\ initialized => D = (next_id - size)..(next_id - 1)
    BY <2>1, <2>2 DEF Consecutive, Run
  <2>4. CASE op' = NoOp
    <3>1. AtRest' /\ Run'
      BY <2>1, <2>3, <2>4, NoOpTyped DEF AtRest, Run
    <3> QED BY <2>1, <2>3, <3>1, RestIsConsecutive
  <2>5. CASE op'.at = "clear_item" /\ op'.id = next_id - size /\ op'.left = size
    <3>1. First' = next_id - size /\ End' = next_id
      BY <2>1, <2>5 DEF First, End, Enqueuing, Dequeuing
    <3>2. size = next_id - (next_id - size)
      BY <1>1
    <3> QED BY <2>1, <2>3, <2>5, <3>1, <3>2 DEF Consecutive, Run, Enqueuing, Dequeuing
  <2> QED BY <2>1, <2>4, <2>5
<1>3. CASE Clear /\ op.at = "clear_item"
  <2>1. /\ Removed(op.id) /\ next_id' = next_id /\ size' = size
        /\ UNCHANGED <<initialized, passed, undone>>
        /\ \/ op.left > 1 /\ op'.at = "clear_item" /\ op'.id = op.id + 1 /\ op'.left = op.left - 1
           \/ op.left = 1 /\ op'.at = "clear_size"
    BY <1>3, TypedClearing
  <2>2. ~undone /\ First = op.id /\ End = next_id /\ Active
    BY <1>3, <2>1 DEF First, End, Active, Enqueuing, Dequeuing, Clearing
  <2>3. /\ Run /\ D \subseteq op.id..(next_id - 1) /\ (D # {} => next_id - 1 \in D)
        /\ initialized => D = op.id..(next_id - 1)
        /\ op.left = next_id - op.id
    BY <1>3, <2>2 DEF Consecutive, Run
  <2>4. /\ Run' /\ DOMAIN items' \subseteq (op.id + 1)..(next_id - 1)
        /\ DOMAIN items' # {} => next_id - 1 \in DOMAIN items'
        /\ initialized => DOMAIN items' = (op.id + 1)..(next_id - 1)
    BY <2>1, <2>3, FirstRemoved
  <2>5. CASE op.left > 1 /\ op'.at = "clear_item" /\ op'.id = op.id + 1 /\ op'.left = op.left - 1
    <3>1. First' = op.id + 1 /\ End' = next_id
      BY <2>1, <2>5 DEF First, End, Enqueuing, Dequeuing
    <3>2. op.left - 1 = next_id - (op.id + 1)
      BY <1>1, <2>3
    <3> QED BY <2>1, <2>4, <2>5, <3>1, <3>2 DEF Consecutive, Run, Enqueuing, Dequeuing
  <2>6. CASE op.left = 1 /\ op'.at = "clear_size"
    <3>1. First' = next_id /\ End' = next_id
      BY <2>1, <2>6 DEF First, End, Enqueuing, Dequeuing
    <3>2. op.id + 1 = next_id
      BY <1>1, <2>3, <2>6
    <3> QED BY <2>1, <2>4, <2>6, <3>1, <3>2 DEF Consecutive, Run, Enqueuing, Dequeuing
  <2> QED BY <2>1, <2>5, <2>6
<1>4. CASE Clear /\ op.at # "clear_item"
  <2>1. /\ op.at \in {"clear_size", "clear_next_id"} /\ items' = items
        /\ UNCHANGED <<initialized, passed, undone>>
    BY <1>4, TypedClearing DEF Clearing
  <2>2. ~undone /\ First = next_id /\ End = next_id /\ Active
    BY <2>1 DEF First, End, Active, Enqueuing, Dequeuing, Clearing
  <2>3. D \subseteq next_id..(next_id - 1)
    BY <2>2 DEF Consecutive
  <2>4. D = {} /\ next_id..(next_id - 1) = {}
    <3> HIDE DEF D
    <3>1. next_id..(next_id - 1) = {}
      BY <1>1
    <3> QED BY <2>3, <3>1
  <2>5. CASE op.at = "clear_size"
    <3>1. next_id' = next_id /\ size' = 0 /\ op'.at = "clear_next_id"
      BY <1>4, <2>5, TypedClearing
    <3>2. First' = next_id /\ End' = next_id
      BY <3>1 DEF First, End, Enqueuing, Dequeuing
    <3> QED BY <2>1, <2>4, <3>1, <3>2 DEF Consecutive, Enqueuing, Dequeuing
  <2>6. CASE op.at = "clear_next_id"
    <3>1. next_id' = 0 /\ size' = size /\ op' = NoOp
      BY <1>4, <2>6, TypedClearing
    <3>2. size = 0
      BY <2>2, <2>6 DEF Consecutive
    <3>3. AtRest' /\ Run'
      BY <2>1, <2>4, <3>1, NoOpTyped DEF AtRest, Run
    <3>4. (0 - 0)..(0 - 1) = {}
      OBVIOUS
    <3> QED BY <2>1, <2>4, <3>1, <3>2, <3>3, <3>4, RestIsConsecutive
  <2> QED BY <2>1, <2>5, <2>6
<1>5. CASE ClearFault
  <2>1. undone' = TRUE
    BY <1>5, TypedClearFault
  <2> QED BY <2>1
<1>6. CASE Crash
  <2>1. items' = items /\ op' = NoOp /\ initialized' = FALSE /\ passed' = 0 /\ undone' = undone
    BY <1>6, TypedCrash
  <2>2. ~undone
    BY <2>1
  <2>3. AtRest' /\ Run'
    BY <2>1, <2>2, NoOpTyped DEF AtRest, Consecutive, Run
  <2>4. ~ (initialized' \/ passed' > 0)
    BY <2>1
  <2> QED BY <2>3, <2>4, RestIsConsecutive
<1> QED BY <1>2, <1>3, <1>4, <1>5, <1>6

-----------------------------------------------------------------------------
(* In what order *)

InOrder == Ordered /\ DeliveredInOrder

\* Nothing is taken, delivered or stored.
LEMMA OrderKept ==
  ASSUME InOrder, undone => undone', op'.at \notin Dequeuing, delivered' = delivered,
         \A i \in DOMAIN items' : i \in DOMAIN items /\ items'[i] = items[i]
  PROVE  InOrder'
<1> SUFFICES ASSUME ~undone' PROVE InOrder'
  BY DEF InOrder, Ordered, DeliveredInOrder
<1>1. ~undone
  OBVIOUS
<1>2. Stored' \subseteq Stored
  BY DEF Stored
<1>3. \A i, j \in DOMAIN items' : i < j => items'[i] < items'[j]
  BY <1>1 DEF InOrder, Ordered
<1>4. \A x \in ToSet(delivered'), y \in Stored' : x < y
  BY <1>1, <1>2 DEF InOrder, Ordered
<1>5. \A j, k \in DOMAIN delivered' : j < k => delivered'[j] < delivered'[k]
  BY <1>1 DEF InOrder, DeliveredInOrder
<1> QED BY <1>3, <1>4, <1>5 DEF InOrder, Ordered, DeliveredInOrder

\* The item that is stored is later than all others, at an id past theirs.
LEMMA OrderEnqueue ==
  ASSUME Typed, Places, Consecutive, InOrder,
         \/ \E n \in 1..MaxBatch : BeginEnqueue(n)
         \/ PutItem \/ PutCounter \/ EnqueueFault \/ Rollback \/ RollbackFault
  PROVE  InOrder'
<1>1. ASSUME NEW n \in 1..MaxBatch, BeginEnqueue(n) PROVE InOrder'
  <2>1. op'.at = "put_item" /\ UNCHANGED <<items, delivered, undone>>
    BY <1>1, TypedEnqueue
  <2>2. op'.at \notin Dequeuing
    BY <2>1 DEF Dequeuing
  <2> QED BY <2>1, <2>2, OrderKept
<1>2. CASE PutItem
  <2> SUFFICES ASSUME ~undone' PROVE InOrder'
    BY DEF InOrder, Ordered, DeliveredInOrder
  <2> DEFINE D == DOMAIN items
             d == op.id
             x == Head(op.batch)
  <2>1. /\ op.at = "put_item" /\ op'.at \in {"put_item", "put_next_id"}
        /\ DOMAIN items' = D \cup {d} /\ items'[d] = x
        /\ \A i \in D \ {d} : items'[i] = items[i]
        /\ d \in Int /\ UNCHANGED <<delivered, undone>>
    BY <1>2, TypedPutItem DEF Added
  <2>2. /\ x = Known + 1 /\ Known \in Int
        /\ Stored \subseteq 1..Known /\ ToSet(delivered) \subseteq 1..Known
    BY <2>1, BatchHead, KnownBound DEF Places, OnePlace
  <2>3. op.at \in Enqueuing /\ ~undone
    BY <2>1 DEF Enqueuing
  <2>4. First \in Int /\ End = d /\ Active
    <3>1. First = d + Len(op.batch) - op.size /\ End = d /\ Active
      BY <2>3 DEF First, End, Active, Enqueuing, Dequeuing
    <3>2. op.batch \in Seq(1..MaxItems) /\ op.size \in Nat
      BY DEF Typed, LocalsOK, Locals
    <3> QED BY <2>1, <3>1, <3>2
  <2>5. D \subseteq First..(d - 1)
    BY <2>3, <2>4 DEF Consecutive
  <2>6. \A i \in D : i < d /\ i # d
    BY <2>1, <2>4, <2>5
  <2>7. \A i \in D : items'[i] = items[i] /\ items[i] < x
    <3>1. \A i \in D : items[i] \in 1..Known
      BY <2>2 DEF Stored
    <3> QED BY <2>1, <2>2, <2>6, <3>1
  <2>8. Stored' \subseteq Stored \cup {x}
    BY <2>1, <2>6 DEF Stored
  <2> HIDE DEF D, d, x
  <2>9. \A i, j \in DOMAIN items' : i < j => items'[i] < items'[j]
    <3> SUFFICES ASSUME NEW i \in D \cup {d}, NEW j \in D \cup {d}, i < j
                 PROVE  items'[i] < items'[j]
      BY <2>1
    <3>1. CASE i \in D /\ j \in D
      BY <2>3, <2>7, <3>1 DEF InOrder, Ordered, D
    <3>2. CASE i \in D /\ j = d
      BY <2>1, <2>7, <3>2
    <3>3. i # d
      <4>1. ~ (d < d) /\ \A k \in D : ~ (d < k)
        <5>1. D \subseteq Int
          BY DEF D, Typed
        <5> QED BY <2>1, <2>6, <5>1
      <4> QED BY <4>1
    <3> QED BY <3>1, <3>2, <3>3
  <2>10. \A y \in ToSet(delivered), z \in Stored \cup {x} : y < z
    <3>1. \A y \in ToSet(delivered) : y < x
      BY <2>2
    <3> QED BY <2>3, <3>1 DEF InOrder, Ordered
  <2>11. \A y \in ToSet(delivered'), z \in Stored' : y < z
    BY <2>1, <2>8, <2>10
  <2>12. op'.at \notin Dequeuing
    BY <2>1 DEF Dequeuing
  <2>13. \A j, k \in DOMAIN delivered' : j < k => delivered'[j] < delivered'[k]
    BY <2>1, <2>3 DEF InOrder, DeliveredInOrder
  <2> QED BY <2>9, <2>11, <2>12, <2>13 DEF InOrder, Ordered, DeliveredInOrder
<1>3. CASE PutCounter
  <2>1. /\ items' = items /\ delivered' = delivered /\ undone' = undone
        /\ op'.at \in {"put_size", "free"}
    BY <1>3, TypedPutCounter, NoOpTyped
  <2>2. op'.at \notin Dequeuing
    BY <2>1 DEF Dequeuing
  <2> QED BY <2>1, <2>2, OrderKept
<1>4. CASE EnqueueFault
  <2>1. undone' = TRUE
    BY <1>4, TypedEnqueueFault
  <2> QED BY <2>1 DEF InOrder, Ordered, DeliveredInOrder
<1>5. CASE Rollback \/ RollbackFault
  <2>1. undone /\ undone' = undone
    BY <1>5, TypedRollback
  <2>2. undone'
    BY <2>1
  <2> QED BY <2>2 DEF InOrder, Ordered, DeliveredInOrder
<1> QED BY <1>1, <1>2, <1>3, <1>4, <1>5

\* The item that is taken is the earliest of those stored.
LEMMA OrderDequeue ==
  ASSUME Typed, Places, Consecutive, InOrder,
         (\E n \in 1..MaxBatch : BeginDequeue(n)) \/ Take \/ PutNewSize \/ DequeueFault
  PROVE  InOrder'
<1> SUFFICES ASSUME ~undone' PROVE InOrder'
  BY DEF InOrder, Ordered, DeliveredInOrder
<1> DEFINE D == DOMAIN items
<1>1. /\ delivered \in Seq(1..MaxItems) /\ op.results \in Seq(1..MaxItems)
      /\ D \subseteq Int /\ op.id \in Int /\ next_id \in Int
      /\ Stored \subseteq 1..MaxItems
  BY DEF Typed, LocalsOK, Locals, Places, OnePlace
<1>2. 1..MaxItems \in SUBSET Int
  BY BoundsAssumption
<1>3. ASSUME NEW n \in 1..MaxBatch, BeginDequeue(n) PROVE InOrder'
  <2>1. /\ op' = NoOp \/ (op'.at = "take" /\ op'.results = <<>>)
        /\ UNCHANGED <<items, delivered, undone>>
    BY <1>3, TypedDequeue
  <2>2. op'.results = <<>> /\ DOMAIN op'.results = {} /\ ToSet(op'.results) = {}
    BY <2>1, NoOpTyped DEF ToSet
  <2>3. Stored' = Stored /\ ~undone
    BY <2>1 DEF Stored
  <2> QED BY <2>1, <2>2, <2>3 DEF InOrder, Ordered, DeliveredInOrder
<1>4. CASE Take
  <2>1. /\ op.at = "take" /\ DOMAIN items' = D \ {op.id}
        /\ \A i \in D \ {op.id} : items'[i] = items[i]
        /\ op.id \in D => op'.results = Append(op.results, items[op.id])
        /\ op.id \notin D => op'.results = op.results
        /\ UNCHANGED <<delivered, undone>>
    BY <1>4, TypedTake DEF Removed
  <2>2. op.at \in Dequeuing /\ ~undone
    BY <2>1 DEF Dequeuing
  <2>3. First = op.id /\ End = next_id /\ Active
    BY <2>2 DEF First, End, Active, Enqueuing, Dequeuing
  <2>4. D \subseteq op.id..(next_id - 1)
    BY <2>2, <2>3 DEF Consecutive
  <2>5. \A i \in D : op.id <= i
    BY <1>1, <2>4
  <2>6. \A i \in DOMAIN items' : i \in D /\ i # op.id /\ op.id < i /\ items'[i] = items[i]
    BY <1>1, <2>1, <2>5
  <2>7. Stored' \subseteq Stored
    BY <2>6 DEF Stored
  <2>8. /\ \A i, j \in D : i < j => items[i] < items[j]
        /\ \A y \in ToSet(delivered), z \in Stored : y < z
        /\ \A j, k \in DOMAIN op.results : j < k => op.results[j] < op.results[k]
        /\ \A y \in ToSet(op.results), z \in Stored : y < z
        /\ \A y \in ToSet(delivered), z \in ToSet(op.results) : y < z
        /\ \A j, k \in DOMAIN delivered : j < k => delivered[j] < delivered[k]
    BY <2>2 DEF InOrder, Ordered, DeliveredInOrder
  <2>9. \A i, j \in DOMAIN items' : i < j => items'[i] < items'[j]
    BY <2>6, <2>8
  <2>10. /\ \A j, k \in DOMAIN op'.results : j < k => op'.results[j] < op'.results[k]
         /\ \A y \in ToSet(op'.results), z \in Stored' : y < z
         /\ \A y \in ToSet(delivered), z \in ToSet(op'.results) : y < z
    <3>1. CASE op.id \notin D
      BY <2>1, <2>7, <2>8, <3>1
    <3>2. CASE op.id \in D
      <4> DEFINE x == items[op.id]
                 r == op.results
                 I == 1..MaxItems
      <4>1. x \in Stored /\ x \in I /\ r \in Seq(I) /\ I \in SUBSET Int
        BY <1>1, <1>2, <3>2 DEF Stored
      <4>2. op'.results = Append(r, x)
        BY <2>1, <3>2
      <4>3. \A z \in Stored' : x < z
        <5> SUFFICES ASSUME NEW i \in DOMAIN items' PROVE items[op.id] < items'[i]
          BY DEF Stored
        <5> QED BY <2>6, <2>8, <3>2
      <4> HIDE DEF x, r, I
      <4>4. ToSet(op'.results) = ToSet(r) \cup {x}
        BY <4>1, <4>2, ToSetAppend
      <4>5. \A y \in ToSet(r) : y < x
        BY <2>8, <4>1 DEF r
      <4>6. \A j, k \in DOMAIN r : j < k => r[j] < r[k]
        BY <2>8 DEF r
      <4>7. \A j, k \in DOMAIN op'.results : j < k => op'.results[j] < op'.results[k]
        BY <4>1, <4>2, <4>5, <4>6, IncreasingAppend
      <4>8. \A y \in ToSet(r), z \in Stored' : y < z
        BY <2>7, <2>8 DEF r
      <4>9. \A y \in ToSet(delivered) : y < x /\ \A z \in ToSet(r) : y < z
        BY <2>8, <4>1 DEF r
      <4> QED BY <4>3, <4>4, <4>7, <4>8, <4>9
    <3> QED BY <3>1, <3>2
  <2>11. \A y \in ToSet(delivered), z \in Stored' : y < z
    BY <2>7, <2>8
  <2> QED BY <2>1, <2>8, <2>9, <2>10, <2>11 DEF InOrder, Ordered, DeliveredInOrder
<1>5. CASE PutNewSize
  <2>1. /\ op.at = "put_new_size" /\ op' = NoOp /\ items' = items
        /\ delivered' = delivered \o op.results /\ undone' = undone
    BY <1>5, TypedPutNewSize
  <2>2. op.at \in Dequeuing /\ ~undone /\ op'.at \notin Dequeuing /\ Stored' = Stored
    BY <2>1, NoOpTyped DEF Dequeuing, Stored
  <2>3. /\ \A i, j \in D : i < j => items[i] < items[j]
        /\ \A y \in ToSet(delivered), z \in Stored : y < z
        /\ \A j, k \in DOMAIN op.results : j < k => op.results[j] < op.results[k]
        /\ \A y \in ToSet(op.results), z \in Stored : y < z
        /\ \A y \in ToSet(delivered), z \in ToSet(op.results) : y < z
        /\ \A j, k \in DOMAIN delivered : j < k => delivered[j] < delivered[k]
    BY <2>2 DEF InOrder, Ordered, DeliveredInOrder
  <2> DEFINE I == 1..MaxItems
  <2>4. I \in SUBSET Int /\ delivered \in Seq(I) /\ op.results \in Seq(I)
    BY <1>1, <1>2
  <2> HIDE DEF I
  <2>5. \A j, k \in DOMAIN delivered' : j < k => delivered'[j] < delivered'[k]
    BY <2>1, <2>3, <2>4, IncreasingConcat
  <2>6. ToSet(delivered') = ToSet(delivered) \cup ToSet(op.results)
    BY <2>1, <2>4, ToSetConcat
  <2>7. \A y \in ToSet(delivered'), z \in Stored' : y < z
    BY <2>2, <2>3, <2>6
  <2> QED BY <2>1, <2>2, <2>3, <2>5, <2>7 DEF InOrder, Ordered, DeliveredInOrder
<1>6. CASE DequeueFault
  <2>1. /\ op.at \in Dequeuing /\ op' = NoOp /\ (Removed(op.id) \/ items' = items)
        /\ delivered' = delivered /\ undone' = undone
    BY <1>6, TypedDequeueFault DEF Dequeuing
  <2>2. op'.at \notin Dequeuing /\ \A i \in DOMAIN items' : i \in D /\ items'[i] = items[i]
    BY <2>1, NoOpTyped DEF Dequeuing, Removed
  <2> QED BY <2>1, <2>2, OrderKept
<1> QED BY <1>3, <1>4, <1>5, <1>6

LEMMA OrderOther ==
  ASSUME Typed, InOrder,
         \/ CheckInitialized \/ BeginRecovery \/ FixCounter \/ RecoveryFault
         \/ BeginClear \/ Clear \/ ClearFault \/ Crash
  PROVE  InOrder'
<1>1. CASE CheckInitialized
  <2>1. UNCHANGED <<items, op, delivered, undone>>
    BY <1>1 DEF CheckInitialized, store, history
  <2> QED BY <2>1 DEF InOrder, Ordered, DeliveredInOrder, Stored
<1>2. CASE BeginRecovery \/ FixCounter \/ RecoveryFault
  <2>1. /\ items' = items /\ op'.at \in {"free"} \cup Fixing
        /\ delivered' = delivered /\ undone' = undone
    BY <1>2, RecoveryEffect
  <2>2. op'.at \notin Dequeuing
    BY <2>1 DEF Fixing, Dequeuing
  <2> QED BY <2>1, <2>2, OrderKept
<1>3. CASE BeginClear
  <2>1. /\ items' = items /\ (op' = NoOp \/ op'.at = "clear_item")
        /\ delivered' = delivered /\ undone' = undone
    BY <1>3, TypedClear
  <2>2. op'.at \notin Dequeuing
    BY <2>1, NoOpTyped DEF Dequeuing
  <2> QED BY <2>1, <2>2, OrderKept
<1>4. CASE Clear
  <2>1. /\ op.at \in Clearing /\ op'.at \in Clearing \cup {"free"}
        /\ items' = items \/ Removed(op.id)
        /\ delivered' = delivered /\ undone' = undone
    BY <1>4, TypedClearing, NoOpTyped DEF Clearing
  <2>2. op'.at \notin Dequeuing /\ \A i \in DOMAIN items' : i \in DOMAIN items /\ items'[i] = items[i]
    BY <2>1 DEF Clearing, Dequeuing, Removed
  <2> QED BY <2>1, <2>2, OrderKept
<1>5. CASE ClearFault
  <2>1. undone' = TRUE
    BY <1>5, TypedClearFault
  <2> QED BY <2>1 DEF InOrder, Ordered, DeliveredInOrder
<1>6. CASE Crash
  <2>1. items' = items /\ op' = NoOp /\ delivered' = delivered /\ undone' = undone
    BY <1>6, TypedCrash
  <2>2. op'.at \notin Dequeuing
    BY <2>1, NoOpTyped DEF Dequeuing
  <2> QED BY <2>1, <2>2, OrderKept
<1> QED BY <1>1, <1>2, <1>3, <1>4, <1>5, <1>6

-----------------------------------------------------------------------------
(* The theorems *)

\* IInv, part by part: only the bounds that TypeOK adds follow from the others.
Parts == Typed /\ Places /\ Safe /\ Consecutive /\ InOrder

LEMMA PartsInit == Init => Parts
<1> SUFFICES ASSUME Init PROVE Parts
  OBVIOUS
<1>1. /\ items = <<>> /\ next_id = 0 /\ size = 0 /\ initialized = FALSE /\ passed = 0 /\ op = NoOp
      /\ offered = 0 /\ acked = {} /\ delivered = <<>> /\ forfeited = {}
  BY DEF Init
<1>2. DOMAIN items = {} /\ DOMAIN delivered = {}
  BY <1>1
<1>3. Stored = {} /\ ToSet(delivered) = {} /\ delivered \in Seq(1..MaxItems)
  BY <1>1, <1>2 DEF Stored, ToSet
<1>4. op.at = "free" /\ op.at \notin Fixing \cup Enqueuing \cup Dequeuing \cup Clearing
  BY <1>1, NoOpTyped DEF Fixing, Enqueuing, Dequeuing, Clearing
<1>5. Known = 0 /\ 0 \in 0..MaxItems
  BY <1>1, <1>4, BoundsAssumption DEF Known
<1>6. Places
  BY <1>1, <1>2, <1>3, <1>4, <1>5 DEF Places, OnePlace, DeliveredOnce, IsInjective
<1>7. Safe
  BY <1>1, <1>2, <1>4 DEF Safe, OutOfReach, AckedIsKept
<1>8. Consecutive
  BY <1>1, <1>2, <1>4 DEF Consecutive, Active
<1>9. InOrder
  BY <1>2, <1>3, <1>4 DEF InOrder, Ordered, DeliveredInOrder
<1> QED BY TypedInit, <1>6, <1>7, <1>8, <1>9 DEF Parts

LEMMA PartsNext == Parts /\ [Next]_vars => Parts'
<1> SUFFICES ASSUME Parts, [Next]_vars PROVE Parts'
  OBVIOUS
<1>1. Typed /\ Places /\ Safe /\ Consecutive /\ InOrder /\ OutOfReach
  BY DEF Parts, Safe
<1>2. CASE CheckInitialized \/ BeginRecovery \/ FixCounter \/ RecoveryFault
  BY <1>1, <1>2, TypedRecovery, PlacesOther, SafeRecovery, ConsecutiveRecovery, OrderOther DEF Parts
<1>3. CASE (\E n \in 1..MaxBatch : BeginEnqueue(n))
           \/ PutItem \/ PutCounter \/ EnqueueFault \/ Rollback \/ RollbackFault
  <2>1. Typed'
    BY <1>1, <1>3, TypedEnqueue, TypedPutItem, TypedPutCounter, TypedEnqueueFault, TypedRollback
  <2>2. Places' /\ Safe' /\ Consecutive' /\ InOrder'
    BY <1>1, <1>3, PlacesEnqueue, SafeEnqueue, ConsecutiveEnqueue, OrderEnqueue
  <2> QED BY <2>1, <2>2 DEF Parts
<1>4. CASE (\E n \in 1..MaxBatch : BeginDequeue(n)) \/ Take \/ PutNewSize \/ DequeueFault
  <2>1. Typed'
    BY <1>1, <1>4, TypedDequeue, TypedTake, TypedPutNewSize, TypedDequeueFault
  <2>2. Places' /\ Safe' /\ Consecutive' /\ InOrder'
    BY <1>1, <1>4, PlacesDequeue, SafeDequeue, ConsecutiveDequeue, OrderDequeue
  <2> QED BY <2>1, <2>2 DEF Parts
<1>5. CASE BeginClear \/ Clear \/ ClearFault \/ Crash
  <2>1. Typed'
    BY <1>1, <1>5, TypedClear, TypedClearing, TypedClearFault, TypedCrash
  <2>2. Places' /\ Safe' /\ Consecutive' /\ InOrder'
    BY <1>1, <1>5, PlacesOther, SafeClear, ConsecutiveClear, OrderOther
  <2> QED BY <2>1, <2>2 DEF Parts
<1>6. CASE UNCHANGED vars
  <2>1. Typed'
    BY <1>1, <1>6 DEF Typed, LocalsOK, Stored, vars, store, tasks, history
  <2>2. Places' /\ Safe' /\ Consecutive'
    BY <1>1, <1>6, PlacesOther, SafeRecovery, ConsecutiveRecovery
  <2>3. InOrder'
    BY <1>1, <1>6 DEF InOrder, Ordered, DeliveredInOrder, Stored, vars, store, history
  <2> QED BY <2>1, <2>2, <2>3 DEF Parts
<1> QED BY <1>2, <1>3, <1>4, <1>5, <1>6 DEF Next, Proceed, Raise

\* Recovered and at rest, the stored ids are the window.
LEMMA PartsWindow == Parts => WindowIntact
<1> SUFFICES ASSUME Parts, initialized, op.at = "free", ~undone
             PROVE  DOMAIN items = Window
  BY DEF WindowIntact
<1>1. First = next_id - size /\ End = next_id
  BY BoundsAtRest DEF AtRest
<1> QED BY <1>1 DEF Parts, Consecutive, Window, StartId

LEMMA PartsImplyIInv == Parts => IInv
<1> SUFFICES ASSUME Parts PROVE IInv
  OBVIOUS
<1>1. Typed /\ Places /\ Safe /\ Consecutive /\ InOrder
  BY DEF Parts
<1>2. initialized /\ op.at = "free" /\ ~undone => size <= next_id
  <2> SUFFICES ASSUME initialized, op.at = "free", ~undone PROVE size <= next_id
    OBVIOUS
  <2>1. DOMAIN items = (next_id - size)..(next_id - 1)
    BY PartsWindow DEF WindowIntact, Window, StartId
  <2>2. DOMAIN items \subseteq Nat /\ next_id \in Nat /\ size \in Nat
    BY <1>1 DEF Typed
  <2>3. CASE size = 0
    BY <2>2, <2>3
  <2>4. CASE size # 0
    <3>1. next_id - size <= next_id - 1 /\ next_id - size \in Int
      BY <2>2, <2>4
    <3>2. next_id - size \in DOMAIN items
      BY <2>1, <2>2, <3>1
    <3>3. next_id - size \in Nat
      BY <2>2, <3>2
    <3> QED BY <2>2, <3>3
  <2> QED BY <2>3, <2>4
<1>3. op.at \in Steps /\ op.left \in Nat /\ op.size \in Nat /\ op.id \in Int
  BY <1>1 DEF Typed, LocalsOK, Locals
<1>4. /\ acked \subseteq 1..offered /\ forfeited \subseteq 1..offered
      /\ ToSet(delivered) \subseteq 1..offered
  BY <1>1, PlacesBound
<1>5. TypeOK
  BY <1>1, <1>2, <1>3, <1>4 DEF TypeOK, Typed, Steps
<1> QED BY <1>1, <1>5 DEF IInv, Typed, Places, Safe, InOrder

\* IInv is an inductive invariant of the queue.
THEOREM QueueInvariant == Spec => []IInv
<1>1. Spec => []Parts
  BY PartsInit, PartsNext, PTL DEF Spec
<1> QED BY <1>1, PartsImplyIInv, PTL

\* The counters never go below zero, a queue at rest never has a window that begins below id 0,
\* and items that were never offered are nowhere (TypeOK): whatever store operation raised and
\* wherever the process was lost.
THEOREM QueueTypeCorrect == Spec => []TypeOK
<1>1. IInv => TypeOK
  BY DEF IInv
<1> QED BY <1>1, QueueInvariant, PTL

\* No item is returned by dequeue twice (DeliveredOnce): neither a rollback that runs twice, nor
\* a recovery that recomputes the counters, brings back an item that was taken.
THEOREM QueueDeliversOnce == Spec => []DeliveredOnce
<1>1. IInv => DeliveredOnce
  BY DEF IInv
<1> QED BY <1>1, QueueInvariant, PTL

\* An item whose enqueue returned stays in the store until dequeue has taken it or it was cleared
\* (AckedIsKept): enqueue writes only at next_id and above, and what a rollback deletes was never
\* acknowledged.
THEOREM QueueKeepsAcknowledged == Spec => []AckedIsKept
<1>1. IInv => AckedIsKept
  BY DEF IInv
<1> QED BY <1>1, QueueInvariant, PTL

\* As long as no enqueue or clear has raised, a recovered queue at rest has exactly the ids of its
\* window (WindowIntact), wherever the process was lost and whichever dequeue raised before.
THEOREM QueueWindow == Spec => []WindowIntact
<1>1. Spec => []Parts
  BY PartsInit, PartsNext, PTL DEF Spec
<1> QED BY <1>1, PartsWindow, PTL

\* Under the same condition dequeue returns items in the order they were enqueued
\* (DeliveredInOrder), across batches, failures, process losses and recoveries.
THEOREM QueueDeliversInOrder == Spec => []DeliveredInOrder
<1>1. IInv => DeliveredInOrder
  BY DEF IInv
<1> QED BY <1>1, QueueInvariant, PTL
=============================================================================
