---------------------------- MODULE FetcherProofs ----------------------------
(***************************************************************************)
(* Theorems about Fetcher, for every finite set of items, every number of  *)
(* locators and workers and every target queue size.  IInv (in Fetcher) is *)
(* inductive; each of its conjuncts has a lemma for the steps.             *)
(***************************************************************************)
EXTENDS Fetcher, SequenceSets, FiniteSetTheorems, TLAPS

\* What EnqueueRefs and RefuseBatch may assume of a locator's answer.
LEMMA BatchFacts ==
  ASSUME TypeOK, NEW batch \in Batches
  PROVE  /\ batch \in Seq(Items)
         /\ ToSet(batch) \subseteq supply
         /\ IsInjective(batch)
<1>1. PICK n \in 1..(bundle_refs_needed + 1) : batch \in [1..n -> supply] /\ IsInjective(batch)
  BY DEF Batches, Injection
<1>2. n \in Nat
  BY <1>1, ConfigAssumption DEF TypeOK
<1>3. batch \in Seq(Items)
  BY <1>1, <1>2 DEF TypeOK
<1>4. ToSet(batch) \subseteq supply
  BY <1>1, <1>2 DEF ToSet
<1> QED BY <1>1, <1>3, <1>4

\* A dequeued item leaves the queue and is not there twice.
LEMMA DequeueFacts ==
  ASSUME TypeOK, IsInjective(queue), queue # <<>>
  PROVE  /\ Head(queue) \in InQueue
         /\ Head(queue) \in Items
         /\ Tail(queue) \in Seq(Items)
         /\ Len(Tail(queue)) = Len(queue) - 1
         /\ ToSet(Tail(queue)) = InQueue \ {Head(queue)}
         /\ IsInjective(Tail(queue))
<1>1. queue \in Seq(Items)
  BY DEF TypeOK
<1>2. /\ Head(queue) \in Items
      /\ Tail(queue) \in Seq(Items)
      /\ Len(Tail(queue)) = Len(queue) - 1
  BY <1>1
<1>3. /\ Head(queue) \in ToSet(queue)
      /\ ToSet(Tail(queue)) = ToSet(queue) \ {Head(queue)}
      /\ IsInjective(Tail(queue))
  BY <1>1, ToSetTail
<1> QED BY <1>2, <1>3 DEF InQueue

\* A busy worker holds a bundle that has no verdict and that no other worker holds.
LEMMA HandFacts ==
  ASSUME IInv, NEW w \in Workers, worker[w] \in {"loading", "notifying"}
  PROVE  /\ hand[w] \in BundleRefs
         /\ hand[w] \in InHand
         /\ hand[w] \notin processed \cup Failed \cup discarded
         /\ informed[hand[w]] \in 0..(NumLocators - 1)
         /\ \A v \in Workers \ {w} : hand[v] # hand[w]
<1>1. hand[w] # NoRef /\ hand[w] \in BundleRefs \cup {NoRef}
  BY DEF IInv, Holding, TypeOK
<1>2. hand[w] \in InHand /\ hand[w] \in Items
  BY <1>1 DEF InHand, Items
<1>3. hand[w] \notin processed \cup Failed \cup discarded
  BY <1>2 DEF IInv, ExactlyOnePlace
<1>4. informed[hand[w]] \in 0..NumLocators /\ informed[hand[w]] # NumLocators
  BY <1>2, <1>3 DEF IInv, ProcessedIsAcknowledged, TypeOK
<1>5. \A v \in Workers \ {w} : hand[v] # hand[w]
  BY <1>1 DEF IInv, ExactlyOnePlace
<1> QED BY <1>1, <1>2, <1>3, <1>4, <1>5, ConfigAssumption

\* A worker that finishes with its bundle takes exactly that bundle out of the hands.
LEMMA ReleaseFacts ==
  ASSUME IInv, NEW w \in Workers, worker[w] \in {"loading", "notifying"}, Release(w)
  PROVE  /\ InHand' = InHand \ {hand[w]}
         /\ \A u, v \in Workers : hand'[u] = hand'[v] /\ hand'[u] # NoRef => u = v
<1>1. hand' = [hand EXCEPT ![w] = NoRef] /\ hand \in [Workers -> BundleRefs \cup {NoRef}]
  BY DEF Release, IInv, TypeOK
<1>2. \A v \in Workers : hand'[v] = IF v = w THEN NoRef ELSE hand[v]
  BY <1>1
<1>3. \A v \in Workers \ {w} : hand[v] # hand[w]
  BY HandFacts
<1>4. InHand' = InHand \ {hand[w]}
  BY <1>2, <1>3 DEF InHand
<1>5. \A u, v \in Workers : hand[u] = hand[v] /\ hand[u] # NoRef => u = v
  BY DEF IInv, ExactlyOnePlace
<1> QED BY <1>2, <1>4, <1>5

-----------------------------------------------------------------------------
(* Type correctness *)

LEMMA TypeInit == Init => TypeOK
<1> SUFFICES ASSUME Init PROVE TypeOK
  OBVIOUS
<1>1. queue \in Seq(Items) /\ errors \in Seq(BundleRefs)
  BY DEF Init
<1>2. /\ current_locator_index \in 0..NumLocators
      /\ bundle_refs_needed \in 0..TargetQueueSize
      /\ informed \in [Items -> 0..NumLocators]
      /\ processed_count \in Nat
  BY ConfigAssumption DEF Init
<1>3. /\ worker \in [Workers -> WorkerStates]
      /\ hand \in [Workers -> BundleRefs \cup {NoRef}]
      /\ locator \in LocatorStates /\ run \in RunStates /\ completion_flag \in BOOLEAN
      /\ supply \subseteq Items /\ processed \subseteq BundleRefs /\ discarded \subseteq Items
  BY DEF Init, WorkerStates, LocatorStates, RunStates
<1> QED BY <1>1, <1>2, <1>3 DEF TypeOK

LEMMA TypeStep == IInv /\ [Next]_vars => TypeOK'
<1> SUFFICES ASSUME IInv, [Next]_vars PROVE TypeOK'
  OBVIOUS
<1>0. TypeOK
  BY DEF IInv
<1> USE ConfigAssumption, <1>0
    DEF TypeOK, LocatorStates, WorkerStates, RunStates, locatorVars, resultVars
<1>1. CASE RunStep
  BY <1>1 DEF RunStep, Start, RejectPlan, JoinLocator, Finish, TearDown
<1>2. CASE RequestRefs
  <2>1. Len(queue) \in Nat /\ Room \in 0..TargetQueueSize
    BY <1>2 DEF RequestRefs, Room
  <2> QED BY <1>2, <2>1 DEF RequestRefs
<1>3. CASE EnqueueRefs
  <2>1. PICK batch \in Batches : queue' = queue \o batch /\ supply' = supply \ ToSet(batch)
    BY <1>3 DEF EnqueueRefs
  <2>2. queue' \in Seq(Items)
    BY <2>1, BatchFacts
  <2> QED BY <1>3, <2>1, <2>2 DEF EnqueueRefs
<1>4. CASE LocatorExhausted
  BY <1>4 DEF LocatorExhausted, IInv, Asking
<1>5. CASE RefuseBatch
  <2>1. PICK batch \in Batches : /\ discarded' = discarded \cup ToSet(batch)
                                 /\ supply' = supply \ ToSet(batch)
    BY <1>5 DEF RefuseBatch
  <2>2. ToSet(batch) \subseteq Items
    BY <2>1, BatchFacts
  <2> QED BY <1>5, <2>1, <2>2 DEF RefuseBatch
<1>6. CASE LocatorRaises \/ AllLocatorsExhausted
  BY <1>6 DEF LocatorRaises, AllLocatorsExhausted
<1>7. ASSUME NEW w \in Workers, WorkerStep(w) PROVE TypeOK'
  <2>1. CASE TakeRef(w) \/ DropItem(w)
    <3>1. Head(queue) \in Items /\ Tail(queue) \in Seq(Items)
      BY <2>1, DequeueFacts DEF TakeRef, DropItem, IInv, ExactlyOnePlace
    <3>2. CASE TakeRef(w)
      BY <3>1, <3>2 DEF TakeRef, Dequeued
    <3>3. CASE DropItem(w)
      BY <3>1, <3>3 DEF DropItem, Dequeued
    <3> QED BY <2>1, <3>2, <3>3
  <2>2. CASE ExitWorker(w) \/ LoadSucceeds(w)
    BY <2>2 DEF ExitWorker, LoadSucceeds
  <2>3. CASE LoadFails(w) \/ NotifyFails(w)
    <3>1. hand[w] \in BundleRefs
      BY <2>3, HandFacts DEF LoadFails, NotifyFails
    <3>2. Append(errors, hand[w]) \in Seq(BundleRefs)
      BY <3>1
    <3> QED BY <2>3, <3>2 DEF LoadFails, NotifyFails, RecordError, Release
  <2>4. CASE LocatorNotified(w)
    <3>1. hand[w] \in BundleRefs /\ informed[hand[w]] \in 0..(NumLocators - 1)
      BY <2>4, HandFacts DEF LocatorNotified
    <3>2. informed' \in [Items -> 0..NumLocators]
      BY <2>4, <3>1 DEF LocatorNotified, Items
    <3>3. CASE RecordProcessed(w)
      BY <2>4, <3>1, <3>2, <3>3 DEF LocatorNotified, RecordProcessed, Release
    <3>4. CASE UNCHANGED <<processed, processed_count, worker, hand>>
      BY <2>4, <3>2, <3>4 DEF LocatorNotified
    <3> QED BY <2>4, <3>3, <3>4 DEF LocatorNotified
  <2> QED BY <1>7, <2>1, <2>2, <2>3, <2>4 DEF WorkerStep
<1>8. CASE Ended \/ UNCHANGED vars
  BY <1>8 DEF Ended, vars
<1> QED BY <1>1, <1>2, <1>3, <1>4, <1>5, <1>6, <1>7, <1>8 DEF Next, LocatorStep

-----------------------------------------------------------------------------
(* The room in the queue *)

LEMMA BoundStep == IInv /\ [Next]_vars => QueueBounded' /\ Asking'
<1> SUFFICES ASSUME IInv, [Next]_vars PROVE QueueBounded' /\ Asking'
  OBVIOUS
<1>0. /\ TypeOK /\ QueueBounded /\ Asking /\ IsInjective(queue)
      /\ Len(queue) \in Nat /\ bundle_refs_needed \in Nat
  BY ConfigAssumption DEF IInv, ExactlyOnePlace, TypeOK
<1> USE ConfigAssumption, <1>0 DEF QueueBounded, Asking, locatorVars
<1>1. CASE RunStep
  BY <1>1 DEF RunStep, Start, RejectPlan, JoinLocator, Finish, TearDown
<1>2. CASE RequestRefs
  BY <1>2 DEF RequestRefs, Room, LocatorLeft
<1>3. CASE EnqueueRefs
  <2>1. PICK batch \in Batches : Len(batch) <= bundle_refs_needed /\ queue' = queue \o batch
    BY <1>3 DEF EnqueueRefs
  <2>2. queue \in Seq(Items) /\ batch \in Seq(Items)
    BY <2>1, BatchFacts DEF TypeOK
  <2>3. Len(queue') = Len(queue) + Len(batch) /\ Len(batch) \in Nat
    BY <2>1, <2>2
  <2> QED BY <1>3, <2>1, <2>3 DEF EnqueueRefs
<1>4. CASE LocatorExhausted \/ RefuseBatch \/ LocatorRaises \/ AllLocatorsExhausted
  BY <1>4 DEF LocatorExhausted, RefuseBatch, LocatorRaises, AllLocatorsExhausted
<1>5. ASSUME NEW w \in Workers, WorkerStep(w) PROVE QueueBounded' /\ Asking'
  <2>1. CASE TakeRef(w) \/ DropItem(w)
    <3>1. queue' = Tail(queue) /\ UNCHANGED locatorVars
      BY <2>1 DEF TakeRef, DropItem, Dequeued
    <3>2. Len(queue') = Len(queue) - 1
      BY <2>1, <3>1, DequeueFacts DEF TakeRef, DropItem
    <3> QED BY <3>1, <3>2
  <2>2. CASE ~(TakeRef(w) \/ DropItem(w))
    <3>1. UNCHANGED <<queue, locatorVars>>
      BY <1>5, <2>2 DEF WorkerStep, ExitWorker, LoadSucceeds, LoadFails, LocatorNotified,
                        NotifyFails, RecordError
    <3> QED BY <3>1
  <2> QED BY <2>1, <2>2
<1>6. CASE Ended \/ UNCHANGED vars
  BY <1>6 DEF Ended, vars
<1> QED BY <1>1, <1>2, <1>3, <1>4, <1>5, <1>6 DEF Next, LocatorStep

-----------------------------------------------------------------------------
(* Workers and what they hold; how far the tasks can be apart *)

LEMMA HoldingStep == IInv /\ [Next]_vars => Holding'
<1> SUFFICES ASSUME IInv, [Next]_vars PROVE Holding'
  OBVIOUS
<1>0. /\ worker \in [Workers -> WorkerStates]
      /\ hand \in [Workers -> BundleRefs \cup {NoRef}]
      /\ Holding
      /\ NoRef \notin Items
  BY ConfigAssumption DEF IInv, TypeOK
<1> USE <1>0 DEF Holding
<1>1. CASE Start
  <2>1. \A w \in Workers : hand[w] = NoRef
    BY <1>1 DEF Start, IInv, Phases
  <2> QED BY <1>1, <2>1 DEF Start
<1>2. CASE TearDown
  BY <1>2 DEF TearDown
<1>3. CASE RejectPlan \/ JoinLocator \/ Finish \/ LocatorStep \/ Ended \/ UNCHANGED vars
  <2>1. UNCHANGED <<worker, hand>>
    BY <1>3 DEF RejectPlan, JoinLocator, Finish, LocatorStep, RequestRefs, EnqueueRefs,
                LocatorExhausted, RefuseBatch, LocatorRaises, AllLocatorsExhausted, Ended, vars
  <2> QED BY <2>1
<1>4. ASSUME NEW w \in Workers, WorkerStep(w) PROVE Holding'
  <2>1. CASE TakeRef(w)
    <3>1. Head(queue) # NoRef
      BY <2>1 DEF TakeRef, Items
    <3> QED BY <2>1, <3>1 DEF TakeRef
  <2>2. CASE DropItem(w) \/ ExitWorker(w) \/ LoadSucceeds(w)
    BY <2>2 DEF DropItem, ExitWorker, LoadSucceeds
  <2>3. CASE LoadFails(w) \/ NotifyFails(w)
    BY <2>3 DEF LoadFails, NotifyFails, RecordError, Release
  <2>4. CASE LocatorNotified(w)
    <3>1. CASE RecordProcessed(w)
      BY <2>4, <3>1 DEF LocatorNotified, RecordProcessed, Release
    <3>2. CASE UNCHANGED <<worker, hand>>
      BY <3>2
    <3> QED BY <2>4, <3>1, <3>2 DEF LocatorNotified
  <2> QED BY <1>4, <2>1, <2>2, <2>3, <2>4 DEF WorkerStep
<1> QED BY <1>1, <1>2, <1>3, <1>4 DEF Next, RunStep

LEMMA PhasesStep == IInv /\ [Next]_vars => Phases'
<1> SUFFICES ASSUME IInv, [Next]_vars PROVE Phases'
  OBVIOUS
<1>0. /\ worker \in [Workers -> WorkerStates] /\ completion_flag \in BOOLEAN
      /\ TypeOK /\ Phases
  BY DEF IInv, TypeOK
<1> USE <1>0 DEF Phases, AllWorkersDone
<1>1. CASE Start
  BY <1>1 DEF Start
<1>2. CASE RejectPlan
  BY <1>2 DEF RejectPlan, locatorVars
<1>3. CASE JoinLocator
  BY <1>3 DEF JoinLocator, locatorVars
<1>4. CASE Finish
  BY <1>4 DEF Finish, locatorVars
<1>5. CASE TearDown
  BY <1>5 DEF TearDown, locatorVars
<1>6. CASE LocatorStep
  <2>1. UNCHANGED <<worker, run>> /\ locator \in {"checking", "awaiting_refs"}
    BY <1>6 DEF LocatorStep, RequestRefs, EnqueueRefs, LocatorExhausted, RefuseBatch,
                LocatorRaises, AllLocatorsExhausted
  <2>2. /\ ~completion_flag
        /\ discarded \cap BundleRefs = {}
        /\ \A w \in Workers : worker[w] # "exited"
        /\ run = "awaiting_locator"
    BY <2>1 DEF TypeOK, RunStates
  <2>3. CASE RequestRefs \/ EnqueueRefs \/ LocatorExhausted
    <3>1. /\ completion_flag' = completion_flag /\ discarded' = discarded
          /\ locator' \in {"checking", "awaiting_refs"}
      BY <2>3 DEF RequestRefs, EnqueueRefs, LocatorExhausted
    <3> QED BY <2>1, <2>2, <3>1
  <2>4. CASE RefuseBatch \/ LocatorRaises
    <3>1. completion_flag' = TRUE /\ locator' = "failed"
      BY <2>4 DEF RefuseBatch, LocatorRaises
    <3> QED BY <2>1, <2>2, <3>1
  <2>5. CASE AllLocatorsExhausted
    <3>1. completion_flag' = TRUE /\ locator' = "finished" /\ discarded' = discarded
      BY <2>5 DEF AllLocatorsExhausted
    <3> QED BY <2>1, <2>2, <3>1
  <2> QED BY <1>6, <2>3, <2>4, <2>5 DEF LocatorStep
<1>7. ASSUME NEW w \in Workers, WorkerStep(w) PROVE Phases'
  <2>1. /\ UNCHANGED <<locatorVars, completion_flag, run>>
        /\ worker[w] \in {"idle", "loading", "notifying"}
    BY <1>7 DEF WorkerStep, TakeRef, DropItem, ExitWorker, LoadSucceeds, LoadFails,
                LocatorNotified, NotifyFails, RecordError
  <2>2. UNCHANGED locator
    BY <2>1 DEF locatorVars
  <2>3. /\ locator # "not_started"
        /\ run \notin {"returned", "fatal", "torn_down"}
    BY <2>1
  <2>4. \A v \in Workers \ {w} : worker'[v] = worker[v]
    <3>1. CASE TakeRef(w) \/ DropItem(w) \/ ExitWorker(w) \/ LoadSucceeds(w)
      BY <3>1 DEF TakeRef, DropItem, ExitWorker, LoadSucceeds
    <3>2. CASE LoadFails(w) \/ NotifyFails(w)
      BY <3>2 DEF LoadFails, NotifyFails, RecordError, Release
    <3>3. CASE LocatorNotified(w)
      <4>1. CASE RecordProcessed(w)
        BY <4>1 DEF RecordProcessed, Release
      <4>2. CASE UNCHANGED worker
        BY <4>2
      <4> QED BY <3>3, <4>1, <4>2 DEF LocatorNotified
    <3> QED BY <1>7, <3>1, <3>2, <3>3 DEF WorkerStep
  <2>5. CASE TakeRef(w) \/ DropItem(w)
    <3>1. queue # <<>> /\ worker'[w] # "exited"
      BY <2>5 DEF TakeRef, DropItem
    <3>2. discarded' \cap BundleRefs = discarded \cap BundleRefs
      BY <2>5 DEF TakeRef, DropItem
    <3>3. \A v \in Workers : worker[v] # "exited"
      BY <3>1
    <3> QED BY <2>1, <2>2, <2>3, <2>4, <3>1, <3>2, <3>3
  <2>6. CASE ExitWorker(w)
    <3>1. UNCHANGED <<queue, discarded>> /\ queue = <<>> /\ completion_flag
      BY <2>6 DEF ExitWorker, NoMoreRequests
    <3> QED BY <2>1, <2>2, <2>3, <2>4, <3>1
  <2>7. CASE LoadSucceeds(w) \/ LoadFails(w) \/ LocatorNotified(w) \/ NotifyFails(w)
    <3>1. UNCHANGED <<queue, discarded>>
      BY <2>7 DEF LoadSucceeds, LoadFails, LocatorNotified, NotifyFails, RecordError
    <3>2. worker'[w] # "exited"
      <4>1. CASE LoadSucceeds(w)
        BY <4>1 DEF LoadSucceeds
      <4>2. CASE LoadFails(w) \/ NotifyFails(w)
        BY <4>2 DEF LoadFails, NotifyFails, RecordError, Release
      <4>3. CASE LocatorNotified(w)
        <5>1. CASE RecordProcessed(w)
          BY <5>1 DEF RecordProcessed, Release
        <5>2. CASE UNCHANGED worker
          BY <2>1, <5>2
        <5> QED BY <4>3, <5>1, <5>2 DEF LocatorNotified
      <4> QED BY <2>7, <4>1, <4>2, <4>3
    <3> QED BY <2>1, <2>2, <2>3, <2>4, <3>1, <3>2
  <2> QED BY <1>7, <2>5, <2>6, <2>7 DEF WorkerStep
<1>8. CASE Ended \/ UNCHANGED vars
  BY <1>8 DEF Ended, vars, locatorVars
<1> QED BY <1>1, <1>2, <1>3, <1>4, <1>5, <1>6, <1>7, <1>8 DEF Next, RunStep

-----------------------------------------------------------------------------
(* Every item is in exactly one place *)

LEMMA PlaceStep == IInv /\ [Next]_vars => ExactlyOnePlace'
<1> SUFFICES ASSUME IInv, [Next]_vars PROVE ExactlyOnePlace'
  OBVIOUS
<1>0. TypeOK /\ ExactlyOnePlace /\ Holding
  BY DEF IInv
<1>1. CASE UNCHANGED <<supply, queue, hand, processed, errors, discarded>>
  <2>1. UNCHANGED <<InQueue, InHand, Failed>>
    BY <1>1 DEF InQueue, InHand, Failed
  <2> QED BY <1>0, <1>1, <2>1 DEF ExactlyOnePlace
<1>2. CASE EnqueueRefs
  <2>1. PICK batch \in Batches : queue' = queue \o batch /\ supply' = supply \ ToSet(batch)
    BY <1>2 DEF EnqueueRefs
  <2>2. UNCHANGED <<hand, processed, errors, discarded, InHand, Failed>>
    BY <1>2 DEF EnqueueRefs, resultVars, InHand, Failed
  <2>3. /\ batch \in Seq(Items) /\ queue \in Seq(Items)
        /\ ToSet(batch) \subseteq supply /\ IsInjective(batch)
    BY <1>0, BatchFacts DEF TypeOK
  <2>4. InQueue \cap ToSet(batch) = {} /\ IsInjective(queue)
    BY <1>0, <2>3 DEF ExactlyOnePlace
  <2>5. InQueue' = InQueue \cup ToSet(batch)
    BY <2>1, <2>3, ToSetConcat DEF InQueue
  <2>6. IsInjective(queue')
    BY <2>1, <2>3, <2>4, ToSetConcat DEF InQueue
  <2> QED BY <1>0, <2>1, <2>2, <2>3, <2>5, <2>6 DEF ExactlyOnePlace
<1>3. CASE RefuseBatch
  <2>1. PICK batch \in Batches : /\ discarded' = discarded \cup ToSet(batch)
                                 /\ supply' = supply \ ToSet(batch)
    BY <1>3 DEF RefuseBatch
  <2>2. UNCHANGED <<queue, hand, processed, errors, InQueue, InHand, Failed>>
    BY <1>3 DEF RefuseBatch, resultVars, InQueue, InHand, Failed
  <2>3. ToSet(batch) \subseteq supply
    BY <1>0, BatchFacts
  <2> QED BY <1>0, <2>1, <2>2, <2>3 DEF ExactlyOnePlace
<1>4. ASSUME NEW w \in Workers, TakeRef(w) PROVE ExactlyOnePlace'
  <2>1. /\ UNCHANGED <<supply, processed, errors, discarded, Failed>>
        /\ queue' = Tail(queue)
        /\ hand' = [hand EXCEPT ![w] = Head(queue)]
    BY <1>4 DEF TakeRef, locatorVars, resultVars, Failed, Dequeued
  <2>2. /\ Head(queue) \in InQueue /\ Head(queue) \in Items
        /\ InQueue' = InQueue \ {Head(queue)} /\ IsInjective(queue')
    BY <1>0, <1>4, <2>1, DequeueFacts DEF TakeRef, ExactlyOnePlace, InQueue
  <2>3. hand[w] = NoRef /\ Head(queue) # NoRef
    BY <1>0, <1>4, <2>2, ConfigAssumption DEF TakeRef, Holding
  <2>4. \A v \in Workers : hand'[v] = IF v = w THEN Head(queue) ELSE hand[v]
    BY <1>0, <2>1 DEF TypeOK
  <2>5. InHand' = InHand \cup {Head(queue)}
    BY <2>3, <2>4 DEF InHand
  <2>6. \A u, v \in Workers : hand'[u] = hand'[v] /\ hand'[u] # NoRef => u = v
    <3>1. Head(queue) \notin InHand
      BY <1>0, <2>2 DEF ExactlyOnePlace
    <3>2. \A v \in Workers : hand[v] # Head(queue)
      BY <2>3, <3>1 DEF InHand
    <3> QED BY <1>0, <2>4, <3>2 DEF ExactlyOnePlace
  <2>7. Head(queue) \notin supply \cup InHand \cup processed \cup Failed \cup discarded
    BY <1>0, <2>2 DEF ExactlyOnePlace
  <2> QED BY <1>0, <2>1, <2>2, <2>5, <2>6, <2>7 DEF ExactlyOnePlace
<1>5. ASSUME NEW w \in Workers, DropItem(w) PROVE ExactlyOnePlace'
  <2>1. /\ UNCHANGED <<supply, hand, processed, errors, InHand, Failed>>
        /\ queue' = Tail(queue)
        /\ discarded' = discarded \cup {Head(queue)}
    BY <1>5 DEF DropItem, locatorVars, resultVars, InHand, Failed, Dequeued
  <2>2. /\ Head(queue) \in InQueue /\ InQueue' = InQueue \ {Head(queue)}
        /\ IsInjective(queue')
    BY <1>0, <1>5, <2>1, DequeueFacts DEF DropItem, ExactlyOnePlace, InQueue
  <2>3. Head(queue) \notin supply \cup InHand \cup processed \cup Failed \cup discarded
    BY <1>0, <2>2 DEF ExactlyOnePlace
  <2> QED BY <1>0, <2>1, <2>2, <2>3 DEF ExactlyOnePlace
<1>6. ASSUME NEW w \in Workers, LoadFails(w) \/ NotifyFails(w) PROVE ExactlyOnePlace'
  <2>1. /\ UNCHANGED <<supply, queue, processed, discarded, InQueue>>
        /\ errors' = Append(errors, hand[w]) /\ Release(w)
        /\ worker[w] \in {"loading", "notifying"}
    BY <1>6 DEF LoadFails, NotifyFails, RecordError, locatorVars, InQueue
  <2>2. /\ hand[w] \in BundleRefs /\ hand[w] \in InHand
        /\ hand[w] \notin processed \cup Failed \cup discarded
    BY <2>1, HandFacts
  <2>3. /\ InHand' = InHand \ {hand[w]}
        /\ \A u, v \in Workers : hand'[u] = hand'[v] /\ hand'[u] # NoRef => u = v
    BY <2>1, ReleaseFacts
  <2>4. Failed' = Failed \cup {hand[w]}
    BY <1>0, <2>1, <2>2, ToSetAppend DEF Failed, TypeOK
  <2>5. hand[w] \notin supply \cup InQueue
    BY <1>0, <2>2 DEF ExactlyOnePlace
  <2> QED BY <1>0, <2>1, <2>2, <2>3, <2>4, <2>5 DEF ExactlyOnePlace
<1>7. ASSUME NEW w \in Workers, LocatorNotified(w), RecordProcessed(w) PROVE ExactlyOnePlace'
  <2>1. /\ UNCHANGED <<supply, queue, errors, discarded, InQueue, Failed>>
        /\ processed' = processed \cup {hand[w]} /\ Release(w)
        /\ worker[w] \in {"loading", "notifying"}
    BY <1>7 DEF LocatorNotified, RecordProcessed, locatorVars, InQueue, Failed
  <2>2. /\ hand[w] \in InHand
        /\ hand[w] \notin processed \cup Failed \cup discarded
    BY <2>1, HandFacts
  <2>3. /\ InHand' = InHand \ {hand[w]}
        /\ \A u, v \in Workers : hand'[u] = hand'[v] /\ hand'[u] # NoRef => u = v
    BY <2>1, ReleaseFacts
  <2>4. hand[w] \notin supply \cup InQueue
    BY <1>0, <2>2 DEF ExactlyOnePlace
  <2> QED BY <1>0, <2>1, <2>2, <2>3, <2>4 DEF ExactlyOnePlace
<1>8. CASE RunStep \/ RequestRefs \/ LocatorExhausted \/ LocatorRaises
           \/ AllLocatorsExhausted \/ Ended \/ UNCHANGED vars
  <2>1. UNCHANGED <<supply, queue, hand, processed, errors, discarded>>
    BY <1>8 DEF RunStep, Start, RejectPlan, JoinLocator, Finish, TearDown, RequestRefs,
                LocatorExhausted, LocatorRaises, AllLocatorsExhausted, Ended, vars,
                locatorVars, resultVars
  <2> QED BY <1>1, <2>1
<1>9. ASSUME NEW w \in Workers, ExitWorker(w) \/ LoadSucceeds(w) PROVE ExactlyOnePlace'
  <2>1. UNCHANGED <<supply, queue, hand, processed, errors, discarded>>
    BY <1>9 DEF ExitWorker, LoadSucceeds, locatorVars, resultVars
  <2> QED BY <1>1, <2>1
<1>10. ASSUME NEW w \in Workers, LocatorNotified(w) PROVE ExactlyOnePlace'
  <2>1. CASE RecordProcessed(w)
    BY <1>7, <1>10, <2>1
  <2>2. CASE UNCHANGED <<processed, hand>>
    <3>1. UNCHANGED <<supply, queue, hand, processed, errors, discarded>>
      BY <1>10, <2>2 DEF LocatorNotified, locatorVars
    <3> QED BY <1>1, <3>1
  <2> QED BY <1>10, <2>1, <2>2 DEF LocatorNotified
<1> QED
  BY <1>2, <1>3, <1>4, <1>5, <1>6, <1>8, <1>9, <1>10 DEF Next, LocatorStep, WorkerStep

-----------------------------------------------------------------------------
(* Verdicts, acknowledgements and counters *)

LEMMA AcknowledgedStep == IInv /\ [Next]_vars => ProcessedIsAcknowledged'
<1> SUFFICES ASSUME IInv, [Next]_vars PROVE ProcessedIsAcknowledged'
  OBVIOUS
<1>0. TypeOK /\ ProcessedIsAcknowledged
  BY DEF IInv
<1>1. CASE UNCHANGED <<processed, informed>>
  BY <1>0, <1>1 DEF ProcessedIsAcknowledged
<1>2. ASSUME NEW w \in Workers, LocatorNotified(w) PROVE ProcessedIsAcknowledged'
  <2>1. /\ hand[w] \in Items
        /\ informed[hand[w]] \in 0..(NumLocators - 1)
        /\ hand[w] \notin processed
    BY <1>2, HandFacts DEF LocatorNotified, Items
  <2>2. \A i \in Items : informed'[i] = IF i = hand[w] THEN informed[i] + 1 ELSE informed[i]
    BY <1>0, <1>2 DEF LocatorNotified, TypeOK
  <2>3. processed' = IF informed[hand[w]] + 1 = NumLocators
                     THEN processed \cup {hand[w]} ELSE processed
    BY <1>2 DEF LocatorNotified, RecordProcessed
  <2> QED BY <1>0, <2>1, <2>2, <2>3 DEF ProcessedIsAcknowledged
<1>3. CASE RunStep \/ LocatorStep \/ Ended \/ UNCHANGED vars
  <2>1. UNCHANGED <<processed, informed>>
    BY <1>3 DEF RunStep, Start, RejectPlan, JoinLocator, Finish, TearDown, LocatorStep,
                RequestRefs, EnqueueRefs, LocatorExhausted, RefuseBatch, LocatorRaises,
                AllLocatorsExhausted, Ended, vars, resultVars
  <2> QED BY <1>1, <2>1
<1>4. ASSUME NEW w \in Workers, WorkerStep(w), ~LocatorNotified(w)
      PROVE  ProcessedIsAcknowledged'
  <2>1. UNCHANGED <<processed, informed>>
    BY <1>4 DEF WorkerStep, TakeRef, DropItem, ExitWorker, LoadSucceeds, LoadFails,
                NotifyFails, RecordError, resultVars
  <2> QED BY <1>1, <2>1
<1> QED BY <1>2, <1>3, <1>4 DEF Next

LEMMA CountsStep == IInv /\ [Next]_vars => Counts'
<1> SUFFICES ASSUME IInv, [Next]_vars PROVE Counts'
  OBVIOUS
<1>0. /\ TypeOK /\ Counts
      /\ IsFiniteSet(processed) /\ IsFiniteSet(Failed)
      /\ errors \in Seq(BundleRefs)
  <2>1. IsFiniteSet(BundleRefs)
    BY ConfigAssumption, FS_Subset DEF Items
  <2>2. processed \subseteq BundleRefs /\ errors \in Seq(BundleRefs)
    BY DEF IInv, TypeOK
  <2>3. Failed \subseteq BundleRefs
    BY <2>2 DEF Failed, ToSet
  <2> QED BY <2>1, <2>2, <2>3, FS_Subset DEF IInv
<1>1. CASE UNCHANGED <<processed, processed_count, errors>>
  BY <1>0, <1>1 DEF Counts, Failed
<1>2. ASSUME NEW w \in Workers, LoadFails(w) \/ NotifyFails(w) PROVE Counts'
  <2>1. /\ UNCHANGED <<processed, processed_count>>
        /\ errors' = Append(errors, hand[w])
        /\ worker[w] \in {"loading", "notifying"}
    BY <1>2 DEF LoadFails, NotifyFails, RecordError
  <2>2. hand[w] \in BundleRefs /\ hand[w] \notin Failed
    BY <2>1, HandFacts
  <2>3. Failed' = Failed \cup {hand[w]}
    BY <1>0, <2>1, <2>2, ToSetAppend DEF Failed
  <2>4. Cardinality(Failed') = Cardinality(Failed) + 1
    BY <1>0, <2>2, <2>3, FS_AddElement
  <2>5. Len(errors') = Len(errors) + 1
    BY <1>0, <2>1, <2>2
  <2> QED BY <1>0, <2>1, <2>4, <2>5 DEF Counts
<1>3. ASSUME NEW w \in Workers, LocatorNotified(w) PROVE Counts'
  <2>1. CASE RecordProcessed(w)
    <3>1. hand[w] \notin processed
      BY <1>3, HandFacts DEF LocatorNotified
    <3>2. /\ processed' = processed \cup {hand[w]}
          /\ processed_count' = processed_count + 1
          /\ errors' = errors
      BY <1>3, <2>1 DEF LocatorNotified, RecordProcessed
    <3>3. Cardinality(processed') = Cardinality(processed) + 1
      BY <1>0, <3>1, <3>2, FS_AddElement
    <3> QED BY <1>0, <3>2, <3>3 DEF Counts, Failed
  <2>2. CASE UNCHANGED <<processed, processed_count>>
    BY <1>1, <1>3, <2>2 DEF LocatorNotified
  <2> QED BY <1>3, <2>1, <2>2 DEF LocatorNotified
<1>4. CASE RunStep \/ LocatorStep \/ Ended \/ UNCHANGED vars
  <2>1. UNCHANGED <<processed, processed_count, errors>>
    BY <1>4 DEF RunStep, Start, RejectPlan, JoinLocator, Finish, TearDown, LocatorStep,
                RequestRefs, EnqueueRefs, LocatorExhausted, RefuseBatch, LocatorRaises,
                AllLocatorsExhausted, Ended, vars, resultVars
  <2> QED BY <1>1, <2>1
<1>5. ASSUME NEW w \in Workers, TakeRef(w) \/ DropItem(w) \/ ExitWorker(w) \/ LoadSucceeds(w)
      PROVE  Counts'
  <2>1. UNCHANGED <<processed, processed_count, errors>>
    BY <1>5 DEF TakeRef, DropItem, ExitWorker, LoadSucceeds, resultVars
  <2> QED BY <1>1, <2>1
<1> QED BY <1>2, <1>3, <1>4, <1>5 DEF Next, WorkerStep

-----------------------------------------------------------------------------
(* The invariant and what follows from it *)

LEMMA InitIInv == Init => IInv
<1> SUFFICES ASSUME Init PROVE IInv
  OBVIOUS
<1>1. TypeOK
  BY TypeInit
<1>2. InQueue = {} /\ Failed = {} /\ InHand = {} /\ IsInjective(queue)
  BY DEF Init, InQueue, Failed, InHand, ToSet, IsInjective
<1>3. ExactlyOnePlace
  BY <1>2 DEF Init, ExactlyOnePlace
<1>4. ProcessedIsAcknowledged
  BY ConfigAssumption DEF Init, ProcessedIsAcknowledged
<1>5. QueueBounded /\ Asking /\ Holding /\ Phases
  BY ConfigAssumption DEF Init, QueueBounded, Asking, Holding, Phases
<1>6. Counts
  BY <1>2, FS_EmptySet DEF Init, Counts
<1> QED BY <1>1, <1>3, <1>4, <1>5, <1>6 DEF IInv

LEMMA StepIInv == IInv /\ [Next]_vars => IInv'
  BY TypeStep, BoundStep, HoldingStep, PhasesStep, PlaceStep, AcknowledgedStep, CountsStep
     DEF IInv

LEMMA Invariance == Spec => []IInv
  BY InitIInv, StepIInv, PTL DEF Spec

\* Every variable of the run keeps its type.
THEOREM TypeCorrect == Spec => []TypeOK
<1>1. IInv => TypeOK
  BY DEF IInv
<1> QED BY <1>1, Invariance, PTL

\* The queue never exceeds target_queue_size, however the workers run while the locator
\* thread is suspended in get_next_bundle_refs.
THEOREM QueueNeverOverfilled == Spec => []QueueBounded
<1>1. IInv => QueueBounded
  BY DEF IInv
<1> QED BY <1>1, Invariance, PTL

\* No reference is lost or taken twice between the locators, the queue, the workers and the
\* two result lists, with any number of workers.
THEOREM EveryItemInOnePlace == Spec => []ExactlyOnePlace
<1>1. IInv => ExactlyOnePlace
  BY DEF IInv
<1> QED BY <1>1, Invariance, PTL

\* processed_count speaks of exactly the bundles every locator has acknowledged.
THEOREM ProcessedMeansAcknowledged == Spec => []ProcessedIsAcknowledged
<1>1. IInv => ProcessedIsAcknowledged
  BY DEF IInv
<1> QED BY <1>1, Invariance, PTL

LEMMA ReportedState ==
  ASSUME IInv, run \in {"returned", "fatal"}
  PROVE  /\ queue = <<>>
         /\ AllWorkersDone
         /\ Handed \cap BundleRefs = processed \cup Failed
<1>1. AllWorkersDone /\ locator = "finished"
  BY DEF IInv, Phases
<1>2. queue = <<>> /\ InQueue = {}
  BY <1>1, ConfigAssumption DEF AllWorkersDone, IInv, Phases, InQueue, ToSet
<1>3. InHand = {}
  BY <1>1 DEF AllWorkersDone, IInv, Holding, InHand
<1>4. discarded \cap BundleRefs = {}
  BY <1>1 DEF IInv, Phases
<1>5. processed \subseteq BundleRefs /\ Failed \subseteq BundleRefs
  BY DEF IInv, TypeOK, Failed, ToSet
<1>6. BundleRefs \subseteq Items
  BY DEF Items
<1> QED BY <1>1, <1>2, <1>3, <1>4, <1>5, <1>6 DEF IInv, ExactlyOnePlace, Handed

\* run() reports only when the queue is empty, the workers are gone and every BundleRef a
\* locator handed out is processed or an error.
THEOREM NothingIsLeftBehind == Spec => []NothingLeftBehind
<1>1. IInv => NothingLeftBehind
  BY ReportedState DEF NothingLeftBehind
<1> QED BY <1>1, Invariance, PTL

\* The action that reports looks at processed_count; the invariant says what it finds there.
LEMMA FatalStep == IInv /\ [Next]_vars /\ (run = "fatal" => processed = {})
                     => (run = "fatal" => processed = {})'
<1> SUFFICES ASSUME IInv, [Next]_vars, run = "fatal" => processed = {}, run' = "fatal"
             PROVE  processed' = {}
  OBVIOUS
<1>1. CASE Finish
  <2>1. processed_count = 0 /\ processed' = processed
    BY <1>1 DEF Finish, resultVars
  <2>2. IsFiniteSet(processed)
    BY ConfigAssumption, FS_Subset DEF IInv, TypeOK, Items
  <2> QED BY <2>1, <2>2, FS_EmptySet DEF IInv, Counts
<1>2. CASE ~Finish
  <2>1. run = "fatal"
    BY <1>2 DEF Next, RunStep, Start, RejectPlan, JoinLocator, TearDown, LocatorStep,
                RequestRefs, EnqueueRefs, LocatorExhausted, RefuseBatch, LocatorRaises,
                AllLocatorsExhausted, WorkerStep, TakeRef, DropItem, ExitWorker, LoadSucceeds,
                LoadFails, LocatorNotified, NotifyFails, RecordError, Ended, vars
  <2>2. \A w \in Workers : worker[w] = "exited"
    BY <2>1 DEF IInv, Phases, AllWorkersDone
  <2>3. \A w \in Workers : ~WorkerStep(w)
    BY <2>2 DEF WorkerStep, TakeRef, DropItem, ExitWorker, LoadSucceeds, LoadFails,
                LocatorNotified, NotifyFails
  <2>4. processed' = processed
    BY <1>2, <2>3 DEF Next, RunStep, Start, RejectPlan, JoinLocator, TearDown, LocatorStep,
                RequestRefs, EnqueueRefs, LocatorExhausted, RefuseBatch, LocatorRaises,
                AllLocatorsExhausted, Ended, vars, resultVars
  <2> QED BY <2>1, <2>4
<1> QED BY <1>1, <1>2

\* The numbers in a FetchResult add up to the number of bundles handed out.
THEOREM ResultsAddUp == Spec => []ResultAddsUp
<1>1. Init => (run = "fatal" => processed = {})
  BY DEF Init
<1>2. ASSUME IInv, run \in {"returned", "fatal"}
      PROVE  processed_count + Len(errors) = Cardinality(Handed \cap BundleRefs)
  <2>1. IsFiniteSet(processed) /\ IsFiniteSet(Failed) /\ processed \cap Failed = {}
    <3>1. IsFiniteSet(BundleRefs)
      BY ConfigAssumption, FS_Subset DEF Items
    <3>2. processed \subseteq BundleRefs /\ Failed \subseteq BundleRefs
      BY <1>2 DEF IInv, TypeOK, Failed, ToSet
    <3> QED BY <1>2, <3>1, <3>2, FS_Subset DEF IInv, ExactlyOnePlace
  <2>2. Cardinality(processed \cup Failed)
          = Cardinality(processed) + Cardinality(Failed) - Cardinality(processed \cap Failed)
    BY <2>1, FS_Union
  <2>3. /\ Cardinality(processed \cap Failed) = 0
        /\ Cardinality(processed) \in Nat /\ Cardinality(Failed) \in Nat
    BY <2>1, FS_EmptySet, FS_CardinalityType
  <2>4. Cardinality(processed \cup Failed) = Cardinality(processed) + Cardinality(Failed)
    BY <2>2, <2>3
  <2>5. Handed \cap BundleRefs = processed \cup Failed
    BY <1>2, ReportedState
  <2>6. processed_count = Cardinality(processed) /\ Len(errors) = Cardinality(Failed)
    BY <1>2 DEF IInv, Counts
  <2> QED BY <2>4, <2>5, <2>6
<1>3. IInv /\ (run = "fatal" => processed = {}) => ResultAddsUp
  BY <1>2 DEF ResultAddsUp
<1> QED BY <1>1, <1>3, FatalStep, Invariance, PTL DEF Spec

-----------------------------------------------------------------------------
(* The run implements its contract *)

\* A worker's verdict is a Decide step of the contract.
LEMMA WorkerRefines ==
  ASSUME IInv, NEW w \in Workers, WorkerStep(w)
  PROVE  Contract!RunNext \/ UNCHANGED Contract!absVars
<1>0. TypeOK /\ ExactlyOnePlace /\ Phases /\ Holding
  BY DEF IInv
<1>1. /\ UNCHANGED <<supply, run>>
      /\ worker[w] \in {"idle", "loading", "notifying"}
  BY DEF WorkerStep, TakeRef, DropItem, ExitWorker, LoadSucceeds, LoadFails,
         LocatorNotified, NotifyFails, RecordError, locatorVars
<1>2. run \in {"awaiting_locator", "gathering", "raised"}
  BY <1>0, <1>1 DEF Phases, AllWorkersDone, TypeOK, RunStates
<1>3. CASE TakeRef(w)
  <2>1. /\ UNCHANGED <<processed, errors, Failed>>
        /\ hand' = [hand EXCEPT ![w] = Head(queue)]
        /\ queue' = Tail(queue)
    BY <1>3 DEF TakeRef, resultVars, Failed, Dequeued
  <2>2. /\ Head(queue) \in InQueue /\ InQueue' = InQueue \ {Head(queue)}
        /\ Head(queue) \in Items
    BY <1>0, <1>3, <2>1, DequeueFacts DEF TakeRef, ExactlyOnePlace, InQueue
  <2>3. hand[w] = NoRef /\ Head(queue) # NoRef
    BY <1>0, <1>3, <2>2, ConfigAssumption DEF TakeRef, Holding
  <2>4. \A v \in Workers : hand'[v] = IF v = w THEN Head(queue) ELSE hand[v]
    BY <1>0, <2>1 DEF TypeOK
  <2>5. InHand' = InHand \cup {Head(queue)}
    BY <2>3, <2>4 DEF InHand
  <2>6. (InQueue \cup InHand)' = InQueue \cup InHand
    BY <2>2, <2>5
  <2> QED BY <1>1, <2>1, <2>6 DEF Contract!absVars
<1>4. CASE DropItem(w)
  <2>1. /\ UNCHANGED <<processed, Failed, InHand>>
        /\ queue' = Tail(queue)
        /\ Head(queue) \notin BundleRefs
    BY <1>4 DEF DropItem, resultVars, Failed, InHand, Dequeued
  <2>2. /\ Head(queue) \in InQueue /\ InQueue' = InQueue \ {Head(queue)}
        /\ Head(queue) \in Items
    BY <1>0, <1>4, <2>1, DequeueFacts DEF DropItem, ExactlyOnePlace, InQueue
  <2>3. Head(queue) \in OtherItems /\ Head(queue) \notin InHand
    BY <1>0, <2>1, <2>2 DEF Items, ExactlyOnePlace
  <2>4. (InQueue \cup InHand)' = (InQueue \cup InHand) \ {Head(queue)}
    BY <2>1, <2>2, <2>3
  <2>5. Contract!Decide
    BY <1>1, <1>2, <2>1, <2>2, <2>3, <2>4 DEF Contract!Decide
  <2> QED BY <2>5 DEF Contract!RunNext
<1>5. CASE ExitWorker(w) \/ LoadSucceeds(w)
  <2>1. UNCHANGED <<InQueue, InHand, processed, Failed>>
    BY <1>5 DEF ExitWorker, LoadSucceeds, resultVars, InQueue, InHand, Failed
  <2> QED BY <1>1, <2>1 DEF Contract!absVars
<1>6. CASE LoadFails(w) \/ NotifyFails(w)
  <2>1. /\ UNCHANGED <<processed, InQueue>>
        /\ errors' = Append(errors, hand[w]) /\ Release(w)
        /\ worker[w] \in {"loading", "notifying"}
    BY <1>6 DEF LoadFails, NotifyFails, RecordError, InQueue
  <2>2. hand[w] \in BundleRefs /\ hand[w] \in InHand /\ InHand' = InHand \ {hand[w]}
    BY <2>1, HandFacts, ReleaseFacts
  <2>3. Failed' = Failed \cup {hand[w]}
    BY <1>0, <2>1, <2>2, ToSetAppend DEF Failed, TypeOK
  <2>4. (InQueue \cup InHand)' = (InQueue \cup InHand) \ {hand[w]}
    BY <1>0, <2>1, <2>2 DEF ExactlyOnePlace
  <2>5. Contract!Decide
    BY <1>1, <1>2, <2>1, <2>2, <2>3, <2>4 DEF Contract!Decide
  <2> QED BY <2>5 DEF Contract!RunNext
<1>7. CASE LocatorNotified(w)
  <2>1. UNCHANGED <<InQueue, Failed>> /\ worker[w] \in {"loading", "notifying"}
    BY <1>7 DEF LocatorNotified, InQueue, Failed
  <2>2. CASE RecordProcessed(w)
    <3>1. hand[w] \in BundleRefs /\ hand[w] \in InHand /\ InHand' = InHand \ {hand[w]}
      BY <2>1, <2>2, HandFacts, ReleaseFacts DEF RecordProcessed
    <3>2. processed' = processed \cup {hand[w]}
      BY <2>2 DEF RecordProcessed
    <3>3. (InQueue \cup InHand)' = (InQueue \cup InHand) \ {hand[w]}
      BY <1>0, <2>1, <3>1 DEF ExactlyOnePlace
    <3>4. Contract!Decide
      BY <1>1, <1>2, <2>1, <3>1, <3>2, <3>3 DEF Contract!Decide
    <3> QED BY <3>4 DEF Contract!RunNext
  <2>3. CASE UNCHANGED <<processed, hand>>
    <3>1. UNCHANGED InHand
      BY <2>3 DEF InHand
    <3> QED BY <1>1, <2>1, <2>3, <3>1 DEF Contract!absVars
  <2> QED BY <1>7, <2>2, <2>3 DEF LocatorNotified
<1> QED BY <1>3, <1>4, <1>5, <1>6, <1>7 DEF WorkerStep

\* The locator thread accepts or refuses what a locator hands out, while the run is open.
LEMMA LocatorRefines ==
  ASSUME IInv, LocatorStep
  PROVE  Contract!RunNext \/ UNCHANGED Contract!absVars
<1>0. TypeOK /\ Phases
  BY DEF IInv
<1>1. /\ UNCHANGED <<run, processed, errors, hand, Failed, InHand>>
      /\ locator \in {"checking", "awaiting_refs"}
  BY DEF LocatorStep, RequestRefs, EnqueueRefs, LocatorExhausted, RefuseBatch, LocatorRaises,
         AllLocatorsExhausted, resultVars, Failed, InHand
<1>2. run = "awaiting_locator"
  BY <1>0, <1>1 DEF Phases, TypeOK, RunStates
<1>3. CASE EnqueueRefs
  <2>1. PICK batch \in Batches : queue' = queue \o batch /\ supply' = supply \ ToSet(batch)
    BY <1>3 DEF EnqueueRefs
  <2>2. /\ batch \in Seq(Items) /\ queue \in Seq(Items) /\ ToSet(batch) \subseteq supply
    BY <1>0, BatchFacts DEF TypeOK
  <2>3. InQueue' = InQueue \cup ToSet(batch)
    BY <2>1, <2>2, ToSetConcat DEF InQueue
  <2>4. (InQueue \cup InHand)' = (InQueue \cup InHand) \cup ToSet(batch)
    BY <1>1, <2>3
  <2>5. Contract!Accept
    BY <1>1, <1>2, <2>1, <2>2, <2>4 DEF Contract!Accept
  <2> QED BY <2>5 DEF Contract!RunNext
<1>4. CASE RefuseBatch
  <2>1. PICK batch \in Batches : supply' = supply \ ToSet(batch)
    BY <1>4 DEF RefuseBatch
  <2>2. ToSet(batch) \subseteq supply /\ UNCHANGED InQueue
    BY <1>0, <1>4, BatchFacts DEF RefuseBatch, InQueue
  <2>3. Contract!Refuse
    BY <1>1, <1>2, <2>1, <2>2 DEF Contract!Refuse
  <2> QED BY <2>3 DEF Contract!RunNext
<1>5. CASE RequestRefs \/ LocatorExhausted \/ LocatorRaises \/ AllLocatorsExhausted
  <2>1. UNCHANGED <<supply, InQueue>>
    BY <1>5 DEF RequestRefs, LocatorExhausted, LocatorRaises, AllLocatorsExhausted, InQueue
  <2> QED BY <1>1, <2>1 DEF Contract!absVars
<1> QED BY <1>3, <1>4, <1>5 DEF LocatorStep

\* run() reports or aborts.
LEMMA RunRefines ==
  ASSUME IInv, RunStep
  PROVE  Contract!RunNext \/ UNCHANGED Contract!absVars
<1>1. UNCHANGED <<supply, InQueue, InHand, processed, Failed>>
  BY DEF RunStep, Start, RejectPlan, JoinLocator, Finish, TearDown, locatorVars, resultVars,
         InQueue, InHand, Failed
<1>2. CASE Start \/ (JoinLocator /\ run' = "gathering")
  <2>1. run \in {"new", "awaiting_locator"} /\ run' \in {"awaiting_locator", "gathering"}
    BY <1>2 DEF Start, JoinLocator
  <2> QED BY <1>1, <2>1 DEF Contract!absVars
<1>3. CASE RejectPlan \/ (JoinLocator /\ run' = "raised")
  <2>1. run \in {"new", "awaiting_locator"} /\ run' = "raised"
    BY <1>3 DEF RejectPlan, JoinLocator
  <2>2. Contract!Abort
    BY <1>1, <2>1 DEF Contract!Abort
  <2> QED BY <2>2 DEF Contract!RunNext
<1>4. CASE TearDown
  <2>1. Contract!Abort
    BY <1>1, <1>4 DEF Contract!Abort, TearDown
  <2> QED BY <2>1 DEF Contract!RunNext
<1>5. CASE Finish
  <2>1. /\ run = "gathering" /\ AllWorkersDone
        /\ run' = IF processed_count = 0 /\ errors # <<>> THEN "fatal" ELSE "returned"
    BY <1>5 DEF Finish
  <2>2. queue = <<>> /\ InQueue = {}
    BY <2>1, ConfigAssumption DEF AllWorkersDone, IInv, Phases, InQueue, ToSet
  <2>3. InHand = {}
    BY <2>1 DEF AllWorkersDone, IInv, Holding, InHand
  <2>4. /\ processed_count = 0 <=> processed = {}
        /\ errors # <<>> <=> Failed # {}
    <3>1. IsFiniteSet(processed) /\ processed_count = Cardinality(processed)
      BY ConfigAssumption, FS_Subset DEF IInv, TypeOK, Items, Counts
    <3>2. errors \in Seq(BundleRefs)
      BY DEF IInv, TypeOK
    <3>3. errors # <<>> <=> Failed # {}
      <4>1. errors # <<>> => errors[1] \in Failed
        BY <3>2 DEF Failed, ToSet
      <4>2. errors = <<>> => Failed = {}
        BY DEF Failed, ToSet
      <4> QED BY <4>1, <4>2
    <3> QED BY <3>1, <3>3, FS_EmptySet
  <2>5. CASE run' = "fatal"
    <3>1. processed = {} /\ Failed # {}
      BY <2>1, <2>4, <2>5
    <3>2. Contract!Report
      BY <1>1, <2>1, <2>2, <2>3, <2>5, <3>1 DEF Contract!Report
    <3> QED BY <3>2 DEF Contract!RunNext
  <2>6. CASE run' = "returned"
    <3>1. processed # {} \/ Failed = {}
      BY <2>1, <2>4, <2>6
    <3>2. Contract!Report
      BY <1>1, <2>1, <2>2, <2>3, <2>6, <3>1 DEF Contract!Report
    <3> QED BY <3>2 DEF Contract!RunNext
  <2> QED BY <2>1, <2>5, <2>6
<1> QED BY <1>2, <1>3, <1>4, <1>5 DEF RunStep, JoinLocator

\* The fetcher implements FetchRun: it reports only when no accepted item is waiting, it
\* never revises a verdict, and after an abort it accepts nothing more.
THEOREM FetcherImplementsFetchRun == Spec => ImplementsFetchRun
<1>1. Init => Contract!RunInit
  <2>1. Init => InQueue = {} /\ Failed = {} /\ InHand = {}
    BY DEF Init, InQueue, Failed, InHand, ToSet
  <2> QED BY <2>1 DEF Init, Contract!RunInit, Items
<1>2. IInv /\ [Next]_vars => [Contract!RunNext]_(Contract!absVars)
  <2> SUFFICES ASSUME IInv, [Next]_vars
               PROVE  Contract!RunNext \/ UNCHANGED Contract!absVars
    OBVIOUS
  <2>1. CASE Ended \/ UNCHANGED vars
    <3>1. UNCHANGED <<supply, InQueue, InHand, processed, Failed, run>>
      BY <2>1 DEF Ended, vars, locatorVars, resultVars, InQueue, InHand, Failed
    <3> QED BY <3>1 DEF Contract!absVars
  <2> QED BY <2>1, RunRefines, LocatorRefines, WorkerRefines DEF Next
<1> QED BY <1>1, <1>2, Invariance, PTL DEF Spec, ImplementsFetchRun, Contract!RunSpec
=============================================================================
