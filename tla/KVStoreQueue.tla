---------------------------- MODULE KVStoreQueue ----------------------------
(***************************************************************************)
(* The persistent queue (data_fetcher_core/queue/kv_store_queue.py): items *)
(* under <ns>:items:<id>, and two counters, <ns>:next_id and <ns>:size,    *)
(* each a key of its own.  The queue is the window of ids                  *)
(* next_id - size .. next_id - 1.  No store operation is atomic with the   *)
(* next: a task may lose the process between any two of them (Crash), and  *)
(* any of them may raise, with or without effect (the Fault actions).      *)
(*                                                                         *)
(* The asyncio lock lets one operation at a time past its first store      *)
(* access, so `op` holds the locals of the one operation in progress; a    *)
(* task calls _ensure_initialized before it asks for the lock.  peek and   *)
(* size only read.  Items are numbered in the order they are offered.      *)
(***************************************************************************)
EXTENDS Integers, FiniteSets, SequencesExt, QueueCounters

CONSTANTS
  MaxItems,     \* items 1..MaxItems are offered to the queue
  MaxBatch,     \* items per call
  MaxTasks,     \* tasks between _ensure_initialized and the lock
  MaxFaults,    \* store operations that raise
  MaxCrashes    \* process losses

ASSUME BoundsAssumption ==
  /\ MaxItems \in Nat /\ MaxBatch \in Nat \ {0} /\ MaxTasks \in Nat \ {0}
  /\ MaxFaults \in Nat /\ MaxCrashes \in Nat

VARIABLES
  items, next_id, size,     \* the store: id -> item, and the counters (0 when absent)
  initialized,              \* _initialized of the live instance
  recovering,               \* tasks that found it unset and have not got the lock yet
  passed,                   \* tasks that found it set, or recovered, and wait for the lock
  op,                       \* the operation that holds the lock
  offered,                  \* how many items callers have tried to enqueue
  acked,                    \* items whose enqueue returned
  delivered,                \* items returned by dequeue, in order
  forfeited,                \* items deleted but never returned, or asked to be cleared
  undone,                   \* an enqueue or a clear has raised
  faults, crashes

store == <<items, next_id, size>>
tasks == <<recovering, passed>>
history == <<offered, acked, delivered, forfeited, undone>>
vars == <<store, initialized, tasks, op, history, faults, crashes>>

\* at: the store operation that comes next.  batch: the items still to store.  id: the id at
\* hand, or the next_id to write.  size: the size to write.  left: ids still to visit.
\* results: items taken by a dequeue, or stored by an enqueue.  stored: the ids an enqueue
\* has used; undo, rounds: those still to delete, and how many times over.
NoOp == [at |-> "free", batch |-> <<>>, id |-> 0, size |-> 0, left |-> 0, results |-> <<>>,
         stored |-> {}, undo |-> {}, rounds |-> 0]

Fixing == {"fix_next_id", "fix_size"}
Enqueuing == {"put_item", "put_next_id", "put_size"}
Dequeuing == {"take", "put_new_size"}
Clearing == {"clear_item", "clear_size", "clear_next_id"}

Init ==
  /\ items = <<>> /\ next_id = 0 /\ size = 0
  /\ initialized = FALSE
  /\ recovering = 0 /\ passed = 0
  /\ op = NoOp
  /\ offered = 0 /\ acked = {} /\ delivered = <<>> /\ forfeited = {}
  /\ undone = FALSE
  /\ faults = 0 /\ crashes = 0

Stored == {items[i] : i \in DOMAIN items}
StoreWith(id, item) == [i \in DOMAIN items \cup {id} |-> IF i = id THEN item ELSE items[i]]
StoreWithout(id) == [i \in DOMAIN items \ {id} |-> items[i]]

DeleteTaken_Kept == items' = items
DeleteTaken == items' = StoreWithout(op.id)

\* What the store operation at hand does to the store.
Write ==
  \/ /\ \/ op.at = "put_item" /\ items' = StoreWith(op.id, Head(op.batch))
        \/ op.at = "take" /\ DeleteTaken
        \/ op.at = "clear_item" /\ items' = StoreWithout(op.id)
        \/ op.at = "rollback" /\ items' = StoreWithout(Min(op.undo))
     /\ UNCHANGED <<next_id, size>>
  \/ /\ op.at \in {"fix_next_id", "put_next_id", "clear_next_id"}
     /\ next_id' = op.id
     /\ UNCHANGED <<items, size>>
  \/ /\ op.at \in {"fix_size", "put_size", "put_new_size", "clear_size"}
     /\ size' = op.size
     /\ UNCHANGED <<items, next_id>>

\* It raises, with or without effect.
Fault ==
  /\ faults < MaxFaults
  /\ faults' = faults + 1
  /\ Write \/ UNCHANGED store

-----------------------------------------------------------------------------
(* _ensure_initialized and _recover_queue_state *)

\* The ids the scan finds.  It has a start key and no end key: that other keys which sort
\* after the items do not end in numbers is an assumption here (see SftpDirectoryLocator).
ScannedIds == DOMAIN items

\* A task looks at _initialized before it waits for the lock.
CheckInitialized ==
  /\ recovering + passed < MaxTasks
  /\ IF initialized THEN passed' = passed + 1 /\ UNCHANGED recovering
                    ELSE recovering' = recovering + 1 /\ UNCHANGED passed
  /\ UNCHANGED <<store, initialized, op, history, faults, crashes>>

\* The task that has recovered the queue goes on to its own operation.
Recovered ==
  /\ initialized' = TRUE
  /\ recovering' = recovering - 1
  /\ passed' = passed + 1

BeginRecovery ==
  /\ op.at = "free"
  /\ recovering > 0
  /\ IF Consistent(ScannedIds, next_id, size)
     THEN Recovered /\ UNCHANGED op
     ELSE /\ op' = [NoOp EXCEPT !.at = "fix_next_id", !.id = NextIdAfter(ScannedIds),
                                !.size = Cardinality(ScannedIds)]
          /\ UNCHANGED <<initialized, tasks>>
  /\ UNCHANGED <<store, history, faults, crashes>>

FixCounter ==
  /\ op.at \in Fixing
  /\ Write
  /\ IF op.at = "fix_next_id"
     THEN op' = [op EXCEPT !.at = "fix_size"] /\ UNCHANGED <<initialized, tasks>>
     ELSE op' = NoOp /\ Recovered
  /\ UNCHANGED <<history, faults, crashes>>

RecoveryFault ==
  /\ op.at \in Fixing
  /\ Fault
  /\ recovering' = recovering - 1
  /\ op' = NoOp
  /\ UNCHANGED <<initialized, passed, history, crashes>>

\* A task whose check is behind it gets the lock.
Locked ==
  /\ op.at = "free"
  /\ passed > 0
  /\ passed' = passed - 1
  /\ UNCHANGED <<store, initialized, recovering, faults, crashes>>

-----------------------------------------------------------------------------
(* enqueue *)

BeginEnqueue(n) ==
  /\ Locked
  /\ offered + n <= MaxItems
  /\ offered' = offered + n
  /\ op' = [NoOp EXCEPT !.at = "put_item", !.batch = [k \in 1..n |-> offered + k],
                        !.id = next_id, !.size = size + n]
  /\ UNCHANGED <<acked, delivered, forfeited, undone>>

PutItem ==
  /\ op.at = "put_item"
  /\ Write
  /\ op' = [op EXCEPT !.at = IF Len(op.batch) = 1 THEN "put_next_id" ELSE "put_item",
                      !.batch = Tail(@), !.stored = @ \cup {op.id}, !.id = @ + 1,
                      !.results = Append(@, Head(op.batch))]
  /\ UNCHANGED <<initialized, tasks, history, faults, crashes>>

PutCounter ==
  /\ op.at \in {"put_next_id", "put_size"}
  /\ Write
  /\ IF op.at = "put_next_id"
     THEN op' = [op EXCEPT !.at = "put_size"] /\ UNCHANGED acked
     ELSE op' = NoOp /\ acked' = acked \cup ToSet(op.results)
  /\ UNCHANGED <<initialized, tasks, offered, delivered, forfeited, undone, faults, crashes>>

\* What was stored is to be deleted: twice when storing an item failed (in the inner and in
\* the outer handler), once when a counter did.  next_id is not put back.
EnqueueFault ==
  /\ op.at \in Enqueuing
  /\ Fault
  /\ undone' = TRUE
  /\ op' = IF op.stored = {} THEN NoOp
           ELSE [op EXCEPT !.at = "rollback", !.undo = op.stored,
                           !.rounds = IF op.at = "put_item" THEN 2 ELSE 1]
  /\ UNCHANGED <<initialized, tasks, offered, acked, delivered, forfeited, crashes>>

\* The second round deletes what the first has already deleted.
Rollback ==
  /\ op.at = "rollback"
  /\ Write
  /\ op' = IF Cardinality(op.undo) = 1 THEN NoOp ELSE [op EXCEPT !.undo = @ \ {Min(@)}]
  /\ UNCHANGED <<initialized, tasks, history, faults, crashes>>

RollbackFault ==
  /\ op.at = "rollback"
  /\ Fault
  /\ op' = IF op.rounds = 2 THEN [op EXCEPT !.undo = op.stored, !.rounds = 1] ELSE NoOp
  /\ UNCHANGED <<initialized, tasks, history, crashes>>

-----------------------------------------------------------------------------
(* dequeue *)

StartId_SkipsHead == next_id - size + 1
StartId == next_id - size

BeginDequeue(n) ==
  /\ Locked
  /\ op' = IF size = 0 THEN NoOp
           ELSE [NoOp EXCEPT !.at = "take", !.id = StartId, !.size = size,
                             !.left = IF n < size THEN n ELSE size]
  /\ UNCHANGED history

\* One turn of the loop: get, deserialize and delete.  A missing item is skipped and does
\* not count: a window whose head is missing keeps its size.
Take ==
  /\ op.at = "take"
  /\ Write
  /\ LET found == op.id \in DOMAIN items
     IN op' = [op EXCEPT !.at = IF op.left = 1 THEN "put_new_size" ELSE "take",
                         !.id = @ + 1, !.left = @ - 1,
                         !.size = IF found THEN @ - 1 ELSE @,
                         !.results = IF found THEN Append(@, items[op.id]) ELSE @]
  /\ UNCHANGED <<initialized, tasks, history, faults, crashes>>

PutNewSize ==
  /\ op.at = "put_new_size"
  /\ Write
  /\ delivered' = delivered \o op.results
  /\ op' = NoOp
  /\ UNCHANGED <<initialized, tasks, offered, acked, forfeited, undone, faults, crashes>>

\* The items a dequeue has deleted and now does not return.
Lost == ToSet(op.results) \cup (Stored \ {items'[i] : i \in DOMAIN items'})

RecoverNext_NotAsked == UNCHANGED initialized
RecoverNext == initialized' = FALSE

\* The next task to look recovers the counters.
DequeueFault ==
  /\ op.at \in Dequeuing
  /\ Fault
  /\ forfeited' = forfeited \cup Lost
  /\ RecoverNext
  /\ op' = NoOp
  /\ UNCHANGED <<tasks, offered, acked, delivered, undone, crashes>>

-----------------------------------------------------------------------------
(* clear *)

BeginClear ==
  /\ Locked
  /\ IF size = 0
     THEN op' = NoOp /\ UNCHANGED forfeited
     ELSE /\ op' = [NoOp EXCEPT !.at = "clear_item", !.id = StartId, !.left = size]
          /\ forfeited' = forfeited \cup Stored
  /\ UNCHANGED <<offered, acked, delivered, undone>>

\* The window item by item, then the size, then next_id.
Clear ==
  /\ op.at \in Clearing
  /\ Write
  /\ op' = CASE op.at = "clear_item" /\ op.left > 1 -> [op EXCEPT !.id = @ + 1, !.left = @ - 1]
             [] op.at = "clear_item" /\ op.left = 1 -> [NoOp EXCEPT !.at = "clear_size"]
             [] op.at = "clear_size" -> [NoOp EXCEPT !.at = "clear_next_id"]
             [] OTHER -> NoOp
  /\ UNCHANGED <<initialized, tasks, history, faults, crashes>>

\* clear has no handler: the instance goes on with what is left.
ClearFault ==
  /\ op.at \in Clearing
  /\ Fault
  /\ undone' = TRUE
  /\ op' = NoOp
  /\ UNCHANGED <<initialized, tasks, offered, acked, delivered, forfeited, crashes>>

-----------------------------------------------------------------------------
\* The process ends anywhere; another one opens the same namespace.
Crash ==
  /\ crashes < MaxCrashes
  /\ crashes' = crashes + 1
  /\ initialized' = FALSE
  /\ recovering' = 0 /\ passed' = 0
  /\ forfeited' = forfeited \cup (IF op.at \in Dequeuing THEN ToSet(op.results) ELSE {})
  /\ op' = NoOp
  /\ UNCHANGED <<store, offered, acked, delivered, undone, faults>>

Proceed ==
  FixCounter \/ PutItem \/ PutCounter \/ Rollback \/ Take \/ PutNewSize \/ Clear

Raise == RecoveryFault \/ EnqueueFault \/ RollbackFault \/ DequeueFault \/ ClearFault

Next ==
  \/ CheckInitialized
  \/ BeginRecovery
  \/ \E n \in 1..MaxBatch : BeginEnqueue(n) \/ BeginDequeue(n)
  \/ BeginClear
  \/ Proceed
  \/ Raise
  \/ Crash

\* A task that holds the lock goes on, and asyncio.Lock serves its waiters in order: a task
\* that waits to recover, and a caller that keeps asking for one item, get it in the end.
Fairness ==
  /\ WF_vars(Proceed)
  /\ WF_vars(CheckInitialized)
  /\ SF_vars(BeginRecovery)
  /\ SF_vars(BeginDequeue(1))

Spec == Init /\ [][Next]_vars /\ Fairness

-----------------------------------------------------------------------------
(* Properties *)

Window == StartId..(next_id - 1)
InFlight == IF op.at \in Dequeuing THEN ToSet(op.results) ELSE {}

TypeOK ==
  /\ DOMAIN items \subseteq Nat /\ Stored \subseteq 1..MaxItems
  /\ next_id \in Nat /\ size \in Nat
  /\ initialized /\ op.at = "free" /\ ~undone => size <= next_id
  /\ initialized \in BOOLEAN /\ recovering \in Nat /\ passed \in Nat
  /\ recovering + passed <= MaxTasks
  /\ op.at \in {"free", "rollback"} \cup Fixing \cup Enqueuing \cup Dequeuing \cup Clearing
  /\ op.left \in Nat /\ op.size \in Nat /\ op.id \in Int
  /\ offered \in 0..MaxItems
  /\ acked \subseteq 1..offered /\ forfeited \subseteq 1..offered
  /\ ToSet(delivered) \subseteq 1..offered

\* An item is delivered at most once, whatever fails and whenever the process is lost.
DeliveredOnce == IsInjective(delivered)

\* An item whose enqueue returned is in the store until it is delivered or deleted by a
\* dequeue that raised or was cut off, or a clear was asked for: no recovery, rollback or later enqueue
\* overwrites it.
AckedIsKept == acked \subseteq Stored \cup InFlight \cup ToSet(delivered) \cup forfeited

\* As long as no enqueue or clear has raised, a queue that is initialized and at rest has
\* an item for every id of its window and none outside, whatever crashes and failed
\* dequeues and recoveries came before.
WindowIntact ==
  initialized /\ op.at = "free" /\ ~undone => DOMAIN items = Window

\* Under the same condition items are delivered in the order they were enqueued, also
\* across restarts.
DeliveredInOrder ==
  ~undone => \A j, k \in DOMAIN delivered : j < k => delivered[j] < delivered[k]

-----------------------------------------------------------------------------
(* The inductive invariant *)

Steps == {"free", "rollback"} \cup Fixing \cup Enqueuing \cup Dequeuing \cup Clearing

Locals ==
  [at : Steps, batch : Seq(1..MaxItems), id : Int, size : Nat, left : Nat,
   results : Seq(1..MaxItems), stored : SUBSET Nat, undo : SUBSET Nat, rounds : 0..2]

\* What the locals of the operation at hand hold at each of its steps.
LocalsOK ==
  /\ op \in Locals
  /\ IsFiniteSet(DOMAIN items) /\ IsFiniteSet(op.stored) /\ op.undo \subseteq op.stored
  /\ op.at \in Fixing =>
       /\ recovering > 0
       /\ op.id = NextIdAfter(DOMAIN items) /\ op.size = Cardinality(DOMAIN items)
  /\ op.at = "fix_size" => next_id = op.id
  /\ op.at \in Enqueuing => op.id >= next_id
  /\ op.at = "put_item" => op.batch # <<>>
  /\ op.at \in {"put_next_id", "put_size"} => op.batch = <<>>
  /\ op.at = "put_size" => next_id = op.id
  /\ op.at = "rollback" => op.undo # {} /\ undone
  /\ op.at = "take" => op.left \in 1..op.size
  /\ op.at = "clear_item" => op.left > 0
  /\ op.at \in {"clear_size", "clear_next_id"} => op.id = 0 /\ op.size = 0

\* The items still to be stored are the last that were offered: nothing else has them yet.
Known == IF op.at = "put_item" THEN offered - Len(op.batch) ELSE offered

OnePlace ==
  /\ op.at = "put_item" => \A k \in DOMAIN op.batch : op.batch[k] = Known + k
  /\ Known \in 0..MaxItems
  /\ Stored \cup ToSet(delivered) \cup acked \cup forfeited \subseteq 1..Known
  /\ \A i, j \in DOMAIN items : items[i] = items[j] => i = j
  /\ Stored \cap ToSet(delivered) = {}
  /\ delivered \in Seq(1..MaxItems)
  /\ op.at \in Dequeuing =>
       /\ ToSet(op.results) \subseteq 1..offered /\ IsInjective(op.results)
       /\ ToSet(op.results) \cap (Stored \cup ToSet(delivered)) = {}

\* An acknowledged item that is still owed lies below next_id, where no enqueue writes, and
\* nowhere a rollback deletes.
OutOfReach ==
  /\ \A i \in DOMAIN items : items[i] \in acked => i < next_id \/ items[i] \in forfeited
  /\ op.at \in Enqueuing \cup {"rollback"} =>
       \A i \in op.stored \cap DOMAIN items : items[i] \notin acked
  /\ op.at \in Enqueuing =>
       /\ op.stored \subseteq DOMAIN items /\ \A i \in op.stored : i < op.id
       /\ ToSet(op.results) = {items[i] : i \in op.stored}
  /\ op.at \in Clearing => Stored \subseteq forfeited

\* The ids the operation at hand has left, or made, the window of.
First == CASE op.at \in Enqueuing -> op.id + Len(op.batch) - op.size
           [] op.at \in Dequeuing \cup {"clear_item"} -> op.id
           [] op.at \in {"clear_size", "clear_next_id"} -> next_id
           [] OTHER -> next_id - size
End == IF op.at \in Enqueuing THEN op.id ELSE next_id

\* A task has recovered the queue since the process started.
Active == initialized \/ passed > 0 \/ op.at \in Enqueuing \cup Dequeuing \cup Clearing

\* The stored ids are always a run of consecutive numbers; once recovered it ends with the
\* window, which it fills as long as no dequeue has raised.
Consecutive ==
  ~undone =>
    /\ \A i, j \in DOMAIN items : \A k \in i..j : k \in DOMAIN items
    /\ Active => DOMAIN items \subseteq First..(End - 1)
    /\ Active /\ DOMAIN items # {} => End - 1 \in DOMAIN items
    /\ initialized => DOMAIN items = First..(End - 1)
    /\ op.at \in Enqueuing => Len(op.batch) <= op.size
    /\ op.at \in Dequeuing =>
         /\ next_id - op.size <= op.id /\ op.size <= size
         /\ initialized => next_id - op.size = op.id
    /\ op.at = "clear_item" => op.left = next_id - op.id
    /\ op.at = "clear_next_id" => size = 0

\* Lower ids have earlier items, and what was taken is earlier than what is stored.
Ordered ==
  ~undone =>
    /\ \A i, j \in DOMAIN items : i < j => items[i] < items[j]
    /\ \A x \in ToSet(delivered), y \in Stored : x < y
    /\ op.at \in Dequeuing =>
         /\ \A j, k \in DOMAIN op.results : j < k => op.results[j] < op.results[k]
         /\ \A x \in ToSet(op.results), y \in Stored : x < y
         /\ \A x \in ToSet(delivered), y \in ToSet(op.results) : x < y

IInv ==
  /\ TypeOK /\ LocalsOK
  /\ OnePlace /\ DeliveredOnce
  /\ OutOfReach /\ AckedIsKept
  /\ Consecutive
  /\ Ordered /\ DeliveredInOrder

-----------------------------------------------------------------------------
(* Liveness *)

\* As long as no enqueue or clear has raised, no acknowledged item stays behind for ever while
\* callers keep dequeuing.
AckedIsServed ==
  \A i \in 1..MaxItems :
    i \in acked ~> (i \in ToSet(delivered) \cup forfeited \/ undone)

\* The same without the condition: what the module's docstring promises of enqueue's
\* "compensating actions for failures".  It does not hold: the rollback deletes the items it
\* stored and leaves next_id where it is, so the window slides off the items before them.
AckedIsServedAfterFaults ==
  \A i \in 1..MaxItems : i \in acked ~> i \in ToSet(delivered) \cup forfeited
=============================================================================
