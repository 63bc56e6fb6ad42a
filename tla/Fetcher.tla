------------------------------- MODULE Fetcher -------------------------------
(***************************************************************************)
(* One run of the fetcher (data_fetcher_core/fetcher.py): Fetcher.run      *)
(* starts a locator task that keeps an in-memory queue filled and a fixed  *)
(* number of workers that drain it.  They share the queue, the completion  *)
(* flag and the run context (processed_count, errors), all on one asyncio  *)
(* event loop, so control moves from one task to another only where a task *)
(* suspends: while a locator is asked for references, while the loader     *)
(* loads a bundle, while a locator is told that a bundle is processed, and *)
(* in the two sleeps.  The queue's own operations never suspend            *)
(* (queue/in_memory_queue.py over an unbounded asyncio.Queue).             *)
(*                                                                         *)
(* Locators and the loader are seen through their interface: a locator     *)
(* hands out items it has not handed out before, or none, or too many, or  *)
(* raises; the loader and the locators' handlers return or raise.          *)
(***************************************************************************)
EXTENDS Naturals, FiniteSets, SequencesExt

CONSTANTS
  BundleRefs,       \* the bundle references the locators can discover
  OtherItems,       \* items of another type a locator may hand out
  NoRef,            \* what an idle worker holds
  NumLocators,      \* len(config.locators)
  Workers,          \* range(plan.concurrency)
  TargetQueueSize   \* plan.target_queue_size

Items == BundleRefs \cup OtherItems

ASSUME ConfigAssumption ==
  /\ IsFiniteSet(Items)
  /\ BundleRefs \cap OtherItems = {}
  /\ NoRef \notin Items
  /\ NumLocators \in Nat \ {0}        \* run() refuses a plan without locators
  /\ Workers # {}
  /\ TargetQueueSize \in Nat \ {0}

VARIABLES
  supply,                 \* items the locators have not handed out yet
  queue,                  \* the InMemoryQueue
  completion_flag,        \* locator_completion_flag
  locator,                \* where _locator_thread stands
  current_locator_index,
  bundle_refs_needed,     \* local of _locator_thread: read before, used after its await
  worker,                 \* where each _worker stands
  hand,                   \* the reference each worker is processing
  informed,               \* how many locators' handle_bundle_processed returned, per item
  processed,              \* bundles that reached the end of _process_request
  processed_count,        \* run_ctx.processed_count
  errors,                 \* run_ctx.errors, each message as the bundle it names
  discarded,              \* items refused by the worker's or the locator thread's guard
  run                     \* where run() stands, and how it ended

locatorVars == <<supply, locator, current_locator_index, bundle_refs_needed>>
resultVars == <<informed, processed, processed_count, errors>>
vars == <<locatorVars, queue, completion_flag, worker, hand, resultVars, discarded, run>>

LocatorStates == {"not_started", "checking", "awaiting_refs", "finished", "failed"}
WorkerStates == {"not_started", "idle", "loading", "notifying", "exited", "cancelled"}
RunStates == {"new", "awaiting_locator", "gathering", "returned", "fatal", "raised",
              "torn_down"}

\* The batches a locator can answer with: distinct items of its supply, and at most one
\* more than it was asked for (any excess is refused alike).
Batches == UNION {Injection(1..n, supply) : n \in 1..(bundle_refs_needed + 1)}

Init ==
  /\ supply = Items
  /\ queue = <<>>
  /\ completion_flag = FALSE
  /\ locator = "not_started"
  /\ current_locator_index = 0
  /\ bundle_refs_needed = 0
  /\ worker = [w \in Workers |-> "not_started"]
  /\ hand = [w \in Workers |-> NoRef]
  /\ informed = [i \in Items |-> 0]
  /\ processed = {}
  /\ processed_count = 0
  /\ errors = <<>>
  /\ discarded = {}
  /\ run = "new"

-----------------------------------------------------------------------------
(* Fetcher.run *)

\* The plan is valid: the locator task and the workers are created.
Start ==
  /\ run = "new"
  /\ run' = "awaiting_locator"
  /\ locator' = "checking"
  /\ worker' = [w \in Workers |-> "idle"]
  /\ UNCHANGED <<supply, current_locator_index, bundle_refs_needed, queue, completion_flag,
                 hand, resultVars, discarded>>

\* No run_id, no locators or no loader, or the storage's on_run_start hook raises.
RejectPlan ==
  /\ run = "new"
  /\ run' = "raised"
  /\ UNCHANGED <<locatorVars, queue, completion_flag, worker, hand, resultVars, discarded>>

\* `await locator_task` returns, or re-raises what the locator thread raised; in that case
\* the workers are neither awaited nor cancelled by run().
JoinLocator ==
  /\ run = "awaiting_locator"
  /\ \/ locator = "finished" /\ run' = "gathering"
     \/ locator = "failed" /\ run' = "raised"
  /\ UNCHANGED <<locatorVars, queue, completion_flag, worker, hand, resultVars, discarded>>

AllWorkersDone_OneIsEnough == \E w \in Workers : worker[w] = "exited"
AllWorkersDone == \A w \in Workers : worker[w] = "exited"

\* gather() has every worker: FatalError when all there is to report is errors.
Finish ==
  /\ run = "gathering"
  /\ AllWorkersDone
  /\ run' = IF processed_count = 0 /\ errors # <<>> THEN "fatal" ELSE "returned"
  /\ UNCHANGED <<locatorVars, queue, completion_flag, worker, hand, resultVars, discarded>>

\* main_async turns the exception into an exit code, and asyncio.run cancels the tasks
\* that are left: a worker loses what it holds without a word in errors.
TearDown ==
  /\ run = "raised"
  /\ run' = "torn_down"
  /\ worker' = [w \in Workers |->
                  IF worker[w] \in {"not_started", "exited"} THEN worker[w] ELSE "cancelled"]
  /\ UNCHANGED <<locatorVars, queue, completion_flag, hand, resultVars, discarded>>

-----------------------------------------------------------------------------
(* Fetcher._locator_thread *)

Room_IgnoresBacklog == TargetQueueSize
Room == TargetQueueSize - Len(queue)

LocatorLeft_OffByOne == current_locator_index <= NumLocators
LocatorLeft == current_locator_index < NumLocators

\* Below the target, with a locator left: ask it, and suspend until it answers.
RequestRefs ==
  /\ locator = "checking"
  /\ Len(queue) < TargetQueueSize
  /\ LocatorLeft
  /\ bundle_refs_needed' = Room
  /\ locator' = "awaiting_refs"
  /\ UNCHANGED <<supply, current_locator_index, queue, completion_flag, worker, hand,
                 resultVars, discarded, run>>

\* The locator answers with at most what was asked for.
EnqueueRefs ==
  /\ locator = "awaiting_refs"
  /\ \E batch \in Batches :
        /\ Len(batch) <= bundle_refs_needed
        /\ queue' = queue \o batch
        /\ supply' = supply \ ToSet(batch)
  /\ locator' = "checking"
  /\ UNCHANGED <<current_locator_index, bundle_refs_needed, completion_flag, worker, hand,
                 resultVars, discarded, run>>

\* An empty answer, whatever its reason, retires the locator for the rest of the run.
LocatorExhausted ==
  /\ locator = "awaiting_refs"
  /\ current_locator_index' = current_locator_index + 1
  /\ locator' = "checking"
  /\ UNCHANGED <<supply, bundle_refs_needed, queue, completion_flag, worker, hand,
                 resultVars, discarded, run>>

\* More than was asked for: ConfigurationError, and the whole answer is thrown away.
RefuseBatch ==
  /\ locator = "awaiting_refs"
  /\ \E batch \in Batches :
        /\ Len(batch) > bundle_refs_needed
        /\ discarded' = discarded \cup ToSet(batch)
        /\ supply' = supply \ ToSet(batch)
  /\ completion_flag' = TRUE
  /\ locator' = "failed"
  /\ UNCHANGED <<current_locator_index, bundle_refs_needed, queue, worker, hand, resultVars,
                 run>>

\* get_next_bundle_refs raises: fail fast.
LocatorRaises ==
  /\ locator = "awaiting_refs"
  /\ completion_flag' = TRUE
  /\ locator' = "failed"
  /\ UNCHANGED <<supply, current_locator_index, bundle_refs_needed, queue, worker, hand,
                 resultVars, discarded, run>>

AllLocatorsExhausted_FlagForgotten ==
  /\ locator = "checking"
  /\ Len(queue) < TargetQueueSize
  /\ current_locator_index = NumLocators
  /\ locator' = "finished"
  /\ UNCHANGED <<supply, current_locator_index, bundle_refs_needed, queue, completion_flag,
                 worker, hand, resultVars, discarded, run>>

\* Nobody is left to ask; noticed only once the queue is below its target.
AllLocatorsExhausted ==
  /\ locator = "checking"
  /\ Len(queue) < TargetQueueSize
  /\ current_locator_index = NumLocators
  /\ completion_flag' = TRUE
  /\ locator' = "finished"
  /\ UNCHANGED <<supply, current_locator_index, bundle_refs_needed, queue, worker, hand,
                 resultVars, discarded, run>>

LocatorStep ==
  RequestRefs \/ EnqueueRefs \/ LocatorExhausted \/ RefuseBatch \/ LocatorRaises
  \/ AllLocatorsExhausted

-----------------------------------------------------------------------------
(* Fetcher._worker and Fetcher._process_request *)

Dequeued_PeekOnly == queue
Dequeued == Tail(queue)

TakeRef(w) ==
  /\ worker[w] = "idle"
  /\ queue # <<>>
  /\ Head(queue) \in BundleRefs
  /\ queue' = Dequeued
  /\ hand' = [hand EXCEPT ![w] = Head(queue)]
  /\ worker' = [worker EXCEPT ![w] = "loading"]
  /\ UNCHANGED <<locatorVars, completion_flag, resultVars, discarded, run>>

\* Not a BundleRef: logged and dropped; neither processed_count nor errors shows it.
DropItem(w) ==
  /\ worker[w] = "idle"
  /\ queue # <<>>
  /\ Head(queue) \notin BundleRefs
  /\ queue' = Dequeued
  /\ discarded' = discarded \cup {Head(queue)}
  /\ UNCHANGED <<locatorVars, completion_flag, worker, hand, resultVars, run>>

NoMoreRequests_QueueUnread == completion_flag
NoMoreRequests == queue = <<>> /\ completion_flag

ExitWorker(w) ==
  /\ worker[w] = "idle"
  /\ NoMoreRequests
  /\ worker' = [worker EXCEPT ![w] = "exited"]
  /\ UNCHANGED <<locatorVars, queue, completion_flag, hand, resultVars, discarded, run>>

LoadSucceeds(w) ==
  /\ worker[w] = "loading"
  /\ worker' = [worker EXCEPT ![w] = "notifying"]
  /\ UNCHANGED <<locatorVars, queue, completion_flag, hand, resultVars, discarded, run>>

Release(w) ==
  /\ worker' = [worker EXCEPT ![w] = "idle"]
  /\ hand' = [hand EXCEPT ![w] = NoRef]

\* The except branch of _process_request: no locator hears of the failure
\* (handle_bundle_error is called nowhere).
RecordError(w) ==
  /\ errors' = Append(errors, hand[w])
  /\ Release(w)
  /\ UNCHANGED <<locatorVars, queue, completion_flag, informed, processed, processed_count,
                 discarded, run>>

RecordProcessed(w) ==
  /\ processed' = processed \cup {hand[w]}
  /\ processed_count' = processed_count + 1
  /\ Release(w)

LoadFails(w) ==
  /\ worker[w] = "loading"
  /\ RecordError(w)

\* One locator's handle_bundle_processed returns; after the last of them the bundle counts.
LocatorNotified(w) ==
  /\ worker[w] = "notifying"
  /\ informed' = [informed EXCEPT ![hand[w]] = @ + 1]
  /\ IF informed[hand[w]] + 1 = NumLocators
     THEN RecordProcessed(w)
     ELSE UNCHANGED <<processed, processed_count, worker, hand>>
  /\ UNCHANGED <<locatorVars, queue, completion_flag, errors, discarded, run>>

NotifyFails_Ignored(w) ==
  /\ worker[w] = "notifying"
  /\ RecordProcessed(w)
  /\ UNCHANGED <<locatorVars, queue, completion_flag, informed, errors, discarded, run>>

NotifyFails_CountedTwice(w) ==
  /\ worker[w] = "notifying"
  /\ processed' = processed \cup {hand[w]}
  /\ processed_count' = processed_count + 1
  /\ errors' = Append(errors, hand[w])
  /\ Release(w)
  /\ UNCHANGED <<locatorVars, queue, completion_flag, informed, discarded, run>>

\* A handler raises: the locators after it are not told, and the loaded bundle is an error.
NotifyFails(w) ==
  /\ worker[w] = "notifying"
  /\ RecordError(w)

WorkerStep(w) ==
  TakeRef(w) \/ DropItem(w) \/ ExitWorker(w) \/ LoadSucceeds(w) \/ LoadFails(w)
  \/ LocatorNotified(w) \/ NotifyFails(w)

-----------------------------------------------------------------------------
RunStep == Start \/ RejectPlan \/ JoinLocator \/ Finish \/ TearDown

\* The process has ended.
Ended == run \in {"returned", "fatal", "torn_down"} /\ UNCHANGED vars

Next == RunStep \/ LocatorStep \/ (\E w \in Workers : WorkerStep(w)) \/ Ended

\* The event loop resumes every task whose await has completed, and every call that
\* leaves the process (a locator, the loader) returns or raises in the end.
Fairness ==
  /\ WF_vars(Start \/ JoinLocator \/ Finish)
  /\ WF_vars(LocatorStep)
  /\ \A w \in Workers : WF_vars(WorkerStep(w))

Spec == Init /\ [][Next]_vars /\ Fairness

-----------------------------------------------------------------------------
(* Properties *)

InQueue == ToSet(queue)
InHand == {hand[w] : w \in Workers} \ {NoRef}
Failed == ToSet(errors)
Handed == Items \ supply

TypeOK ==
  /\ supply \subseteq Items
  /\ queue \in Seq(Items)
  /\ completion_flag \in BOOLEAN
  /\ locator \in LocatorStates
  /\ current_locator_index \in 0..NumLocators
  /\ bundle_refs_needed \in 0..TargetQueueSize
  /\ worker \in [Workers -> WorkerStates]
  /\ hand \in [Workers -> BundleRefs \cup {NoRef}]
  /\ informed \in [Items -> 0..NumLocators]
  /\ processed \subseteq BundleRefs
  /\ processed_count \in Nat
  /\ errors \in Seq(BundleRefs)
  /\ discarded \subseteq Items
  /\ run \in RunStates

\* The queue never grows past plan.target_queue_size, although the room in it is computed
\* before the locator is awaited and used after (workers may run in between).
QueueBounded == Len(queue) <= TargetQueueSize

\* Whatever a locator handed out is in exactly one place: in the queue (once), in the hands
\* of one worker, counted as processed, recorded as an error (once), or discarded.
ExactlyOnePlace ==
  /\ Items = supply \cup InQueue \cup InHand \cup processed \cup Failed \cup discarded
  /\ supply \cap (InQueue \cup InHand \cup processed \cup Failed \cup discarded) = {}
  /\ InQueue \cap (InHand \cup processed \cup Failed \cup discarded) = {}
  /\ InHand \cap (processed \cup Failed \cup discarded) = {}
  /\ processed \cap (Failed \cup discarded) = {}
  /\ Failed \cap discarded = {}
  /\ IsInjective(queue)
  /\ \A u, v \in Workers : hand[u] = hand[v] /\ hand[u] # NoRef => u = v

\* When run() reports (a FetchResult or its FatalError), nothing is left in the queue or in
\* a worker's hands: every BundleRef handed out has its verdict.  The flag is raised by
\* another task than the ones that test it, while the queue still holds work.
NothingLeftBehind ==
  run \in {"returned", "fatal"} =>
    /\ queue = <<>>
    /\ AllWorkersDone
    /\ Handed \cap BundleRefs \subseteq processed \cup Failed

\* What the result reports adds up: one processed or one error per BundleRef handed out,
\* and "fatal" is never said of a run that processed something.
ResultAddsUp ==
  run \in {"returned", "fatal"} =>
    /\ processed_count + Len(errors) = Cardinality(Handed \cap BundleRefs)
    /\ run = "fatal" => processed = {}

\* A bundle counts as processed exactly when every locator was told so; a locator that
\* raised keeps the bundle out of processed_count although it is loaded.
ProcessedIsAcknowledged == processed = {i \in Items : informed[i] = NumLocators}

\* The run ends: by a result, by its FatalError, or by the exception it raised.
Termination == <>(run \in {"returned", "fatal", "raised", "torn_down"})

\* A bundle that is queued gets its verdict, unless the run is aborted.
QueuedIsServed ==
  \A r \in BundleRefs :
    r \in InQueue ~> (r \in processed \cup Failed \/ run \in {"raised", "torn_down"})

-----------------------------------------------------------------------------
(* The inductive invariant behind the theorems of FetcherProofs. *)

\* A worker holds a reference exactly while it loads it or spreads word of it; a cancelled
\* worker may still hold one.
Holding ==
  \A w \in Workers :
    /\ worker[w] \in {"loading", "notifying"} => hand[w] # NoRef
    /\ hand[w] # NoRef => worker[w] \in {"loading", "notifying", "cancelled"}

\* An outstanding request to a locator: there is such a locator, and the room it was asked
\* to fill is still there, because workers only make more of it.
Asking ==
  locator = "awaiting_refs" =>
    /\ current_locator_index < NumLocators
    /\ Len(queue) + bundle_refs_needed <= TargetQueueSize

\* How far run(), the locator thread and the workers can be apart.  Once the flag is up the
\* queue only shrinks, which is why a worker may leave when it is empty.
Phases ==
  /\ completion_flag <=> locator \in {"finished", "failed"}
  /\ run = "new" => locator = "not_started"
  /\ locator = "not_started" => \A w \in Workers : worker[w] = "not_started"
  /\ run \in {"gathering", "returned", "fatal"} => locator = "finished"
  /\ run \in {"raised", "torn_down"} => locator \in {"not_started", "failed"}
  /\ run \in {"returned", "fatal"} => AllWorkersDone
  /\ run = "torn_down" => \A w \in Workers : worker[w] \in {"not_started", "exited", "cancelled"}
  /\ \A w \in Workers : worker[w] = "exited" => queue = <<>> /\ completion_flag
  /\ discarded \cap BundleRefs # {} => locator = "failed"

\* The counters agree with the verdicts.
Counts ==
  /\ processed_count = Cardinality(processed)
  /\ Len(errors) = Cardinality(Failed)

IInv ==
  /\ TypeOK
  /\ QueueBounded
  /\ ExactlyOnePlace
  /\ ProcessedIsAcknowledged
  /\ Holding
  /\ Asking
  /\ Phases
  /\ Counts

-----------------------------------------------------------------------------
(* The abstract run: an item waits while it is queued or in a worker's hands. *)

Contract ==
  INSTANCE FetchRun WITH
    offered <- supply,
    waiting <- InQueue \cup InHand,
    ok <- processed,
    failed <- Failed,
    status <- CASE run = "returned" -> "reported"
                [] run = "fatal" -> "reported_failure"
                [] run = "raised" -> "aborted"
                [] run = "torn_down" -> "stopped"
                [] OTHER -> "open"

\* A run of the fetcher keeps the promises of FetchRun.
ImplementsFetchRun == Contract!RunSpec
=============================================================================
