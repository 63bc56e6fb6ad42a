---------------------------- MODULE StateManager ----------------------------
(***************************************************************************)
(* The state manager and the state tracker over a key-value store          *)
(* (data_fetcher_core/kv_store/manager.py).  An update reads the entry,    *)
(* awaits, and writes the changed value back; there is no lock, so several *)
(* tasks' updates interleave.  Both use the store under prefixes that sort *)
(* one after the other.                                                    *)
(***************************************************************************)
EXTENDS KeyValueStore

CONSTANTS
  Tasks,     \* tasks of the program that use the manager
  Items,     \* identifiers of items that fail
  MaxCalls   \* bound on the calls

ASSUME ManagerAssumption == IsFiniteSet(Tasks) /\ Items \subseteq Nat /\ MaxCalls \in Nat

VARIABLES
  task,    \* each task's update: its key, what it read, what it has still to delete
  calls,   \* calls so far
  updates, \* history: updates written, per key
  mixed    \* history: the keys changed by another task in the middle of an update

managerVars == <<task, calls, updates, mixed>>

DayTtl == 1
WeekTtl == 2
MonthTtl == 3

\* The keys in the store's order: "state_management:errors:..", ":processed_items", ":state",
\* then "state_tracker:counter:..", ":session:..", ":state", ":timing:..", then a queue's.
Order == [errors |-> 1, processed_items |-> 2, state |-> 3,
          counter |-> 4, session |-> 5, tracker_state |-> 6, timing |-> 7, queue |-> 8]

ErrorOf(i) == <<"errors", i>>
ProcessedItems == <<"processed_items", 0>>
SavedState == <<"state", 0>>
Counter == <<"counter", 0>>
SessionInfo == <<"session", 0>>
TrackerState == <<"tracker_state", 0>>
Timing == <<"timing", 0>>

Shared == {Counter, TrackerState, Timing} \cup {ErrorOf(i) : i \in Items}
NoKey == <<"none", 0>>
NoUpdate == [key |-> NoKey, saw |-> 0, delete |-> {}]

ManagerInit ==
  /\ task = [t \in Tasks |-> NoUpdate]
  /\ calls = 0
  /\ updates = [k \in Shared |-> 0]
  /\ mixed = {}

\* A task begins a call of the manager.
Begin(t) == task[t] = NoUpdate /\ calls < MaxCalls /\ calls' = calls + 1

-----------------------------------------------------------------------------
(* Writes that read nothing first *)

InUpdate(t, k) == \E s \in Tasks \ {t} : task[s].key = k
Mixed(t, k) == IF InUpdate(t, k) THEN mixed \cup {k} ELSE mixed

\* save_processed_items, save_state, save_session_info
SaveProcessedItems(t) ==
  Begin(t) /\ Put(ProcessedItems, TRUE, WeekTtl) /\ UNCHANGED <<task, updates, mixed>>
SaveManagedState(t) ==
  Begin(t) /\ Put(SavedState, TRUE, WeekTtl) /\ UNCHANGED <<task, updates, mixed>>
SaveSessionInfo(t) ==
  Begin(t) /\ Put(SessionInfo, TRUE, DayTtl) /\ UNCHANGED <<task, updates, mixed>>

\* save_error: a failure is on record, with no retries yet.
SaveError(t, i) ==
  /\ Begin(t)
  /\ Put(ErrorOf(i), 0, DayTtl)
  /\ updates' = [updates EXCEPT ![ErrorOf(i)] = 0]
  /\ mixed' = Mixed(t, ErrorOf(i))
  /\ UNCHANGED task

\* clear_errors of one item
ClearError(t, i) ==
  /\ Begin(t)
  /\ Delete(ErrorOf(i))
  /\ mixed' = Mixed(t, ErrorOf(i))
  /\ UNCHANGED <<task, updates>>

-----------------------------------------------------------------------------
(* Updates: a read, and a write of what was read, changed *)

\* An entry that is not there counts from zero.
BeginUpdate(t, k) ==
  /\ Begin(t)
  /\ Read({k})
  /\ task' = [task EXCEPT ![t] = [key |-> k, saw |-> Get(k, 0), delete |-> {}]]
  /\ mixed' = Mixed(t, k)
  /\ updates' = IF Exists(k) THEN updates ELSE [updates EXCEPT ![k] = 0]

\* increment_retry_count does nothing for an item without an error.
BeginRetry(t, i) == Exists(ErrorOf(i)) /\ BeginUpdate(t, ErrorOf(i))

Incremented_Reset(saw) == 1
Incremented(saw) == saw + 1

Write(t, k, ttl) ==
  /\ task[t].key = k
  /\ Put(k, Incremented(task[t].saw), ttl)
  /\ task' = [task EXCEPT ![t] = NoUpdate]
  /\ updates' = [updates EXCEPT ![k] = @ + 1]
  /\ UNCHANGED <<calls, mixed>>

IncrementCounter(t) == BeginUpdate(t, Counter) \/ Write(t, Counter, MonthTtl)
RecordProcessingTime(t) == BeginUpdate(t, Timing) \/ Write(t, Timing, WeekTtl)
UpdateState(t) == BeginUpdate(t, TrackerState) \/ Write(t, TrackerState, WeekTtl)
IncrementRetryCount(t, i) == BeginRetry(t, i) \/ Write(t, ErrorOf(i), DayTtl)

-----------------------------------------------------------------------------
(* The range of errors *)

\* clear_errors(), like get_failed_items, reads from "<prefix>:errors:" on, without an end: every
\* later key of the store is in the range, and is deleted with the errors.
ErrorRange == RangeFrom(Order["errors"], Order)

BeginClear(t) ==
  /\ Begin(t)
  /\ ErrorRange # {}
  /\ task' = [task EXCEPT ![t] = [NoUpdate EXCEPT !.delete = ErrorRange]]
  /\ Read(DOMAIN data)
  /\ UNCHANGED <<updates, mixed>>

ClearNext(t) ==
  \E k \in task[t].delete :
    /\ Delete(k)
    /\ task' = [task EXCEPT ![t].delete = @ \ {k}]
    /\ mixed' = Mixed(t, k)
    /\ UNCHANGED <<calls, updates>>

ClearErrors(t) == BeginClear(t) \/ ClearNext(t)

-----------------------------------------------------------------------------
ManagerNext ==
  \E t \in Tasks :
    \/ SaveProcessedItems(t) \/ SaveManagedState(t) \/ SaveSessionInfo(t)
    \/ IncrementCounter(t) \/ RecordProcessingTime(t) \/ UpdateState(t)
    \/ ClearErrors(t)
    \/ \E i \in Items : SaveError(t, i) \/ ClearError(t, i) \/ IncrementRetryCount(t, i)
\* The process is lost: updates under way never end.
ManagerRestart ==
  /\ Reopen
  /\ task' = [t \in Tasks |-> NoUpdate]
  /\ UNCHANGED <<calls, updates, mixed>>

-----------------------------------------------------------------------------
(* Properties *)

ManagerTypeOK ==
  /\ \A t \in Tasks : task[t].key \in Shared \cup {NoKey} /\ task[t].saw \in 0..MaxCalls
  /\ updates \in [Shared -> 0..MaxCalls]
  /\ mixed \subseteq Shared

\* As long as no task touched an entry in the middle of another's update, the entry holds as many
\* increments as were written since it came to be; with such a touch, updates are lost, or an
\* error cleared comes back.
CountsAddUp == \A k \in Shared \ mixed : Exists(k) => data[k] = updates[k]

\* What makes CountsAddUp inductive: of a key nobody mixed up, at most one task is in an update, and
\* that one has read what the entry still says.
Unmixed(k) ==
  /\ k \in DOMAIN data => data[k] = updates[k]
  /\ \A t \in Tasks : task[t].key = k => task[t].saw = updates[k]
  /\ \A s, t \in Tasks : task[s].key = k /\ task[t].key = k => s = t

ManagerInv ==
  /\ task = [t \in Tasks |->
       [key |-> task[t].key, saw |-> task[t].saw, delete |-> task[t].delete]]
  /\ updates = [k \in Shared |-> updates[k]]
  /\ \A t \in Tasks : task[t].delete # {} => task[t].key = NoKey
  /\ \A k \in Shared \ mixed : Unmixed(k)

\* No entry counts more increments than there were calls, those on their way included: an update
\* adds one to what it read, and each is a call of its own.
Updating(k) == {t \in Tasks : task[t].key = k}

ManagerBounds ==
  /\ calls \in 0..MaxCalls /\ mixed \subseteq Shared
  /\ \A t \in Tasks :
       /\ task[t].key \in Shared \cup {NoKey} /\ NoKey \notin task[t].delete
       /\ task[t].saw \in 0..calls /\ (task[t].key \in Shared => task[t].saw < calls)
  /\ \A k \in Shared :
       /\ updates[k] \in Nat /\ updates[k] + Cardinality(Updating(k)) <= calls
       /\ k \in DOMAIN data => data[k] \in 0..calls
=============================================================================
