-------------------------- MODULE StoreClientsProofs --------------------------
(***************************************************************************)
(* The store keeps its promises to whoever uses it, and the locators and   *)
(* the manager keep theirs: for every default time to live, every range,   *)
(* every set of tasks and items, every interleaving of reads, writes,      *)
(* deletions, sweeps, expiries and restarts.  StoreInv is about the        *)
(* operations only: every step of a client is one of them, and each keeps  *)
(* it.  ClientsInv is about what the clients know, TypesInv about types    *)
(* and bounds.                                                             *)
(***************************************************************************)
EXTENDS StoreClients, SequenceSets

\* One operation of the store, with any key and any value.
StoreOp ==
  \/ \E k, v : \E ttl \in Nat : Put(k, v, ttl)
  \/ \E k : Delete(k)
  \/ \E keys : Read(keys)
  \/ Tick
  \/ Reopen
  \/ UNCHANGED storeVars

\* What was promised for a key and what the two dictionaries say of it: an entry has no expiry
\* time exactly when it was promised for ever, or when Redis passed over the default.
Agree(k) ==
  LET p == promise[k]
  IN /\ p.forever \in BOOLEAN /\ p.byDefault \in BOOLEAN /\ p.until \in Int
     /\ k \in DOMAIN data =>
          /\ data[k] = p.value
          /\ p.forever \/ KeptByRedis(p) <=> k \notin DOMAIN expiry
          /\ k \in DOMAIN expiry => expiry[k] = p.until
     /\ k \notin DOMAIN data => ~p.forever /\ now >= p.until

StoreInv ==
  /\ backend \in Backends /\ now \in Nat
  /\ DOMAIN expiry \subseteq DOMAIN data
  /\ DOMAIN data \subseteq DOMAIN promise
  /\ \A k \in DOMAIN promise : Agree(k)

-----------------------------------------------------------------------------
(* The operators on dictionaries *)

LEMMA WithoutFacts ==
  ASSUME NEW f, NEW ks
  PROVE  /\ DOMAIN Without(f, ks) = DOMAIN f \ ks
         /\ \A k \in DOMAIN f \ ks : Without(f, ks)[k] = f[k]
BY DEF Without

-----------------------------------------------------------------------------
(* The operations keep the invariant *)

LEMMA PutKeeps ==
  ASSUME StoreInv, NEW k, NEW v, NEW ttl \in Nat, Put(k, v, ttl)
  PROVE  StoreInv'
<1> USE StoreAssumption
<1> DEFINE t == TtlOf(ttl)
           said == DocumentedTtl(ttl)
<1>1. /\ t \in Nat /\ said \in Nat
      /\ t = NoTtl <=> said = NoTtl \/ (backend = "redis" /\ ttl = NoTtl)
      /\ t # NoTtl => t = said
  <2>1. backend = "memory" \/ backend = "redis"
    BY DEF StoreInv
  <2> QED BY <2>1 DEF TtlOf, DocumentedTtl, NoTtl
<1>2. /\ data' = With(data, k, v) /\ promise' = With(promise, k, Promised(v, ttl))
      /\ expiry' = ExpiryAfter(k, t) /\ UNCHANGED <<now, backend>>
  BY DEF Put
<1>3. /\ DOMAIN data' = {k} \cup DOMAIN data /\ data'[k] = v
      /\ \A j \in DOMAIN data \ {k} : data'[j] = data[j]
  BY <1>2 DEF With
<1>4. /\ DOMAIN promise' = {k} \cup DOMAIN promise /\ promise'[k] = Promised(v, ttl)
      /\ \A j \in DOMAIN promise \ {k} : promise'[j] = promise[j]
  BY <1>2 DEF With
<1>5. /\ DOMAIN expiry' \subseteq {k} \cup DOMAIN expiry
      /\ \A j \in DOMAIN expiry \ {k} : j \in DOMAIN expiry' /\ expiry'[j] = expiry[j]
      /\ k \notin DOMAIN expiry' <=> t = NoTtl
      /\ t # NoTtl => expiry'[k] = now + t
  <2>1. CASE t = NoTtl
    BY <1>2, <2>1 DEF ExpiryAfter, Without
  <2>2. CASE t # NoTtl
    BY <1>2, <2>2 DEF ExpiryAfter, With
  <2> QED BY <2>1, <2>2
<1>6. Agree(k)'
  <2> DEFINE p == promise'[k]
  <2>1. /\ p.value = v /\ p.until = now + said
        /\ p.forever \in BOOLEAN /\ (p.forever <=> said = NoTtl)
        /\ p.byDefault \in BOOLEAN /\ (p.byDefault <=> ttl = NoTtl)
    <3> DEFINE q == Promised(v, ttl)
    <3>1. q = [value |-> v, forever |-> (said = NoTtl), until |-> now + said, byDefault |-> (ttl = NoTtl)]
      BY DEF Promised
    <3>2. /\ q.value = v /\ q.until = now + said
          /\ q.forever = (said = NoTtl) /\ q.byDefault = (ttl = NoTtl)
      BY ONLY <3>1
    <3>3. p = q
      BY <1>4
    <3> HIDE DEF p, q, said
    <3> QED BY <3>2, <3>3, Zenon
  <2>2. /\ p.until \in Int
        /\ p.forever \/ (backend' = "redis" /\ p.byDefault) <=> t = NoTtl
        /\ t # NoTtl => now + t = p.until
    <3> HIDE DEF p, t, said
    <3> QED BY <1>1, <1>2, <2>1 DEF StoreInv
  <2>3. DOMAIN expiry' \subseteq DOMAIN data'
    BY <1>3, <1>5 DEF StoreInv
  <2> HIDE DEF t, said
  <2> QED BY <1>3, <1>5, <2>1, <2>2, <2>3 DEF Agree, KeptByRedis
<1>7. ASSUME NEW j \in DOMAIN promise \ {k}
      PROVE  Agree(j)'
  BY <1>2, <1>3, <1>4, <1>5, <1>7 DEF StoreInv, Agree, KeptByRedis
<1> QED BY <1>2, <1>3, <1>4, <1>5, <1>6, <1>7 DEF StoreInv

LEMMA DeleteKeeps ==
  ASSUME StoreInv, NEW k, Delete(k)
  PROVE  StoreInv'
<1>1. /\ DOMAIN data' = DOMAIN data \ {k} /\ \A j \in DOMAIN data \ {k} : data'[j] = data[j]
      /\ DOMAIN expiry' = DOMAIN expiry \ {k}
      /\ \A j \in DOMAIN expiry \ {k} : expiry'[j] = expiry[j]
      /\ DOMAIN promise' = DOMAIN promise \ {k}
      /\ \A j \in DOMAIN promise \ {k} : promise'[j] = promise[j]
      /\ UNCHANGED <<now, backend>>
  BY WithoutFacts DEF Delete
<1>2. ASSUME NEW j \in DOMAIN promise \ {k}
      PROVE  Agree(j)'
  BY <1>1, <1>2 DEF StoreInv, Agree, KeptByRedis
<1> QED BY <1>1, <1>2 DEF StoreInv

\* What a read or a sweep takes away was late, and so promised no longer.
LEMMA ReadKeeps ==
  ASSUME StoreInv, NEW keys, Read(keys)
  PROVE  StoreInv'
<1> DEFINE gone == Touched(keys)
<1>1. /\ DOMAIN data' = DOMAIN data \ gone /\ \A j \in DOMAIN data \ gone : data'[j] = data[j]
      /\ DOMAIN expiry' = DOMAIN expiry \ gone
      /\ \A j \in DOMAIN expiry \ gone : expiry'[j] = expiry[j]
      /\ UNCHANGED <<now, promise, backend>>
  BY WithoutFacts DEF Read
<1>2. ASSUME NEW j \in DOMAIN promise
      PROVE  Agree(j)'
  <2>1. CASE j \in gone
    <3>1. j \in DOMAIN expiry /\ now >= expiry[j]
      <4>1. j \in DOMAIN expiry /\ (now > expiry[j] \/ now >= expiry[j])
        BY <2>1 DEF Touched, Late
      <4>2. expiry[j] \in Int
        BY <4>1 DEF StoreInv, Agree
      <4> QED BY <4>1, <4>2 DEF StoreInv
    <3>2. /\ promise[j].forever \in BOOLEAN /\ promise[j].byDefault \in BOOLEAN
          /\ promise[j].until \in Int /\ ~promise[j].forever /\ now >= promise[j].until
      BY <3>1 DEF StoreInv, Agree
    <3> QED BY <1>1, <2>1, <3>2 DEF Agree
  <2>2. CASE j \notin gone
    BY <1>1, <2>2 DEF StoreInv, Agree, KeptByRedis
  <2> QED BY <2>1, <2>2
<1> QED BY <1>1, <1>2 DEF StoreInv

LEMMA OpKeeps ==
  ASSUME StoreInv, StoreOp
  PROVE  StoreInv'
<1>1. CASE Tick
  <2>1. now' = now + 1 /\ UNCHANGED <<data, expiry, promise, backend>>
    BY <1>1 DEF Tick
  <2> QED BY <2>1 DEF StoreInv, Agree, KeptByRedis
<1>2. CASE Reopen
  <2>1. UNCHANGED <<now, backend>>
    BY <1>2 DEF Reopen
  <2>2. CASE UNCHANGED <<data, expiry, promise>>
    BY <2>1, <2>2 DEF StoreInv, Agree, KeptByRedis
  <2>3. CASE data' = <<>> /\ expiry' = <<>> /\ promise' = <<>>
    BY <2>1, <2>3 DEF StoreInv
  <2> QED BY <1>2, <2>2, <2>3 DEF Reopen
<1>3. CASE UNCHANGED storeVars
  BY <1>3 DEF storeVars, StoreInv, Agree, KeptByRedis
<1> QED BY <1>1, <1>2, <1>3, PutKeeps, DeleteKeeps, ReadKeeps DEF StoreOp

-----------------------------------------------------------------------------
(* Every step of a client is an operation *)

LEMMA PutIsOp ==
  ASSUME NEW k, NEW v, NEW ttl \in Nat, Put(k, v, ttl)
  PROVE  StoreOp
BY DEF StoreOp

LEMMA TtlTypes == {StateTtl, ResultTtl, ErrorTtl, NoTtl, DayTtl, WeekTtl, MonthTtl} \subseteq Nat
BY LocatorAssumption DEF NoTtl, DayTtl, WeekTtl, MonthTtl

LEMMA UntouchedIsOp == ASSUME StoreUntouched PROVE StoreOp
BY DEF StoreUntouched, StoreOp

LEMMA ReadIsOp == ASSUME NEW keys, Read(keys) PROVE StoreOp
BY DEF StoreOp

LEMMA DeleteIsOp == ASSUME NEW k, Delete(k) PROVE StoreOp
BY DEF StoreOp

LEMMA StepIsOp ==
  ASSUME NEW u, NEW from, NEW to, NEW key, NEW value, NEW ttl \in Nat,
         Step(u, from, to, key, value, ttl)
  PROVE  StoreOp
BY PutIsOp, UntouchedIsOp DEF Step

LEMMA AskIsOp ==
  ASSUME NEW m, NEW n, Ask(m, n)
  PROVE  StoreOp
<1>1. (\E v : Put(ProcessedKey, v, StateTtl)) \/ StoreUntouched
  BY DEF Ask
<1> QED BY <1>1, PutIsOp, UntouchedIsOp, TtlTypes

LEMMA HandlerIsOp ==
  ASSUME NEW u, HandlerStep(u)
  PROVE  StoreOp
<1> USE TtlTypes
<1>1. CASE Record(u)
  BY <1>1, StepIsOp DEF Record
<1>2. CASE \E refs : Advance(u, refs)
  BY <1>2, StepIsOp DEF Advance
<1>3. CASE SavePosition(u) \/ SaveAfterError(u)
  BY <1>3, StepIsOp DEF SavePosition, SaveAfterError
<1>4. CASE ReportError(u)
  BY <1>4, StepIsOp DEF ReportError
<1>5. CASE SingleSave(u)
  BY <1>5, StepIsOp DEF SingleSave
<1>6. CASE SingleError(u)
  BY <1>6, StepIsOp DEF SingleError
<1>7. CASE Unreported(u)
  BY <1>7, UntouchedIsOp DEF Unreported
<1>8. \/ Record(u) \/ (\E refs : Advance(u, refs)) \/ SavePosition(u) \/ SaveAfterError(u)
      \/ ReportError(u) \/ SingleSave(u) \/ SingleError(u) \/ Unreported(u)
  BY DEF HandlerStep, PaginationRecord, ComplexRecord, ReverseRecord, SingleRecord,
         PaginationAdvance, ComplexAdvance, ReverseAdvance, PaginationSave, ComplexSave,
         ReverseSave, PaginationError, ComplexError, ReverseError
<1> QED BY <1>1, <1>2, <1>3, <1>4, <1>5, <1>6, <1>7, <1>8

LEMMA LocatorIsOp ==
  ASSUME LocatorNext
  PROVE  StoreOp
<1>1. CASE \E n \in 1..LastDate : PaginationAsk(n) \/ ComplexAsk(n) \/ ReverseAsk(n) \/ SingleAsk(n)
  BY <1>1, AskIsOp DEF PaginationAsk, ComplexAsk, ReverseAsk, SingleAsk
<1>2. CASE SaveState
  BY <1>2, PutIsOp, UntouchedIsOp, TtlTypes DEF SaveState
<1>3. CASE Return
  BY <1>3, UntouchedIsOp DEF Return
<1>4. CASE \E u \in Urls : HandlerStep(u)
  BY <1>4, HandlerIsOp
<1>5. CASE EndRun \/ Crash
  BY <1>5 DEF EndRun, Crash, NewRun, StoreOp
<1> QED BY <1>1, <1>2, <1>3, <1>4, <1>5 DEF LocatorNext, AskStep

LEMMA ManagerIsOp ==
  ASSUME ManagerNext \/ ManagerRestart \/ (\E t \in Tasks : QueuePut(t))
  PROVE  StoreOp
<1> USE TtlTypes
<1>1. ASSUME NEW t \in Tasks,
             \/ SaveProcessedItems(t) \/ SaveManagedState(t) \/ SaveSessionInfo(t) \/ QueuePut(t)
             \/ \E i \in Items : SaveError(t, i)
      PROVE  StoreOp
  BY <1>1, PutIsOp
     DEF SaveProcessedItems, SaveManagedState, SaveSessionInfo, QueuePut, SaveError
<1>2. ASSUME NEW t \in Tasks,
             IncrementCounter(t) \/ RecordProcessingTime(t) \/ UpdateState(t)
             \/ \E i \in Items : IncrementRetryCount(t, i)
      PROVE  StoreOp
  <2>1. ASSUME NEW k, BeginUpdate(t, k) PROVE StoreOp
    BY <2>1, ReadIsOp DEF BeginUpdate
  <2>2. ASSUME NEW k, NEW ttl \in Nat, Write(t, k, ttl) PROVE StoreOp
    BY <2>2, PutIsOp DEF Write
  <2> QED BY <1>2, <2>1, <2>2
      DEF IncrementCounter, RecordProcessingTime, UpdateState, IncrementRetryCount, BeginRetry
<1>3. ASSUME NEW t \in Tasks, ClearErrors(t) \/ \E i \in Items : ClearError(t, i)
      PROVE  StoreOp
  BY <1>3, ReadIsOp, DeleteIsOp DEF ClearErrors, BeginClear, ClearNext, ClearError
<1>4. CASE ManagerRestart
  BY <1>4 DEF ManagerRestart, StoreOp
<1> QED BY <1>1, <1>2, <1>3, <1>4 DEF ManagerNext

LEMMA NextIsOp ==
  ASSUME [Next]_vars
  PROVE  StoreOp
<1>1. CASE LocatorStep
  BY <1>1, LocatorIsOp DEF LocatorStep
<1>2. CASE ManagerStep
  BY <1>2, ManagerIsOp DEF ManagerStep
<1>3. CASE StoreStep
  BY <1>3, ReadIsOp DEF StoreStep, Sweep, StoreOp
<1>4. CASE UNCHANGED vars
  BY <1>4 DEF vars, StoreOp
<1> QED BY <1>1, <1>2, <1>3, <1>4 DEF Next

-----------------------------------------------------------------------------
(* What an operation does to one entry *)

\* An entry that is there was there before.
Kept(k) == k \in DOMAIN data' => k \in DOMAIN data /\ data'[k] = data[k]

LEMMA PutEntry ==
  ASSUME NEW j, NEW v, NEW ttl, Put(j, v, ttl)
  PROVE  j \in DOMAIN data' /\ data'[j] = v /\ \A k : k # j => Kept(k)
BY DEF Put, With, Kept

LEMMA DeleteEntry ==
  ASSUME NEW j, Delete(j)
  PROVE  j \notin DOMAIN data' /\ \A k : Kept(k)
BY DEF Delete, Without, Kept

LEMMA ReadEntry ==
  ASSUME NEW keys, Read(keys)
  PROVE  /\ \A k : Kept(k)
         /\ \A k \in keys : k \in DOMAIN data' => Exists(k)
BY DEF Read, Without, Kept, Touched, Exists

LEMMA OtherEntry ==
  ASSUME Tick \/ Sweep \/ Reopen \/ StoreUntouched
  PROVE  \A k : Kept(k)
<1>1. CASE Tick \/ StoreUntouched
  BY <1>1 DEF Tick, StoreUntouched, storeVars, Kept
<1>2. CASE Sweep
  BY <1>2, ReadEntry DEF Sweep
<1>3. CASE Reopen
  <2>1. data' = <<>> \/ data' = data
    BY <1>3 DEF Reopen
  <2> QED BY <2>1 DEF Kept
<1> QED BY <1>1, <1>2, <1>3

-----------------------------------------------------------------------------
(* The manager *)

LEMMA KeyFacts ==
  /\ NoKey \notin Shared
  /\ ProcessedItems \notin Shared /\ SavedState \notin Shared /\ SessionInfo \notin Shared
  /\ <<"queue", 0>> \notin Shared
  /\ Counter \in Shared /\ TrackerState \in Shared /\ Timing \in Shared
  /\ \A i \in Items : ErrorOf(i) \in Shared
BY DEF NoKey, Shared, ProcessedItems, SavedState, SessionInfo, Counter, TrackerState, Timing, ErrorOf

\* A key whose entry, count and updates a step leaves alone.
LEMMA StillUnmixed ==
  ASSUME NEW k, Unmixed(k), Kept(k), updates'[k] = updates[k],
         \A t \in Tasks : task'[t].key = k => task[t].key = k /\ task'[t].saw = task[t].saw
  PROVE  Unmixed(k)'
BY DEF Unmixed, Kept

\* No task has begun or ended an update.
LEMMA UnchangedUpdates ==
  ASSUME ManagerInv, UNCHANGED <<task, updates, mixed>>, \A k \in Shared : Kept(k)
  PROVE  ManagerInv'
<1>1. ASSUME NEW k \in Shared \ mixed' PROVE Unmixed(k)'
  BY <1>1, StillUnmixed DEF ManagerInv
<1> QED BY <1>1 DEF ManagerInv

\* A call that begins is by a task that is in no update.
LEMMA BeginTask ==
  ASSUME NEW t \in Tasks, Begin(t)
  PROVE  task[t] = NoUpdate /\ task[t].key = NoKey
BY DEF Begin, NoUpdate

LEMMA NotInUpdate ==
  ASSUME NEW t, NEW k, mixed' = Mixed(t, k), k \notin mixed'
  PROVE  k \notin mixed /\ mixed' = mixed /\ \A s \in Tasks \ {t} : task[s].key # k
<1>1. ~InUpdate(t, k)
  BY DEF Mixed
<1> QED BY <1>1 DEF Mixed, InUpdate

\* An entry put at zero, or deleted, while nobody is in an update of it.
LEMMA SaveOrClearKeeps ==
  ASSUME ManagerInv, NEW t \in Tasks, NEW i \in Items, SaveError(t, i) \/ ClearError(t, i)
  PROVE  ManagerInv'
<1> DEFINE e == ErrorOf(i)
<1>1. /\ Begin(t) /\ mixed' = Mixed(t, e) /\ task' = task
      /\ updates' = updates \/ updates' = [updates EXCEPT ![e] = 0]
      /\ \A k : k # e => Kept(k)
      /\ e \in DOMAIN data' => data'[e] = 0 /\ updates' = [updates EXCEPT ![e] = 0]
  <2>1. CASE SaveError(t, i)
    BY <2>1, PutEntry DEF SaveError
  <2>2. CASE ClearError(t, i)
    BY <2>2, DeleteEntry DEF ClearError
  <2> QED BY <2>1, <2>2
<1>2. task[t].key = NoKey /\ e \in Shared /\ e # NoKey
  BY <1>1, BeginTask, KeyFacts
<1> HIDE DEF e
<1>3. updates = [k \in Shared |-> updates[k]]
  BY DEF ManagerInv
<1>4. /\ updates' = [k \in Shared |-> updates'[k]]
      /\ \A k \in Shared \ {e} : updates'[k] = updates[k]
      /\ e \in DOMAIN data' => updates'[e] = 0
  BY <1>1, <1>2, <1>3
<1>5. ASSUME NEW k \in Shared \ mixed', k # e PROVE Unmixed(k)'
  <2>1. k \notin mixed
    BY <1>1, <1>5 DEF Mixed
  <2> QED BY <1>1, <1>4, <1>5, <2>1, StillUnmixed DEF ManagerInv
<1>6. ASSUME e \notin mixed' PROVE Unmixed(e)'
  <2>1. \A s \in Tasks : task[s].key # e
    BY <1>1, <1>2, <1>6, NotInUpdate
  <2> QED BY <1>1, <1>4, <2>1 DEF Unmixed
<1> QED BY <1>1, <1>4, <1>5, <1>6 DEF ManagerInv

\* An update reads the entry, and finds what was counted.
LEMMA BeginUpdateKeeps ==
  ASSUME ManagerInv, NEW t \in Tasks, NEW e \in Shared, BeginUpdate(t, e)
  PROVE  ManagerInv'
<1>1. /\ task[t].key = NoKey /\ e # NoKey
      /\ task' = [task EXCEPT ![t] = [key |-> e, saw |-> Get(e, 0), delete |-> {}]]
      /\ mixed' = Mixed(t, e)
      /\ updates' = IF Exists(e) THEN updates ELSE [updates EXCEPT ![e] = 0]
      /\ \A k : Kept(k)
      /\ e \in DOMAIN data' => Exists(e)
  <2>1. task[t].key = NoKey /\ e # NoKey
    BY BeginTask, KeyFacts DEF BeginUpdate
  <2>2. (\A k : Kept(k)) /\ (e \in DOMAIN data' => Exists(e))
    BY ReadEntry DEF BeginUpdate
  <2> QED BY <2>1, <2>2 DEF BeginUpdate
<1>2. /\ task = [s \in Tasks |->
                   [key |-> task[s].key, saw |-> task[s].saw, delete |-> task[s].delete]]
      /\ updates = [k \in Shared |-> updates[k]]
  BY DEF ManagerInv
<1>3. /\ task'[t] = [key |-> e, saw |-> Get(e, 0), delete |-> {}]
      /\ \A s \in Tasks \ {t} : task'[s] = task[s]
      /\ task' = [s \in Tasks |-> task'[s]]
  BY <1>1, <1>2
<1>4. task'[t].key = e /\ task'[t].saw = Get(e, 0) /\ task'[t].delete = {}
  BY <1>3
<1>5. task' = [s \in Tasks |->
        [key |-> task'[s].key, saw |-> task'[s].saw, delete |-> task'[s].delete]]
  <2>1. \A s \in Tasks : task'[s] = [key |-> task'[s].key, saw |-> task'[s].saw, delete |-> task'[s].delete]
    BY <1>2, <1>3, <1>4
  <2> QED BY <1>3, <2>1
<1>6. /\ updates' = [k \in Shared |-> updates'[k]]
      /\ \A k \in Shared \ {e} : updates'[k] = updates[k]
      /\ updates'[e] = IF Exists(e) THEN updates[e] ELSE 0
  BY <1>1, <1>2
<1>7. ASSUME NEW k \in Shared \ mixed', k # e PROVE Unmixed(k)'
  <2>1. k \notin mixed
    BY <1>1, <1>7 DEF Mixed
  <2>2. \A s \in Tasks : task'[s].key = k => task[s].key = k /\ task'[s].saw = task[s].saw
    BY <1>3, <1>4, <1>7
  <2> QED BY <1>1, <1>6, <1>7, <2>1, <2>2, StillUnmixed DEF ManagerInv
<1>8. ASSUME e \notin mixed' PROVE Unmixed(e)'
  <2>1. e \notin mixed /\ \A s \in Tasks \ {t} : task[s].key # e
    BY <1>1, <1>8, NotInUpdate
  <2>2. Unmixed(e)
    BY <2>1 DEF ManagerInv
  <2>3. \A s \in Tasks : task'[s].key = e => s = t
    BY <1>3, <2>1
  <2>4. Get(e, 0) = updates'[e]
    BY <1>6, <2>2 DEF Get, Exists, Unmixed
  <2>5. e \in DOMAIN data' => data'[e] = updates'[e]
    BY <1>1, <1>6, <2>2 DEF Kept, Unmixed
  <2> QED BY <1>4, <2>3, <2>4, <2>5 DEF Unmixed
<1>9. \A s \in Tasks : task'[s].delete # {} => task'[s].key = NoKey
  BY <1>3, <1>4 DEF ManagerInv
<1> QED BY <1>5, <1>6, <1>7, <1>8, <1>9 DEF ManagerInv

\* It writes one more than it read, which is one more than was counted.
LEMMA WriteKeeps ==
  ASSUME ManagerInv, NEW t \in Tasks, NEW e \in Shared, NEW ttl, Write(t, e, ttl)
  PROVE  ManagerInv'
<1>1. /\ task[t].key = e /\ mixed' = mixed
      /\ task' = [task EXCEPT ![t] = [key |-> NoKey, saw |-> 0, delete |-> {}]]
      /\ updates' = [updates EXCEPT ![e] = updates[e] + 1]
      /\ \A k : k # e => Kept(k)
      /\ data'[e] = task[t].saw + 1
  BY PutEntry DEF Write, NoUpdate, Incremented
<1>2. /\ task = [s \in Tasks |->
                   [key |-> task[s].key, saw |-> task[s].saw, delete |-> task[s].delete]]
      /\ updates = [k \in Shared |-> updates[k]]
  BY DEF ManagerInv
<1>3. /\ task'[t] = [key |-> NoKey, saw |-> 0, delete |-> {}]
      /\ \A s \in Tasks \ {t} : task'[s] = task[s]
      /\ task' = [s \in Tasks |-> task'[s]]
  BY <1>1, <1>2
<1>4. task'[t].key = NoKey /\ task'[t].saw = 0 /\ task'[t].delete = {} /\ e # NoKey
  BY <1>3, KeyFacts
<1>5. task' = [s \in Tasks |->
        [key |-> task'[s].key, saw |-> task'[s].saw, delete |-> task'[s].delete]]
  <2>1. \A s \in Tasks : task'[s] = [key |-> task'[s].key, saw |-> task'[s].saw, delete |-> task'[s].delete]
    BY <1>2, <1>3, <1>4
  <2> QED BY <1>3, <2>1
<1>6. /\ updates' = [k \in Shared |-> updates'[k]]
      /\ \A k \in Shared \ {e} : updates'[k] = updates[k]
      /\ updates'[e] = updates[e] + 1
  BY <1>1, <1>2
<1>7. ASSUME NEW k \in Shared \ mixed', k # e PROVE Unmixed(k)'
  <2>1. k # NoKey
    BY KeyFacts
  <2>2. \A s \in Tasks : task'[s].key = k => task[s].key = k /\ task'[s].saw = task[s].saw
    BY <1>3, <1>4, <2>1
  <2> QED BY <1>1, <1>6, <1>7, <2>2, StillUnmixed DEF ManagerInv
<1>8. ASSUME e \notin mixed' PROVE Unmixed(e)'
  <2>1. Unmixed(e)
    BY <1>1, <1>8 DEF ManagerInv
  <2>2. task[t].saw = updates[e] /\ \A s \in Tasks \ {t} : task[s].key # e
    BY <1>1, <2>1 DEF Unmixed
  <2>3. \A s \in Tasks : task'[s].key # e
    BY <1>3, <1>4, <2>2
  <2>4. data'[e] = updates'[e]
    BY <1>1, <1>6, <2>2
  <2> QED BY <2>3, <2>4 DEF Unmixed
<1>9. \A s \in Tasks : task'[s].delete # {} => task'[s].key = NoKey
  BY <1>3, <1>4 DEF ManagerInv
<1> QED BY <1>5, <1>6, <1>7, <1>8, <1>9 DEF ManagerInv

\* Clearing a range: a task takes note of the keys in it, and then deletes one after the other.
LEMMA ClearErrorsEffect ==
  ASSUME ManagerInv, NEW t \in Tasks, ClearErrors(t)
  PROVE  \E d, gone :
           /\ task[t].key = NoKey /\ updates' = updates
           /\ task' = [task EXCEPT ![t] = [key |-> NoKey, saw |-> task[t].saw, delete |-> d]]
           /\ \A k : Kept(k)
           /\ \/ calls' = calls + 1 /\ calls < MaxCalls /\ mixed' = mixed /\ d \subseteq DOMAIN data
              \/ /\ calls' = calls /\ mixed' = Mixed(t, gone)
                 /\ gone \in task[t].delete /\ d \subseteq task[t].delete
<1>1. CASE BeginClear(t)
  <2>1. task[t] = NoUpdate /\ task[t].key = NoKey
    BY <1>1, BeginTask DEF BeginClear
  <2>2. [NoUpdate EXCEPT !.delete = ErrorRange]
          = [key |-> NoKey, saw |-> task[t].saw, delete |-> ErrorRange]
    BY <2>1 DEF NoUpdate
  <2>3. \A k : Kept(k)
    BY <1>1, ReadEntry DEF BeginClear
  <2>4. ErrorRange \subseteq DOMAIN data /\ calls' = calls + 1 /\ calls < MaxCalls
    BY <1>1 DEF ErrorRange, RangeFrom, BeginClear, Begin
  <2>5. UNCHANGED <<updates, mixed>> /\ task' = [task EXCEPT ![t] = [NoUpdate EXCEPT !.delete = ErrorRange]]
    BY <1>1 DEF BeginClear
  <2> QED BY <2>1, <2>2, <2>3, <2>4, <2>5
<1>2. CASE ClearNext(t)
  <2>1. PICK k \in task[t].delete :
           /\ Delete(k) /\ mixed' = Mixed(t, k) /\ updates' = updates /\ calls' = calls
           /\ task' = [task EXCEPT ![t].delete = @ \ {k}]
    BY <1>2 DEF ClearNext
  <2>2. task[t].key = NoKey
    BY <2>1 DEF ManagerInv
  <2>3. task = [s \in Tasks |->
                 [key |-> task[s].key, saw |-> task[s].saw, delete |-> task[s].delete]]
    BY DEF ManagerInv
  <2>4. task' = [task EXCEPT ![t] = [key |-> NoKey, saw |-> task[t].saw, delete |-> task[t].delete \ {k}]]
    <3>1. task[t] = [key |-> NoKey, saw |-> task[t].saw, delete |-> task[t].delete]
      BY <2>2, <2>3
    <3>2. [task[t] EXCEPT !.delete = task[t].delete \ {k}]
            = [key |-> NoKey, saw |-> task[t].saw, delete |-> task[t].delete \ {k}]
      BY <3>1
    <3>3. task' = [task EXCEPT ![t] = [task[t] EXCEPT !.delete = task[t].delete \ {k}]]
      BY <2>1
    <3> QED BY <3>2, <3>3
  <2>5. \A j : Kept(j)
    BY <2>1, DeleteEntry
  <2>6. task[t].delete \ {k} \subseteq task[t].delete
    OBVIOUS
  <2> QED BY <2>1, <2>2, <2>4, <2>5, <2>6
<1> QED BY <1>1, <1>2 DEF ClearErrors

\* Clearing a range deletes entry by entry what another task may be updating.
LEMMA ClearErrorsKeeps ==
  ASSUME ManagerInv, NEW t \in Tasks, ClearErrors(t)
  PROVE  ManagerInv'
<1>1. PICK d, gone : /\ task[t].key = NoKey /\ updates' = updates
                     /\ mixed' = mixed \/ mixed' = Mixed(t, gone)
                     /\ task' = [task EXCEPT ![t] = [key |-> NoKey, saw |-> task[t].saw, delete |-> d]]
                     /\ \A k : Kept(k)
  BY ClearErrorsEffect
<1>2. task = [s \in Tasks |->
                [key |-> task[s].key, saw |-> task[s].saw, delete |-> task[s].delete]]
  BY DEF ManagerInv
<1>3. /\ task'[t] = [key |-> NoKey, saw |-> task[t].saw, delete |-> d]
      /\ \A s \in Tasks \ {t} : task'[s] = task[s]
      /\ task' = [s \in Tasks |-> task'[s]]
  BY <1>1, <1>2
<1>4. task'[t].key = NoKey /\ task'[t].saw = task[t].saw /\ task'[t].delete = d
  BY <1>3
<1>5. task' = [s \in Tasks |->
        [key |-> task'[s].key, saw |-> task'[s].saw, delete |-> task'[s].delete]]
  <2>1. \A s \in Tasks : task'[s] = [key |-> task'[s].key, saw |-> task'[s].saw, delete |-> task'[s].delete]
    BY <1>2, <1>3, <1>4
  <2> QED BY <1>3, <2>1
<1>6. ASSUME NEW k \in Shared \ mixed' PROVE Unmixed(k)'
  <2>1. k \notin mixed /\ k # NoKey
    BY <1>1, <1>6, KeyFacts DEF Mixed
  <2>2. \A s \in Tasks : task'[s].key = k => task[s].key = k /\ task'[s].saw = task[s].saw
    BY <1>3, <1>4, <2>1
  <2> QED BY <1>1, <2>1, <2>2, StillUnmixed DEF ManagerInv
<1>7. \A s \in Tasks : task'[s].delete # {} => task'[s].key = NoKey
  BY <1>3, <1>4 DEF ManagerInv
<1>8. updates' = [k \in Shared |-> updates'[k]]
  BY <1>1 DEF ManagerInv
<1> QED BY <1>5, <1>6, <1>7, <1>8 DEF ManagerInv

LEMMA ManagerKeeps ==
  ASSUME ManagerInv, ManagerNext \/ ManagerRestart \/ (\E t \in Tasks : QueuePut(t))
  PROVE  ManagerInv'
<1>1. ASSUME NEW t \in Tasks,
             SaveProcessedItems(t) \/ SaveManagedState(t) \/ SaveSessionInfo(t) \/ QueuePut(t)
      PROVE  ManagerInv'
  <2>1. UNCHANGED <<task, updates, mixed>>
    BY <1>1 DEF SaveProcessedItems, SaveManagedState, SaveSessionInfo, QueuePut
  <2>2. PICK j : j \notin Shared /\ \E v, ttl : Put(j, v, ttl)
    BY <1>1, KeyFacts DEF SaveProcessedItems, SaveManagedState, SaveSessionInfo, QueuePut
  <2>3. \A k \in Shared : Kept(k)
    BY <2>2, PutEntry
  <2> QED BY <2>1, <2>3, UnchangedUpdates
<1>2. ASSUME NEW t \in Tasks,
             IncrementCounter(t) \/ RecordProcessingTime(t) \/ UpdateState(t)
             \/ \E i \in Items : IncrementRetryCount(t, i)
      PROVE  ManagerInv'
  BY <1>2, KeyFacts, BeginUpdateKeeps, WriteKeeps
     DEF IncrementCounter, RecordProcessingTime, UpdateState, IncrementRetryCount, BeginRetry
<1>3. CASE ManagerRestart
  <2>1. task' = [t \in Tasks |-> NoUpdate] /\ UNCHANGED <<updates, mixed>> /\ \A k : Kept(k)
    BY <1>3, OtherEntry DEF ManagerRestart
  <2>2. \A t \in Tasks : /\ task'[t].key = NoKey /\ task'[t].delete = {}
                         /\ task'[t] = [key |-> task'[t].key, saw |-> task'[t].saw,
                                        delete |-> task'[t].delete]
    BY <2>1 DEF NoUpdate
  <2>3. task' = [t \in Tasks |->
          [key |-> task'[t].key, saw |-> task'[t].saw, delete |-> task'[t].delete]]
    BY <2>1, <2>2
  <2>4. ASSUME NEW k \in Shared \ mixed' PROVE Unmixed(k)'
    <3>1. k # NoKey
      BY KeyFacts
    <3> QED BY <2>1, <2>2, <3>1, StillUnmixed DEF ManagerInv
  <2> QED BY <2>1, <2>2, <2>3, <2>4 DEF ManagerInv
<1> QED BY <1>1, <1>2, <1>3, SaveOrClearKeeps, ClearErrorsKeeps DEF ManagerNext

-----------------------------------------------------------------------------
(* The locators' dates and their queue *)

\* The memory of a locator, with all its fields.
Whole(m) == m = [processed |-> m.processed, queue |-> m.queue, current |-> m.current,
                 initialized |-> m.initialized]

LEMMA ShortQueues ==
  ASSUME NEW c
  PROVE  ToSet(<<>>) = {} /\ ToSet(<<c>>) = {c} /\ <<c>> # <<>>
<1>1. DOMAIN <<>> = {} /\ DOMAIN <<c>> = {1} /\ <<c>>[1] = c
  OBVIOUS
<1>2. ToSet(<<>>) = {} /\ ToSet(<<c>>) = {c}
  BY <1>1 DEF ToSet
<1> QED BY <1>1, <1>2

\* A step to the next date leaves one date more behind.
LEMMA DateFacts ==
  ASSUME conf \in Configurations, conf.class # "single", NEW d \in Urls
  PROVE  /\ FirstDate \in Urls /\ Behind(FirstDate) = {}
         /\ NextDate(d) # NoDate => /\ NextDate(d) \in Urls
                                    /\ Behind(NextDate(d)) = Behind(d) \cup {d}
<1>1. LastDate \in Nat \ {0} /\ Urls = 1..LastDate /\ NoDate = 0
  BY LocatorAssumption DEF Urls, NoDate
<1>2. conf.class \in {"pagination", "complex", "reverse"}
  BY DEF Configurations
<1>3. CASE conf.class \in {"pagination", "complex"}
  <2>1. FirstDate = 1 /\ (NextDate(d) = NoDate \/ (d < LastDate /\ NextDate(d) = d + 1))
    BY <1>3 DEF FirstDate, PaginationFirst, ComplexFirst, NextDate, PaginationNext, ComplexNext
  <2>2. \A e : Behind(e) = {u \in Urls : u < e}
    BY <1>3 DEF Behind
  <2> QED BY <1>1, <2>1, <2>2
<1>4. CASE conf.class = "reverse"
  <2>1. FirstDate = LastDate /\ (NextDate(d) = NoDate \/ (d > 1 /\ NextDate(d) = d - 1))
    BY <1>4 DEF FirstDate, ReverseFirst, NextDate, ReverseNext
  <2>2. \A e : Behind(e) = {u \in Urls : u > e}
    BY <1>4 DEF Behind
  <2> QED BY <1>1, <2>1, <2>2
<1> QED BY <1>2, <1>3, <1>4

LEMMA GeneratedFacts ==
  ASSUME NEW m, Whole(m), m.queue = <<>>
  PROVE  LET g == Generated(m)
         IN /\ Whole(g) /\ g.processed = m.processed /\ g.current = m.current
            /\ g.initialized = m.initialized
            /\ g.queue = IF m.current \in conf.filter THEN <<m.current>> ELSE <<>>
<1>1. CASE m.current \in conf.filter
  <2>1. Append(m.queue, m.current) = <<m.current>>
    OBVIOUS
  <2>2. Generated(m) = [m EXCEPT !.queue = <<m.current>>]
    BY <1>1, <2>1 DEF Generated
  <2> QED BY <1>1, <2>2 DEF Whole
<1>2. CASE m.current \notin conf.filter
  BY <1>2 DEF Generated
<1> QED BY <1>1, <1>2

\* With nothing waiting, a locator that generates the URL of its date has reached that date, when
\* what lies behind the date is taken.
LEMMA GeneratedReaches ==
  ASSUME NEW m, Whole(m), m.queue = <<>>, m.current \in Urls,
         Behind(m.current) \cap conf.filter \subseteq popped
  PROVE  Reached(Generated(m))
<1> DEFINE g == Generated(m)
<1>1. /\ g.current = m.current
      /\ g.queue = IF m.current \in conf.filter THEN <<m.current>> ELSE <<>>
  BY GeneratedFacts
<1> HIDE DEF g
<1>2. ToSet(<<>>) = {} /\ ToSet(<<m.current>>) = {m.current}
  BY ShortQueues
<1>3. Reached(g)
  BY <1>1, <1>2 DEF Reached
<1> QED BY <1>3 DEF g

\* A step from a date with nothing waiting: all up to this date is taken.
LEMMA SteppedFacts ==
  ASSUME conf \in Configurations, conf.class # "single",
         NEW m, Whole(m), Reached(m), m.queue = <<>>
  PROVE  LET s == Stepped(m)
         IN Whole(s) /\ Reached(s) /\ s.processed = m.processed /\ s.initialized = m.initialized
<1>1. CASE m.current = NoDate \/ NextDate(m.current) = NoDate
  <2>1. Stepped(m) = m
    BY <1>1 DEF Stepped
  <2> QED BY <2>1
<1>2. CASE ~(m.current = NoDate \/ NextDate(m.current) = NoDate)
  <2> DEFINE n == [m EXCEPT !.current = NextDate(m.current)]
  <2>1. m.current \in Urls
    BY DEF Reached
  <2>2. /\ NextDate(m.current) \in Urls
        /\ Behind(NextDate(m.current)) = Behind(m.current) \cup {m.current}
    BY <1>2, <2>1, DateFacts
  <2>3. (Behind(m.current) \cup {m.current}) \cap conf.filter \subseteq popped
    BY ShortQueues DEF Reached
  <2>4. /\ Whole(n) /\ n.queue = <<>> /\ n.current = NextDate(m.current)
        /\ n.processed = m.processed /\ n.initialized = m.initialized
    BY DEF Whole
  <2>5. Stepped(m) = Generated(n)
    BY <1>2 DEF Stepped
  <2> HIDE DEF n
  <2>6. Reached(Generated(n))
    BY <2>2, <2>3, <2>4, GeneratedReaches
  <2>7. LET g == Generated(n)
        IN Whole(g) /\ g.processed = m.processed /\ g.initialized = m.initialized
    BY <2>4, GeneratedFacts
  <2> QED BY <2>5, <2>6, <2>7
<1> QED BY <1>1, <1>2

LEMMA AdvancedFacts ==
  ASSUME conf \in Configurations, conf.class # "single",
         NEW m, Whole(m), Reached(m), m.queue = <<>>, NEW refs \in BOOLEAN
  PROVE  LET s == Advanced(m, refs)
         IN Whole(s) /\ Reached(s) /\ s.processed = m.processed /\ s.initialized = m.initialized
<1> DEFINE m1 == IF refs THEN Stepped(m) ELSE m
<1>1. Whole(m1) /\ Reached(m1) /\ m1.processed = m.processed /\ m1.initialized = m.initialized
  BY SteppedFacts
<1>2. Advanced(m, refs) = IF m1.queue = <<>> THEN Stepped(m1) ELSE m1
  BY DEF Advanced
<1> HIDE DEF m1
<1>3. CASE m1.queue = <<>>
  <2>1. LET s == Stepped(m1)
        IN Whole(s) /\ Reached(s) /\ s.processed = m1.processed /\ s.initialized = m1.initialized
    BY <1>1, <1>3, SteppedFacts
  <2>2. Advanced(m, refs) = Stepped(m1)
    BY <1>2, <1>3
  <2> QED BY <1>1, <2>1, <2>2
<1>4. CASE m1.queue # <<>>
  <2>1. Advanced(m, refs) = m1
    BY <1>2, <1>4
  <2> QED BY <1>1, <2>1
<1> QED BY <1>3, <1>4

-----------------------------------------------------------------------------
(* What a locator goes by when it chooses *)

\* The restarts without a record, this one included.
AskBlanks ==
  IF ~mem.initialized /\ run.number > 1 /\ ~Exists(ProcessedKey) THEN run.blanks + 1
  ELSE run.blanks

\* Nothing outside the record has been handed out more often than there were such restarts.
Ready(m) ==
  /\ Whole(m)
  /\ mem.processed \subseteq m.processed /\ m.processed \subseteq popped
  /\ \A u \in Urls \ m.processed : given[u] <= AskBlanks

LEMMA BlanksGrow ==
  ASSUME Records
  PROVE  run.blanks \in Nat /\ AskBlanks \in Nat /\ run.blanks <= AskBlanks
BY DEF AskBlanks, Records

\* What a locator that is not informed reads as the record.
LEMMA RecordRead ==
  ASSUME LocatorInv, ~Informed, mem.initialized = FALSE
  PROVE  LET done == Get(ProcessedKey, {})
         IN done \subseteq popped /\ \A u \in Urls \ done : given[u] <= AskBlanks
<1> DEFINE done == Get(ProcessedKey, {})
<1>1. Records /\ OnRecord /\ InStep
  BY DEF LocatorInv
<1>2. /\ run.blanks \in Nat /\ AskBlanks \in Nat /\ run.blanks <= AskBlanks
      /\ given \in [Urls -> Nat] /\ run.number \in Nat \ {0}
  BY <1>1, BlanksGrow DEF Records
<1>3. CASE Exists(ProcessedKey)
  <2>1. Recorded /\ done = data[ProcessedKey]
    BY <1>3 DEF Exists, Get, Recorded
  <2>2. done \subseteq popped /\ \A u \in Urls \ done : given[u] <= run.blanks
    BY <1>1, <2>1 DEF OnRecord, InStep, Trusted
  <2> HIDE DEF done
  <2>3. \A u \in Urls \ done : given[u] <= AskBlanks
    BY <1>2, <2>2
  <2> QED BY <2>2, <2>3 DEF done
<1>4. CASE ~Exists(ProcessedKey)
  <2>1. done = {}
    BY <1>4 DEF Get
  <2>2. CASE run.number = 1
    <3>1. \A u \in Urls : given[u] <= run.blanks
      BY <1>1, <2>2 DEF OnRecord, Trusted
    <3>2. \A u \in Urls : given[u] <= AskBlanks
      BY <1>2, <3>1
    <3> QED BY <2>1, <3>2
  <2>3. CASE run.number # 1
    <3>1. AskBlanks = run.blanks + 1
      BY <1>2, <1>4, <2>3 DEF AskBlanks
    <3>2. \A u \in Urls : given[u] <= AskBlanks
      BY <1>1, <1>2, <3>1 DEF OnRecord, HandedOutOnce
    <3> QED BY <2>1, <3>2
  <2> QED BY <2>2, <2>3
<1> QED BY <1>3, <1>4

\* An informed locator goes by what it knows.
LEMMA InformedReady ==
  ASSUME LocatorInv, Informed
  PROVE  Ready(mem)
<1>1. Records /\ OnRecord /\ InStep
  BY DEF LocatorInv
<1>2. /\ run.blanks \in Nat /\ AskBlanks \in Nat /\ run.blanks <= AskBlanks
      /\ given \in [Urls -> Nat]
  BY <1>1, BlanksGrow DEF Records
<1>3. \A u \in Urls \ mem.processed : given[u] <= run.blanks
  BY <1>1 DEF OnRecord, Trusted
<1>4. \A u \in Urls \ mem.processed : given[u] <= AskBlanks
  BY <1>2, <1>3
<1> QED BY <1>1, <1>4 DEF Ready, Whole, Records, InStep

LEMMA LoadedFacts ==
  ASSUME LocatorInv, conf.class # "single"
  PROVE  LET m == Loaded
         IN /\ Ready(m) /\ Reached(m) /\ m.initialized = TRUE
            /\ m.queue # <<>> => Pending = {}
<1>1. Records /\ OnRecord /\ InStep
  BY DEF LocatorInv
<1>2. Informed <=> mem.initialized
  BY DEF Informed
<1>3. CASE mem.initialized
  <2>1. Loaded = mem
    BY <1>3 DEF Loaded
  <2>2. Reached(mem) /\ (mem.queue # <<>> => Pending = {})
    BY <1>1, <1>3 DEF InStep
  <2>3. Ready(mem)
    BY <1>2, <1>3, InformedReady
  <2>4. mem.initialized = TRUE
    BY <1>3
  <2> QED BY <2>1, <2>2, <2>3, <2>4
<1>4. CASE ~mem.initialized
  <2>1. mem = Fresh
    BY <1>1, <1>4 DEF InStep
  <2>2. mem.queue = <<>> /\ mem.processed = {} /\ mem.initialized = FALSE
    BY <2>1 DEF Fresh
  <2> DEFINE done == Get(ProcessedKey, {})
             at == Get(StateKey, NoDate)
             c == IF at = NoDate THEN FirstDate ELSE at
             m == [mem EXCEPT !.processed = done, !.current = at]
             n == [m EXCEPT !.current = IF @ = NoDate THEN FirstDate ELSE @, !.initialized = TRUE]
  <2>3. Loaded = Generated(n)
    BY <1>4 DEF Loaded
  <2>4. /\ done \subseteq popped
        /\ \A u \in Urls \ done : given[u] <= AskBlanks
    BY <1>2, <1>4, <2>2, RecordRead
  <2>5. c \in Urls /\ Behind(c) \cap conf.filter \subseteq popped
    <3>1. LastDate \in Nat \ {0} /\ conf \in Configurations
      BY <1>1, LocatorAssumption DEF Records
    <3>2. 1 \in Urls
      BY <3>1 DEF Urls
    <3>3. FirstDate \in Urls /\ Behind(FirstDate) = {}
      BY <3>1, <3>2, DateFacts
    <3>4. at # NoDate => at \in Urls /\ Behind(at) \cap conf.filter \subseteq popped
      BY <1>1 DEF InStep, Get, Exists
    <3> HIDE DEF at
    <3> QED BY <3>3, <3>4
  <2> HIDE DEF done, at
  <2>6. Whole(mem)
    BY <1>1 DEF Records, Whole
  <2>7. Whole(n) /\ n.processed = done /\ n.current = c /\ n.queue = <<>> /\ n.initialized = TRUE
    <3>1. m = [mem EXCEPT !.processed = done, !.current = at]
      OBVIOUS
    <3>2. n = [m EXCEPT !.current = IF @ = NoDate THEN FirstDate ELSE @, !.initialized = TRUE]
      OBVIOUS
    <3> HIDE DEF m, n
    <3>3. Whole(m) /\ m.processed = done /\ m.current = at /\ m.queue = <<>>
      BY <2>2, <2>6, <3>1 DEF Whole
    <3>4. Whole(n) /\ n.processed = done /\ n.queue = <<>> /\ n.initialized = TRUE
      BY <3>2, <3>3 DEF Whole
    <3>5. n.current = IF m.current = NoDate THEN FirstDate ELSE m.current
      BY <3>2, <3>3 DEF Whole
    <3> QED BY <3>3, <3>4, <3>5
  <2> HIDE DEF m, n, c
  <2>8. Reached(Generated(n))
    BY <2>5, <2>7, GeneratedReaches
  <2>9. LET g == Generated(n)
        IN Whole(g) /\ g.processed = done /\ g.initialized = TRUE
    BY <2>7, GeneratedFacts
  <2>10. Pending = {}
    <3>1. Working = {}
      BY <1>1, <1>2, <1>4 DEF OnRecord
    <3> QED BY <3>1 DEF Pending, Working, Busy
  <2>11. Ready(Generated(n))
    BY <2>2, <2>4, <2>9 DEF Ready
  <2> QED BY <2>3, <2>8, <2>9, <2>10, <2>11
<1> QED BY <1>3, <1>4

LEMMA SingleFacts ==
  ASSUME LocatorInv, conf.class = "single"
  PROVE  Ready(SingleLoaded) /\ SingleLoaded.initialized = FALSE
<1>1. Records /\ OnRecord /\ InStep
  BY DEF LocatorInv
<1>2. mem.initialized = FALSE /\ Whole(mem) /\ (Informed <=> mem.processed # {})
  BY <1>1 DEF Records, Informed, Whole
<1>3. CASE mem.processed # {}
  <2>1. SingleLoaded = mem
    BY <1>3 DEF SingleLoaded
  <2> QED BY <1>2, <1>3, <2>1, InformedReady
<1>4. CASE mem.processed = {}
  <2> DEFINE done == Get(ProcessedKey, {})
             left == Unprocessed(mem.queue, done)
  <2>1. done \subseteq popped /\ \A u \in Urls \ done : given[u] <= AskBlanks
    BY <1>2, <1>4, RecordRead
  <2>2. SingleLoaded = [mem EXCEPT !.processed = done, !.queue = left]
    BY <1>4 DEF SingleLoaded
  <2> HIDE DEF done, left
  <2>3. Whole(SingleLoaded) /\ SingleLoaded.processed = done /\ SingleLoaded.initialized = FALSE
    BY <1>2, <2>2 DEF Whole
  <2> QED BY <1>4, <2>1, <2>3 DEF Ready
<1> QED BY <1>3, <1>4

\* Nothing on record is chosen.
LEMMA ChosenIsNew ==
  ASSUME NEW m, NEW n
  PROVE  Chosen(m, n).refs \cap m.processed = {}
BY DEF Chosen

\* Of a date locator's queue everything is chosen that is not on record, and nothing stays.
LEMMA ChosenFacts ==
  ASSUME NEW m, Reached(m), NEW n \in Nat
  PROVE  LET choice == Chosen(m, n)
         IN /\ choice.left = <<>>
            /\ choice.refs \subseteq {m.current} /\ choice.refs \subseteq Urls
            /\ ToSet(m.queue) \subseteq choice.refs \cup m.processed
            /\ m.queue = <<>> => choice.refs = {}
<1> DEFINE new(k) == {m.queue[j] : j \in 1..k} \ m.processed
           enough == {k \in 1..Len(m.queue) : Cardinality(new(k)) = n}
           upto == IF enough = {} THEN Len(m.queue) ELSE Min(enough)
<1>1. Chosen(m, n) = [refs |-> new(upto), left |-> SubSeq(m.queue, upto + 1, Len(m.queue))]
  BY DEF Chosen
<1>2. ASSUME Len(m.queue) = 1 PROVE upto = 1
  <2>1. enough \subseteq {1}
    <3> DEFINE l == Len(m.queue)
    <3>1. enough \subseteq 1..l
      OBVIOUS
    <3>2. l = 1
      BY <1>2
    <3> HIDE DEF l, enough
    <3> QED BY <3>1, <3>2
  <2>2. CASE enough = {}
    BY <1>2, <2>2
  <2>3. CASE enough # {}
    <3> HIDE DEF enough
    <3>1. Min(enough) \in enough
      BY <2>1, <2>3, LeastNumber
    <3> QED BY <2>1, <2>3, <3>1
  <2> QED BY <2>2, <2>3
<1>3. ASSUME Len(m.queue) = 0 PROVE upto = 0
  <2>1. enough = {}
    <3> DEFINE l == Len(m.queue)
    <3>1. enough \subseteq 1..l
      OBVIOUS
    <3>2. l = 0
      BY <1>3
    <3> HIDE DEF l, enough
    <3> QED BY <3>1, <3>2
  <2> QED BY <1>3, <2>1
<1> HIDE DEF upto
<1>4. m.current \in Urls
  BY DEF Reached
<1>5. CASE m.queue = <<>>
  <2>1. Len(m.queue) = 0 /\ upto = 0
    BY <1>3, <1>5
  <2>2. SubSeq(m.queue, upto + 1, Len(m.queue)) = <<>>
    BY <1>5, <2>1
  <2>3. new(upto) = {}
    BY <2>1
  <2>4. ToSet(m.queue) = {}
    BY <1>5, ShortQueues
  <2> HIDE DEF new
  <2> QED BY <1>1, <2>2, <2>3, <2>4
<1>6. CASE m.queue = <<m.current>>
  <2> DEFINE c == m.current
  <2> HIDE DEF c
  <2>1. m.queue = <<c>>
    BY <1>6 DEF c
  <2>2. Len(m.queue) = 1 /\ upto = 1 /\ m.queue[1] = c
    BY <1>2, <2>1
  <2>3. SubSeq(m.queue, upto + 1, Len(m.queue)) = <<>>
    BY <2>1, <2>2
  <2>4. new(upto) = {c} \ m.processed
    BY <2>2
  <2>5. ToSet(m.queue) = {c} /\ m.queue # <<>>
    BY <2>1, ShortQueues
  <2> HIDE DEF new
  <2> QED BY <1>1, <1>4, <2>3, <2>4, <2>5 DEF c
<1> QED BY <1>5, <1>6 DEF Reached

-----------------------------------------------------------------------------
(* get_next_bundle_refs *)

LEMMA LocatorKeys ==
  /\ ProcessedKey # StateKey
  /\ ProcessedKey \notin Shared /\ StateKey \notin Shared
  /\ \A u : /\ ResultKey(u) # ProcessedKey /\ ResultKey(u) # StateKey /\ ResultKey(u) \notin Shared
            /\ ErrorKey(u) # ProcessedKey /\ ErrorKey(u) # StateKey
BY DEF ProcessedKey, StateKey, ResultKey, ErrorKey, Shared, Counter, TrackerState, Timing, ErrorOf

\* What every request for URLs does, saved or not.
LEMMA AskEffect ==
  ASSUME LocatorInv, NEW m, NEW n, Ask(m, n), Whole(m)
  PROVE  LET refs == Chosen(m, n).refs
         IN /\ ask.at = "idle" /\ ask.refs = {} /\ UNCHANGED <<conf, given>>
            /\ Whole(mem)' /\ mem'.queue = Chosen(m, n).left
            /\ mem'.processed = m.processed \cup refs
            /\ mem'.current = m.current /\ mem'.initialized = m.initialized
            /\ popped' = popped \cup refs
            /\ run'.number = run.number /\ run'.blanks = AskBlanks
            /\ run' = [number |-> run'.number, retired |-> run'.retired, faults |-> run'.faults,
                       blanks |-> run'.blanks, cut |-> run'.cut]
            /\ ask' = [at |-> ask'.at, refs |-> ask'.refs] /\ (ask'.at = "idle" => ask'.refs = {})
            /\ \/ /\ ProcessedKey \in DOMAIN data' /\ data'[ProcessedKey] = mem'.processed
                  /\ \A k : k # ProcessedKey => Kept(k)
                  /\ ask'.refs = refs
                  /\ stage' = [u \in Urls |-> IF u \in refs THEN "chosen" ELSE stage[u]]
               \/ /\ \A k : Kept(k)
                  /\ ask'.refs = {}
                  /\ stage' = [u \in Urls |-> IF u \in refs THEN "lost" ELSE stage[u]]
<1> DEFINE choice == Chosen(m, n)
           refs == choice.refs
           left == choice.left
           m1 == [m EXCEPT !.queue = left, !.processed = m.processed \cup refs]
           blank == ~mem.initialized /\ run.number > 1 /\ ~Exists(ProcessedKey)
<1>1. Records
  BY DEF LocatorInv
<1>2. ask.at = "idle" /\ ask.refs = {} /\ UNCHANGED <<conf, given>> /\ mem' = m1
      /\ popped' = popped \cup refs
  BY <1>1 DEF Ask, MarkedProcessed, Records
<1>3. \/ /\ Put(ProcessedKey, m1.processed, StateTtl)
         /\ ask' = [at |-> IF conf.class = "single" THEN "return" ELSE "save_state", refs |-> refs]
         /\ stage' = [u \in Urls |-> IF u \in refs THEN "chosen" ELSE stage[u]]
         /\ run' = [run EXCEPT !.blanks = IF blank THEN @ + 1 ELSE @]
      \/ /\ run' = [run EXCEPT !.faults = @ + 1, !.cut = TRUE,
                               !.blanks = IF blank THEN @ + 1 ELSE @]
         /\ stage' = [u \in Urls |-> IF u \in refs THEN "lost" ELSE stage[u]]
         /\ ask' = NoAsk
         /\ StoreUntouched
  BY DEF Ask, MarkedProcessed
<1>4. /\ run'.number = run.number /\ run'.blanks = AskBlanks
      /\ run' = [number |-> run'.number, retired |-> run'.retired, faults |-> run'.faults,
                 blanks |-> run'.blanks, cut |-> run'.cut]
  <2>1. AskBlanks = IF blank THEN run.blanks + 1 ELSE run.blanks
    BY DEF AskBlanks
  <2>2. run = [number |-> run.number, retired |-> run.retired, faults |-> run.faults,
               blanks |-> run.blanks, cut |-> run.cut]
    BY <1>1 DEF Records
  <2> HIDE DEF blank
  <2> QED BY <1>3, <2>1, <2>2
<1>5. /\ Whole(mem)' /\ mem'.queue = left /\ mem'.processed = m.processed \cup refs
      /\ mem'.current = m.current /\ mem'.initialized = m.initialized
  <2> HIDE DEF choice, refs, left
  <2> QED BY <1>2 DEF Whole
<1>6. /\ ask' = [at |-> ask'.at, refs |-> ask'.refs] /\ (ask'.at = "idle" => ask'.refs = {})
  <2> HIDE DEF refs, blank
  <2> QED BY <1>3 DEF NoAsk
<1>7. \/ /\ ProcessedKey \in DOMAIN data' /\ data'[ProcessedKey] = mem'.processed
         /\ \A k : k # ProcessedKey => Kept(k)
         /\ ask'.refs = refs
         /\ stage' = [u \in Urls |-> IF u \in refs THEN "chosen" ELSE stage[u]]
      \/ /\ \A k : Kept(k)
         /\ ask'.refs = {}
         /\ stage' = [u \in Urls |-> IF u \in refs THEN "lost" ELSE stage[u]]
  <2> HIDE DEF refs, blank, m1
  <2> QED BY <1>2, <1>3, PutEntry, OtherEntry DEF NoAsk
<1> HIDE DEF refs, left, m1, blank
<1> QED BY <1>2, <1>4, <1>5, <1>6, <1>7 DEF refs, left

\* What a request needs to know of the memory it goes by.
LEMMA AskKeeps ==
  ASSUME LocatorInv, NEW m, NEW n \in Nat, Ask(m, n), Ready(m),
         IF conf.class = "single" THEN m.initialized = FALSE
         ELSE Reached(m) /\ m.initialized = TRUE /\ (m.queue # <<>> => Pending = {})
  PROVE  LocatorInv'
<1> DEFINE choice == Chosen(m, n)
           refs == choice.refs
<1>1. Records /\ OnRecord /\ InStep
  BY DEF LocatorInv
<1>2. /\ ask.at = "idle" /\ ask.refs = {} /\ UNCHANGED <<conf, given>>
      /\ Whole(mem)' /\ mem'.queue = choice.left
      /\ mem'.processed = m.processed \cup refs
      /\ mem'.current = m.current /\ mem'.initialized = m.initialized
      /\ popped' = popped \cup refs
      /\ run'.number = run.number /\ run'.blanks = AskBlanks
      /\ run' = [number |-> run'.number, retired |-> run'.retired, faults |-> run'.faults,
                 blanks |-> run'.blanks, cut |-> run'.cut]
      /\ ask' = [at |-> ask'.at, refs |-> ask'.refs] /\ (ask'.at = "idle" => ask'.refs = {})
  BY AskEffect DEF Ready
<1>3. \/ /\ ProcessedKey \in DOMAIN data' /\ data'[ProcessedKey] = mem'.processed
         /\ \A k : k # ProcessedKey => Kept(k)
         /\ ask'.refs = refs
         /\ stage' = [u \in Urls |-> IF u \in refs THEN "chosen" ELSE stage[u]]
      \/ /\ \A k : Kept(k)
         /\ ask'.refs = {}
         /\ stage' = [u \in Urls |-> IF u \in refs THEN "lost" ELSE stage[u]]
  BY AskEffect DEF Ready
<1>4. refs \cap m.processed = {}
  BY ChosenIsNew
<1>5. conf.class # "single" =>
        /\ choice.left = <<>> /\ refs \subseteq {m.current} /\ refs \subseteq Urls
        /\ ToSet(m.queue) \subseteq refs \cup m.processed
        /\ m.queue = <<>> => refs = {}
  BY ChosenFacts
<1> HIDE DEF choice, refs
<1>6. /\ run.blanks \in Nat /\ AskBlanks \in Nat /\ run.blanks <= AskBlanks
      /\ given \in [Urls -> Nat]
  BY <1>1, BlanksGrow DEF Records
<1>7. /\ mem.processed \subseteq m.processed /\ m.processed \subseteq popped
      /\ \A u \in Urls \ m.processed : given[u] <= AskBlanks
  BY DEF Ready
<1>8. Informed => Informed'
  BY <1>2, <1>7 DEF Informed
<1>9. Working' \subseteq Working \cup ask'.refs
  <2>1. \A u \in Urls : stage'[u] \in Busy => stage[u] \in Busy \/ u \in ask'.refs
    BY <1>3 DEF Busy
  <2> QED BY <2>1 DEF Working, Busy
<1>10. Records'
  <2>1. stage' = [u \in Urls |-> stage'[u]]
    BY <1>3
  <2>2. run'.number \in Nat \ {0} /\ run'.blanks \in Nat
    BY <1>1, <1>2, <1>6 DEF Records
  <2>3. given' \in [Urls -> Nat] /\ conf' \in Configurations
    BY <1>1, <1>2 DEF Records, Configurations, Urls
  <2>4. (conf.class = "single" => mem.initialized = FALSE)'
    BY <1>2
  <2> QED BY <1>2, <2>1, <2>2, <2>3, <2>4 DEF Records, Whole
<1>11. OnRecord'
  <2>1. HandedOutOnce'
    <3>1. \A u \in Urls : given[u] <= 1 + run.blanks
      BY <1>1 DEF OnRecord, HandedOutOnce
    <3>2. \A u \in Urls : given'[u] <= 1 + run'.blanks
      BY <1>2, <1>6, <3>1
    <3> QED BY <3>2 DEF HandedOutOnce, Urls
  <2>2. (Trusted(mem.processed))'
    BY <1>2, <1>7 DEF Trusted, Urls
  <2>3. ask'.refs \subseteq refs
    BY <1>3
  <2>4. (\A u \in Urls \cap ask.refs : given[u] <= run.blanks)'
    BY <1>2, <1>4, <1>7, <2>3 DEF Urls
  <2>5. (ask.refs \subseteq mem.processed)'
    BY <1>2, <2>3
  <2>6. (Working \cup ask.refs # {} => Informed)'
    <3>1. Working # {} => Informed'
      BY <1>1, <1>8 DEF OnRecord
    <3>2. ask'.refs # {} => Informed'
      BY <1>2, <2>3 DEF Informed
    <3> QED BY <1>9, <3>1, <3>2
  <2>7. (~Informed /\ run.number = 1 => Trusted({}))'
    <3>1. ~Informed' => mem'.processed = {}
      BY <1>2 DEF Informed
    <3> QED BY <2>2, <3>1
  <2>8. (Recorded => Trusted(data[ProcessedKey]) /\ ask.refs \subseteq data[ProcessedKey])'
    <3>1. CASE data'[ProcessedKey] = mem'.processed
      BY <2>2, <2>5, <3>1
    <3>2. CASE Kept(ProcessedKey) /\ ask'.refs = {}
      <4> SUFFICES ASSUME Recorded' PROVE Trusted(data[ProcessedKey])'
        BY <3>2
      <4>1. Recorded /\ data'[ProcessedKey] = data[ProcessedKey]
        BY <3>2 DEF Kept, Recorded, ProcessedKey
      <4>2. \A u \in Urls \ data[ProcessedKey] : given[u] <= run.blanks
        BY <1>1, <4>1 DEF OnRecord, Trusted
      <4>3. \A u \in Urls \ data[ProcessedKey] : given[u] <= AskBlanks
        BY <1>6, <4>2
      <4> QED BY <1>2, <4>1, <4>3 DEF Trusted, Urls, ProcessedKey
    <3> QED BY <1>3, <3>1, <3>2
  <2> QED BY <2>1, <2>2, <2>4, <2>5, <2>6, <2>7, <2>8 DEF OnRecord
<1>12. (mem.processed \cup ask.refs \cup Working \subseteq popped)'
  <2>1. Working \subseteq popped
    BY <1>1 DEF InStep
  <2> QED BY <1>2, <1>3, <1>7, <1>9, <2>1
<1>13. (Recorded => data[ProcessedKey] \subseteq popped)'
  BY <1>1, <1>2, <1>3, <1>12 DEF InStep, Kept, Recorded, ProcessedKey
<1>14. ASSUME conf.class # "single"
       PROVE  /\ mem'.initialized /\ Reached(mem)' /\ mem'.queue = <<>>
              /\ ask'.refs = {u \in Urls : stage'[u] = "chosen"}
              /\ \A u, v \in Pending' : u = v
              /\ StateKey \in DOMAIN data' =>
                   data'[StateKey] \in Urls /\ (Behind(data[StateKey]) \cap conf.filter)' \subseteq popped'
  <2>1. mem'.initialized /\ mem'.queue = <<>>
    BY <1>2, <1>5, <1>14
  <2>2. Reached(mem)'
    <3>1. /\ m.current \in Urls
          /\ (Behind(m.current) \cup {m.current}) \cap conf.filter \subseteq popped \cup ToSet(m.queue)
      BY <1>14 DEF Reached
    <3>2. (Behind(m.current) \cup {m.current}) \cap conf.filter \subseteq popped'
      BY <1>2, <1>5, <1>7, <1>14, <3>1
    <3>3. Behind(mem.current)' = Behind(m.current)
      BY <1>2 DEF Behind, Urls
    <3> QED BY <1>2, <2>1, <3>1, <3>2, <3>3 DEF Reached, Urls
  <2>3. {u \in Urls : stage[u] = "chosen"} = {}
    BY <1>1, <1>2, <1>14 DEF InStep
  <2>4. ask'.refs = {u \in Urls : stage'[u] = "chosen"}
    BY <1>3, <1>5, <1>14, <2>3
  <2>5. Pending' \subseteq Pending \cup refs
    <3>1. \A u \in Urls : stage'[u] \in {"chosen", "handed", "recorded"} =>
            stage[u] \in {"chosen", "handed", "recorded"} \/ u \in refs
      BY <1>3
    <3> QED BY <3>1 DEF Pending
  <2>6. \A u, v \in Pending' : u = v
    <3>1. CASE refs = {}
      BY <1>1, <1>14, <2>5, <3>1 DEF InStep
    <3>2. CASE refs # {}
      BY <1>5, <1>14, <2>5, <3>2
    <3> QED BY <3>1, <3>2
  <2>7. ASSUME StateKey \in DOMAIN data'
        PROVE  data'[StateKey] \in Urls /\ (Behind(data[StateKey]) \cap conf.filter)' \subseteq popped'
    <3>1. StateKey \in DOMAIN data /\ data'[StateKey] = data[StateKey]
      BY <1>3, <2>7, LocatorKeys DEF Kept
    <3>2. data[StateKey] \in Urls /\ Behind(data[StateKey]) \cap conf.filter \subseteq popped
      BY <1>1, <1>14, <3>1 DEF InStep
    <3>3. Behind(data[StateKey])' = Behind(data[StateKey])
      BY <1>2, <3>1 DEF Behind, Urls, StateKey
    <3> QED BY <1>2, <3>1, <3>2, <3>3
  <2> QED BY <2>1, <2>2, <2>4, <2>6, <2>7
<1>15. InStep'
  BY <1>2, <1>12, <1>13, <1>14 DEF InStep, Urls, StateKey
<1> QED BY <1>10, <1>11, <1>15 DEF LocatorInv

LEMMA AskStepKeeps ==
  ASSUME LocatorInv, NEW n \in 1..LastDate,
         PaginationAsk(n) \/ ComplexAsk(n) \/ ReverseAsk(n) \/ SingleAsk(n)
  PROVE  LocatorInv'
<1>1. n \in Nat
  BY LocatorAssumption
<1>2. CASE SingleAsk(n)
  <2>1. conf.class = "single" /\ Ask(SingleLoaded, n)
    BY <1>2 DEF SingleAsk
  <2>2. Ready(SingleLoaded) /\ SingleLoaded.initialized = FALSE
    BY <2>1, SingleFacts
  <2> QED BY <1>1, <2>1, <2>2, AskKeeps
<1>3. CASE PaginationAsk(n) \/ ComplexAsk(n) \/ ReverseAsk(n)
  <2>1. conf.class # "single" /\ Ask(Loaded, n)
    BY <1>3 DEF PaginationAsk, ComplexAsk, ReverseAsk
  <2>2. LET m == Loaded
        IN Ready(m) /\ Reached(m) /\ m.initialized = TRUE /\ (m.queue # <<>> => Pending = {})
    BY <2>1, LoadedFacts
  <2> QED BY <1>1, <2>1, <2>2, AskKeeps
<1> QED BY <1>2, <1>3

\* The position in memory: what lies behind it is taken, and no more than its own URL waits.
LEMMA PositionFacts ==
  ASSUME Reached(mem)
  PROVE  mem.current \in Urls /\ Behind(mem.current) \cap conf.filter \subseteq popped
<1> DEFINE c == mem.current
<1>1. /\ c \in Urls /\ (mem.queue = <<>> \/ mem.queue = <<c>>)
      /\ (Behind(c) \cup {c}) \cap conf.filter \subseteq popped \cup ToSet(mem.queue)
  BY DEF Reached
<1>2. ToSet(mem.queue) \subseteq {c}
  BY <1>1, ShortQueues
<1>3. c \notin Behind(c)
  <2>1. c \in Int
    BY <1>1, LocatorAssumption DEF Urls
  <2> QED BY <2>1 DEF Behind
<1> QED BY <1>1, <1>2, <1>3

\* A step that leaves the record alone and ends no run.
LEMMA SaveStateKeeps ==
  ASSUME LocatorInv, SaveState
  PROVE  LocatorInv'
<1>1. Records /\ OnRecord /\ InStep
  BY DEF LocatorInv
<1>2. /\ ask.at = "save_state" /\ UNCHANGED <<conf, mem, given, popped>>
      /\ \/ /\ StateKey \in DOMAIN data' /\ data'[StateKey] = mem.current
            /\ ask' = [ask EXCEPT !.at = "return"] /\ UNCHANGED <<run, stage>>
         \/ /\ Kept(StateKey)
            /\ ask' = NoAsk /\ run' = [run EXCEPT !.faults = @ + 1, !.cut = TRUE]
            /\ stage' = [u \in Urls |-> IF u \in ask.refs THEN "lost" ELSE stage[u]]
      /\ Kept(ProcessedKey)
  BY PutEntry, OtherEntry, LocatorKeys DEF SaveState, Raises
<1>3. /\ ask' = [at |-> ask'.at, refs |-> ask'.refs] /\ ask'.refs \subseteq ask.refs
      /\ ask'.at = "idle" => ask'.refs = {}
      /\ \/ ask'.refs = ask.refs /\ stage' = stage
         \/ /\ ask'.refs = {}
            /\ stage' = [u \in Urls |-> IF u \in ask.refs THEN "lost" ELSE stage[u]]
  BY <1>1, <1>2 DEF Records, NoAsk
<1>4. /\ run'.number = run.number /\ run'.blanks = run.blanks
      /\ run' = [number |-> run'.number, retired |-> run'.retired, faults |-> run'.faults,
                 blanks |-> run'.blanks, cut |-> run'.cut]
  BY <1>1, <1>2 DEF Records
<1>5. Working' \subseteq Working /\ Pending' \subseteq Pending
  BY <1>3 DEF Working, Pending, Busy
<1>6. (Informed <=> Informed') /\ (Recorded' => Recorded /\ data'[ProcessedKey] = data[ProcessedKey])
  BY <1>2 DEF Informed, Kept, Recorded, ProcessedKey
<1>7. Records'
  <2>1. stage' = [u \in Urls |-> stage'[u]]
    BY <1>1, <1>3 DEF Records
  <2> QED BY <1>1, <1>2, <1>3, <1>4, <2>1 DEF Records, Configurations, Urls
<1>8. OnRecord'
  BY <1>1, <1>2, <1>3, <1>4, <1>5, <1>6 DEF OnRecord, HandedOutOnce, Trusted, Urls, ProcessedKey
<1>9. ASSUME conf.class # "single"
      PROVE  /\ mem'.initialized /\ Reached(mem)'
             /\ ask'.refs = {u \in Urls : stage'[u] = "chosen"}
             /\ mem'.queue # <<>> => Pending' = {}
             /\ \A u, v \in Pending' : u = v
             /\ StateKey \in DOMAIN data' =>
                  data'[StateKey] \in Urls /\ (Behind(data[StateKey]) \cap conf.filter)' \subseteq popped'
  <2>1. mem.initialized /\ Reached(mem)
    BY <1>1, <1>2, <1>9 DEF InStep
  <2>2. Reached(mem)'
    BY <1>2, <2>1 DEF Reached, Behind, Urls
  <2>3. ask'.refs = {u \in Urls : stage'[u] = "chosen"}
    BY <1>1, <1>3, <1>9 DEF InStep
  <2>4. ASSUME StateKey \in DOMAIN data'
        PROVE  data'[StateKey] \in Urls /\ (Behind(data[StateKey]) \cap conf.filter)' \subseteq popped'
    <3>1. \A d : Behind(d)' = Behind(d)
      BY <1>2 DEF Behind, Urls
    <3>2. CASE data'[StateKey] = mem.current
      <4>1. Behind(data[StateKey])' = Behind(mem.current)
        BY <1>2, <3>2 DEF Behind, Urls, StateKey
      <4> QED BY <1>2, <2>1, <3>2, <4>1, PositionFacts
    <3>3. CASE Kept(StateKey)
      <4>1. StateKey \in DOMAIN data /\ data'[StateKey] = data[StateKey]
        BY <2>4, <3>3 DEF Kept
      <4>2. Behind(data[StateKey])' = Behind(data[StateKey])
        BY <1>2, <4>1 DEF Behind, Urls, StateKey
      <4> QED BY <1>1, <1>2, <1>9, <4>1, <4>2 DEF InStep
    <3> QED BY <1>2, <3>2, <3>3
  <2> QED BY <1>1, <1>2, <1>5, <1>9, <2>1, <2>2, <2>3, <2>4 DEF InStep
<1>10. InStep'
  BY <1>1, <1>2, <1>3, <1>5, <1>6, <1>9 DEF InStep, Urls, StateKey
<1> QED BY <1>7, <1>8, <1>10 DEF LocatorInv

\* What is handed out is on record already.
LEMMA ReturnKeeps ==
  ASSUME LocatorInv, Return
  PROVE  LocatorInv'
<1>1. Records /\ OnRecord /\ InStep
  BY DEF LocatorInv
<1>2. /\ ask.at = "return" /\ ask' = NoAsk
      /\ stage' = [u \in Urls |-> IF u \in ask.refs THEN "handed" ELSE stage[u]]
      /\ given' = [u \in Urls |-> IF u \in ask.refs THEN given[u] + 1 ELSE given[u]]
      /\ run' = [run EXCEPT !.retired = (ask.refs = {})]
      /\ UNCHANGED <<conf, mem, popped, data>>
  BY DEF Return, StoreUntouched, storeVars
<1>3. /\ ask' = [at |-> ask'.at, refs |-> ask'.refs] /\ ask'.refs = {}
      /\ run'.number = run.number /\ run'.blanks = run.blanks
      /\ run' = [number |-> run'.number, retired |-> run'.retired, faults |-> run'.faults,
                 blanks |-> run'.blanks, cut |-> run'.cut]
  BY <1>1, <1>2 DEF Records, NoAsk
<1>4. given' \in [Urls -> Nat] /\ run.blanks \in Nat /\ given \in [Urls -> Nat]
  BY <1>1, <1>2 DEF Records
<1>5. Records'
  BY <1>1, <1>2, <1>3, <1>4 DEF Records, Configurations, Urls
<1>6. Working' \subseteq Working \cup ask.refs /\ (Informed <=> Informed') /\ (Recorded <=> Recorded')
  <2>1. (Informed <=> Informed') /\ (Recorded <=> Recorded')
    BY <1>2 DEF Informed, Recorded, ProcessedKey
  <2> QED BY <1>2, <2>1 DEF Working, Busy
<1>7. \A record : ask.refs \subseteq record /\ Trusted(record) =>
                    \A u \in Urls \ record : given'[u] <= run'.blanks
  BY <1>2, <1>3 DEF Trusted
<1>8. OnRecord'
  <2>1. HandedOutOnce'
    <3>1. ASSUME NEW u \in Urls PROVE given'[u] <= 1 + run'.blanks
      <4>1. given[u] \in Nat /\ given[u] <= 1 + run.blanks /\ (u \in ask.refs => given[u] <= run.blanks)
        BY <1>1, <1>4 DEF OnRecord, HandedOutOnce
      <4>2. given'[u] = IF u \in ask.refs THEN given[u] + 1 ELSE given[u]
        BY <1>2
      <4> QED BY <1>3, <1>4, <4>1, <4>2
    <3> QED BY <3>1 DEF HandedOutOnce, Urls
  <2>2. (Informed => Trusted(mem.processed))'
    BY <1>1, <1>2, <1>6, <1>7 DEF OnRecord, Trusted, Urls
  <2>3. (~Informed /\ run.number = 1 => Trusted({}))'
    <3>1. ~Informed => ask.refs = {}
      BY <1>1 DEF OnRecord
    <3> QED BY <1>1, <1>3, <1>6, <1>7, <3>1 DEF OnRecord, Trusted, Urls
  <2>4. (Recorded => Trusted(data[ProcessedKey]))'
    BY <1>1, <1>2, <1>6, <1>7 DEF OnRecord, Trusted, Urls, ProcessedKey
  <2>5. (Working \cup ask.refs # {} => Informed)'
    BY <1>1, <1>3, <1>6 DEF OnRecord
  <2> QED BY <1>3, <2>1, <2>2, <2>3, <2>4, <2>5 DEF OnRecord
<1>9. ASSUME conf.class # "single"
      PROVE  /\ mem'.initialized /\ Reached(mem)'
             /\ ask'.refs = {u \in Urls : stage'[u] = "chosen"}
             /\ mem'.queue # <<>> => Pending' = {}
             /\ \A u, v \in Pending' : u = v
  <2>1. mem.initialized /\ Reached(mem)
    BY <1>1, <1>2, <1>9 DEF InStep
  <2>2. Reached(mem)'
    BY <1>2, <2>1 DEF Reached, Behind, Urls
  <2>3. ask.refs = {u \in Urls : stage[u] = "chosen"}
    BY <1>1, <1>9 DEF InStep
  <2>4. {u \in Urls : stage'[u] = "chosen"} = {} /\ Pending' \subseteq Pending
    BY <1>2, <2>3 DEF Pending
  <2> QED BY <1>1, <1>2, <1>3, <1>9, <2>1, <2>2, <2>4 DEF InStep
<1>10. InStep'
  BY <1>1, <1>2, <1>3, <1>6, <1>9 DEF InStep, Behind, Urls, StateKey, ProcessedKey, Recorded
<1> QED BY <1>5, <1>8, <1>10 DEF LocatorInv

-----------------------------------------------------------------------------
(* handle_bundle_processed and handle_bundle_error *)

\* The part of every handler's step that is not about the memory.
Handled(u) ==
  /\ stage' = [v \in Urls |-> IF v = u THEN stage'[u] ELSE stage[v]]
  /\ UNCHANGED <<conf, ask, given, popped>>
  /\ run'.number = run.number /\ run'.blanks = run.blanks
  /\ run' = [number |-> run'.number, retired |-> run'.retired, faults |-> run'.faults,
             blanks |-> run'.blanks, cut |-> run'.cut]

LEMMA StepEffect ==
  ASSUME Records, NEW u \in Urls, NEW from, NEW to, NEW key, NEW value, NEW ttl,
         Step(u, from, to, key, value, ttl)
  PROVE  /\ stage[u] = from /\ stage'[u] \in {to, "failed"} /\ Handled(u)
         /\ \A k : Kept(k) \/ (k = key /\ data'[k] = value)
<1>1. /\ stage[u] = from /\ UNCHANGED <<conf, ask, given, popped>>
      /\ \/ /\ Put(key, value, ttl) /\ stage' = [stage EXCEPT ![u] = to]
            /\ run' = [run EXCEPT !.cut = run.cut \/ to \in Failing]
         \/ /\ run' = [run EXCEPT !.faults = @ + 1, !.cut = TRUE]
            /\ stage' = [stage EXCEPT ![u] = "failed"] /\ StoreUntouched
  BY DEF Step, To, Raises
<1>2. /\ stage = [v \in Urls |-> stage[v]]
      /\ run = [number |-> run.number, retired |-> run.retired, faults |-> run.faults,
                blanks |-> run.blanks, cut |-> run.cut]
  BY DEF Records
<1>3. /\ stage'[u] \in {to, "failed"}
      /\ stage' = [v \in Urls |-> IF v = u THEN stage'[u] ELSE stage[v]]
  BY <1>1, <1>2
<1>4. /\ run'.number = run.number /\ run'.blanks = run.blanks
      /\ run' = [number |-> run'.number, retired |-> run'.retired, faults |-> run'.faults,
                 blanks |-> run'.blanks, cut |-> run'.cut]
  <2> DEFINE cut == run.cut \/ to \in Failing
  <2>1. run' = [run EXCEPT !.cut = cut] \/ run' = [run EXCEPT !.faults = run.faults + 1, !.cut = TRUE]
    BY <1>1
  <2> HIDE DEF cut
  <2> QED BY <1>2, <2>1
<1>5. \A k : Kept(k) \/ (k = key /\ data'[k] = value)
  BY <1>1, PutEntry, OtherEntry
<1> QED BY <1>1, <1>3, <1>4, <1>5 DEF Handled

\* What a handler's step may do.
HandlerEffect(u) ==
  /\ stage[u] \in Busy \ {"chosen"} /\ stage'[u] \notin {"chosen", "handed"} /\ Handled(u)
  /\ stage'[u] = "recorded" => stage[u] = "handed"
  /\ Kept(ProcessedKey) \/ data'[ProcessedKey] = mem.processed
  /\ conf.class = "single" \/ Kept(StateKey) \/ data'[StateKey] = mem.current
  /\ \A k \in Shared : Kept(k) \/ data'[k] = 0
  /\ Whole(mem)' /\ mem'.initialized = mem.initialized
  /\ mem.processed \subseteq mem'.processed /\ mem'.processed \subseteq mem.processed \cup {u}
  /\ \/ mem'.queue = mem.queue /\ mem'.current = mem.current
     \/ /\ conf.class # "single" /\ stage[u] = "recorded" /\ stage'[u] # "recorded"
        /\ \E m : mem' = m /\ Reached(m)

LEMMA HandlerHasEffect ==
  ASSUME LocatorInv, NEW u \in Urls, HandlerStep(u)
  PROVE  HandlerEffect(u)
<1> USE LocatorKeys
<1>1. Records /\ OnRecord /\ InStep /\ Whole(mem)
  BY DEF LocatorInv, Records, Whole
<1>2. CASE Record(u)
  <2>1. mem' = [mem EXCEPT !.processed = mem.processed \cup {u}]
    BY <1>2 DEF Record
  <2>2. /\ Whole(mem)' /\ mem'.processed = mem.processed \cup {u} /\ mem'.queue = mem.queue
        /\ mem'.current = mem.current /\ mem'.initialized = mem.initialized
    BY <1>1, <2>1 DEF Whole
  <2>3. /\ stage[u] = "handed" /\ stage'[u] \in {"recorded", "failed"} /\ Handled(u)
        /\ \A k : Kept(k) \/ (k = ResultKey(u) /\ data'[k] = TRUE)
    BY <1>1, <1>2, StepEffect DEF Record
  <2> QED BY <2>2, <2>3 DEF HandlerEffect, Busy
<1>3. ASSUME NEW refs \in BOOLEAN, conf.class # "single", Advance(u, refs)
      PROVE  HandlerEffect(u)
  <2>1. /\ stage[u] = "recorded" /\ stage'[u] \in {"saving", "failed"} /\ Handled(u)
        /\ \A k : Kept(k) \/ (k = ProcessedKey /\ data'[k] = mem.processed)
    BY <1>1, <1>3, StepEffect DEF Advance
  <2>2. u \in Working /\ u \in Pending
    BY <2>1 DEF Working, Pending, Busy
  <2>3. mem.initialized
    BY <1>1, <1>3, <2>2 DEF OnRecord, Informed
  <2>4. Reached(mem) /\ mem.queue = <<>> /\ conf \in Configurations
    BY <1>1, <1>3, <2>2, <2>3 DEF InStep, Records
  <2>5. LET s == Advanced(mem, refs)
        IN Whole(s) /\ Reached(s) /\ s.processed = mem.processed /\ s.initialized = mem.initialized
    BY <1>1, <1>3, <2>4, AdvancedFacts
  <2>6. mem' = Advanced(mem, refs)
    BY <1>3 DEF Advance
  <2>7. Whole(mem)' /\ mem'.processed = mem.processed /\ mem'.initialized = mem.initialized
    BY <2>5, <2>6 DEF Whole
  <2>8. \E m : mem' = m /\ Reached(m)
    BY <2>5, <2>6
  <2> QED BY <1>3, <2>1, <2>7, <2>8 DEF HandlerEffect, Busy
<1>4. ASSUME mem' = mem, stage[u] \in {"handed", "recorded", "saving", "reported", "saving_error"},
             stage'[u] \in {"done", "reported", "saving_error", "failed"}, Handled(u),
             \A k : \/ Kept(k)
                    \/ k = ProcessedKey /\ data'[k] = mem.processed
                    \/ k = StateKey /\ data'[k] = mem.current
                    \/ k = ErrorKey(u) /\ data'[k] = 0
      PROVE  HandlerEffect(u)
  BY <1>1, <1>4 DEF HandlerEffect, Busy, Whole
<1>5. CASE SavePosition(u)
  BY <1>1, <1>4, <1>5, StepEffect DEF SavePosition
<1>6. CASE SaveAfterError(u)
  BY <1>1, <1>4, <1>6, StepEffect DEF SaveAfterError
<1>7. CASE ReportError(u)
  BY <1>1, <1>4, <1>7, StepEffect DEF ReportError
<1>8. CASE SingleSave(u)
  BY <1>1, <1>4, <1>8, StepEffect DEF SingleSave
<1>9. CASE SingleError(u)
  BY <1>1, <1>4, <1>9, StepEffect DEF SingleError
<1>10. CASE Unreported(u)
  <2>1. /\ stage[u] = "handed" /\ stage' = [stage EXCEPT ![u] = "failed"]
        /\ run' = [run EXCEPT !.cut = TRUE] /\ UNCHANGED <<conf, mem, ask, given, popped>>
        /\ StoreUntouched
    BY <1>10 DEF Unreported, To
  <2>2. stage'[u] = "failed" /\ Handled(u)
    BY <1>1, <2>1 DEF Handled, Records
  <2> QED BY <1>4, <2>1, <2>2, OtherEntry
<1>11. \/ Record(u) \/ SavePosition(u) \/ SaveAfterError(u) \/ ReportError(u) \/ SingleSave(u)
       \/ SingleError(u) \/ Unreported(u)
       \/ \E refs \in BOOLEAN : conf.class # "single" /\ Advance(u, refs)
  BY DEF HandlerStep, PaginationRecord, ComplexRecord, ReverseRecord, SingleRecord,
         PaginationAdvance, ComplexAdvance, ReverseAdvance, PaginationSave, ComplexSave,
         ReverseSave, PaginationError, ComplexError, ReverseError
<1> QED BY <1>2, <1>3, <1>5, <1>6, <1>7, <1>8, <1>9, <1>10, <1>11

LEMMA HandlerKeeps ==
  ASSUME LocatorInv, NEW u \in Urls, HandlerEffect(u)
  PROVE  LocatorInv'
<1>1. Records /\ OnRecord /\ InStep
  BY DEF LocatorInv
<1>2. /\ stage' = [v \in Urls |-> IF v = u THEN stage'[u] ELSE stage[v]]
      /\ UNCHANGED <<conf, ask, given, popped>>
      /\ run'.number = run.number /\ run'.blanks = run.blanks
      /\ run' = [number |-> run'.number, retired |-> run'.retired, faults |-> run'.faults,
                 blanks |-> run'.blanks, cut |-> run'.cut]
  BY DEF HandlerEffect, Handled
<1>3. /\ stage[u] \in Busy \ {"chosen"} /\ stage'[u] \notin {"chosen", "handed"}
      /\ stage'[u] = "recorded" => stage[u] = "handed"
      /\ Kept(ProcessedKey) \/ data'[ProcessedKey] = mem.processed
      /\ conf.class = "single" \/ Kept(StateKey) \/ data'[StateKey] = mem.current
      /\ Whole(mem)' /\ mem'.initialized = mem.initialized
      /\ mem.processed \subseteq mem'.processed /\ mem'.processed \subseteq mem.processed \cup {u}
  BY DEF HandlerEffect
<1>4. \/ mem'.queue = mem.queue /\ mem'.current = mem.current
      \/ /\ conf.class # "single" /\ stage[u] = "recorded" /\ stage'[u] # "recorded"
         /\ \E m : mem' = m /\ Reached(m)
  BY DEF HandlerEffect
<1>5. u \in Working /\ Informed /\ Informed'
  <2>1. u \in Working
    BY <1>3 DEF Working
  <2>2. Informed
    BY <1>1, <2>1 DEF OnRecord
  <2> QED BY <1>2, <1>3, <2>1, <2>2 DEF Informed
<1>6. Working' \subseteq Working /\ Pending' \subseteq Pending
  <2>1. \A v \in Urls : stage'[v] \in Busy => stage[v] \in Busy
    BY <1>2, <1>3 DEF Busy
  <2>2. \A v \in Urls : stage'[v] \in {"chosen", "handed", "recorded"} =>
                         stage[v] \in {"chosen", "handed", "recorded"}
    BY <1>2, <1>3
  <2> QED BY <2>1, <2>2 DEF Working, Pending, Busy
<1>7. Records'
  <2>1. stage' = [v \in Urls |-> stage'[v]]
    BY <1>2
  <2> QED BY <1>1, <1>2, <1>3, <2>1 DEF Records, Whole, Configurations, Urls
<1>8. \/ Recorded' => Recorded /\ data'[ProcessedKey] = data[ProcessedKey]
      \/ data'[ProcessedKey] = mem.processed
  BY <1>3 DEF Kept, Recorded, ProcessedKey
<1>9. OnRecord'
  <2>1. Trusted(mem.processed) /\ ask.refs \subseteq mem.processed
    BY <1>1, <1>5 DEF OnRecord
  <2>2. (Trusted(mem.processed) /\ ask.refs \subseteq mem.processed)'
    BY <1>2, <1>3, <2>1 DEF Trusted, Urls
  <2>3. (Recorded => Trusted(data[ProcessedKey]) /\ ask.refs \subseteq data[ProcessedKey])'
    BY <1>1, <1>2, <1>8, <2>1 DEF OnRecord, Trusted, Urls, ProcessedKey
  <2> QED BY <1>1, <1>2, <1>5, <2>2, <2>3 DEF OnRecord, HandedOutOnce, Urls
<1>10. ASSUME conf.class # "single"
       PROVE  /\ mem'.initialized /\ Reached(mem)'
              /\ ask'.refs = {v \in Urls : stage'[v] = "chosen"}
              /\ mem'.queue # <<>> => Pending' = {}
              /\ \A v, w \in Pending' : v = w
              /\ StateKey \in DOMAIN data' =>
                   data'[StateKey] \in Urls /\ (Behind(data[StateKey]) \cap conf.filter)' \subseteq popped'
  <2>1. mem.initialized /\ Reached(mem)
    BY <1>1, <1>5, <1>10 DEF InStep, Informed
  <2>2. Reached(mem)'
    <3>1. CASE mem'.queue = mem.queue /\ mem'.current = mem.current
      BY <1>2, <2>1, <3>1 DEF Reached, Behind, Urls
    <3>2. CASE \E m : mem' = m /\ Reached(m)
      BY <1>2, <3>2 DEF Reached, Behind, Urls
    <3> QED BY <1>4, <3>1, <3>2
  <2>3. ask'.refs = {v \in Urls : stage'[v] = "chosen"}
    <3>1. {v \in Urls : stage'[v] = "chosen"} = {v \in Urls : stage[v] = "chosen"}
      BY <1>2, <1>3
    <3> QED BY <1>1, <1>2, <1>10, <3>1 DEF InStep
  <2>4. mem'.queue # <<>> => Pending' = {}
    <3>1. CASE mem'.queue = mem.queue
      BY <1>1, <1>6, <1>10, <3>1 DEF InStep
    <3>2. CASE stage[u] = "recorded" /\ stage'[u] # "recorded"
      <4>1. u \in Pending /\ u \notin Pending'
        BY <1>3, <3>2 DEF Pending
      <4> QED BY <1>1, <1>6, <1>10, <4>1 DEF InStep
    <3> QED BY <1>4, <3>1, <3>2
  <2>5. ASSUME StateKey \in DOMAIN data'
        PROVE  data'[StateKey] \in Urls /\ (Behind(data[StateKey]) \cap conf.filter)' \subseteq popped'
    <3>1. CASE data'[StateKey] = mem.current
      <4>1. Behind(data[StateKey])' = Behind(mem.current)
        BY <1>2, <3>1 DEF Behind, Urls, StateKey
      <4> QED BY <1>2, <2>1, <3>1, <4>1, PositionFacts
    <3>2. CASE Kept(StateKey)
      <4>1. StateKey \in DOMAIN data /\ data'[StateKey] = data[StateKey]
        BY <2>5, <3>2 DEF Kept
      <4>2. Behind(data[StateKey])' = Behind(data[StateKey])
        BY <1>2, <4>1 DEF Behind, Urls, StateKey
      <4> QED BY <1>1, <1>2, <1>10, <4>1, <4>2 DEF InStep
    <3> QED BY <1>3, <1>10, <3>1, <3>2
  <2>6. \A v, w \in Pending' : v = w
    BY <1>1, <1>6, <1>10 DEF InStep
  <2>7. mem'.initialized
    BY <1>3, <2>1
  <2> QED BY <2>2, <2>3, <2>4, <2>5, <2>6, <2>7
<1>11. (mem.processed \cup ask.refs \cup Working \subseteq popped)'
  BY <1>1, <1>2, <1>3, <1>5, <1>6 DEF InStep
<1>12. (Recorded => data[ProcessedKey] \subseteq popped)'
  BY <1>1, <1>2, <1>8 DEF InStep, ProcessedKey
<1>13. InStep'
  BY <1>2, <1>10, <1>11, <1>12 DEF InStep, Urls, StateKey
<1> QED BY <1>7, <1>9, <1>13 DEF LocatorInv

-----------------------------------------------------------------------------
(* Restarts, and the other clients *)

LEMMA NewRunKeeps ==
  ASSUME LocatorInv, NEW cut, NewRun(cut)
  PROVE  LocatorInv'
<1>1. Records /\ OnRecord /\ InStep
  BY DEF LocatorInv
<1>2. /\ run' = [run EXCEPT !.number = @ + 1, !.retired = FALSE, !.cut = @ \/ cut]
      /\ mem' = Started(conf.class) /\ ask' = NoAsk
      /\ stage' = [u \in Urls |-> IF stage[u] \in Busy THEN "lost" ELSE stage[u]]
      /\ UNCHANGED <<conf, given, popped>>
      /\ \A k : Kept(k)
  BY OtherEntry DEF NewRun
<1>3. /\ run'.number = run.number + 1 /\ run'.blanks = run.blanks
      /\ run' = [number |-> run'.number, retired |-> run'.retired, faults |-> run'.faults,
                 blanks |-> run'.blanks, cut |-> run'.cut]
      /\ run.number \in Nat \ {0}
  <2>1. run = [number |-> run.number, retired |-> run.retired, faults |-> run.faults,
               blanks |-> run.blanks, cut |-> run.cut]
        /\ run.number \in Nat \ {0}
    BY <1>1 DEF Records
  <2> DEFINE c == run.cut \/ cut
  <2>2. run' = [run EXCEPT !.number = run.number + 1, !.retired = FALSE, !.cut = c]
    BY <1>2
  <2> HIDE DEF c
  <2> QED BY <2>1, <2>2
<1>4. /\ Whole(mem)' /\ mem'.processed = {} /\ mem'.initialized = FALSE
      /\ conf.class # "single" => mem' = Fresh
  <2> DEFINE all == [u \in Urls |-> u]
  <2>1. mem' = Fresh \/ (conf.class = "single" /\ mem' = [Fresh EXCEPT !.queue = all])
    BY <1>2 DEF Started
  <2>2. Whole(Fresh) /\ Fresh.processed = {} /\ Fresh.initialized = FALSE
    BY DEF Fresh, Whole
  <2> HIDE DEF all
  <2> QED BY <2>1, <2>2 DEF Whole
<1>5. ask'.at = "idle" /\ ask'.refs = {} /\ ask' = [at |-> ask'.at, refs |-> ask'.refs]
  BY <1>2 DEF NoAsk
<1>6. Working' = {} /\ ~Informed' /\ run'.number # 1
  <2>1. ~Informed'
    BY <1>4 DEF Informed
  <2>2. Working' = {}
    BY <1>2 DEF Working, Busy
  <2> QED BY <1>3, <2>1, <2>2
<1>7. Recorded' => Recorded /\ data'[ProcessedKey] = data[ProcessedKey]
  BY <1>2 DEF Kept, Recorded, ProcessedKey
<1>8. Records'
  <2>1. stage' = [u \in Urls |-> stage'[u]]
    BY <1>2
  <2> QED BY <1>1, <1>2, <1>3, <1>4, <1>5, <2>1 DEF Records, Whole, Configurations, Urls
<1>9. OnRecord'
  BY <1>1, <1>2, <1>3, <1>5, <1>6, <1>7 DEF OnRecord, HandedOutOnce, Trusted, Urls, ProcessedKey
<1>10. ASSUME conf.class # "single"
       PROVE  /\ ~mem'.initialized /\ mem' = Fresh /\ mem'.queue = <<>> /\ Pending' = {}
              /\ ask'.refs = {u \in Urls : stage'[u] = "chosen"}
              /\ StateKey \in DOMAIN data' =>
                   data'[StateKey] \in Urls /\ (Behind(data[StateKey]) \cap conf.filter)' \subseteq popped'
  <2>1. mem' = Fresh /\ ~mem'.initialized /\ mem'.queue = <<>>
    BY <1>4, <1>10 DEF Fresh
  <2>2. Pending' = {} /\ {u \in Urls : stage'[u] = "chosen"} = {}
    BY <1>2 DEF Pending, Busy
  <2>3. ASSUME StateKey \in DOMAIN data'
        PROVE  data'[StateKey] \in Urls /\ (Behind(data[StateKey]) \cap conf.filter)' \subseteq popped'
    <3>1. StateKey \in DOMAIN data /\ data'[StateKey] = data[StateKey]
      BY <1>2, <2>3 DEF Kept
    <3>2. Behind(data[StateKey])' = Behind(data[StateKey])
      BY <1>2, <3>1 DEF Behind, Urls, StateKey
    <3> QED BY <1>1, <1>2, <1>10, <3>1, <3>2 DEF InStep
  <2> QED BY <1>5, <2>1, <2>2, <2>3
<1>11. (mem.processed \cup ask.refs \cup Working \subseteq popped)'
  BY <1>4, <1>5, <1>6
<1>12. (Recorded => data[ProcessedKey] \subseteq popped)'
  BY <1>1, <1>2, <1>7 DEF InStep, ProcessedKey
<1>13. InStep'
  BY <1>2, <1>5, <1>10, <1>11, <1>12 DEF InStep, Fresh, Urls, StateKey
<1> QED BY <1>8, <1>9, <1>13 DEF LocatorInv

LEMMA LocatorKeeps ==
  ASSUME LocatorInv, LocatorNext
  PROVE  LocatorInv'
<1>1. CASE \E u \in Urls : HandlerStep(u)
  BY <1>1, HandlerHasEffect, HandlerKeeps
<1>2. CASE EndRun \/ Crash
  BY <1>2, NewRunKeeps DEF EndRun, Crash
<1>3. CASE \E n \in 1..LastDate : PaginationAsk(n) \/ ComplexAsk(n) \/ ReverseAsk(n) \/ SingleAsk(n)
  BY <1>3, AskStepKeeps
<1> QED BY <1>1, <1>2, <1>3, SaveStateKeeps, ReturnKeeps DEF LocatorNext, AskStep

\* A step of somebody else that puts neither of the locator's two entries.
LEMMA LocatorUndisturbed ==
  ASSUME LocatorInv, UNCHANGED locatorVars, Kept(ProcessedKey),
         conf.class # "single" => Kept(StateKey)
  PROVE  LocatorInv'
<1>1. Records /\ OnRecord /\ InStep
  BY DEF LocatorInv
<1>2. UNCHANGED <<conf, mem, ask, stage, given, popped, run>>
  BY DEF locatorVars
<1>3. Recorded' => Recorded /\ data'[ProcessedKey] = data[ProcessedKey]
  BY DEF Kept, Recorded, ProcessedKey
<1>4. Records'
  BY <1>1, <1>2 DEF Records, Configurations, Urls
<1>5. (Informed <=> Informed') /\ Working' = Working /\ Pending' = Pending
  BY <1>2 DEF Informed, Working, Pending, Busy, Urls
<1>6. OnRecord'
  BY <1>1, <1>2, <1>3, <1>5 DEF OnRecord, HandedOutOnce, Trusted, Urls, ProcessedKey
<1>7. (Reached(mem) <=> Reached(mem)') /\ \A d : Behind(d)' = Behind(d)
  BY <1>2 DEF Reached, Behind, Urls
<1>8. ASSUME conf.class # "single", StateKey \in DOMAIN data'
      PROVE  data'[StateKey] \in Urls /\ (Behind(data[StateKey]) \cap conf.filter)' \subseteq popped'
  <2>1. StateKey \in DOMAIN data /\ data'[StateKey] = data[StateKey]
    BY <1>8 DEF Kept
  <2>2. Behind(data[StateKey])' = Behind(data[StateKey])
    BY <1>2, <2>1 DEF Behind, Urls, StateKey
  <2> QED BY <1>1, <1>2, <1>8, <2>1, <2>2 DEF InStep
<1>9. InStep'
  BY <1>1, <1>2, <1>3, <1>5, <1>7, <1>8 DEF InStep, Fresh, Urls, StateKey, ProcessedKey
<1> QED BY <1>4, <1>6, <1>9 DEF LocatorInv

\* Of the manager's entries a locator puts only errors, and those count no retries.
LEMMA LocatorLeavesCounts ==
  ASSUME LocatorInv, LocatorNext
  PROVE  \A k \in Shared : Kept(k) \/ data'[k] = 0
<1>1. CASE \E u \in Urls : HandlerStep(u)
  BY <1>1, HandlerHasEffect DEF HandlerEffect
<1>2. CASE EndRun \/ Crash
  BY <1>2, OtherEntry DEF EndRun, Crash, NewRun
<1>3. ASSUME NEW m, NEW n, Ask(m, n) PROVE \A k \in Shared : Kept(k)
  BY <1>3, PutEntry, OtherEntry, LocatorKeys DEF Ask
<1>4. CASE \E n \in 1..LastDate : PaginationAsk(n) \/ ComplexAsk(n) \/ ReverseAsk(n) \/ SingleAsk(n)
  BY <1>3, <1>4 DEF PaginationAsk, ComplexAsk, ReverseAsk, SingleAsk
<1>5. CASE SaveState
  BY <1>5, PutEntry, OtherEntry, LocatorKeys DEF SaveState
<1>6. CASE Return
  BY <1>6, OtherEntry DEF Return
<1> QED BY <1>1, <1>2, <1>4, <1>5, <1>6 DEF LocatorNext, AskStep

\* What is no entry of the manager or the queue stays as it is.
LEMMA ManagerLeavesOthers ==
  ASSUME ManagerNext \/ ManagerRestart \/ (\E t \in Tasks : QueuePut(t)),
         NEW j, j \notin Shared \cup {ProcessedItems, SavedState, SessionInfo, <<"queue", 0>>}
  PROVE  Kept(j)
<1>1. /\ j \notin {ProcessedItems, SavedState, SessionInfo, Counter, TrackerState, Timing}
      /\ j # <<"queue", 0>> /\ \A i \in Items : j # ErrorOf(i)
  BY KeyFacts
<1>2. ASSUME NEW t, SaveProcessedItems(t) \/ SaveManagedState(t) \/ SaveSessionInfo(t)
                      \/ QueuePut(t) \/ \E i \in Items : SaveError(t, i) \/ ClearError(t, i)
      PROVE  Kept(j)
  BY <1>1, <1>2, PutEntry, DeleteEntry
     DEF SaveProcessedItems, SaveManagedState, SaveSessionInfo, QueuePut, SaveError, ClearError
<1>3. ASSUME NEW t, NEW k, NEW ttl, BeginUpdate(t, k) \/ Write(t, k, ttl), k # j
      PROVE  Kept(j)
  BY <1>3, PutEntry, ReadEntry DEF BeginUpdate, Write
<1>4. ASSUME NEW t, IncrementCounter(t) \/ RecordProcessingTime(t) \/ UpdateState(t)
                      \/ \E i \in Items : IncrementRetryCount(t, i)
      PROVE  Kept(j)
  BY <1>1, <1>3, <1>4
     DEF IncrementCounter, RecordProcessingTime, UpdateState, IncrementRetryCount, BeginRetry
<1>5. ASSUME NEW t, ClearErrors(t) PROVE Kept(j)
  BY <1>5, ReadEntry, DeleteEntry DEF ClearErrors, BeginClear, ClearNext
<1>6. CASE ManagerRestart
  BY <1>6, OtherEntry DEF ManagerRestart
<1> QED BY <1>2, <1>4, <1>5, <1>6 DEF ManagerNext

LEMMA ManagerLeavesRecord ==
  ASSUME ManagerNext \/ ManagerRestart \/ (\E t \in Tasks : QueuePut(t))
  PROVE  Kept(ProcessedKey)
<1>1. ProcessedKey \notin Shared \cup {ProcessedItems, SavedState, SessionInfo, <<"queue", 0>>}
  BY LocatorKeys DEF ProcessedKey, ProcessedItems, SavedState, SessionInfo
<1> QED BY <1>1, ManagerLeavesOthers

\* Entries put at zero where zero was counted.
LEMMA ManagerUndisturbed ==
  ASSUME ManagerInv, UNCHANGED managerVars,
         \A k \in Shared : Kept(k) \/ (data'[k] = 0 /\ updates[k] = 0)
  PROVE  ManagerInv'
<1>1. UNCHANGED <<task, updates, mixed>>
  BY DEF managerVars
<1>2. ASSUME NEW k \in Shared \ mixed' PROVE Unmixed(k)'
  <2>1. Unmixed(k)
    BY <1>1, <1>2 DEF ManagerInv
  <2>2. k \in DOMAIN data' => data'[k] = updates[k]
    BY <2>1 DEF Unmixed, Kept
  <2> QED BY <1>1, <2>1, <2>2 DEF Unmixed
<1> QED BY <1>1, <1>2 DEF ManagerInv

LEMMA ClientsStart ==
  ASSUME Init
  PROVE  ClientsInv
<1>1. /\ client = "manager" => conf = Idle
      /\ conf \in Configurations /\ mem = Started(conf.class) /\ ask = NoAsk
      /\ stage = [u \in Urls |-> "none"] /\ given = [u \in Urls |-> 0] /\ popped = {}
      /\ run = [number |-> 1, retired |-> FALSE, faults |-> 0, blanks |-> 0, cut |-> FALSE]
      /\ data = <<>> /\ task = [t \in Tasks |-> NoUpdate] /\ updates = [k \in Shared |-> 0]
  BY DEF Init, LocatorInit, StoreInit, ManagerInit
<1>2. /\ Whole(mem) /\ mem.processed = {} /\ mem.initialized = FALSE
      /\ conf.class # "single" => mem = Fresh
  <2> DEFINE all == [u \in Urls |-> u]
  <2>1. mem = Fresh \/ (conf.class = "single" /\ mem = [Fresh EXCEPT !.queue = all])
    BY <1>1 DEF Started
  <2>2. Whole(Fresh) /\ Fresh.processed = {} /\ Fresh.initialized = FALSE
    BY DEF Fresh, Whole
  <2> HIDE DEF all
  <2> QED BY <2>1, <2>2 DEF Whole
<1>3. ask.at = "idle" /\ ask.refs = {} /\ run.number = 1 /\ run.blanks = 0
  BY <1>1 DEF NoAsk
<1>4. Working = {} /\ Pending = {} /\ ~Recorded /\ StateKey \notin DOMAIN data /\ ~Informed
  BY <1>1, <1>2 DEF Working, Pending, Busy, Recorded, Informed
<1>5. Records
  BY <1>1, <1>2, <1>3 DEF Records, Whole, NoAsk
<1>6. OnRecord
  BY <1>1, <1>3, <1>4 DEF OnRecord, HandedOutOnce, Trusted
<1>7. InStep
  <2>1. conf.class # "single" => mem.queue = <<>>
    BY <1>2 DEF Fresh
  <2>2. {u \in Urls : stage[u] = "chosen"} = {}
    BY <1>1
  <2> QED BY <1>1, <1>2, <1>3, <1>4, <2>1, <2>2 DEF InStep
<1>8. ManagerInv
  <2>1. \A t \in Tasks : /\ task[t].key = NoKey /\ task[t].delete = {}
                         /\ task[t] = [key |-> task[t].key, saw |-> task[t].saw,
                                       delete |-> task[t].delete]
    BY <1>1 DEF NoUpdate
  <2>2. \A k \in Shared : Unmixed(k)
    BY <1>1, <2>1, KeyFacts DEF Unmixed
  <2> QED BY <1>1, <2>1, <2>2 DEF ManagerInv
<1>9. client = "manager" => conf.class = "single"
  BY <1>1 DEF Idle
<1> QED BY <1>1, <1>5, <1>6, <1>7, <1>8, <1>9 DEF ClientsInv, LocatorInv

LEMMA ClientsKeep ==
  ASSUME ClientsInv, [Next]_vars
  PROVE  ClientsInv'
<1> USE DEF ClientsInv
<1>1. CASE LocatorStep
  <2>1. LocatorNext /\ UNCHANGED managerVars /\ client' = client /\ client = "locator"
    BY <1>1 DEF LocatorStep
  <2>2. LocatorInv'
    BY <2>1, LocatorKeeps
  <2>3. ManagerInv'
    BY <2>1, LocatorLeavesCounts, ManagerUndisturbed
  <2>4. updates' = updates
    BY <2>1 DEF managerVars
  <2> QED BY <2>1, <2>2, <2>3, <2>4 DEF Shared
<1>2. CASE ManagerStep
  <2>1. /\ ManagerNext \/ ManagerRestart \/ (\E t \in Tasks : QueuePut(t))
        /\ UNCHANGED locatorVars /\ client' = client /\ client = "manager"
    BY <1>2 DEF ManagerStep
  <2>2. LocatorInv'
    BY <2>1, ManagerLeavesRecord, LocatorUndisturbed
  <2>3. ManagerInv'
    BY <2>1, ManagerKeeps
  <2>4. conf' = conf
    BY <2>1 DEF locatorVars
  <2> QED BY <2>1, <2>2, <2>3, <2>4
<1>3. CASE StoreStep \/ UNCHANGED vars
  <2>1. UNCHANGED <<locatorVars, managerVars, client>> /\ \A k : Kept(k)
    BY <1>3, OtherEntry DEF StoreStep, vars, StoreUntouched
  <2>2. LocatorInv'
    BY <2>1, LocatorUndisturbed
  <2>3. ManagerInv'
    BY <2>1, ManagerUndisturbed
  <2>4. conf' = conf /\ updates' = updates
    BY <2>1 DEF locatorVars, managerVars
  <2> QED BY <2>1, <2>2, <2>3, <2>4 DEF Shared
<1> QED BY <1>1, <1>2, <1>3 DEF Next

-----------------------------------------------------------------------------
(* The theorem *)

LEMMA StoreInvariant == Spec => []StoreInv
<1>1. Init => StoreInv
  BY DEF Init, StoreInit, StoreInv
<1>2. StoreInv /\ [Next]_vars => StoreInv'
  BY NextIsOp, OpKeeps
<1> QED BY <1>1, <1>2, PTL DEF Spec

\* An entry is read as it was last put for the time to live its put asked for, which without one
\* is the store's default, and is gone after it, whatever the clients, the clean-up, the clock and
\* restarts do in between; except that Redis keeps what was put without one although there is a
\* default.  put, get, delete, range_get and _cleanup_expired of both stores.
THEOREM StoreKeepsPromises == Spec => []KeepsPromises
<1>1. StoreInv => KeepsPromises
  <2> SUFFICES ASSUME StoreInv PROVE KeepsPromises
    OBVIOUS
  <2>1. ASSUME NEW k \in DOMAIN promise, Holds(promise[k])
        PROVE  Exists(k) /\ data[k] = promise[k].value
    <3>1. k \in DOMAIN data
      BY <2>1 DEF StoreInv, Agree, Holds
    <3>2. ~Late(k)
      BY <2>1, <3>1 DEF StoreInv, Agree, Holds, Late
    <3> QED BY <3>1, <3>2 DEF StoreInv, Agree, Exists
  <2>2. ASSUME NEW k \in DOMAIN promise, Over(promise[k]), ~KeptByRedis(promise[k])
        PROVE  ~Exists(k)
    BY <2>2 DEF StoreInv, Agree, Exists, Late, Over
  <2> QED BY <2>1, <2>2 DEF StoreInv, KeepsPromises
<1> QED BY <1>1, StoreInvariant, PTL

\* Both clients' invariants, which the other's steps and the store's do not disturb.
LEMMA ClientsInvariant == Spec => []ClientsInv
BY ClientsStart, ClientsKeep, PTL DEF Spec

\* increment_counter, record_processing_time, update_state and increment_retry_count: as long as
\* no task touched an entry in the middle of another's update, it holds as many increments as were
\* written, whatever is saved, cleared, swept, expires or is lost in a restart.
THEOREM CountsNotLost == Spec => []CountsAddUp
<1>1. ClientsInv => CountsAddUp
  BY DEF ClientsInv, ManagerInv, Unmixed, CountsAddUp, Exists
<1> QED BY <1>1, ClientsInvariant, PTL

\* get_next_bundle_refs of all four classes: no URL is handed out a second time, by this locator
\* or one after a restart or a crash, unless a restart found no record of processed URLs.
THEOREM UrlsHandedOutOnce == Spec => []HandedOutOnce
<1>1. ClientsInv => HandedOutOnce
  BY DEF ClientsInv, LocatorInv, OnRecord
<1> QED BY <1>1, ClientsInvariant, PTL

\* The position of a date locator, in memory and in the store, never runs ahead of the dates that
\* were handed out, rejected or wait, for every length of the range, whichever store operation
\* raises and wherever the process is lost.
THEOREM NoDateSkipped == Spec => []NothingSkipped
<1>1. ClientsInv => NothingSkipped
  <2> SUFFICES ASSUME ClientsInv, conf.class # "single"
               PROVE  /\ mem.current # NoDate =>
                           (Behind(mem.current) \cup {mem.current}) \cap conf.filter
                             \subseteq popped \cup ToSet(mem.queue)
                      /\ Exists(StateKey) /\ data[StateKey] # NoDate =>
                           Behind(data[StateKey]) \cap conf.filter \subseteq popped
    BY DEF NothingSkipped
  <2>1. Reached(mem) \/ mem = Fresh
    BY DEF ClientsInv, LocatorInv, InStep
  <2>2. mem = Fresh => mem.current = NoDate
    BY DEF Fresh
  <2>3. StateKey \in DOMAIN data => Behind(data[StateKey]) \cap conf.filter \subseteq popped
    BY DEF ClientsInv, LocatorInv, InStep
  <2> QED BY <2>1, <2>2, <2>3 DEF Reached, Exists
<1> QED BY <1>1, ClientsInvariant, PTL

-----------------------------------------------------------------------------
(* Types and bounds *)

\* Filtering a list by its recursive definition: the function it is defined by exists, for there
\* is no shortest prefix without one, and its values are sequences for the same reason.
LEMMA UnprocessedSeq ==
  ASSUME NEW S, NEW queue \in Seq(S), NEW done
  PROVE  Unprocessed(queue, done) \in Seq(S)
<1> DEFINE n == Len(queue)
           Value(f, i) == IF i = 0 THEN <<>>
                         ELSE IF queue[i] \in done THEN f[i - 1] ELSE Append(f[i - 1], queue[i])
           Defined(f, m) == f = [i \in 0..m |-> Value(f, i)]
           Undefined == {m \in 0..n : ~ \E f : Defined(f, m)}
<1>1. n \in Nat /\ \A i \in 1..n : queue[i] \in S
  OBVIOUS
<1>2. Undefined = {}
  <2> SUFFICES ASSUME Undefined # {} PROVE FALSE
    OBVIOUS
  <2>1. Undefined \in SUBSET Nat
    BY <1>1
  <2>2. PICK m \in Undefined : \A k \in Undefined : m <= k
    <3> HIDE DEF Undefined
    <3> QED BY <2>1, LeastNumber
  <2>3. m # 0
    <3> DEFINE f == [i \in 0..0 |-> <<>>]
    <3>1. f = [i \in 0..0 |-> Value(f, i)]
      OBVIOUS
    <3>2. \E g : Defined(g, 0)
      <4> HIDE DEF f, Value
      <4> QED BY <3>1
    <3> HIDE DEF Defined
    <3> QED BY <2>2, <3>2
  <2>4. m \in 1..n /\ m - 1 \in 0..n /\ m - 1 \notin Undefined
    <3>1. m \in 0..n
      OBVIOUS
    <3> HIDE DEF Undefined
    <3> QED BY <1>1, <2>1, <2>2, <2>3, <3>1
  <2>5. PICK f : f = [i \in 0..(m - 1) |-> Value(f, i)]
    BY <2>4
  <2> DEFINE g == [i \in 0..m |-> IF i = m THEN Value(f, m) ELSE f[i]]
  <2>6. ASSUME NEW i \in 0..m PROVE g[i] = Value(g, i)
    <3>1. CASE i = m
      <4>1. g[m - 1] = f[m - 1] /\ g[m] = Value(f, m)
        BY <2>4
      <4> HIDE DEF g
      <4> QED BY <2>4, <3>1, <4>1
    <3>2. CASE i # m
      <4>1. g[i] = f[i] /\ f[i] = Value(f, i)
        <5>1. i \in 0..(m - 1)
          BY <2>4, <3>2
        <5> HIDE DEF Value
        <5> QED BY <2>5, <3>2, <5>1
      <4>2. i # 0 => g[i - 1] = f[i - 1]
        BY <2>4, <3>2
      <4> HIDE DEF g
      <4> QED BY <4>1, <4>2
    <3> QED BY <3>1, <3>2
  <2>7. g = [i \in 0..m |-> Value(g, i)]
    <3> HIDE DEF Value
    <3>1. g = [i \in 0..m |-> g[i]]
      OBVIOUS
    <3> HIDE DEF g
    <3> QED BY <2>6, <3>1
  <2>8. \E h : Defined(h, m)
    <3> HIDE DEF g, Value
    <3> QED BY <2>7
  <2> HIDE DEF Defined
  <2> QED BY <2>2, <2>8
<1> DEFINE kept == CHOOSE f : Defined(f, n)
           Untyped == {m \in 0..n : kept[m] \notin Seq(S)}
<1>3. Unprocessed(queue, done) = kept[n]
  BY DEF Unprocessed
<1>4. Defined(kept, n)
  <2>1. \E f : Defined(f, n)
    <3> HIDE DEF Defined
    <3> QED BY <1>1, <1>2
  <2> HIDE DEF Defined
  <2> QED BY <2>1
<1>5. \A i \in 0..n : kept[i] = Value(kept, i)
  <2> HIDE DEF kept, Value
  <2> QED BY <1>4
<1> HIDE DEF kept
<1>6. Untyped = {}
  <2> SUFFICES ASSUME Untyped # {} PROVE FALSE
    OBVIOUS
  <2>1. Untyped \in SUBSET Nat
    BY <1>1
  <2>2. PICK m \in Untyped : \A k \in Untyped : m <= k
    <3> HIDE DEF Untyped
    <3> QED BY <2>1, LeastNumber
  <2>3. kept[m] = Value(kept, m) /\ kept[m] \notin Seq(S)
    BY <1>5, <2>2
  <2>4. m # 0
    BY <2>3
  <2>5. m \in 1..n /\ kept[m - 1] \in Seq(S)
    BY <1>1, <2>2, <2>4
  <2> QED BY <1>1, <2>3, <2>5
<1> QED BY <1>1, <1>3, <1>6

LEMMA StoreTypes ==
  ASSUME StoreInv, StoreTypeOK, StoreOp
  PROVE  StoreTypeOK'
<1> USE StoreAssumption
<1>1. now' \in Nat /\ DOMAIN expiry' \subseteq DOMAIN data'
  BY OpKeeps DEF StoreInv
<1>2. backend' = backend
  BY DEF StoreOp, Put, Delete, Read, Tick, Reopen, storeVars
<1>3. now' <= MaxTime
  <2>1. CASE Tick
    BY <2>1 DEF Tick, StoreTypeOK
  <2>2. now' = now \/ Tick
    BY DEF StoreOp, Put, Delete, Read, Reopen, storeVars
  <2> QED BY <2>1, <2>2 DEF StoreTypeOK
<1>4. \A k \in DOMAIN expiry' : expiry'[k] \in Nat
  <2>1. ASSUME NEW k, NEW v, NEW ttl \in Nat, Put(k, v, ttl)
        PROVE  \A j \in DOMAIN expiry' : expiry'[j] \in Nat
    <3> DEFINE t == TtlOf(ttl)
    <3>1. t \in Nat /\ now + t \in Nat
      BY DEF TtlOf, StoreTypeOK
    <3>2. expiry' = IF t = NoTtl THEN Without(expiry, {k}) ELSE With(expiry, k, now + t)
      BY <2>1 DEF Put, ExpiryAfter
    <3> HIDE DEF t
    <3> QED BY <3>1, <3>2 DEF Without, With, StoreTypeOK
  <2>2. ASSUME NEW ks, expiry' = Without(expiry, ks)
        PROVE  \A j \in DOMAIN expiry' : expiry'[j] \in Nat
    BY <2>2 DEF Without, StoreTypeOK
  <2>3. ASSUME expiry' = <<>> \/ expiry' = expiry
        PROVE  \A j \in DOMAIN expiry' : expiry'[j] \in Nat
    BY <2>3 DEF StoreTypeOK
  <2> QED BY <2>1, <2>2, <2>3 DEF StoreOp, Delete, Read, Tick, Reopen, storeVars
<1> QED BY <1>1, <1>2, <1>3, <1>4 DEF StoreTypeOK

\* How many tasks are in an update of an entry changes by the one task a step is of.
LEMMA UpdatingFacts ==
  ASSUME NEW k
  PROVE  IsFiniteSet(Updating(k)) /\ Cardinality(Updating(k)) \in Nat
BY ManagerAssumption, FS_Subset, FS_CardinalityType DEF Updating

LEMMA SameUpdating ==
  ASSUME NEW k, \A t \in Tasks : task'[t].key = k <=> task[t].key = k
  PROVE  Updating(k)' = Updating(k)
BY DEF Updating

\* A call that changes no task.
LEMMA SaveBounds ==
  ASSUME ManagerBounds, task' = task, calls < MaxCalls, calls' = calls + 1, mixed' \subseteq Shared,
         \A k \in Shared : /\ updates'[k] = updates[k] \/ updates'[k] = 0
                           /\ Kept(k) \/ data'[k] = 0
  PROVE  ManagerBounds'
<1>1. calls \in Nat /\ calls' \in 0..MaxCalls
  BY ManagerAssumption DEF ManagerBounds
<1>2. ASSUME NEW k \in Shared
      PROVE  /\ updates'[k] \in Nat /\ updates'[k] + Cardinality(Updating(k)') <= calls'
             /\ k \in DOMAIN data' => data'[k] \in 0..calls'
  <2>1. Updating(k)' = Updating(k) /\ Cardinality(Updating(k)) \in Nat
    BY UpdatingFacts, SameUpdating
  <2>2. updates[k] \in Nat /\ updates[k] + Cardinality(Updating(k)) <= calls
        /\ (k \in DOMAIN data => data[k] \in 0..calls)
    BY DEF ManagerBounds
  <2>3. k \in DOMAIN data' => data'[k] \in 0..calls'
    BY <1>1, <2>2 DEF Kept
  <2> QED BY <1>1, <2>1, <2>2, <2>3
<1>3. ASSUME NEW t \in Tasks
      PROVE  /\ task'[t].key \in Shared \cup {NoKey} /\ NoKey \notin task'[t].delete
             /\ task'[t].saw \in 0..calls' /\ (task'[t].key \in Shared => task'[t].saw < calls')
  BY <1>1 DEF ManagerBounds
<1>4. \A k \in Shared : k \in Shared'
  BY DEF Shared, Counter, TrackerState, Timing, ErrorOf
<1> QED BY <1>1, <1>2, <1>3, <1>4 DEF ManagerBounds, Shared, NoKey, Updating, Counter, TrackerState, Timing, ErrorOf
\* A task begins an update: it reads no more than there were calls before.
LEMMA BeginUpdateBounds ==
  ASSUME ManagerInv, ManagerBounds, NEW t \in Tasks, NEW e \in Shared, BeginUpdate(t, e)
  PROVE  ManagerBounds'
<1>1. /\ task[t].key = NoKey /\ e # NoKey /\ calls < MaxCalls /\ calls' = calls + 1
      /\ task' = [task EXCEPT ![t] = [key |-> e, saw |-> Get(e, 0), delete |-> {}]]
      /\ mixed' = Mixed(t, e)
      /\ updates' = IF Exists(e) THEN updates ELSE [updates EXCEPT ![e] = 0]
      /\ \A k : Kept(k)
  BY BeginTask, KeyFacts, ReadEntry DEF BeginUpdate, Begin
<1>2. /\ calls \in Nat /\ calls' \in 0..MaxCalls /\ mixed' \subseteq Shared
  BY <1>1, ManagerAssumption DEF ManagerBounds, Mixed
<1>3. Get(e, 0) \in 0..calls
  BY <1>2 DEF Get, Exists, ManagerBounds
<1>4. DOMAIN task = Tasks /\ DOMAIN updates = Shared
  BY DEF ManagerInv
<1>5. /\ task'[t] = [key |-> e, saw |-> Get(e, 0), delete |-> {}]
      /\ \A s \in Tasks \ {t} : task'[s] = task[s]
  BY <1>1, <1>4
<1>6. task'[t].key = e /\ task'[t].saw = Get(e, 0) /\ task'[t].delete = {}
  BY <1>5
<1>7. ASSUME NEW s \in Tasks
      PROVE  /\ task'[s].key \in Shared \cup {NoKey} /\ NoKey \notin task'[s].delete
             /\ task'[s].saw \in 0..calls' /\ (task'[s].key \in Shared => task'[s].saw < calls')
  <2>1. CASE s = t
    BY <1>1, <1>2, <1>3, <1>6, <2>1
  <2>2. CASE s # t
    BY <1>1, <1>2, <1>5, <2>2 DEF ManagerBounds
  <2> QED BY <2>1, <2>2
<1>8. ASSUME NEW k \in Shared
      PROVE  /\ updates'[k] \in Nat /\ updates'[k] + Cardinality(Updating(k)') <= calls'
             /\ k \in DOMAIN data' => data'[k] \in 0..calls'
  <2>1. updates[k] \in Nat /\ updates[k] + Cardinality(Updating(k)) <= calls
        /\ (k \in DOMAIN data => data[k] \in 0..calls)
    BY DEF ManagerBounds
  <2>2. updates'[k] \in Nat /\ updates'[k] <= updates[k]
    BY <1>1, <1>4, <2>1
  <2>3. Cardinality(Updating(k)) \in Nat /\ Cardinality(Updating(k)') <= Cardinality(Updating(k)) + 1
        /\ Cardinality(Updating(k)') \in Nat
    <3>1. CASE k = e
      <4>1. Updating(k)' = Updating(k) \cup {t}
        BY <1>5, <1>6, <3>1 DEF Updating
      <4> QED BY <4>1, UpdatingFacts, FS_AddElement
    <3>2. CASE k # e
      <4>1. Updating(k)' = Updating(k)
        BY <1>1, <1>5, <1>6, <3>2, KeyFacts DEF Updating
      <4> QED BY <4>1, UpdatingFacts
    <3> QED BY <3>1, <3>2
  <2>4. k \in DOMAIN data' => data'[k] \in 0..calls'
    BY <1>1, <1>2, <2>1 DEF Kept
  <2> QED BY <1>1, <1>2, <2>1, <2>2, <2>3, <2>4
<1> QED BY <1>2, <1>7, <1>8 DEF ManagerBounds, Shared, NoKey, Updating, Counter, TrackerState, Timing, ErrorOf

\* It writes one more than it read, and is not on its way any more.
LEMMA WriteBounds ==
  ASSUME ManagerInv, ManagerBounds, NEW t \in Tasks, NEW e \in Shared, NEW ttl, Write(t, e, ttl)
  PROVE  ManagerBounds'
<1>1. /\ task[t].key = e /\ mixed' = mixed /\ calls' = calls
      /\ task' = [task EXCEPT ![t] = NoUpdate]
      /\ updates' = [updates EXCEPT ![e] = updates[e] + 1]
      /\ \A k : k # e => Kept(k)
      /\ data'[e] = task[t].saw + 1
  BY PutEntry DEF Write, Incremented
<1>2. calls \in Nat /\ task[t].saw \in Nat /\ task[t].saw < calls
  BY <1>1, ManagerAssumption DEF ManagerBounds
<1>3. DOMAIN task = Tasks /\ DOMAIN updates = Shared
  BY DEF ManagerInv
<1>4. /\ task'[t].key = NoKey /\ task'[t].saw = 0 /\ task'[t].delete = {}
      /\ \A s \in Tasks \ {t} : task'[s] = task[s]
  BY <1>1, <1>3 DEF NoUpdate
<1>5. ASSUME NEW s \in Tasks
      PROVE  /\ task'[s].key \in Shared \cup {NoKey} /\ NoKey \notin task'[s].delete
             /\ task'[s].saw \in 0..calls' /\ (task'[s].key \in Shared => task'[s].saw < calls')
  <2>1. CASE s = t
    BY <1>1, <1>2, <1>4, <2>1, KeyFacts
  <2>2. CASE s # t
    BY <1>1, <1>4, <2>2 DEF ManagerBounds
  <2> QED BY <2>1, <2>2
<1>6. ASSUME NEW k \in Shared
      PROVE  /\ updates'[k] \in Nat /\ updates'[k] + Cardinality(Updating(k)') <= calls'
             /\ k \in DOMAIN data' => data'[k] \in 0..calls'
  <2>1. updates[k] \in Nat /\ updates[k] + Cardinality(Updating(k)) <= calls
        /\ (k \in DOMAIN data => data[k] \in 0..calls)
    BY DEF ManagerBounds
  <2>2. k # NoKey
    BY KeyFacts
  <2>3. CASE k = e
    <3>1. Updating(k)' = Updating(k) \ {t} /\ t \in Updating(k)
      BY <1>1, <1>4, <2>2, <2>3 DEF Updating
    <3>2. Cardinality(Updating(k)') = Cardinality(Updating(k)) - 1 /\ Cardinality(Updating(k)) \in Nat
      BY <3>1, UpdatingFacts, FS_RemoveElement
    <3>3. updates'[k] = updates[k] + 1
      BY <1>1, <1>3, <2>3
    <3> QED BY <1>1, <1>2, <2>1, <2>3, <3>2, <3>3
  <2>4. CASE k # e
    <3>1. Updating(k)' = Updating(k)
      BY <1>1, <1>4, <2>2, <2>4 DEF Updating
    <3>2. updates'[k] = updates[k]
      BY <1>1, <1>3, <2>4
    <3> QED BY <1>1, <2>1, <2>4, <3>1, <3>2 DEF Kept
  <2> QED BY <2>3, <2>4
<1> QED BY <1>1, <1>5, <1>6
        DEF ManagerBounds, Shared, NoKey, Updating, Counter, TrackerState, Timing, ErrorOf

\* A task that clears a range is in no update.
LEMMA ClearErrorsBounds ==
  ASSUME ManagerInv, ManagerBounds, NoKey \notin DOMAIN data, NEW t \in Tasks, ClearErrors(t)
  PROVE  ManagerBounds'
<1>1. PICK d, gone :
        /\ task[t].key = NoKey /\ updates' = updates
        /\ task' = [task EXCEPT ![t] = [key |-> NoKey, saw |-> task[t].saw, delete |-> d]]
        /\ \A k : Kept(k)
        /\ \/ calls' = calls + 1 /\ calls < MaxCalls /\ mixed' = mixed /\ d \subseteq DOMAIN data
           \/ /\ calls' = calls /\ mixed' = Mixed(t, gone)
              /\ gone \in task[t].delete /\ d \subseteq task[t].delete
  BY ClearErrorsEffect
<1>2. calls \in Nat /\ calls' \in 0..MaxCalls /\ calls <= calls' /\ NoKey \notin d
  BY <1>1, ManagerAssumption DEF ManagerBounds
<1>3. mixed' \subseteq Shared
  <2>1. CASE mixed' = mixed
    BY <2>1 DEF ManagerBounds
  <2>2. CASE mixed' = Mixed(t, gone) /\ gone \in task[t].delete
    BY <2>2 DEF Mixed, InUpdate, ManagerBounds
  <2> QED BY <1>1, <2>1, <2>2
<1>4. DOMAIN task = Tasks
  BY DEF ManagerInv
<1>5. /\ task'[t].key = NoKey /\ task'[t].saw = task[t].saw /\ task'[t].delete = d
      /\ \A s \in Tasks \ {t} : task'[s] = task[s]
  BY <1>1, <1>4
<1>6. ASSUME NEW s \in Tasks
      PROVE  /\ task'[s].key \in Shared \cup {NoKey} /\ NoKey \notin task'[s].delete
             /\ task'[s].saw \in 0..calls' /\ (task'[s].key \in Shared => task'[s].saw < calls')
  <2>1. task[s].saw \in 0..calls /\ (task[s].key \in Shared => task[s].saw < calls)
    BY DEF ManagerBounds
  <2>2. CASE s = t
    BY <1>2, <1>5, <2>1, <2>2, KeyFacts
  <2>3. CASE s # t
    BY <1>2, <1>5, <2>1, <2>3 DEF ManagerBounds
  <2> QED BY <2>2, <2>3
<1>7. ASSUME NEW k \in Shared
      PROVE  /\ updates'[k] \in Nat /\ updates'[k] + Cardinality(Updating(k)') <= calls'
             /\ k \in DOMAIN data' => data'[k] \in 0..calls'
  <2>1. Updating(k)' = Updating(k)
    BY <1>1, <1>5, KeyFacts DEF Updating
  <2>2. updates[k] \in Nat /\ updates[k] + Cardinality(Updating(k)) <= calls
        /\ (k \in DOMAIN data => data[k] \in 0..calls)
    BY DEF ManagerBounds
  <2>3. k \in DOMAIN data' => data'[k] \in 0..calls'
    BY <1>1, <1>2, <2>2 DEF Kept
  <2> QED BY <1>1, <1>2, <2>1, <2>2, <2>3, UpdatingFacts
<1> QED BY <1>2, <1>3, <1>6, <1>7
        DEF ManagerBounds, Shared, NoKey, Updating, Counter, TrackerState, Timing, ErrorOf

LEMMA ManagerBoundsKept ==
  ASSUME ManagerInv, ManagerBounds, NoKey \notin DOMAIN data,
         ManagerNext \/ ManagerRestart \/ (\E t \in Tasks : QueuePut(t))
  PROVE  ManagerBounds' /\ NoKey \notin DOMAIN data'
<1>1. NoKey \notin DOMAIN data'
  <2>1. NoKey \notin Shared \cup {ProcessedItems, SavedState, SessionInfo, <<"queue", 0>>}
    BY KeyFacts DEF NoKey, ProcessedItems, SavedState, SessionInfo
  <2> QED BY <2>1, ManagerLeavesOthers DEF Kept
<1>2. ASSUME NEW t \in Tasks,
             SaveProcessedItems(t) \/ SaveManagedState(t) \/ SaveSessionInfo(t) \/ QueuePut(t)
      PROVE  ManagerBounds'
  <2>1. UNCHANGED <<task, updates, mixed>> /\ calls < MaxCalls /\ calls' = calls + 1
    BY <1>2 DEF SaveProcessedItems, SaveManagedState, SaveSessionInfo, QueuePut, Begin
  <2>2. PICK j : j \notin Shared /\ \E v, ttl : Put(j, v, ttl)
    BY <1>2, KeyFacts DEF SaveProcessedItems, SaveManagedState, SaveSessionInfo, QueuePut
  <2>3. \A k \in Shared : Kept(k)
    BY <2>2, PutEntry
  <2>4. mixed' \subseteq Shared
    BY <2>1 DEF ManagerBounds
  <2> QED BY <2>1, <2>3, <2>4, SaveBounds
<1>3. ASSUME NEW t \in Tasks, NEW i \in Items, SaveError(t, i) \/ ClearError(t, i)
      PROVE  ManagerBounds'
  <2> DEFINE e == ErrorOf(i)
  <2>1. /\ calls < MaxCalls /\ calls' = calls + 1 /\ mixed' = Mixed(t, e) /\ task' = task
        /\ updates' = updates \/ updates' = [updates EXCEPT ![e] = 0]
        /\ \A k : Kept(k) \/ data'[k] = 0
    BY <1>3, PutEntry, DeleteEntry DEF SaveError, ClearError, Begin
  <2>2. e \in Shared
    BY KeyFacts
  <2> HIDE DEF e
  <2>3. mixed' \subseteq Shared
    BY <2>1, <2>2 DEF Mixed, ManagerBounds
  <2>4. \A k \in Shared : updates'[k] = updates[k] \/ updates'[k] = 0
    BY <2>1 DEF ManagerInv
  <2> QED BY <2>1, <2>3, <2>4, SaveBounds
<1>4. ASSUME NEW t \in Tasks,
             IncrementCounter(t) \/ RecordProcessingTime(t) \/ UpdateState(t)
             \/ \E i \in Items : IncrementRetryCount(t, i)
      PROVE  ManagerBounds'
  BY <1>4, KeyFacts, BeginUpdateBounds, WriteBounds
     DEF IncrementCounter, RecordProcessingTime, UpdateState, IncrementRetryCount, BeginRetry
<1>5. ASSUME ManagerRestart PROVE ManagerBounds'
  <2>1. task' = [t \in Tasks |-> NoUpdate] /\ UNCHANGED <<calls, updates, mixed>> /\ \A k : Kept(k)
    BY <1>5, OtherEntry DEF ManagerRestart
  <2>2. \A t \in Tasks : task'[t].key = NoKey /\ task'[t].saw = 0 /\ task'[t].delete = {}
    BY <2>1 DEF NoUpdate
  <2>3. calls \in Nat /\ calls' \in 0..MaxCalls /\ calls' = calls /\ mixed' \subseteq Shared
    BY <2>1, ManagerAssumption DEF ManagerBounds
  <2>4. ASSUME NEW k \in Shared
        PROVE  /\ updates'[k] \in Nat /\ updates'[k] + Cardinality(Updating(k)') <= calls'
               /\ k \in DOMAIN data' => data'[k] \in 0..calls'
    <3>1. Updating(k)' = {}
      BY <2>2, KeyFacts DEF Updating
    <3>2. Cardinality(Updating(k)') = 0
      BY <3>1, FS_EmptySet
    <3>3. updates[k] \in Nat /\ updates[k] + Cardinality(Updating(k)) <= calls
          /\ (k \in DOMAIN data => data[k] \in 0..calls) /\ Cardinality(Updating(k)) \in Nat
      BY UpdatingFacts DEF ManagerBounds
    <3> QED BY <2>1, <2>3, <3>2, <3>3 DEF Kept
  <2>5. \A t \in Tasks :
          /\ task'[t].key \in Shared \cup {NoKey} /\ NoKey \notin task'[t].delete
          /\ task'[t].saw \in 0..calls' /\ (task'[t].key \in Shared => task'[t].saw < calls')
    BY <2>2, <2>3, KeyFacts
  <2> QED BY <2>3, <2>4, <2>5
          DEF ManagerBounds, Shared, NoKey, Updating, Counter, TrackerState, Timing, ErrorOf
<1>6. ASSUME NEW t \in Tasks, ClearErrors(t)
      PROVE  ManagerBounds'
  BY <1>6, ClearErrorsBounds
<1>7. ManagerBounds'
  BY <1>2, <1>3, <1>4, <1>5, <1>6 DEF ManagerNext
<1> QED BY <1>1, <1>7

\* What is chosen are URLs of the queue, and what is left of it is a queue.
LEMMA ChosenTypes ==
  ASSUME NEW m, m.queue \in Seq(Urls), NEW n
  PROVE  Chosen(m, n).refs \subseteq Urls /\ Chosen(m, n).left \in Seq(Urls)
<1> DEFINE q == m.queue
           new(k) == {q[j] : j \in 1..k} \ m.processed
           enough == {k \in 1..Len(q) : Cardinality(new(k)) = n}
           upto == IF enough = {} THEN Len(q) ELSE Min(enough)
<1>1. Chosen(m, n) = [refs |-> new(upto), left |-> SubSeq(q, upto + 1, Len(q))]
  BY DEF Chosen
<1>2. q \in Seq(Urls) /\ Len(q) \in Nat
  OBVIOUS
<1>3. upto \in 0..Len(q)
  <2>1. enough \subseteq 1..Len(q)
    OBVIOUS
  <2> HIDE DEF enough, q
  <2>2. CASE enough = {}
    BY <1>2, <2>2
  <2>3. CASE enough # {}
    <3>1. enough \in SUBSET Nat
      BY <1>2, <2>1
    <3>2. Min(enough) \in enough
      BY <2>3, <3>1, LeastNumber
    <3>3. Min(enough) \in 1..Len(q)
      BY <2>1, <3>2
    <3>4. upto = Min(enough)
      BY <2>3
    <3> HIDE DEF upto
    <3> QED BY <1>2, <3>3, <3>4
  <2> QED BY <2>2, <2>3
<1> HIDE DEF upto, q
<1>4. new(upto) \subseteq Urls
  BY <1>2, <1>3
<1>5. SubSeq(q, upto + 1, Len(q)) \in Seq(Urls)
  BY <1>2, <1>3
<1> HIDE DEF new
<1> QED BY <1>1, <1>4, <1>5

\* A date locator's queue holds at most the URL of its date.
LEMMA ReachedTypes ==
  ASSUME NEW m, Reached(m)
  PROVE  m.queue \in Seq(Urls)
<1>1. m.current \in Urls /\ (m.queue = <<>> \/ m.queue = <<m.current>>)
  BY DEF Reached
<1>2. <<>> \in Seq(Urls) /\ <<m.current>> \in Seq(Urls)
  BY <1>1
<1> QED BY <1>1, <1>2

\* The memory that a request goes by.
Known(m) ==
  /\ m.queue \in Seq(Urls) /\ m.initialized \in BOOLEAN
  /\ conf.class = "single" => m.current = NoDate
  /\ \A u \in Urls \ m.processed : given[u] < run.number
  /\ Informed => m = mem

LEMMA LoadedKnown ==
  ASSUME LocatorInv, LocatorBounds, conf.class # "single"
  PROVE  Known(Loaded)
<1>1. LET m == Loaded
      IN Ready(m) /\ Reached(m) /\ m.initialized = TRUE
  BY LoadedFacts
<1>2. Loaded.queue \in Seq(Urls)
  BY <1>1, ReachedTypes
<1>3. Informed => Loaded = mem
  BY DEF Informed, Loaded
<1>4. \A u \in Urls \ Loaded.processed : given[u] < run.number
  BY <1>3 DEF LocatorBounds, OncePerRun
<1> QED BY <1>1, <1>2, <1>3, <1>4 DEF Known

LEMMA SingleKnown ==
  ASSUME LocatorInv, LocatorBounds, conf.class = "single"
  PROVE  Known(SingleLoaded)
<1>1. SingleLoaded.initialized = FALSE
  BY SingleFacts
<1>2. mem.queue \in Seq(Urls) /\ mem.current = NoDate /\ (Informed <=> mem.processed # {})
  BY DEF LocatorBounds, Informed
<1>3. Informed => SingleLoaded = mem
  BY <1>2 DEF SingleLoaded
<1>4. SingleLoaded.queue \in Seq(Urls) /\ SingleLoaded.current = NoDate
  <2>1. CASE mem.processed # {}
    BY <1>2, <2>1 DEF SingleLoaded
  <2>2. CASE mem.processed = {}
    <3> DEFINE done == Get(ProcessedKey, {})
               left == Unprocessed(mem.queue, done)
    <3>1. left \in Seq(Urls)
      BY <1>2, UnprocessedSeq
    <3>2. SingleLoaded = [mem EXCEPT !.processed = done, !.queue = left]
      BY <2>2 DEF SingleLoaded
    <3>3. Whole(mem)
      BY DEF LocatorInv, Records, Whole
    <3> HIDE DEF done, left
    <3> QED BY <1>2, <3>1, <3>2, <3>3 DEF Whole
  <2> QED BY <2>1, <2>2
<1>5. \A u \in Urls \ SingleLoaded.processed : given[u] < run.number
  BY <1>3 DEF LocatorBounds, OncePerRun
<1> QED BY <1>1, <1>3, <1>4, <1>5 DEF Known

LEMMA AskBounds ==
  ASSUME LocatorInv, LocatorBounds, NEW m, NEW n, Ask(m, n), Ready(m), Known(m)
  PROVE  LocatorBounds'
<1> DEFINE refs == Chosen(m, n).refs
<1>1. /\ ask.at = "idle" /\ ask.refs = {} /\ UNCHANGED <<conf, given>>
      /\ mem'.queue = Chosen(m, n).left /\ mem'.processed = m.processed \cup refs
      /\ mem'.current = m.current /\ mem'.initialized = m.initialized
      /\ popped' = popped \cup refs /\ run'.number = run.number
      /\ ask'.refs \subseteq refs
      /\ \/ stage' = [u \in Urls |-> IF u \in refs THEN "chosen" ELSE stage[u]]
         \/ stage' = [u \in Urls |-> IF u \in refs THEN "lost" ELSE stage[u]]
  BY AskEffect DEF Ready
<1>2. refs \subseteq Urls /\ mem'.queue \in Seq(Urls) /\ refs \cap m.processed = {}
  BY <1>1, ChosenTypes, ChosenIsNew DEF Known
<1>3. ask'.at \in AskStages /\ run'.faults \in 0..MaxFaults
  <2>1. \/ /\ ask' = [at |-> IF conf.class = "single" THEN "return" ELSE "save_state", refs |-> refs]
           /\ \E b : run' = [run EXCEPT !.blanks = b]
        \/ /\ ask' = NoAsk /\ run.faults < MaxFaults
           /\ \E b : run' = [run EXCEPT !.faults = run.faults + 1, !.cut = TRUE, !.blanks = b]
    BY DEF Ask
  <2>2. run = [number |-> run.number, retired |-> run.retired, faults |-> run.faults,
               blanks |-> run.blanks, cut |-> run.cut]
    BY DEF LocatorInv, Records
  <2>3. run.faults \in 0..MaxFaults /\ MaxFaults \in Nat
    BY LocatorAssumption DEF LocatorBounds
  <2> HIDE DEF refs
  <2>4. ask'.at \in AskStages
    <3> DEFINE a == IF conf.class = "single" THEN "return" ELSE "save_state"
    <3>1. ask' = [at |-> a, refs |-> refs] \/ ask' = NoAsk
      BY <2>1
    <3>2. a \in {"return", "save_state"}
      OBVIOUS
    <3> HIDE DEF a
    <3>3. ask'.at = a \/ ask'.at = "idle"
      BY <3>1 DEF NoAsk
    <3> QED BY <3>2, <3>3 DEF AskStages
  <2>5. run'.faults = run.faults \/ (run.faults < MaxFaults /\ run'.faults = run.faults + 1)
    <3>1. ASSUME NEW b, run' = [run EXCEPT !.blanks = b] PROVE run'.faults = run.faults
      BY <2>2, <3>1
    <3>2. ASSUME NEW b, run' = [run EXCEPT !.faults = run.faults + 1, !.cut = TRUE, !.blanks = b]
          PROVE  run'.faults = run.faults + 1
      BY <2>2, <3>2
    <3> QED BY <2>1, <3>1, <3>2
  <2> QED BY <2>3, <2>4, <2>5
<1> HIDE DEF refs
<1>4. stage' \in [Urls -> Stages]
  BY <1>1 DEF LocatorBounds, Stages, Busy
<1>5. Informed => mem.processed \subseteq mem'.processed /\ Informed'
  <2>1. mem.processed \subseteq m.processed
    BY DEF Ready
  <2> QED BY <1>1, <2>1 DEF Informed, Known
<1>6. OncePerRun'
  <2>1. \A u \in ask'.refs : given'[u] < run'.number
    BY <1>1, <1>2 DEF Known
  <2>2. \A u \in Urls \ mem'.processed : given'[u] < run'.number
    BY <1>1 DEF Known
  <2>3. ~Informed' => \A u \in Urls : given'[u] < run'.number
    BY <1>1, <1>5 DEF LocatorBounds, OncePerRun
  <2>4. \A u \in Urls : given'[u] <= run'.number
    BY <1>1 DEF LocatorBounds, OncePerRun
  <2> QED BY <2>1, <2>2, <2>3, <2>4 DEF OncePerRun, Urls
<1>7. /\ popped' \subseteq Urls /\ mem'.initialized \in BOOLEAN /\ run'.number \in 1..MaxRuns
      /\ conf'.class = "single" => mem'.current = NoDate
  BY <1>1, <1>2 DEF LocatorBounds, Known
<1> QED BY <1>2, <1>3, <1>4, <1>6, <1>7 DEF LocatorBounds, Urls, AskStages, Stages, Busy

\* A handler's store operation reports what is its to report, or fails and is counted.
LEMMA StepTypes ==
  ASSUME Records, LocatorBounds, NEW u \in Urls, NEW from, NEW to \in Stages, NEW key, NEW value, NEW ttl,
         Step(u, from, to, key, value, ttl)
  PROVE  stage'[u] \in Stages /\ run'.faults \in 0..MaxFaults
<1>1. \/ run' = [run EXCEPT !.cut = run.cut \/ to \in Failing]
      \/ run.faults < MaxFaults /\ run' = [run EXCEPT !.faults = @ + 1, !.cut = TRUE]
  BY DEF Step, Raises
<1>2. stage'[u] \in {to, "failed"}
  BY StepEffect
<1>3. run = [number |-> run.number, retired |-> run.retired, faults |-> run.faults,
             blanks |-> run.blanks, cut |-> run.cut]
  BY DEF Records
<1>4. run.faults \in 0..MaxFaults /\ MaxFaults \in Nat
  BY LocatorAssumption DEF LocatorBounds
<1>5. run'.faults = run.faults \/ (run.faults < MaxFaults /\ run'.faults = run.faults + 1)
  <2> DEFINE cut == run.cut \/ to \in Failing
  <2>1. \/ run' = [run EXCEPT !.cut = cut]
        \/ run.faults < MaxFaults /\ run' = [run EXCEPT !.faults = run.faults + 1, !.cut = TRUE]
    BY <1>1
  <2> HIDE DEF cut
  <2>2. CASE run' = [run EXCEPT !.cut = cut]
    BY <1>3, <2>2
  <2>3. CASE run.faults < MaxFaults /\ run' = [run EXCEPT !.faults = run.faults + 1, !.cut = TRUE]
    BY <1>3, <2>3
  <2> QED BY <2>1, <2>2, <2>3
<1> QED BY <1>2, <1>4, <1>5 DEF Stages

LEMMA HandlerTypes ==
  ASSUME LocatorInv, LocatorBounds, NEW u \in Urls, HandlerStep(u)
  PROVE  /\ stage'[u] \in Stages /\ run'.faults \in 0..MaxFaults
         /\ popped' = popped
<1>1. Records /\ {"recorded", "saving", "done", "reported", "saving_error", "failed"} \subseteq Stages
  BY DEF LocatorInv, Stages, Busy
<1>2. CASE Unreported(u)
  <2>1. /\ stage' = [stage EXCEPT ![u] = "failed"] /\ run' = [run EXCEPT !.cut = TRUE]
        /\ popped' = popped
    BY <1>2 DEF Unreported, To
  <2>2. stage'[u] = "failed"
    BY <2>1 DEF LocatorBounds
  <2>3. run'.faults = run.faults
    BY <1>1, <2>1 DEF Records
  <2> QED BY <1>1, <2>1, <2>2, <2>3 DEF LocatorBounds
<1>3. ASSUME NEW from, NEW to, NEW key, NEW value, NEW ttl, Step(u, from, to, key, value, ttl),
             to \in {"recorded", "saving", "done", "reported", "saving_error", "failed"}
      PROVE  stage'[u] \in Stages /\ run'.faults \in 0..MaxFaults /\ popped' = popped
  <2>1. to \in Stages /\ popped' = popped
    BY <1>1, <1>3 DEF Step
  <2> QED BY <1>1, <1>3, <2>1, StepTypes
<1>4. CASE Record(u) \/ (\E refs \in BOOLEAN : Advance(u, refs)) \/ SavePosition(u)
  BY <1>3, <1>4 DEF Record, Advance, SavePosition
<1>5. CASE SaveAfterError(u) \/ ReportError(u) \/ SingleSave(u) \/ SingleError(u)
  BY <1>3, <1>5 DEF SaveAfterError, ReportError, SingleSave, SingleError
<1>6. \/ Record(u) \/ SavePosition(u) \/ SaveAfterError(u) \/ ReportError(u) \/ SingleSave(u)
      \/ SingleError(u) \/ Unreported(u) \/ \E refs \in BOOLEAN : Advance(u, refs)
  BY DEF HandlerStep, PaginationRecord, ComplexRecord, ReverseRecord, SingleRecord,
         PaginationAdvance, ComplexAdvance, ReverseAdvance, PaginationSave, ComplexSave,
         ReverseSave, PaginationError, ComplexError, ReverseError
<1> QED BY <1>2, <1>4, <1>5, <1>6

\* A step that hands out nothing, forgets nothing and ends no run.
LEMMA StillOnce ==
  ASSUME OncePerRun, UNCHANGED given, run'.number = run.number, ask'.refs \subseteq ask.refs,
         mem.processed \subseteq mem'.processed, Informed => Informed'
  PROVE  OncePerRun'
BY DEF OncePerRun, Urls

LEMMA HandlerBounds ==
  ASSUME LocatorInv, LocatorBounds, NEW u \in Urls, HandlerStep(u)
  PROVE  LocatorBounds'
<1>1. /\ stage' = [v \in Urls |-> IF v = u THEN stage'[u] ELSE stage[v]]
      /\ UNCHANGED <<conf, ask, given>> /\ run'.number = run.number
      /\ mem'.initialized = mem.initialized /\ mem.processed \subseteq mem'.processed
      /\ conf.class = "single" => mem'.queue = mem.queue /\ mem'.current = mem.current
  BY HandlerHasEffect DEF HandlerEffect, Handled
<1>2. stage'[u] \in Stages /\ run'.faults \in 0..MaxFaults /\ popped' = popped
  BY HandlerTypes
<1>3. stage' \in [Urls -> Stages]
  BY <1>1, <1>2 DEF LocatorBounds
<1>4. Informed => Informed'
  BY <1>1 DEF Informed
<1>5. OncePerRun'
  BY <1>1, <1>4, StillOnce DEF LocatorBounds
<1>6. conf'.class = "single" => mem'.queue \in Seq(Urls) /\ mem'.current = NoDate
  BY <1>1 DEF LocatorBounds
<1> QED BY <1>1, <1>2, <1>3, <1>5, <1>6 DEF LocatorBounds, Urls, AskStages, Stages, Busy

LEMMA SaveStateBounds ==
  ASSUME LocatorInv, LocatorBounds, SaveState
  PROVE  LocatorBounds'
<1>1. Records
  BY DEF LocatorInv
<1>2. /\ UNCHANGED <<conf, mem, given, popped>>
      /\ \/ ask' = [ask EXCEPT !.at = "return"] /\ UNCHANGED <<run, stage>>
         \/ /\ ask' = NoAsk /\ run.faults < MaxFaults
            /\ run' = [run EXCEPT !.faults = @ + 1, !.cut = TRUE]
            /\ stage' = [u \in Urls |-> IF u \in ask.refs THEN "lost" ELSE stage[u]]
  BY DEF SaveState, Raises
<1>3. ask'.at \in {"return", "idle"} /\ ask'.refs \subseteq ask.refs
  BY <1>1, <1>2 DEF Records, NoAsk
<1>4. run'.number = run.number /\ run'.faults \in 0..MaxFaults
  <2>1. run.faults \in 0..MaxFaults /\ MaxFaults \in Nat
    BY LocatorAssumption DEF LocatorBounds
  <2>2. CASE run' = run
    BY <2>1, <2>2
  <2>3. CASE run.faults < MaxFaults /\ run' = [run EXCEPT !.faults = @ + 1, !.cut = TRUE]
    <3>1. run'.number = run.number /\ run'.faults = run.faults + 1
      BY <1>1, <2>3 DEF Records
    <3> QED BY <2>1, <2>3, <3>1
  <2> QED BY <1>2, <2>2, <2>3
<1>5. stage' \in [Urls -> Stages]
  BY <1>2 DEF LocatorBounds, Stages
<1>6. Informed => Informed'
  BY <1>2 DEF Informed
<1>7. OncePerRun'
  BY <1>2, <1>3, <1>4, <1>6, StillOnce DEF LocatorBounds
<1> QED BY <1>2, <1>3, <1>4, <1>5, <1>7 DEF LocatorBounds, Urls, AskStages, Stages, Busy

\* What is handed out has not been handed out in this run, and the memory says so from now on.
LEMMA ReturnBounds ==
  ASSUME LocatorInv, LocatorBounds, Return
  PROVE  LocatorBounds'
<1>1. Records /\ OnRecord
  BY DEF LocatorInv
<1>2. /\ ask' = NoAsk /\ UNCHANGED <<conf, mem, popped>>
      /\ stage' = [u \in Urls |-> IF u \in ask.refs THEN "handed" ELSE stage[u]]
      /\ given' = [u \in Urls |-> IF u \in ask.refs THEN given[u] + 1 ELSE given[u]]
      /\ run' = [run EXCEPT !.retired = (ask.refs = {})]
  BY DEF Return
<1>3. run'.number = run.number /\ run'.faults = run.faults /\ run.number \in Nat
  BY <1>1, <1>2 DEF Records
<1>4. ask'.at = "idle" /\ ask'.refs = {}
  BY <1>2 DEF NoAsk
<1>5. stage' \in [Urls -> Stages]
  BY <1>2 DEF LocatorBounds, Stages, Busy
<1>6. (Informed <=> Informed') /\ (ask.refs # {} => Informed) /\ ask.refs \subseteq mem.processed
  <2>1. Informed <=> Informed'
    BY <1>2 DEF Informed
  <2> QED BY <1>1, <2>1 DEF OnRecord
<1>7. OncePerRun'
  <2>1. \A u \in Urls : given[u] \in Nat
    BY <1>1 DEF Records
  <2>2. \A u \in Urls : given'[u] <= run.number
    BY <1>2, <1>3, <2>1 DEF LocatorBounds, OncePerRun
  <2>3. \A u \in Urls \ ask.refs : given'[u] = given[u]
    BY <1>2
  <2>4. \A u \in Urls \ mem'.processed : given'[u] < run'.number
    BY <1>2, <1>3, <1>6, <2>3 DEF LocatorBounds, OncePerRun
  <2>5. ~Informed' => \A u \in Urls : given'[u] < run'.number
    BY <1>3, <1>6, <2>3 DEF LocatorBounds, OncePerRun
  <2> QED BY <1>3, <1>4, <2>2, <2>4, <2>5 DEF OncePerRun, Urls
<1> QED BY <1>2, <1>3, <1>4, <1>5, <1>7 DEF LocatorBounds, Urls, AskStages, Stages, Busy

\* What a new locator knows, and Single's list of URLs.
StartedWell(m) ==
  /\ m.processed = {} /\ m.initialized = FALSE /\ m.current = NoDate
  /\ m.queue \in Seq(Urls)

LEMMA StartedFacts ==
  ASSUME NEW class
  PROVE  StartedWell(Started(class))
<1> DEFINE all == [u \in Urls |-> u]
<1>1. all \in Seq(Urls)
  BY LocatorAssumption DEF Urls
<1>2. <<>> \in Seq(Urls)
  OBVIOUS
<1>3. Started(class) = Fresh \/ Started(class) = [Fresh EXCEPT !.queue = all]
  BY DEF Started
<1> HIDE DEF all
<1>4. StartedWell(Fresh)
  BY <1>2 DEF StartedWell, Fresh
<1>5. LET m == [Fresh EXCEPT !.queue = all]
      IN m.processed = {} /\ m.initialized = FALSE /\ m.current = NoDate /\ m.queue = all
  BY DEF Fresh
<1>6. StartedWell([Fresh EXCEPT !.queue = all])
  BY <1>1, <1>5 DEF StartedWell
<1> QED BY <1>3, <1>4, <1>6

\* In the next run each URL may be handed out once more.
LEMMA NewRunBounds ==
  ASSUME LocatorInv, LocatorBounds, NEW cut, NewRun(cut)
  PROVE  LocatorBounds'
<1>1. Records
  BY DEF LocatorInv
<1>2. /\ run.number < MaxRuns /\ run' = [run EXCEPT !.number = @ + 1, !.retired = FALSE, !.cut = @ \/ cut]
      /\ mem' = Started(conf.class) /\ ask' = NoAsk
      /\ stage' = [u \in Urls |-> IF stage[u] \in Busy THEN "lost" ELSE stage[u]]
      /\ UNCHANGED <<conf, given, popped>>
  BY DEF NewRun
<1>3. /\ run'.number = run.number + 1 /\ run'.faults = run.faults /\ run'.number \in 1..MaxRuns
      /\ run.number \in Nat
  <2> DEFINE c == run.cut \/ cut
  <2>1. run' = [run EXCEPT !.number = run.number + 1, !.retired = FALSE, !.cut = c]
    BY <1>2
  <2> HIDE DEF c
  <2>2. run'.number = run.number + 1 /\ run'.faults = run.faults
    BY <1>1, <2>1 DEF Records
  <2> QED BY <1>1, <1>2, <2>2, LocatorAssumption DEF Records
<1>4. StartedWell(mem)' /\ ~Informed'
  BY <1>2, StartedFacts DEF StartedWell, Informed
<1>5. ask'.at = "idle" /\ ask'.refs = {}
  BY <1>2 DEF NoAsk
<1>6. stage' \in [Urls -> Stages]
  BY <1>2 DEF LocatorBounds, Stages
<1>7. OncePerRun'
  <2>1. \A u \in Urls : given'[u] \in Nat /\ given'[u] < run'.number
    BY <1>1, <1>2, <1>3 DEF LocatorBounds, OncePerRun, Records
  <2>2. \A u \in Urls : given'[u] <= run'.number
    BY <1>3, <2>1
  <2> QED BY <1>5, <2>1, <2>2 DEF OncePerRun, Urls
<1> QED BY <1>2, <1>3, <1>4, <1>5, <1>6, <1>7
        DEF LocatorBounds, StartedWell, Urls, AskStages, Stages, Busy

\* Steps of somebody else.
LEMMA QuietLocator ==
  ASSUME LocatorBounds, UNCHANGED locatorVars
  PROVE  LocatorBounds'
<1>1. UNCHANGED <<conf, mem, ask, stage, given, popped, run>>
  BY DEF locatorVars
<1>2. OncePerRun'
  <2>1. Informed <=> Informed'
    BY <1>1 DEF Informed
  <2> QED BY <1>1, <2>1, StillOnce DEF LocatorBounds
<1> QED BY <1>1, <1>2 DEF LocatorBounds, Urls, AskStages, Stages, Busy

LEMMA QuietBounds ==
  ASSUME ManagerBounds, UNCHANGED managerVars, \A k \in Shared : Kept(k) \/ data'[k] = 0
  PROVE  ManagerBounds'
<1>1. UNCHANGED <<task, calls, updates, mixed>> /\ calls \in Nat
  BY ManagerAssumption DEF managerVars, ManagerBounds
<1>2. ASSUME NEW k \in Shared
      PROVE  /\ updates'[k] \in Nat /\ updates'[k] + Cardinality(Updating(k)') <= calls'
             /\ k \in DOMAIN data' => data'[k] \in 0..calls'
  <2>1. Updating(k)' = Updating(k)
    BY <1>1 DEF Updating
  <2> QED BY <1>1, <2>1 DEF ManagerBounds, Kept
<1> QED BY <1>1, <1>2
        DEF ManagerBounds, Shared, NoKey, Updating, Counter, TrackerState, Timing, ErrorOf

LEMMA LocatorBoundsKept ==
  ASSUME LocatorInv, LocatorBounds, LocatorNext
  PROVE  LocatorBounds'
<1>1. CASE \E u \in Urls : HandlerStep(u)
  BY <1>1, HandlerBounds
<1>2. CASE EndRun \/ Crash
  BY <1>2, NewRunBounds DEF EndRun, Crash
<1>3. ASSUME NEW n \in 1..LastDate, PaginationAsk(n) \/ ComplexAsk(n) \/ ReverseAsk(n) \/ SingleAsk(n)
      PROVE  LocatorBounds'
  <2>1. CASE SingleAsk(n)
    <3>1. conf.class = "single" /\ Ask(SingleLoaded, n)
      BY <2>1 DEF SingleAsk
    <3>2. Ready(SingleLoaded) /\ Known(SingleLoaded)
      BY <3>1, SingleFacts, SingleKnown
    <3> QED BY <3>1, <3>2, AskBounds
  <2>2. CASE PaginationAsk(n) \/ ComplexAsk(n) \/ ReverseAsk(n)
    <3>1. conf.class # "single" /\ Ask(Loaded, n)
      BY <2>2 DEF PaginationAsk, ComplexAsk, ReverseAsk
    <3>2. Ready(Loaded) /\ Known(Loaded)
      BY <3>1, LoadedFacts, LoadedKnown
    <3> QED BY <3>1, <3>2, AskBounds
  <2> QED BY <1>3, <2>1, <2>2
<1> QED BY <1>1, <1>2, <1>3, SaveStateBounds, ReturnBounds DEF LocatorNext, AskStep

LEMMA TypesStart ==
  ASSUME Init
  PROVE  TypesInv
<1>1. StoreTypeOK
  BY StoreAssumption DEF Init, StoreInit, StoreTypeOK
<1>2. LocatorBounds
  <2>1. /\ mem = Started(conf.class) /\ ask = NoAsk /\ popped = {}
        /\ stage = [u \in Urls |-> "none"] /\ given = [u \in Urls |-> 0]
        /\ run = [number |-> 1, retired |-> FALSE, faults |-> 0, blanks |-> 0, cut |-> FALSE]
    BY DEF Init, LocatorInit
  <2>2. StartedWell(mem)
    BY <2>1, StartedFacts
  <2>3. run.number = 1 /\ run.faults = 0 /\ ask.at = "idle" /\ ask.refs = {}
    BY <2>1 DEF NoAsk
  <2>4. OncePerRun
    BY <2>1, <2>3 DEF OncePerRun
  <2>5. run.number \in 1..MaxRuns /\ run.faults \in 0..MaxFaults
    BY <2>3, LocatorAssumption
  <2>6. stage \in [Urls -> Stages] /\ ask.at \in AskStages
    BY <2>1, <2>3 DEF Stages, AskStages
  <2>7. mem.initialized \in BOOLEAN /\ mem.queue \in Seq(Urls) /\ mem.current = NoDate
    BY <2>2 DEF StartedWell
  <2> QED BY <2>1, <2>4, <2>5, <2>6, <2>7 DEF LocatorBounds
<1>3. /\ task = [t \in Tasks |-> NoUpdate] /\ calls = 0 /\ updates = [k \in Shared |-> 0]
      /\ mixed = {} /\ data = <<>> /\ client \in {"locator", "manager"}
  BY DEF Init, ManagerInit, StoreInit
<1>4. ManagerBounds
  <2>1. \A t \in Tasks : task[t].key = NoKey /\ task[t].saw = 0 /\ task[t].delete = {}
    BY <1>3 DEF NoUpdate
  <2>2. \A k \in Shared : Updating(k) = {} /\ Cardinality(Updating(k)) = 0
    BY <2>1, KeyFacts, FS_EmptySet DEF Updating
  <2> QED BY <1>3, <2>1, <2>2, KeyFacts, ManagerAssumption DEF ManagerBounds
<1> QED BY <1>1, <1>2, <1>3, <1>4 DEF TypesInv

LEMMA TypesKeep ==
  ASSUME StoreInv, ClientsInv, TypesInv, [Next]_vars
  PROVE  TypesInv'
<1>1. StoreTypeOK'
  BY NextIsOp, StoreTypes DEF TypesInv
<1>2. CASE LocatorStep
  <2>1. LocatorNext /\ UNCHANGED <<managerVars, client>> /\ client = "locator"
    BY <1>2 DEF LocatorStep
  <2>2. LocatorBounds'
    BY <2>1, LocatorBoundsKept DEF ClientsInv, TypesInv
  <2>3. ManagerBounds'
    BY <2>1, LocatorLeavesCounts, QuietBounds DEF ClientsInv, TypesInv
  <2> QED BY <1>1, <2>1, <2>2, <2>3 DEF TypesInv, managerVars, NoUpdate, NoKey
<1>3. CASE ManagerStep
  <2>1. /\ ManagerNext \/ ManagerRestart \/ (\E t \in Tasks : QueuePut(t))
        /\ UNCHANGED <<locatorVars, client>> /\ client = "manager"
    BY <1>3 DEF ManagerStep
  <2>2. ManagerBounds' /\ NoKey \notin DOMAIN data'
    BY <2>1, ManagerBoundsKept DEF ClientsInv, TypesInv
  <2>3. LocatorBounds'
    BY <2>1, QuietLocator DEF TypesInv
  <2> QED BY <1>1, <2>1, <2>2, <2>3 DEF TypesInv, NoKey
<1>4. CASE StoreStep \/ UNCHANGED vars
  <2>1. UNCHANGED <<locatorVars, managerVars, client>> /\ \A k : Kept(k)
    BY <1>4, OtherEntry DEF StoreStep, vars, StoreUntouched
  <2>2. LocatorBounds' /\ ManagerBounds'
    BY <2>1, QuietBounds, QuietLocator DEF TypesInv
  <2>3. NoKey \notin DOMAIN data => NoKey \notin DOMAIN data'
    BY <2>1 DEF Kept
  <2> QED BY <1>1, <2>1, <2>2, <2>3 DEF TypesInv, managerVars, NoUpdate, NoKey
<1> QED BY <1>2, <1>3, <1>4 DEF Next

\* Every variable of the store and of both its clients has its type, for both stores, all four
\* locators and any number of tasks: no URL is handed out twice in one run of the program, no
\* entry counts more increments than there were calls, and the queue of pending URLs, filtered
\* at each load, stays one.
THEOREM StoreClientsTypeCorrect == Spec => []TypeOK
<1>1. Init => TypesInv
  BY TypesStart
<1>2. StoreInv /\ ClientsInv /\ TypesInv /\ [Next]_vars => TypesInv'
  BY TypesKeep
<1>3. ClientsInv /\ TypesInv => TypeOK
  <2> SUFFICES ASSUME ClientsInv, TypesInv PROVE TypeOK
    OBVIOUS
  <2>1. Records /\ OnRecord /\ InStep /\ LocatorBounds
    BY DEF ClientsInv, LocatorInv, TypesInv
  <2>2. mem.processed \subseteq Urls /\ ask.refs \subseteq Urls
    BY <2>1 DEF InStep, LocatorBounds
  <2>3. mem.queue \in Seq(Urls) /\ mem.current \in Urls \cup {NoDate}
    <3>1. CASE conf.class = "single"
      BY <2>1, <3>1 DEF LocatorBounds
    <3>2. CASE conf.class # "single" /\ mem.initialized
      <4>1. Reached(mem)
        BY <2>1, <3>2 DEF InStep
      <4> QED BY <4>1, ReachedTypes DEF Reached
    <3>3. CASE conf.class # "single" /\ ~mem.initialized
      <4>1. mem = Fresh
        BY <2>1, <3>3 DEF InStep
      <4>2. mem.queue = <<>> /\ mem.current = NoDate
        BY <4>1 DEF Fresh
      <4>3. <<>> \in Seq(Urls)
        OBVIOUS
      <4> QED BY <4>2, <4>3
    <3> QED BY <3>1, <3>2, <3>3
  <2>4. given \in [Urls -> 0..MaxRuns]
    <3>1. \A u \in Urls : given[u] \in 0..MaxRuns
      BY <2>1, LocatorAssumption DEF Records, LocatorBounds, OncePerRun
    <3> QED BY <2>1, <3>1 DEF Records
  <2>5. LocatorTypeOK
    BY <2>1, <2>2, <2>3, <2>4 DEF LocatorTypeOK, LocatorBounds, Records
  <2>6. ManagerTypeOK
    <3>1. updates = [k \in Shared |-> updates[k]] /\ ManagerBounds
      BY DEF ClientsInv, ManagerInv, TypesInv
    <3>2. calls \in 0..MaxCalls /\ MaxCalls \in Nat
      BY <3>1, ManagerAssumption DEF ManagerBounds
    <3>3. \A k \in Shared : updates[k] \in 0..MaxCalls
      BY <3>1, <3>2, UpdatingFacts DEF ManagerBounds
    <3>4. updates \in [Shared -> 0..MaxCalls]
      BY <3>1, <3>3
    <3>5. \A t \in Tasks : task[t].key \in Shared \cup {NoKey} /\ task[t].saw \in 0..MaxCalls
      BY <3>1, <3>2 DEF ManagerBounds
    <3> QED BY <3>1, <3>4, <3>5 DEF ManagerTypeOK, ManagerBounds
  <2> QED BY <2>5, <2>6 DEF TypeOK, TypesInv
<1> QED BY <1>1, <1>2, <1>3, StoreInvariant, ClientsInvariant, PTL DEF Spec

=============================================================================
