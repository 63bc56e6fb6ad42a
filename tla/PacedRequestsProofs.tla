------------------------- MODULE PacedRequestsProofs -------------------------
(***************************************************************************)
(* The rate limiter of a pool keeps its interval, the gates keep theirs    *)
(* and the pool its clients, for every number of tasks, every sequence of  *)
(* gates, every retry configuration and every way the wall clock is set.   *)
(* Three invariants, each inductive: RateInv for the rate limiter,         *)
(* PacedInv for types, pool and lock, GatesInv for the gates.              *)
(***************************************************************************)
EXTENDS PacedRequests, SequenceSets, TLAPS

Fields == {"at", "attempt", "gate", "began", "wake"}

\* As much of the types as the argument needs: nothing of the delays between attempts.
TimesOK ==
  /\ now \in Nat /\ skew \in Int /\ last \in Int /\ sentAt \in Int
  /\ DOMAIN task = Tasks
  /\ \A t \in Tasks : DOMAIN task[t] = Fields

\* Whoever sleeps in the rate limiter holds its lock, and wakes when the interval is over.
PacedHolds ==
  \A t \in Tasks : At(t, "paced") =>
    /\ holder = t
    /\ task[t].wake \in Int
    /\ sentAt # Never => task[t].wake >= sentAt + MinInterval

\* Seen by the clock, the last request is never longer ago than it is, unless it was forgotten
\* when the clock was set forward.
LastIsRecent == sentAt # Never => last >= sentAt + skew

RateInv == TimesOK /\ PacedHolds /\ LastIsRecent

-----------------------------------------------------------------------------
(* The steps *)

\* t moves to a record r; nobody else does.
Moves(t, r) ==
  /\ DOMAIN task' = Tasks /\ task'[t] = r
  /\ \A u \in Tasks \ {t} : task'[u] = task[u]

LEMMA RestingShape ==
  ASSUME NEW at
  PROVE  DOMAIN Resting(at) = Fields /\ Resting(at).at = at
BY DEF Resting, Fields

LEMMA MovesTo ==
  ASSUME TimesOK, NEW t \in Tasks, NEW r, task' = [task EXCEPT ![t] = r]
  PROVE  Moves(t, r)
BY DEF TimesOK, Moves

\* A task's step that has nothing to do with the rate limiter.
Quiet(t) ==
  /\ \E r : Moves(t, r) /\ DOMAIN r = Fields /\ r.at \notin {"paced", "sending"}
  /\ UNCHANGED <<now, skew, last, holder, sentAt>>

LEMMA RateInit == Init => RateInv
<1> SUFFICES ASSUME Init PROVE RateInv
  OBVIOUS
<1>1. TimesOK
  <2>1. now \in Nat /\ skew \in Int /\ last \in Int
    BY RetryAssumption DEF Init, TaskInit
  <2>2. sentAt \in Int
    BY DEF Init, Never
  <2>3. DOMAIN task = Tasks /\ \A t \in Tasks : DOMAIN task[t] = Fields
    BY DEF Init, TaskInit, Resting, Fields
  <2> QED BY <2>1, <2>2, <2>3 DEF TimesOK
<1>2. PacedHolds
  BY RestingShape DEF Init, TaskInit, PacedHolds, At
<1>3. LastIsRecent
  BY DEF Init, LastIsRecent
<1> QED BY <1>1, <1>2, <1>3 DEF RateInv

LEMMA QuietKeeps ==
  ASSUME RateInv, NEW t \in Tasks, Quiet(t)
  PROVE  RateInv'
<1>1. PICK r : Moves(t, r) /\ DOMAIN r = Fields /\ r.at # "paced"
  BY DEF Quiet
<1>2. TimesOK'
  BY <1>1 DEF RateInv, TimesOK, Quiet, Moves
<1>3. PacedHolds'
  BY <1>1 DEF RateInv, PacedHolds, At, Quiet, Moves
<1>4. LastIsRecent'
  BY DEF RateInv, LastIsRecent, Quiet
<1> QED BY <1>2, <1>3, <1>4 DEF RateInv

-----------------------------------------------------------------------------
(* Which steps are quiet *)

LEMMA GoesToMoves ==
  ASSUME TimesOK, NEW t \in Tasks, NEW at, GoesTo(t, at)
  PROVE  \E r : Moves(t, r) /\ DOMAIN r = Fields /\ r.at = at
BY MovesTo, RestingShape DEF GoesTo

LEMMA KeepingMoves ==
  ASSUME TimesOK, NEW t \in Tasks, NEW at, NEW wake, Keeping(t, at, wake)
  PROVE  \E r : Moves(t, r) /\ DOMAIN r = Fields /\ r.at = at /\ r.wake = wake
<1> DEFINE r == [Resting(at) EXCEPT !.attempt = task[t].attempt, !.wake = wake]
<1>1. DOMAIN r = Fields /\ r.at = at /\ r.wake = wake
  BY DEF Resting, Fields
<1>2. Moves(t, r)
  BY MovesTo DEF Keeping
<1> QED BY <1>1, <1>2

LEMMA AttemptMoves ==
  ASSUME TimesOK, NEW t \in Tasks, NEW attempt, Attempts(t, attempt)
  PROVE  \E r : Moves(t, r) /\ DOMAIN r = Fields /\ r.at = "gate"
<1> DEFINE r == [Resting("gate") EXCEPT !.attempt = attempt]
<1>1. DOMAIN r = Fields /\ r.at = "gate"
  BY DEF Resting, Fields
<1>2. Moves(t, r)
  BY MovesTo DEF Attempts
<1> QED BY <1>1, <1>2

LEMMA FailureMoves ==
  ASSUME TimesOK, NEW t \in Tasks, AttemptFails(t)
  PROVE  \E r : Moves(t, r) /\ DOMAIN r = Fields /\ r.at \in {"backoff", "ended"}
<1>1. CASE task[t].attempt < MaxRetries
  <2>1. PICK delay : Sleeps(t, "backoff", delay)
    BY <1>1 DEF AttemptFails
  <2> QED BY <2>1, KeepingMoves DEF Sleeps
<1>2. CASE ~(task[t].attempt < MaxRetries)
  BY <1>2, GoesToMoves DEF AttemptFails
<1> QED BY <1>1, <1>2

LEMMA WaitingMoves ==
  ASSUME TimesOK, NEW t \in Tasks, NEW ticks, WaitsFor(t, ticks)
  PROVE  \E r : Moves(t, r) /\ DOMAIN r = Fields /\ r.at = "gated"
<1> DEFINE r == [task[t] EXCEPT !.at = "gated", !.began = Clock, !.wake = now + ticks]
<1>1. DOMAIN task[t] = Fields
  BY DEF TimesOK
<1>2. DOMAIN r = Fields
  BY <1>1
<1>3. r.at = "gated"
  BY <1>1 DEF Fields
<1>4. Moves(t, r)
  BY MovesTo DEF WaitsFor
<1> QED BY <1>2, <1>3, <1>4

LEMMA PassingMoves ==
  ASSUME TimesOK, NEW t \in Tasks, NEW stamp, Passes(t, stamp)
  PROVE  \E r : Moves(t, r) /\ DOMAIN r = Fields /\ r.at = "gate"
<1> DEFINE r == [task[t] EXCEPT !.at = "gate", !.gate = task[t].gate + 1, !.began = 0, !.wake = 0]
<1>1. DOMAIN task[t] = Fields
  BY DEF TimesOK
<1>2. DOMAIN r = Fields
  BY <1>1
<1>3. r.at = "gate"
  BY <1>1 DEF Fields
<1>4. Moves(t, r)
  BY MovesTo DEF Passes
<1> QED BY <1>2, <1>3, <1>4

LEMMA GateIsQuiet ==
  ASSUME TimesOK, NEW t \in Tasks, CallGate(t) \/ LeaveGate(t)
  PROVE  \E r : Moves(t, r) /\ DOMAIN r = Fields /\ r.at \notin {"paced", "sending"}
<1>1. CASE \E ticks : WaitsFor(t, ticks)
  BY <1>1, WaitingMoves
<1>2. CASE \E stamp : Passes(t, stamp)
  BY <1>2, PassingMoves
<1>3. CASE AttemptFails(t)
  BY <1>3, FailureMoves
<1>4. (\E ticks : WaitsFor(t, ticks)) \/ (\E stamp : Passes(t, stamp)) \/ AttemptFails(t)
  BY DEF CallGate, LeaveGate, CallIntervalGate, CallDailyGate
<1> QED BY <1>1, <1>2, <1>3, <1>4

LEMMA PoolIsQuiet ==
  ASSUME TimesOK, NEW t \in Tasks, Acquire(t) \/ Woken(t) \/ Release(t)
  PROVE  \E r : Moves(t, r) /\ DOMAIN r = Fields /\ r.at \notin {"paced", "sending"}
<1>1. CASE FirstAttempt(t)
  BY <1>1, AttemptMoves DEF FirstAttempt
<1>2. CASE GoesTo(t, "waiting") \/ GoesTo(t, "out")
  BY <1>2, GoesToMoves
<1>3. FirstAttempt(t) \/ GoesTo(t, "waiting") \/ GoesTo(t, "out")
  BY DEF Acquire, Woken, Release, TakeIdle, Create, Wait, Leases
<1> QED BY <1>1, <1>2, <1>3

\* The steps of a request that the rate limiter takes no part in.
OtherStep(t) ==
  Lease(t) \/ Serve(t) \/ NextRequest(t) \/ GiveBack(t) \/ PassGate(t) \/ Answer(t) \/ Retry(t)

LEMMA OtherIsQuiet ==
  ASSUME TimesOK, NEW t \in Tasks, OtherStep(t)
  PROVE  Quiet(t)
<1>1. UNCHANGED <<now, skew, last, holder, sentAt>>
  BY DEF OtherStep, Lease, Serve, NextRequest, GiveBack, PassGate, Answer, Retry, timeVars, rateVars
<1>2. CASE Acquire(t) \/ Woken(t) \/ Release(t)
  BY <1>1, <1>2, PoolIsQuiet DEF Quiet
<1>3. CASE \E attempt : Attempts(t, attempt)
  BY <1>1, <1>3, AttemptMoves DEF Quiet
<1>4. CASE GoesTo(t, "out") \/ GoesTo(t, "ended")
  BY <1>1, <1>4, GoesToMoves DEF Quiet
<1>5. CASE AttemptFails(t)
  BY <1>1, <1>5, FailureMoves DEF Quiet
<1>6. CASE CallGate(t) \/ LeaveGate(t)
  BY <1>1, <1>6, GateIsQuiet DEF Quiet
<1>7. \/ Acquire(t) \/ Woken(t) \/ Release(t)
      \/ \E attempt : Attempts(t, attempt)
      \/ GoesTo(t, "out") \/ GoesTo(t, "ended")
      \/ AttemptFails(t)
      \/ CallGate(t) \/ LeaveGate(t)
  BY DEF OtherStep, Lease, Serve, NextRequest, GiveBack, PassGate, Answer, Retry, FirstAttempt,
         NextAttempt
<1> QED BY <1>2, <1>3, <1>4, <1>5, <1>6, <1>7

-----------------------------------------------------------------------------
(* The steps of the rate limiter, and those of the clocks *)

\* What the interval is about: a request is sent, and not too soon after the last one.
SendsInTime == sentAt = Never \/ now - sentAt >= MinInterval

LEMMA PaceKeeps ==
  ASSUME RateInv, NEW t \in Tasks, Pace(t)
  PROVE  RateInv' /\ (task'[t].at = "sending" => SendsInTime) /\ \E r : Moves(t, r)
<1> USE RateAssumption
<1>1. holder = NoTask /\ UNCHANGED <<now, skew>>
  BY DEF Pace, LockFree, timeVars
<1>2. \A u \in Tasks : ~At(u, "paced")
  BY <1>1 DEF RateInv, PacedHolds
<1>3. CASE Clock - last < MinInterval
  <2> DEFINE wake == now + (MinInterval - (Clock - last))
  <2>1. holder' = t /\ UNCHANGED <<last, sentAt>> /\ Keeping(t, "paced", wake)
    BY <1>3 DEF Pace, Sleeps
  <2>2. PICK r : Moves(t, r) /\ DOMAIN r = Fields /\ r.at = "paced" /\ r.wake = wake
    BY <2>1, KeepingMoves DEF RateInv
  <2>3. wake \in Int /\ (sentAt # Never => wake >= sentAt + MinInterval)
    BY DEF RateInv, TimesOK, LastIsRecent, Clock
  <2>4. TimesOK' /\ LastIsRecent'
    BY <1>1, <2>1, <2>2 DEF RateInv, TimesOK, LastIsRecent, Moves
  <2>5. PacedHolds'
    BY <1>1, <1>2, <2>1, <2>2, <2>3 DEF PacedHolds, Moves, At
  <2> QED BY <2>2, <2>4, <2>5 DEF RateInv, Moves
<1>4. CASE ~(Clock - last < MinInterval)
  <2>1. last' = Clock /\ sentAt' = now /\ Keeping(t, "sending", 0) /\ UNCHANGED holder
    BY <1>4 DEF Pace, Send
  <2>2. PICK r : Moves(t, r) /\ DOMAIN r = Fields /\ r.at = "sending"
    BY <2>1, KeepingMoves DEF RateInv
  <2>3. SendsInTime
    BY <1>4 DEF RateInv, TimesOK, LastIsRecent, Clock, SendsInTime
  <2>4. TimesOK' /\ LastIsRecent'
    BY <1>1, <2>1, <2>2 DEF RateInv, TimesOK, LastIsRecent, Moves, Clock
  <2>5. PacedHolds'
    BY <1>2, <2>2 DEF PacedHolds, Moves, At
  <2> QED BY <2>2, <2>3, <2>4, <2>5 DEF RateInv
<1> QED BY <1>3, <1>4

LEMMA PacedKeeps ==
  ASSUME RateInv, NEW t \in Tasks, Paced(t)
  PROVE  RateInv' /\ SendsInTime /\ \E r : Moves(t, r)
<1> USE RateAssumption
<1>1. /\ At(t, "paced") /\ now >= task[t].wake
      /\ last' = Clock /\ sentAt' = now /\ UNCHANGED <<now, skew>> /\ Keeping(t, "sending", 0)
  BY DEF Paced, Send, Awake, timeVars
<1>2. \A u \in Tasks \ {t} : ~At(u, "paced")
  BY <1>1 DEF RateInv, PacedHolds
<1>3. PICK r : Moves(t, r) /\ DOMAIN r = Fields /\ r.at = "sending"
  BY <1>1, KeepingMoves DEF RateInv
<1>4. SendsInTime
  BY <1>1 DEF RateInv, TimesOK, PacedHolds, SendsInTime
<1>5. TimesOK' /\ LastIsRecent'
  BY <1>1, <1>3 DEF RateInv, TimesOK, LastIsRecent, Moves, Clock
<1>6. PacedHolds'
  BY <1>2, <1>3 DEF PacedHolds, Moves, At
<1> QED BY <1>3, <1>4, <1>5, <1>6 DEF RateInv

LEMMA SetClockKeeps ==
  ASSUME RateInv, SetClock
  PROVE  RateInv'
<1>1. PICK step \in ClockSteps :
        /\ skew' = skew + step
        /\ sentAt' = IF step > 0 THEN Never ELSE sentAt
        /\ UNCHANGED <<now, task, last, holder>>
  BY DEF SetClock
<1>2. step \in Int
  BY RetryAssumption
<1>3. TimesOK'
  BY <1>1, <1>2 DEF RateInv, TimesOK, Never
<1>4. PacedHolds'
  BY <1>1, <1>2 DEF RateInv, PacedHolds, At, Never
<1>5. LastIsRecent'
  BY <1>1, <1>2 DEF RateInv, TimesOK, LastIsRecent, Never
<1> QED BY <1>3, <1>4, <1>5 DEF RateInv

\* What remains: time passes, the pool is closed, or nothing happens.
LEMMA RestKeeps ==
  ASSUME RateInv, TimePasses \/ ClosePool \/ UNCHANGED vars
  PROVE  RateInv' /\ UNCHANGED task
<1>1. UNCHANGED <<skew, task, last, holder, sentAt>> /\ (now' = now + 1 \/ now' = now)
  BY DEF TimePasses, Tick, ClosePool, Close, vars, timeVars, rateVars
<1>2. TimesOK'
  BY <1>1 DEF RateInv, TimesOK
<1>3. PacedHolds' /\ LastIsRecent'
  BY <1>1 DEF RateInv, PacedHolds, LastIsRecent, At
<1> QED BY <1>1, <1>2, <1>3 DEF RateInv

-----------------------------------------------------------------------------
(* The theorem *)

\* A step keeps the invariant, and whoever begins to send in it does so in time.
LEMMA RateStep ==
  ASSUME RateInv, [Next]_vars
  PROVE  /\ RateInv'
         /\ \A t \in Tasks : ~At(t, "sending") /\ task'[t].at = "sending" => SendsInTime
<1>1. ASSUME NEW t \in Tasks, OtherStep(t)
      PROVE  RateInv' /\ \A u \in Tasks : ~At(u, "sending") => task'[u].at # "sending"
  <2>1. Quiet(t)
    BY <1>1, OtherIsQuiet DEF RateInv
  <2>2. \A u \in Tasks : ~At(u, "sending") => task'[u].at # "sending"
    BY <2>1 DEF Quiet, Moves, At
  <2> QED BY <2>1, <2>2, QuietKeeps
<1>2. ASSUME NEW t \in Tasks, Pace(t)
      PROVE  /\ RateInv'
             /\ \A u \in Tasks : ~At(u, "sending") /\ task'[u].at = "sending" => SendsInTime
  BY <1>2, PaceKeeps DEF Moves, At
<1>3. ASSUME NEW t \in Tasks, Paced(t)
      PROVE  RateInv' /\ SendsInTime
  BY <1>3, PacedKeeps
<1>4. CASE SetClock
  <2>1. UNCHANGED task
    BY <1>4 DEF SetClock
  <2> QED BY <1>4, <2>1, SetClockKeeps DEF At
<1>5. CASE TimePasses \/ ClosePool \/ UNCHANGED vars
  BY <1>5, RestKeeps DEF At
<1>6. \/ \E t \in Tasks : OtherStep(t) \/ Pace(t) \/ Paced(t)
      \/ SetClock
      \/ TimePasses \/ ClosePool \/ UNCHANGED vars
  BY DEF Next, Progress, TaskStep, OtherStep
<1> QED BY <1>1, <1>2, <1>3, <1>4, <1>5, <1>6

LEMMA RateInvariant == Spec => []RateInv
<1>1. Init => RateInv
  BY RateInit
<1>2. RateInv /\ [Next]_vars => RateInv'
  BY RateStep
<1> QED BY <1>1, <1>2, PTL DEF Spec

\* Requests of one pool are sent at least the minimal interval apart, unless the wall clock was
\* set forward between two of them: the check and the sleep under _rate_limit_lock.
THEOREM RequestsArePaced == Spec => RatePaced
<1>1. RateInv /\ [Next]_vars =>
        [\A t \in Tasks : ~At(t, "sending") /\ task'[t].at = "sending" =>
           sentAt = Never \/ now - sentAt >= MinInterval]_vars
  BY RateStep DEF SendsInTime
<1> QED BY <1>1, RateInvariant, PTL DEF Spec, RatePaced

-----------------------------------------------------------------------------
(* Types: how the steps move a task *)

\* t moves to a record of a stage in S.
Goes(t, S) ==
  \E r \in TaskRecords :
    /\ task' = [task EXCEPT ![t] = r] /\ r.at \in S
    /\ r.at = "gated" => r.gate <= Len(gates)
    /\ r.at = "backoff" => r.attempt < MaxRetries

LEMMA GatesListed ==
  ASSUME Shapes
  PROVE  Len(gates) \in Nat /\ DOMAIN gates = 1..Len(gates) /\ Clock \in Int
BY GateAssumption DEF Shapes, Clock

LEMMA GoesTyped ==
  ASSUME Shapes, TaskShapes, NEW t \in Tasks, NEW S, Goes(t, S), UNCHANGED gates
  PROVE  /\ TaskShapes' /\ task'[t].at \in S
         /\ \A u \in Tasks \ {t} : task'[u] = task[u]
<1>1. PICK r \in TaskRecords :
        /\ task' = [task EXCEPT ![t] = r] /\ r.at \in S
        /\ r.at = "gated" => r.gate <= Len(gates)
        /\ r.at = "backoff" => r.attempt < MaxRetries
  BY DEF Goes
<1>2. task'[t] = r /\ \A u \in Tasks \ {t} : task'[u] = task[u]
  BY <1>1 DEF TaskShapes
<1>3. TaskRecords' = TaskRecords
  BY DEF TaskRecords
<1>4. task' \in [Tasks -> TaskRecords]
  BY <1>1 DEF TaskShapes
<1>5. TaskShapes'
  BY <1>1, <1>2, <1>3, <1>4 DEF TaskShapes, At
<1> QED BY <1>1, <1>2, <1>5

LEMMA RestingGoes ==
  ASSUME Shapes, NEW t \in Tasks, NEW at \in {"out", "waiting", "ended"}, GoesTo(t, at)
  PROVE  Goes(t, {at})
<1>1. Resting(at) \in TaskRecords /\ Resting(at).at = at
  BY GatesListed, RetryAssumption DEF Resting, TaskRecords, Stages, Sleeping
<1> QED BY <1>1 DEF GoesTo, Goes

LEMMA AttemptGoes ==
  ASSUME Shapes, NEW t \in Tasks, NEW attempt \in 0..MaxRetries, Attempts(t, attempt)
  PROVE  Goes(t, {"gate"})
<1> DEFINE r == [Resting("gate") EXCEPT !.attempt = attempt]
<1>1. r \in TaskRecords /\ r.at = "gate"
  BY GatesListed DEF Resting, TaskRecords, Stages, Sleeping
<1> QED BY <1>1 DEF Attempts, Goes

LEMMA KeepingGoes ==
  ASSUME Shapes, TaskShapes, NEW t \in Tasks, NEW wake \in Nat,
         NEW at \in {"paced", "sending", "backoff"}, Keeping(t, at, wake),
         at = "backoff" => task[t].attempt < MaxRetries
  PROVE  Goes(t, {at})
<1> DEFINE r == [Resting(at) EXCEPT !.attempt = task[t].attempt, !.wake = wake]
<1>1. task[t].attempt \in 0..MaxRetries
  BY DEF TaskShapes, TaskRecords
<1>2. Resting(at) \in TaskRecords /\ Resting(at).at = at
  BY GatesListed, RetryAssumption DEF Resting, TaskRecords, Stages, Sleeping
<1>3. r.at = at /\ r.attempt = task[t].attempt
  BY <1>2 DEF TaskRecords
<1>5. r \in TaskRecords
  BY <1>1, <1>2 DEF TaskRecords
<1> QED BY <1>3, <1>5 DEF Keeping, Goes

\* A delay between two attempts is a number, for all jitter.
LEMMA DelayIsNumber ==
  ASSUME NEW attempt \in 0..MaxRetries, NEW delay \in Delays(attempt)
  PROVE  delay \in Nat
<1>1. BaseDelay * ExponentialBase ^ attempt \in Nat /\ MaxDelay \in Nat
  BY PowersAssumption, RetryAssumption
<1>2. Backoff(attempt) \in Nat
  <2> DEFINE S == {BaseDelay * ExponentialBase ^ attempt, MaxDelay}
  <2>1. S \in SUBSET Nat /\ S # {}
    BY <1>1
  <2> HIDE DEF S
  <2>2. Min(S) \in Nat
    BY <2>1, LeastNumber
  <2> QED BY <2>2 DEF S, Backoff
<1>3. PICK factor \in Jitter : delay = (Backoff(attempt) * factor) \div 100
  BY DEF Delays
<1>4. PICK n \in Nat : n = Backoff(attempt) * factor
  BY <1>2, RetryAssumption
<1> QED BY <1>3, <1>4

LEMMA FailureGoes ==
  ASSUME Shapes, TaskShapes, NEW t \in Tasks, AttemptFails(t)
  PROVE  Goes(t, {"backoff", "ended"})
<1>1. task[t].attempt \in 0..MaxRetries
  BY DEF TaskShapes, TaskRecords
<1>2. CASE task[t].attempt < MaxRetries
  <2>1. PICK delay \in Delays(task[t].attempt) : Keeping(t, "backoff", now + delay)
    BY <1>2 DEF AttemptFails, Sleeps
  <2>2. now + delay \in Nat
    BY <1>1, DelayIsNumber DEF Shapes
  <2> QED BY <1>2, <2>1, <2>2, KeepingGoes DEF Goes
<1>3. CASE ~(task[t].attempt < MaxRetries)
  <2>1. Goes(t, {"ended"})
    BY <1>3, RestingGoes DEF AttemptFails
  <2> QED BY <2>1 DEF Goes
<1> QED BY <1>2, <1>3

LEMMA WaitGoes ==
  ASSUME Shapes, TaskShapes, NEW t \in Tasks, NEW ticks \in Nat, WaitsFor(t, ticks),
         task[t].gate <= Len(gates)
  PROVE  Goes(t, {"gated"})
<1> DEFINE r == [task[t] EXCEPT !.at = "gated", !.began = Clock, !.wake = now + ticks]
<1>1. task[t] \in TaskRecords
  BY DEF TaskShapes
<1>3. r.at = "gated" /\ r.gate = task[t].gate
  BY <1>1 DEF TaskRecords
<1>4. "gated" \in Stages /\ Clock \in Int /\ now + ticks \in Nat
  BY GatesListed DEF Shapes, Stages, Sleeping
<1>6. r \in TaskRecords
  BY <1>1, <1>4 DEF TaskRecords
<1> QED BY <1>3, <1>6 DEF WaitsFor, Goes

LEMMA PassGoes ==
  ASSUME Shapes, TaskShapes, NEW t \in Tasks, NEW stamp, Passes(t, stamp),
         task[t].gate <= Len(gates)
  PROVE  Goes(t, {"gate"})
<1> DEFINE r == [task[t] EXCEPT !.at = "gate", !.gate = task[t].gate + 1, !.began = 0, !.wake = 0]
<1>1. task[t] \in TaskRecords
  BY DEF TaskShapes
<1>3. r.at = "gate"
  BY <1>1 DEF TaskRecords
<1>4. task[t].attempt \in 0..MaxRetries /\ task[t].gate \in 1..Len(gates) + 1
  BY <1>1 DEF TaskRecords
<1>5. "gate" \in Stages /\ task[t].gate + 1 \in 1..Len(gates) + 1 /\ 0 \in Int /\ 0 \in Nat
  BY <1>4, GatesListed DEF Stages
<1>6. r \in TaskRecords
  BY <1>1, <1>5 DEF TaskRecords
<1> QED BY <1>3, <1>6 DEF Passes, Goes

-----------------------------------------------------------------------------
(* Types: the steps that leave the pool alone *)

LEMMA TicksAreNumbers ==
  ASSUME Shapes, NEW x \in Int
  PROVE  IntervalWaits(x) \subseteq Nat /\ DailyWait \in Nat
<1>1. Clock \in Int
  BY GatesListed
<1>2. IntervalWaits(x) \subseteq Nat
  BY <1>1, GateAssumption DEF IntervalWaits
<1>3. TimeIn(Clock) \in Int
  BY <1>1, GateAssumption DEF TimeIn
<1>4. PICK y \in Int : y = TimeOfDay - TimeIn(Clock) - 1
  BY <1>3, GateAssumption
<1>5. y % DayLength \in Nat
  BY <1>4, GateAssumption
<1>6. DailyWait \in Nat
  BY <1>4, <1>5 DEF DailyWait
<1> QED BY <1>2, <1>6

\* Where a gate's step comes from, and where it leads.
LEMMA PassGateGoes ==
  ASSUME Shapes, TaskShapes, NEW t \in Tasks, PassGate(t)
  PROVE  /\ task[t].at \in {"gate", "gated"} /\ task[t].gate \in DOMAIN gates
         /\ Goes(t, {"gate", "gated", "backoff", "ended"})
         /\ \/ AttemptFails(t) /\ Goes(t, {"backoff", "ended"}) /\ UNCHANGED <<memory, opened>>
            \/ \E ticks \in Nat : WaitsFor(t, ticks)
            \/ \E stamp \in Int : Passes(t, stamp)
<1>1. task[t] \in TaskRecords /\ task[t].gate \in Nat \ {0}
  BY GatesListed DEF TaskShapes, TaskRecords
<1>2. task[t].at \in {"gate", "gated"} /\ task[t].gate <= Len(gates)
  BY DEF PassGate, CallGate, LeaveGate, At, TaskShapes
<1>3. task[t].gate \in DOMAIN gates /\ memory[task[t].gate] \in Int
  BY <1>1, <1>2, GatesListed DEF Shapes
<1>4. IntervalWaits(memory[task[t].gate]) \subseteq Nat /\ DailyWait \in Nat /\ Clock \in Int
  BY <1>3, TicksAreNumbers, GatesListed
<1>5. \/ AttemptFails(t) /\ UNCHANGED <<memory, opened>>
      \/ \E ticks \in Nat : WaitsFor(t, ticks)
      \/ \E stamp \in Int : Passes(t, stamp)
  <2>1. CASE CallGate(t)
    BY <1>3, <1>4, <2>1 DEF CallGate, CallIntervalGate, CallDailyGate
  <2>2. CASE LeaveGate(t)
    <3>1. Stamp(t) \in Int
      <4>1. task[t].began \in Int
        BY <1>1 DEF TaskRecords
      <4>2. task[t].began \div DayLength \in Int
        BY <4>1, GateAssumption
      <4> QED BY <1>4, <4>2 DEF Stamp, Day
    <3> QED BY <2>2, <3>1 DEF LeaveGate
  <2> QED BY <2>1, <2>2 DEF PassGate
<1>6. CASE AttemptFails(t) /\ UNCHANGED <<memory, opened>>
  <2>1. Goes(t, {"backoff", "ended"})
    BY <1>6, FailureGoes
  <2> QED BY <1>2, <1>3, <1>6, <2>1 DEF Goes
<1>7. CASE \E ticks \in Nat : WaitsFor(t, ticks)
  <2>1. Goes(t, {"gated"})
    BY <1>2, <1>7, WaitGoes
  <2> QED BY <1>2, <1>3, <1>7, <2>1 DEF Goes
<1>8. CASE \E stamp \in Int : Passes(t, stamp)
  <2>1. Goes(t, {"gate"})
    BY <1>2, <1>8, PassGoes
  <2> QED BY <1>2, <1>3, <1>8, <2>1 DEF Goes
<1> QED BY <1>5, <1>6, <1>7, <1>8

\* In these stages a task has a connection.
Connected == Stages \ {"out", "waiting"}

LEMMA InnerKeeps ==
  ASSUME Shapes, TaskShapes, PoolKept, ClientsUsed, NEW t \in Tasks, NEW S, Goes(t, S),
         S \subseteq Connected, task[t].at \in Connected, UNCHANGED <<gates, poolVars, protocol>>
  PROVE  PoolKept' /\ ClientsUsed'
<1>1. task'[t].at \in Connected /\ \A u \in Tasks \ {t} : task'[u] = task[u]
  BY GoesTyped
<1>2. UNCHANGED <<idle, total, holds, closing>>
  BY DEF poolVars
<1>3. PoolKept'
  BY <1>2 DEF PoolKept, PoolTypeOK, Open
<1>4. \A u \in Tasks : (task'[u].at \in {"out", "waiting"} <=> task[u].at \in {"out", "waiting"})
  BY <1>1 DEF Connected
<1>5. \A u \in Tasks : task'[u].at = "waiting" => task[u].at = "waiting"
  BY <1>1 DEF Connected
<1>6. ClientsUsed'
  BY <1>2, <1>4, <1>5 DEF ClientsUsed, At
<1> QED BY <1>3, <1>6

LEMMA LockUntouched ==
  ASSUME Shapes, TaskShapes, LockHeld, NEW t \in Tasks, NEW S, Goes(t, S),
         "paced" \notin S, task[t].at # "paced", UNCHANGED <<gates, holder>>
  PROVE  LockHeld'
<1>1. task'[t].at # "paced" /\ \A u \in Tasks \ {t} : task'[u] = task[u]
  BY GoesTyped
<1> QED BY <1>1 DEF LockHeld, At

-----------------------------------------------------------------------------
(* Types: the steps of the pool *)

LEMMA OpenIsFinite ==
  ASSUME PoolKept
  PROVE  Open \subseteq Clients /\ IsFiniteSet(Open) /\ IsFiniteSet(Clients)
         /\ Cardinality(Clients) = PoolMaxSize + 1
<1>1. PoolMaxSize + 1 \in Nat
  BY PoolAssumption
<1>2. IsFiniteSet(Clients) /\ Cardinality(Clients) = PoolMaxSize + 1
  BY <1>1, FS_Interval DEF Clients
<1>3. ToSet(idle) \subseteq Clients
  BY DEF PoolKept, ToSet
<1>4. Open \subseteq Clients
  BY <1>3 DEF PoolKept, Open
<1> QED BY <1>2, <1>4, FS_Subset

LEMMA TakeIdleKeeps ==
  ASSUME PoolKept, NEW t \in Tasks, holds[t] = NoClient, TakeIdle(t), UNCHANGED closing
  PROVE  PoolKept' /\ holds'[t] # NoClient /\ \A u \in Tasks \ {t} : holds'[u] = holds[u]
<1> DEFINE c == Head(idle)
<1>1. idle \in Seq(Clients) /\ idle # <<>> /\ IsInjective(idle)
  BY DEF PoolKept, TakeIdle, PoolTypeOK
<1>2. c \in ToSet(idle) /\ ToSet(Tail(idle)) = ToSet(idle) \ {c} /\ IsInjective(Tail(idle))
  BY <1>1, ToSetTail
<1>3. c \in Clients /\ Tail(idle) \in Seq(Clients)
  BY <1>1
<1>4. c # NoClient
  BY <1>3, PoolAssumption
<1> HIDE DEF c
<1>5. idle' = Tail(idle) /\ holds' = [holds EXCEPT ![t] = c] /\ UNCHANGED <<total, closing>>
  BY DEF TakeIdle, Leases, c
<1>6. holds'[t] = c /\ \A u \in Tasks \ {t} : holds'[u] = holds[u]
  BY <1>5 DEF PoolKept
<1>7. Open' = Open
  <2>1. {holds'[u] : u \in Tasks} = {c} \cup {holds[u] : u \in Tasks \ {t}}
    BY <1>6
  <2>2. {holds[u] : u \in Tasks} = {NoClient} \cup {holds[u] : u \in Tasks \ {t}}
    BY <1>6
  <2>3. ToSet(idle)' = ToSet(idle) \ {c}
    BY <1>2, <1>5
  <2> QED BY <1>2, <1>4, <1>5, <2>1, <2>2, <2>3 DEF Open
<1>8. PoolTypeOK'
  BY <1>2, <1>5, <1>6, <1>7 DEF PoolTypeOK, PoolKept
<1>9. /\ idle' \in Seq(Clients)
      /\ holds' \in [Tasks -> Clients \cup {NoClient}]
      /\ closing' \in [client : Clients \cup {NoClient}, called : BOOLEAN]
  BY <1>3, <1>5 DEF PoolKept
<1>10. closing'.client \notin ToSet(idle)' /\ \A u \in Tasks : holds'[u] # NoClient => holds'[u] # closing'.client
  BY <1>2, <1>5, <1>6 DEF PoolKept
<1> QED BY <1>4, <1>6, <1>8, <1>9, <1>10 DEF PoolKept

LEMMA CreateKeeps ==
  ASSUME PoolKept, NEW t \in Tasks, holds[t] = NoClient, Create(t), UNCHANGED closing
  PROVE  PoolKept' /\ holds'[t] # NoClient /\ \A u \in Tasks \ {t} : holds'[u] = holds[u]
<1> DEFINE c == Min(Clients \ Open)
<1>1. Open \subseteq Clients /\ IsFiniteSet(Open) /\ IsFiniteSet(Clients)
      /\ Cardinality(Clients) = PoolMaxSize + 1
  BY OpenIsFinite
<1>2. total < PoolMaxSize /\ total = Cardinality(Open) /\ total \in Nat
  BY DEF Create, UnderLimit, PoolKept, PoolTypeOK
<1>3. Clients \ Open # {}
  BY <1>1, <1>2, PoolAssumption
<1>4. c \in Clients \ Open
  <2>1. Clients \ Open \in SUBSET Nat
    BY PoolAssumption DEF Clients
  <2> QED BY <1>3, <2>1, LeastNumber
<1> HIDE DEF c
<1>5. /\ UNCHANGED <<idle, closing>> /\ holds' = [holds EXCEPT ![t] = c]
      /\ total' = total + 1
  BY DEF Create, Leases, c
<1>6. holds'[t] = c /\ \A u \in Tasks \ {t} : holds'[u] = holds[u]
  BY <1>5 DEF PoolKept
<1>7. c # NoClient /\ c \notin ToSet(idle) /\ c # closing.client /\ \A u \in Tasks : c # holds[u]
  BY <1>4, PoolAssumption DEF Open
<1>8. Open' = Open \cup {c}
  <2>1. {holds'[u] : u \in Tasks} = {c} \cup {holds[u] : u \in Tasks \ {t}}
    BY <1>6
  <2>2. {holds[u] : u \in Tasks} = {NoClient} \cup {holds[u] : u \in Tasks \ {t}}
    BY <1>6
  <2>3. ToSet(idle)' = ToSet(idle)
    BY <1>5
  <2> QED BY <1>5, <1>7, <2>1, <2>2, <2>3 DEF Open
<1>9. Cardinality(Open)' = Cardinality(Open) + 1
  BY <1>1, <1>4, <1>8, FS_AddElement
<1>10. PoolTypeOK'
  <2>1. total' = Cardinality(Open)' /\ total' \in 0..PoolMaxSize
    BY <1>2, <1>5, <1>9, PoolAssumption
  <2>2. IsInjective(idle)' /\ \A u \in Tasks : holds'[u] \notin ToSet(idle)'
    BY <1>5, <1>6, <1>7 DEF PoolKept, PoolTypeOK
  <2>3. \A u, v \in Tasks : u # v /\ holds'[u] # NoClient => holds'[u] # holds'[v]
    BY <1>6, <1>7 DEF PoolKept, PoolTypeOK
  <2> QED BY <2>1, <2>2, <2>3 DEF PoolTypeOK
<1>11. /\ idle' \in Seq(Clients)
       /\ holds' \in [Tasks -> Clients \cup {NoClient}]
       /\ closing' \in [client : Clients \cup {NoClient}, called : BOOLEAN]
  BY <1>2, <1>4, <1>5 DEF PoolKept
<1>12. closing'.client \notin ToSet(idle)' /\ \A u \in Tasks : holds'[u] # NoClient => holds'[u] # closing'.client
  BY <1>5, <1>6, <1>7 DEF PoolKept
<1> QED BY <1>6, <1>7, <1>10, <1>11, <1>12 DEF PoolKept

LEMMA ReleaseKeeps ==
  ASSUME PoolKept, NEW t \in Tasks, holds[t] # NoClient, Release(t)
  PROVE  PoolKept' /\ holds'[t] = NoClient /\ \A u \in Tasks \ {t} : holds'[u] = holds[u]
<1>1. /\ idle' = Append(idle, holds[t]) /\ holds' = [holds EXCEPT ![t] = NoClient]
      /\ UNCHANGED <<total, closing>>
  BY DEF Release
<1>2. holds'[t] = NoClient /\ \A u \in Tasks \ {t} : holds'[u] = holds[u]
  BY <1>1 DEF PoolKept
<1>3. /\ idle \in Seq(Clients) /\ holds[t] \in Clients /\ IsInjective(idle)
      /\ holds[t] \notin ToSet(idle)
  BY DEF PoolKept, PoolTypeOK
<1>4. ToSet(idle)' = ToSet(idle) \cup {holds[t]} /\ IsInjective(idle)' /\ idle' \in Seq(Clients)
  BY <1>1, <1>3, ToSetAppend, InjectiveAppend
<1>5. Open' = Open
  <2>1. {holds'[u] : u \in Tasks} = {NoClient} \cup {holds[u] : u \in Tasks \ {t}}
    BY <1>2
  <2>2. {holds[u] : u \in Tasks} = {holds[t]} \cup {holds[u] : u \in Tasks \ {t}}
    BY <1>2
  <2> QED BY <1>1, <1>4, <2>1, <2>2 DEF Open
<1>6. NoClient \notin Clients /\ ToSet(idle)' \subseteq Clients
  BY <1>4, PoolAssumption DEF ToSet
<1>7. PoolTypeOK'
  <2>1. total' = Cardinality(Open)' /\ total' \in 0..PoolMaxSize
    BY <1>1, <1>5 DEF PoolKept, PoolTypeOK
  <2>2. \A u \in Tasks : holds'[u] \notin ToSet(idle)'
    BY <1>2, <1>4, <1>6 DEF PoolKept, PoolTypeOK
  <2>3. \A u, v \in Tasks : u # v /\ holds'[u] # NoClient => holds'[u] # holds'[v]
    BY <1>2 DEF PoolKept, PoolTypeOK
  <2> QED BY <1>4, <2>1, <2>2, <2>3 DEF PoolTypeOK
<1>8. /\ holds' \in [Tasks -> Clients \cup {NoClient}]
      /\ closing' \in [client : Clients \cup {NoClient}, called : BOOLEAN]
  BY <1>1 DEF PoolKept
<1>9. closing'.client \notin ToSet(idle)' /\ \A u \in Tasks : holds'[u] # NoClient => holds'[u] # closing'.client
  BY <1>1, <1>2, <1>3, <1>4 DEF PoolKept
<1> QED BY <1>2, <1>4, <1>7, <1>8, <1>9 DEF PoolKept

LEMMA CloseKeeps ==
  ASSUME PoolKept, Close
  PROVE  PoolKept' /\ UNCHANGED <<task, holds>>
<1> DEFINE c == Head(idle)
<1>1. UNCHANGED <<task, holds>>
  BY DEF Close
<1>2. CASE closing.client = NoClient /\ idle # <<>>
  <2>1. /\ closing' = [client |-> c, called |-> TRUE] /\ idle' = Tail(idle) /\ UNCHANGED total
    BY <1>2 DEF Close
  <2>2. c \in ToSet(idle) /\ ToSet(Tail(idle)) = ToSet(idle) \ {c} /\ IsInjective(Tail(idle))
    BY <1>2, ToSetTail DEF PoolKept, PoolTypeOK
  <2>3. c \in Clients /\ Tail(idle) \in Seq(Clients)
    BY <1>2 DEF PoolKept
  <2> HIDE DEF c
  <2>4. closing'.client = c /\ closing' \in [client : Clients \cup {NoClient}, called : BOOLEAN]
    BY <2>1, <2>3
  <2>5. Open' = Open
    BY <1>1, <1>2, <2>1, <2>2, <2>4 DEF Open
  <2>6. PoolTypeOK'
    BY <1>1, <2>1, <2>2, <2>5 DEF PoolTypeOK, PoolKept
  <2>7. closing'.client \notin ToSet(idle)' /\ \A u \in Tasks : holds'[u] # NoClient => holds'[u] # closing'.client
    BY <1>1, <2>1, <2>2, <2>4 DEF PoolKept, PoolTypeOK
  <2> QED BY <1>1, <2>1, <2>3, <2>4, <2>6, <2>7 DEF PoolKept
<1>3. CASE closing.client # NoClient /\ ~(closing.client = NoClient /\ idle # <<>>)
  <2>1. /\ closing' = [closing EXCEPT !.client = NoClient] /\ total' = total - 1
        /\ UNCHANGED idle
    BY <1>3 DEF Close
  <2>2. /\ closing'.client = NoClient
        /\ closing' \in [client : Clients \cup {NoClient}, called : BOOLEAN]
    BY <2>1 DEF PoolKept
  <2>3. NoClient \notin ToSet(idle)
    BY PoolAssumption DEF PoolKept, ToSet
  <2>4. closing.client \in Open /\ Open' = Open \ {closing.client}
    BY <1>1, <1>3, <2>1, <2>2 DEF Open, PoolKept
  <2>5. IsFiniteSet(Open)
    BY OpenIsFinite
  <2>6. Cardinality(Open)' = Cardinality(Open) - 1
    BY <2>4, <2>5, FS_RemoveElement
  <2>7. Cardinality(Open)' \in Nat
    BY <2>4, <2>5, FS_RemoveElement, FS_CardinalityType
  <2>8. PoolTypeOK'
    <3>1. total' = Cardinality(Open)' /\ total' \in 0..PoolMaxSize
      BY <2>1, <2>6, <2>7, PoolAssumption DEF PoolTypeOK, PoolKept
    <3> QED BY <1>1, <2>1, <3>1 DEF PoolTypeOK, PoolKept
  <2> QED BY <1>1, <2>1, <2>2, <2>3, <2>7, <2>8 DEF PoolKept, PoolTypeOK
<1> QED BY <1>1, <1>2, <1>3 DEF Close

-----------------------------------------------------------------------------
(* Types: every step *)

LEMMA PacedInit == Init => PacedInv
<1> SUFFICES ASSUME Init PROVE PacedInv
  OBVIOUS
<1>1. gates \in GateSequences /\ Len(gates) \in Nat /\ DOMAIN gates = 1..Len(gates)
  BY GateAssumption DEF Init, GateInit
<1>2. /\ now \in Nat /\ skew = 0 /\ sets = 0 /\ task = [t \in Tasks |-> Resting("out")]
  BY RetryAssumption DEF Init, TaskInit
<1>3. Shapes
  <2>1. memory \in [DOMAIN gates -> Int] /\ opened \in [Tasks -> [DOMAIN gates -> Int]]
    BY DEF Init, GateInit, Never
  <2>2. skew \in Int /\ sets \in 0..MaxSets /\ last \in Int /\ made \in 0..MaxRequests
    BY <1>2, RetryAssumption, RateAssumption DEF Init
  <2> QED BY <1>1, <1>2, <2>1, <2>2 DEF Init, Shapes
<1>4. TaskShapes
  <2>1. Resting("out") \in TaskRecords /\ Resting("out").at = "out"
    BY <1>1, RetryAssumption DEF Resting, TaskRecords, Stages, Sleeping
  <2> QED BY <1>2, <2>1 DEF TaskShapes, At
<1>5. \A t \in Tasks : task[t].at = "out"
  BY <1>2 DEF Resting
<1>6. LockHeld
  BY <1>5, RateAssumption DEF Init, LockHeld, At
<1>7. PoolKept
  <2>1. idle = <<>> /\ total = 0 /\ \A t \in Tasks : holds[t] = NoClient
    BY DEF Init, PoolInit
  <2>2. closing = [client |-> NoClient, called |-> FALSE]
    BY DEF Init, PoolInit
  <2>3. ToSet(idle) = {}
    BY <2>1 DEF ToSet
  <2>4. Open = {}
    BY <2>1, <2>2, <2>3 DEF Open
  <2>5. total = Cardinality(Open) /\ total \in 0..PoolMaxSize
    BY <2>1, <2>4, FS_EmptySet, PoolAssumption
  <2>6. IsInjective(idle)
    BY <2>1 DEF IsInjective
  <2>7. holds \in [Tasks -> Clients \cup {NoClient}]
    BY DEF Init, PoolInit
  <2> QED BY <2>1, <2>2, <2>3, <2>5, <2>6, <2>7 DEF PoolKept, PoolTypeOK
<1>8. ClientsUsed
  BY <1>5 DEF Init, PoolInit, ClientsUsed, At
<1> QED BY <1>3, <1>4, <1>6, <1>7, <1>8 DEF PacedInv

LEMMA MadeTyped ==
  ASSUME made \in 0..MaxRequests, MoreToDo \/ UNCHANGED made
  PROVE  made' \in 0..MaxRequests
BY RateAssumption DEF MoreToDo

\* What a step of a task that passes no gate leaves of the shapes, and who may count a request.
LEMMA ShapesKept ==
  ASSUME Shapes, UNCHANGED <<timeVars, gateVars, protocol>>, last' \in Int,
         MoreToDo \/ UNCHANGED made
  PROVE  Shapes' /\ UNCHANGED gates
<1>1. made' \in 0..MaxRequests
  BY MadeTyped DEF Shapes
<1> QED BY <1>1 DEF Shapes, timeVars, gateVars

\* A step inside a request.
LEMMA InnerStep ==
  ASSUME PacedInv, NEW t \in Tasks, NEW S, Goes(t, S),
         S \subseteq Connected \ {"paced"}, task[t].at \in Connected \ {"paced"},
         Shapes', UNCHANGED <<gates, poolVars, protocol, holder>>
  PROVE  PacedInv'
<1>1. Shapes /\ TaskShapes /\ LockHeld /\ PoolKept /\ ClientsUsed
  BY DEF PacedInv
<1>2. S \subseteq Connected /\ "paced" \notin S /\ task[t].at \in Connected /\ task[t].at # "paced"
  OBVIOUS
<1>3. TaskShapes'
  BY <1>1, GoesTyped
<1>4. PoolKept' /\ ClientsUsed'
  BY <1>1, <1>2, InnerKeeps
<1>5. LockHeld'
  BY <1>1, <1>2, LockUntouched
<1> QED BY <1>3, <1>4, <1>5 DEF PacedInv

LEMMA NextRequestTyped ==
  ASSUME PacedInv, NEW t \in Tasks, NextRequest(t)
  PROVE  PacedInv'
<1>1. Shapes' /\ UNCHANGED gates
  BY ShapesKept DEF PacedInv, NextRequest, Shapes, rateVars
<1>2. Goes(t, {"gate"})
  BY AttemptGoes, RetryAssumption DEF PacedInv, NextRequest, FirstAttempt
<1>3. task[t].at = "ended" /\ UNCHANGED <<gates, poolVars, protocol, holder>>
  BY <1>1 DEF NextRequest, At, rateVars
<1>4. {"gate"} \subseteq Connected \ {"paced"} /\ "ended" \in Connected \ {"paced"}
  BY DEF Connected, Stages
<1> QED BY <1>1, <1>2, <1>3, <1>4, InnerStep

LEMMA AnswerTyped ==
  ASSUME PacedInv, NEW t \in Tasks, Answer(t)
  PROVE  PacedInv'
<1>1. Shapes' /\ UNCHANGED gates
  BY ShapesKept DEF PacedInv, Answer, Shapes, rateVars
<1>2. Goes(t, {"backoff", "ended"})
  <2>1. CASE GoesTo(t, "ended")
    <3>1. Goes(t, {"ended"})
      BY <2>1, RestingGoes DEF PacedInv
    <3> QED BY <3>1 DEF Goes
  <2>2. CASE AttemptFails(t)
    BY <2>2, FailureGoes DEF PacedInv
  <2> QED BY <2>1, <2>2 DEF Answer
<1>3. task[t].at = "sending" /\ UNCHANGED <<gates, poolVars, protocol, holder>>
  BY <1>1 DEF Answer, At, rateVars
<1>4. {"backoff", "ended"} \subseteq Connected \ {"paced"} /\ "sending" \in Connected \ {"paced"}
  BY DEF Connected, Stages, Sleeping
<1> QED BY <1>1, <1>2, <1>3, <1>4, InnerStep

LEMMA RetryTyped ==
  ASSUME PacedInv, NEW t \in Tasks, Retry(t)
  PROVE  PacedInv'
<1>1. Shapes' /\ UNCHANGED gates
  BY ShapesKept DEF PacedInv, Retry, Shapes, rateVars
<1>2. task[t].at = "backoff" /\ UNCHANGED <<gates, poolVars, protocol, holder>>
  BY <1>1 DEF Retry, NextAttempt, At, rateVars
<1>3. task[t].attempt + 1 \in 0..MaxRetries
  BY <1>2, RetryAssumption DEF PacedInv, TaskShapes, TaskRecords, At
<1>4. Goes(t, {"gate"})
  BY <1>3, AttemptGoes DEF PacedInv, Retry, NextAttempt
<1>5. {"gate"} \subseteq Connected \ {"paced"} /\ "backoff" \in Connected \ {"paced"}
  BY DEF Connected, Stages, Sleeping
<1> QED BY <1>1, <1>2, <1>4, <1>5, InnerStep

LEMMA PassGateTyped ==
  ASSUME PacedInv, NEW t \in Tasks, PassGate(t)
  PROVE  PacedInv'
<1>1. /\ task[t].at \in {"gate", "gated"} /\ task[t].gate \in DOMAIN gates
      /\ Goes(t, {"gate", "gated", "backoff", "ended"})
      /\ \/ UNCHANGED <<memory, opened>>
         \/ \E ticks : WaitsFor(t, ticks)
         \/ \E stamp \in Int : Passes(t, stamp)
  BY PassGateGoes DEF PacedInv
<1>2. UNCHANGED <<now, skew, sets, gates, poolVars, protocol, holder, last, made>>
  BY DEF PassGate, CallGate, LeaveGate, timeVars, rateVars
<1>3. Shapes'
  <2>1. CASE UNCHANGED <<memory, opened>>
    BY <1>2, <2>1 DEF PacedInv, Shapes
  <2>2. CASE \E ticks : WaitsFor(t, ticks)
    BY <1>2, <2>2 DEF PacedInv, Shapes, WaitsFor
  <2>3. CASE \E stamp \in Int : Passes(t, stamp)
    <3>1. PICK stamp \in Int : /\ memory' = [memory EXCEPT ![task[t].gate] = stamp]
                               /\ opened' = [opened EXCEPT ![t][task[t].gate] = now]
      BY <2>3 DEF Passes, Passing
    <3>2. memory' \in [DOMAIN gates -> Int] /\ opened' \in [Tasks -> [DOMAIN gates -> Int]]
      BY <1>1, <3>1 DEF PacedInv, Shapes
    <3> QED BY <1>2, <3>2 DEF PacedInv, Shapes
  <2> QED BY <1>1, <2>1, <2>2, <2>3
<1>4. /\ {"gate", "gated", "backoff", "ended"} \subseteq Connected \ {"paced"}
      /\ task[t].at \in Connected \ {"paced"}
  BY <1>1 DEF Connected, Stages, Sleeping
<1> QED BY <1>1, <1>2, <1>3, <1>4, InnerStep

\* A step in which a task gets its client, or gives it back, or begins to wait.
LEMMA PoolStep ==
  ASSUME PacedInv, NEW t \in Tasks, NEW S, Goes(t, S), "paced" \notin S, task[t].at # "paced",
         Shapes', UNCHANGED <<gates, protocol, holder>>, PoolKept', protocol = "http",
         \A u \in Tasks \ {t} : holds'[u] = holds[u],
         holds'[t] = NoClient <=> task'[t].at \in {"out", "waiting"}
  PROVE  PacedInv'
<1>1. Shapes /\ TaskShapes /\ LockHeld /\ PoolKept /\ ClientsUsed
  BY DEF PacedInv
<1>2. TaskShapes' /\ \A u \in Tasks \ {t} : task'[u] = task[u]
  BY <1>1, GoesTyped
<1>3. LockHeld'
  BY <1>1, LockUntouched
<1>4. \A u \in Tasks : holds'[u] = NoClient <=> task'[u].at \in {"out", "waiting"}
  BY <1>1, <1>2 DEF ClientsUsed
<1>5. ClientsUsed'
  BY <1>4 DEF ClientsUsed
<1> QED BY <1>2, <1>3, <1>5 DEF PacedInv

\* For a pool of SFTP connections a lease is a step of the task alone.
LEMMA SftpStep ==
  ASSUME PacedInv, NEW t \in Tasks, NEW S, Goes(t, S), S \cap {"paced", "waiting"} = {},
         task[t].at # "paced", Shapes', protocol # "http",
         UNCHANGED <<gates, poolVars, protocol, holder>>
  PROVE  PacedInv'
<1>1. Shapes /\ TaskShapes /\ LockHeld /\ PoolKept /\ ClientsUsed /\ protocol = "sftp"
  BY DEF PacedInv, Shapes
<1>2. TaskShapes' /\ task'[t].at \in S /\ \A u \in Tasks \ {t} : task'[u] = task[u]
  BY <1>1, GoesTyped
<1>3. LockHeld'
  BY <1>1, LockUntouched
<1>4. UNCHANGED <<idle, total, holds, closing>>
  BY DEF poolVars
<1>5. PoolKept'
  BY <1>1, <1>4 DEF PoolKept, PoolTypeOK, Open
<1>6. ClientsUsed'
  BY <1>1, <1>2, <1>4 DEF ClientsUsed, At
<1> QED BY <1>2, <1>3, <1>5, <1>6 DEF PacedInv

LEMMA LeaseTyped ==
  ASSUME PacedInv, NEW t \in Tasks, Lease(t)
  PROVE  PacedInv'
<1>1. Shapes' /\ UNCHANGED gates
  BY ShapesKept DEF PacedInv, Lease, Shapes, rateVars
<1>2. task[t].at = "out" /\ UNCHANGED <<gates, protocol, holder>>
  BY <1>1 DEF Lease, Acquire, At, rateVars
<1>3. ASSUME FirstAttempt(t) PROVE Goes(t, {"gate"})
  BY <1>3, AttemptGoes, RetryAssumption DEF PacedInv, FirstAttempt
<1>4. CASE protocol = "http"
  <2>1. holds[t] = NoClient /\ PoolKept /\ UNCHANGED closing
    BY <1>2, <1>4 DEF PacedInv, ClientsUsed, Lease, Acquire
  <2>2. CASE TakeIdle(t) \/ Create(t)
    <3>1. Goes(t, {"gate"})
      BY <1>3, <2>2 DEF TakeIdle, Create, Leases
    <3>2. PoolKept' /\ holds'[t] # NoClient /\ \A u \in Tasks \ {t} : holds'[u] = holds[u]
      BY <2>1, <2>2, TakeIdleKeeps, CreateKeeps
    <3>3. task'[t].at = "gate"
      BY <1>1, <3>1, GoesTyped DEF PacedInv
    <3> QED BY <1>1, <1>2, <1>4, <3>1, <3>2, <3>3, PoolStep
  <2>3. CASE Wait(t)
    <3>1. Goes(t, {"waiting"})
      BY <2>3, RestingGoes DEF Wait, PacedInv
    <3>2. PoolKept' /\ holds' = holds
      BY <2>1, <2>3 DEF Wait, PoolKept, PoolTypeOK, Open
    <3>3. task'[t].at = "waiting"
      BY <1>1, <3>1, GoesTyped DEF PacedInv
    <3> QED BY <1>1, <1>2, <1>4, <2>1, <3>1, <3>2, <3>3, PoolStep
  <2> QED BY <1>4, <2>2, <2>3 DEF Lease, Acquire
<1>5. CASE protocol # "http"
  <2>1. Goes(t, {"gate"}) /\ UNCHANGED poolVars
    BY <1>3, <1>5 DEF Lease
  <2> QED BY <1>1, <1>2, <1>5, <2>1, SftpStep
<1> QED BY <1>4, <1>5

LEMMA ServeTyped ==
  ASSUME PacedInv, NEW t \in Tasks, Serve(t)
  PROVE  PacedInv'
<1>1. Shapes' /\ UNCHANGED gates
  BY ShapesKept DEF PacedInv, Serve, Shapes, rateVars
<1>2. task[t].at = "waiting" /\ UNCHANGED <<gates, protocol, holder, closing>> /\ TakeIdle(t)
  BY <1>1 DEF Serve, Woken, At, rateVars
<1>3. protocol = "http" /\ holds[t] = NoClient
  BY <1>2 DEF PacedInv, Shapes, ClientsUsed, At
<1>4. PoolKept' /\ holds'[t] # NoClient /\ \A u \in Tasks \ {t} : holds'[u] = holds[u]
  BY <1>2, <1>3, TakeIdleKeeps DEF PacedInv
<1>5. Goes(t, {"gate"})
  BY <1>2, AttemptGoes, RetryAssumption DEF PacedInv, FirstAttempt, TakeIdle, Leases
<1>6. task'[t].at = "gate"
  BY <1>1, <1>5, GoesTyped DEF PacedInv
<1> QED BY <1>1, <1>2, <1>3, <1>4, <1>5, <1>6, PoolStep

LEMMA GiveBackTyped ==
  ASSUME PacedInv, NEW t \in Tasks, GiveBack(t)
  PROVE  PacedInv'
<1>1. Shapes' /\ UNCHANGED gates
  BY ShapesKept DEF PacedInv, GiveBack, Shapes, rateVars
<1>2. task[t].at = "ended" /\ UNCHANGED <<gates, protocol, holder>> /\ GoesTo(t, "out")
  BY <1>1 DEF GiveBack, Release, At, rateVars
<1>3. Goes(t, {"out"})
  BY <1>2, RestingGoes DEF PacedInv
<1>4. task'[t].at = "out"
  BY <1>1, <1>3, GoesTyped DEF PacedInv
<1>5. CASE protocol = "http"
  <2>1. holds[t] # NoClient /\ Release(t)
    BY <1>2, <1>5 DEF PacedInv, ClientsUsed, GiveBack
  <2>2. PoolKept' /\ holds'[t] = NoClient /\ \A u \in Tasks \ {t} : holds'[u] = holds[u]
    BY <2>1, ReleaseKeeps DEF PacedInv
  <2> QED BY <1>1, <1>2, <1>3, <1>4, <1>5, <2>2, PoolStep
<1>6. CASE protocol # "http"
  <2>1. UNCHANGED poolVars
    BY <1>6 DEF GiveBack
  <2> QED BY <1>1, <1>2, <1>3, <1>6, <2>1, SftpStep
<1> QED BY <1>5, <1>6

\* A step of the rate limiter: only its lock is another's business.
LEMMA LimiterStep ==
  ASSUME PacedInv, NEW t \in Tasks, NEW S, Goes(t, S), S \subseteq Connected,
         task[t].at \in Connected, Shapes', LockHeld', UNCHANGED <<gates, poolVars, protocol>>
  PROVE  PacedInv'
<1>1. TaskShapes'
  BY GoesTyped DEF PacedInv
<1>2. PoolKept' /\ ClientsUsed'
  BY InnerKeeps DEF PacedInv
<1> QED BY <1>1, <1>2 DEF PacedInv

LEMMA PaceTyped ==
  ASSUME PacedInv, NEW t \in Tasks, Pace(t)
  PROVE  PacedInv'
<1>1. /\ task[t].at = "gate" /\ holder = NoTask
      /\ UNCHANGED <<timeVars, gateVars, poolVars, protocol, made>>
  BY DEF Pace, LockFree, At
<1>2. Clock \in Int /\ last \in Int /\ now \in Nat
  BY GatesListed DEF PacedInv, Shapes
<1>3. \A u \in Tasks : task[u].at # "paced"
  BY <1>1, RateAssumption DEF PacedInv, LockHeld, At
<1>4. "gate" \in Connected /\ {"paced"} \subseteq Connected /\ {"sending"} \subseteq Connected
  BY DEF Connected, Stages, Sleeping
<1>5. CASE Clock - last < MinInterval
  <2> DEFINE ticks == MinInterval - (Clock - last)
  <2>1. holder' = t /\ Sleeps(t, "paced", ticks) /\ UNCHANGED last
    BY <1>5 DEF Pace
  <2>2. now + ticks \in Nat
    BY <1>2, <1>5, RateAssumption
  <2> HIDE DEF ticks
  <2>3. Goes(t, {"paced"})
    BY <2>1, <2>2, KeepingGoes DEF PacedInv, Sleeps
  <2>4. Shapes' /\ UNCHANGED gates
    BY <1>1, <1>2, <2>1, ShapesKept DEF PacedInv
  <2>5. LockHeld'
    <3>1. task'[t].at = "paced" /\ \A u \in Tasks \ {t} : task'[u] = task[u]
      BY <2>3, <2>4, GoesTyped DEF PacedInv
    <3> QED BY <1>3, <2>1, <3>1 DEF LockHeld, At
  <2> QED BY <1>1, <1>4, <2>3, <2>4, <2>5, LimiterStep
<1>6. CASE ~(Clock - last < MinInterval)
  <2>1. last' = Clock /\ Keeping(t, "sending", 0) /\ UNCHANGED holder
    BY <1>6 DEF Pace, Send
  <2>2. Goes(t, {"sending"})
    BY <2>1, KeepingGoes DEF PacedInv
  <2>3. Shapes' /\ UNCHANGED gates
    BY <1>1, <1>2, <2>1, ShapesKept DEF PacedInv
  <2>4. LockHeld'
    BY <1>3, <2>1, <2>2, <2>3, LockUntouched DEF PacedInv
  <2> QED BY <1>1, <1>4, <2>2, <2>3, <2>4, LimiterStep
<1> QED BY <1>5, <1>6

LEMMA PacedTyped ==
  ASSUME PacedInv, NEW t \in Tasks, Paced(t)
  PROVE  PacedInv'
<1>1. /\ task[t].at = "paced" /\ holder' = NoTask /\ last' = Clock
      /\ UNCHANGED <<timeVars, gateVars, poolVars, protocol, made>>
  BY DEF Paced, Unlocked, Send, At
<1>2. Clock \in Int
  BY GatesListed DEF PacedInv
<1>3. Goes(t, {"sending"})
  BY KeepingGoes DEF PacedInv, Paced, Send
<1>4. Shapes' /\ UNCHANGED gates
  BY <1>1, <1>2, ShapesKept DEF PacedInv
<1>5. LockHeld'
  <2>1. task'[t].at = "sending" /\ \A u \in Tasks \ {t} : task'[u] = task[u]
    BY <1>3, <1>4, GoesTyped DEF PacedInv
  <2>2. holder = t /\ \A u \in Tasks \ {t} : task[u].at # "paced"
    BY <1>1 DEF PacedInv, LockHeld, At
  <2> QED BY <1>1, <2>1, <2>2, RateAssumption DEF LockHeld, At
<1>6. "paced" \in Connected /\ {"sending"} \subseteq Connected
  BY DEF Connected, Stages, Sleeping
<1> QED BY <1>1, <1>3, <1>4, <1>5, <1>6, LimiterStep

\* The clocks, the end of the pool, and nothing at all: no task moves.
LEMMA AroundTyped ==
  ASSUME PacedInv, SetClock \/ ClosePool \/ TimePasses \/ UNCHANGED vars
  PROVE  PacedInv'
<1>1. UNCHANGED <<task, gates, protocol, last, holder, made>>
  BY DEF SetClock, ClosePool, Close, TimePasses, Tick, vars, timeVars, gateVars, rateVars
<1>2. UNCHANGED holds /\ PoolKept'
  <2>1. CASE UNCHANGED poolVars
    BY <2>1 DEF poolVars, PacedInv, PoolKept, PoolTypeOK, Open
  <2>2. CASE ClosePool
    BY <2>2, CloseKeeps DEF ClosePool, PacedInv
  <2> QED BY <2>1, <2>2 DEF SetClock, TimePasses, vars
<1>3. ClientsUsed'
  <2>1. protocol = "sftp" => UNCHANGED idle
    BY DEF SetClock, ClosePool, TimePasses, vars, poolVars
  <2> QED BY <1>1, <1>2, <2>1 DEF PacedInv, ClientsUsed, At
<1>4. TaskShapes' /\ LockHeld'
  BY <1>1 DEF PacedInv, TaskShapes, TaskRecords, LockHeld, At
<1>5. Shapes'
  <2>1. CASE SetClock
    <3>1. PICK step \in ClockSteps :
            /\ skew' = skew + step
            /\ opened' = IF step > 0 THEN [t \in Tasks |-> [k \in DOMAIN gates |-> Never]] ELSE opened
            /\ sets < MaxSets /\ sets' = sets + 1 /\ UNCHANGED <<now, memory>>
      BY <2>1 DEF SetClock
    <3>2. step \in Int
      BY RetryAssumption
    <3>3. sets' \in 0..MaxSets
      BY <3>1, RetryAssumption DEF PacedInv, Shapes
    <3> QED BY <1>1, <3>1, <3>2, <3>3 DEF PacedInv, Shapes, Never
  <2>2. CASE ClosePool \/ UNCHANGED vars
    BY <1>1, <2>2 DEF PacedInv, Shapes, ClosePool, vars, timeVars, gateVars
  <2>3. CASE TimePasses
    BY <1>1, <2>3 DEF PacedInv, Shapes, TimePasses, Tick, gateVars
  <2> QED BY <2>1, <2>2, <2>3
<1> QED BY <1>2, <1>3, <1>4, <1>5 DEF PacedInv

LEMMA PacedNext == PacedInv /\ [Next]_vars => PacedInv'
<1> SUFFICES ASSUME PacedInv, [Next]_vars PROVE PacedInv'
  OBVIOUS
<1>1. ASSUME NEW t \in Tasks, TaskStep(t) PROVE PacedInv'
  BY <1>1, LeaseTyped, ServeTyped, NextRequestTyped, GiveBackTyped, PassGateTyped, PaceTyped,
     PacedTyped, AnswerTyped, RetryTyped DEF TaskStep
<1>2. CASE SetClock \/ ClosePool \/ TimePasses \/ UNCHANGED vars
  BY <1>2, AroundTyped
<1> QED BY <1>1, <1>2 DEF Next, Progress

LEMMA PacedInvariant == Spec => []PacedInv
BY PacedInit, PacedNext, PTL DEF Spec

\* Every reachable state of the pools, the gates and the limiter is well typed: no more clients
\* than pool_max_size, each counted and with one task, and only the holder of _rate_limit_lock
\* sleeps in the limiter.
THEOREM PacedTypeCorrect == Spec => []TypeOK
<1>1. PacedInv => TypeOK
  <2> SUFFICES ASSUME PacedInv PROVE TypeOK
    OBVIOUS
  <2>1. RetryTypeOK
    BY DEF PacedInv, Shapes, TaskShapes, TaskRecords, RetryTypeOK
  <2>2. GateTypeOK
    BY DEF PacedInv, Shapes, TaskShapes, TaskRecords, GateTypeOK
  <2>3. PoolTypeOK
    BY DEF PacedInv, PoolKept
  <2>4. \A t \in Tasks : task[t].at \in Stages
    BY DEF PacedInv, TaskShapes, TaskRecords
  <2>5. holder \in Tasks \cup {NoTask} /\ (holder # NoTask => At(holder, "paced"))
    BY DEF PacedInv, LockHeld
  <2> QED BY <2>1, <2>2, <2>3, <2>4, <2>5 DEF TypeOK, PacedInv, Shapes, Stages
<1> QED BY <1>1, PacedInvariant, PTL

-----------------------------------------------------------------------------
(* The gates: days and times of day *)

LEMMA Division ==
  ASSUME NEW c \in Int
  PROVE  /\ Day(c) \in Int /\ TimeIn(c) \in 0..DayLength - 1
         /\ c = DayLength * Day(c) + TimeIn(c)
<1>1. PICK q : q = c \div DayLength
  OBVIOUS
<1>2. PICK r : r = c % DayLength
  OBVIOUS
<1>3. q \in Int /\ r \in Int /\ c = DayLength * q + r /\ r \in 0..DayLength - 1
  BY <1>1, <1>2, GateAssumption
<1> QED BY <1>1, <1>2, <1>3 DEF Day, TimeIn

\* A time is on the day, at the time of day, that it is made of.
LEMMA Composed ==
  ASSUME NEW q \in Int, NEW r \in 0..DayLength - 1, NEW c \in Int, c = DayLength * q + r
  PROVE  Day(c) = q /\ TimeIn(c) = r
<1>1. DayLength \in Int /\ DayLength > 0
  BY GateAssumption
<1>2. PICK k \in Int : k = Day(c)
  BY Division
<1>3. PICK s \in Int : s = TimeIn(c) /\ 0 <= s /\ s < DayLength
  BY <1>1, Division
<1>4. DayLength * q + r = DayLength * k + s
  BY <1>2, <1>3, Division
<1>5. 0 <= r /\ r < DayLength /\ r \in Int
  BY <1>1
<1>6. k = q /\ s = r
  BY <1>1, <1>4, <1>5, <1>3
<1> QED BY <1>2, <1>3, <1>6

\* Who waits as long as a daily gate says wakes when it opens next, after the day's opening.
LEMMA WakesAtOpening ==
  ASSUME NEW c \in Int, NEW w, w = 1 + ((TimeOfDay - TimeIn(c) - 1) % DayLength)
  PROVE  w \in Nat \ {0} /\ TimeIn(c + w) = TimeOfDay /\ Opening(Day(c)) <= c + w
<1>1. DayLength \in Int /\ DayLength > 0 /\ TimeOfDay \in Int /\ 0 <= TimeOfDay /\ TimeOfDay < DayLength
  BY GateAssumption
<1>2. PICK q \in Int : q = Day(c)
  BY Division
<1>3. PICK r \in Int : r = TimeIn(c) /\ 0 <= r /\ r < DayLength
  BY <1>1, Division
<1>4. c = DayLength * q + r
  BY <1>2, <1>3, Division
<1>5. PICK x \in Int : x = TimeOfDay - r - 1
  BY <1>1
<1>6. PICK k \in Int : k = Day(x)
  BY Division
<1>7. PICK m \in Int : m = TimeIn(x) /\ 0 <= m /\ m < DayLength
  BY <1>1, Division
<1>8. x = DayLength * k + m
  BY <1>6, <1>7, Division
<1>9. w = 1 + m
  BY <1>3, <1>5, <1>7 DEF TimeIn
<1>10. c + w = DayLength * (q - k) + TimeOfDay
  BY <1>1, <1>4, <1>5, <1>8, <1>9
<1>11. TimeIn(c + w) = TimeOfDay
  <2>1. q - k \in Int /\ TimeOfDay \in 0..DayLength - 1 /\ c + w \in Int
    BY <1>1, <1>9
  <2> QED BY <1>10, <2>1, Composed
<1>12. k <= 0
  <2>1. DayLength * k < DayLength
    BY <1>1, <1>3, <1>5, <1>7, <1>8
  <2> QED BY <1>1, <2>1
<1>13. DayLength * q <= DayLength * (q - k)
  BY <1>1, <1>12
<1>14. Opening(q) <= c + w
  <2>1. PICK y \in Int : y = DayLength * q
    BY <1>1
  <2>2. PICK z \in Int : z = DayLength * (q - k)
    BY <1>1
  <2>3. q * DayLength = y
    BY <1>1, <2>1
  <2> QED BY <1>1, <1>10, <1>13, <2>1, <2>2, <2>3 DEF Opening
<1> QED BY <1>2, <1>7, <1>9, <1>11, <1>14

\* On a day whose opening is over, it is the time of day or later.
LEMMA OpenedToday ==
  ASSUME NEW c \in Int, Opening(Day(c)) <= c
  PROVE  TimeIn(c) >= TimeOfDay
<1>1. DayLength \in Int /\ TimeOfDay \in Int
  BY GateAssumption
<1>2. PICK q \in Int : q = Day(c)
  BY Division
<1>3. PICK r \in Int : r = TimeIn(c) /\ c = DayLength * q + r
  BY <1>1, <1>2, Division
<1>4. PICK y \in Int : y = DayLength * q /\ q * DayLength = y
  BY <1>1
<1> QED BY <1>1, <1>2, <1>3, <1>4 DEF Opening

\* Who wakes late, but not so late that the day is over, passes on the day it waited for.
LEMMA LateOnTheDay ==
  ASSUME TimeOfDay + MaxLate < DayLength, NEW c \in Int, NEW wake \in Int,
         TimeIn(wake) = TimeOfDay, wake <= c, c <= wake + MaxLate
  PROVE  TimeIn(c) >= TimeOfDay
<1>1. /\ DayLength \in Int /\ TimeOfDay \in Int /\ 0 <= TimeOfDay /\ MaxLate \in Int
  BY GateAssumption, RetryAssumption
<1>2. PICK q \in Int : q = Day(wake)
  BY Division
<1>3. wake = DayLength * q + TimeOfDay
  BY <1>2, Division
<1>4. PICK r \in Int : r = TimeOfDay + (c - wake)
  BY <1>1
<1>5. r \in 0..DayLength - 1 /\ r >= TimeOfDay
  BY <1>1, <1>4
<1>6. c = DayLength * q + r
  BY <1>1, <1>3, <1>4
<1> QED BY <1>5, <1>6, Composed

-----------------------------------------------------------------------------
(* The gates: the steps that pass none *)

\* t is not at a gate's sleep afterwards, and back before the first gate.
Resets(t) ==
  /\ task'[t].at # "gated" /\ task'[t].gate = 1
  /\ \A u \in Tasks \ {t} : task'[u] = task[u]

LEMMA GoesToResets ==
  ASSUME TaskShapes, NEW t \in Tasks, NEW at, at # "gated", GoesTo(t, at)
  PROVE  Resets(t)
BY DEF TaskShapes, GoesTo, Resting, Resets

LEMMA KeepingResets ==
  ASSUME TaskShapes, NEW t \in Tasks, NEW at, at # "gated", NEW wake, Keeping(t, at, wake)
  PROVE  Resets(t)
BY DEF TaskShapes, Keeping, Resting, Resets

LEMMA AttemptResets ==
  ASSUME TaskShapes, NEW t \in Tasks, NEW attempt, Attempts(t, attempt)
  PROVE  Resets(t)
BY DEF TaskShapes, Attempts, Resting, Resets

LEMMA FailureResets ==
  ASSUME TaskShapes, NEW t \in Tasks, AttemptFails(t)
  PROVE  Resets(t)
<1>1. (\E wake : Keeping(t, "backoff", wake)) \/ GoesTo(t, "ended")
  BY DEF AttemptFails, Sleeps
<1> QED BY <1>1, KeepingResets, GoesToResets

LEMMA UngatedResets ==
  ASSUME TaskShapes, NEW t \in Tasks, TaskStep(t), ~PassGate(t)
  PROVE  Resets(t) /\ UNCHANGED <<timeVars, gateVars>>
<1>1. UNCHANGED <<timeVars, gateVars>>
  BY DEF TaskStep, Lease, Serve, NextRequest, GiveBack, Pace, Paced, Answer, Retry
<1>2. \/ \E at \in {"waiting", "out", "ended"} : GoesTo(t, at)
      \/ \E at \in {"paced", "sending"} : \E wake : Keeping(t, at, wake)
      \/ \E attempt : Attempts(t, attempt)
      \/ AttemptFails(t)
  <2>1. CASE Lease(t) \/ Serve(t) \/ NextRequest(t) \/ Retry(t)
    BY <2>1 DEF Lease, Serve, NextRequest, Retry, Acquire, Woken, TakeIdle, Create, Wait, Leases,
                FirstAttempt, NextAttempt
  <2>2. CASE GiveBack(t) \/ Answer(t)
    BY <2>2 DEF GiveBack, Release, Answer
  <2>3. CASE Pace(t) \/ Paced(t)
    BY <2>3 DEF Pace, Paced, Sleeps, Send
  <2> QED BY <2>1, <2>2, <2>3 DEF TaskStep
<1>3. Resets(t)
  BY <1>2, GoesToResets, KeepingResets, AttemptResets, FailureResets
<1> QED BY <1>1, <1>3

\* What the step property of the gates says of a task.
PassesInTime(t) ==
  task'[t].gate > task[t].gate =>
    IF Here(t) = "interval"
    THEN opened[t][task[t].gate] = Never \/ now - opened[t][task[t].gate] >= Interval
    ELSE TimeIn(Clock) >= TimeOfDay \/ sets > 0

LEMMA ResetKeepsGates ==
  ASSUME GatesInv, NEW t \in Tasks, Resets(t), UNCHANGED <<timeVars, gateVars>>
  PROVE  IntervalKept' /\ DaysKept' /\ \A u \in Tasks : PassesInTime(u)
<1>1. UNCHANGED <<now, skew, sets, gates, memory, opened>>
  BY DEF timeVars, gateVars
<1>2. IntervalKept'
  BY <1>1 DEF GatesInv, IntervalKept, Resets, At, Here
<1>3. DaysKept'
  BY <1>1 DEF GatesInv, DaysKept, Resets, At, Here, Opening, Day, TimeIn
<1>4. \A u \in Tasks : task[u].gate \in Nat \ {0}
  BY GatesListed DEF GatesInv, PacedInv, TaskShapes, TaskRecords
<1>5. \A u \in Tasks : ~(task'[u].gate > task[u].gate)
  BY <1>4 DEF Resets
<1> QED BY <1>2, <1>3, <1>5 DEF PassesInTime

-----------------------------------------------------------------------------
(* The gates: who begins to wait at one, and who passes one *)

LEMMA WaitKeepsGates ==
  ASSUME GatesInv, NEW t \in Tasks, CallGate(t), NEW ticks \in Nat, WaitsFor(t, ticks),
         IF Here(t) = "interval"
         THEN ticks >= Interval - (Clock - memory[task[t].gate])
         ELSE ticks = DailyWait,
         UNCHANGED timeVars
  PROVE  IntervalKept' /\ DaysKept' /\ \A u \in Tasks : PassesInTime(u)
<1>1. UNCHANGED <<now, skew, sets, gates, memory, opened>>
  BY DEF timeVars, CallGate, WaitsFor
<1>2. PacedInv /\ IntervalKept /\ DaysKept /\ Shapes /\ TaskShapes
  BY DEF GatesInv, PacedInv
<1>3. /\ task'[t].at = "gated" /\ task'[t].gate = task[t].gate
      /\ task'[t].began = Clock /\ task'[t].wake = now + ticks
      /\ \A u \in Tasks \ {t} : task'[u] = task[u]
  BY <1>2 DEF WaitsFor, TaskShapes, TaskRecords
<1>4. task[t].gate \in DOMAIN gates /\ Clock \in Int /\ now \in Nat /\ skew \in Int
  BY <1>2, GatesListed DEF CallGate, Shapes, TaskShapes, TaskRecords
<1>5. memory[task[t].gate] \in Int /\ opened[t][task[t].gate] \in Int
  BY <1>2, <1>4 DEF Shapes
<1>6. IntervalKept'
  <2>1. CASE Here(t) = "interval"
    <3>1. opened[t][task[t].gate] = Never \/ now + ticks >= opened[t][task[t].gate] + Interval
      <4>1. PICK m \in Int : m = memory[task[t].gate]
        BY <1>5
      <4>2. PICK o \in Int : o = opened[t][task[t].gate]
        BY <1>5
      <4>3. o = Never \/ m >= o + skew
        BY <1>2, <1>4, <2>1, <4>1, <4>2 DEF IntervalKept, Here
      <4>4. ticks >= Interval - ((now + skew) - m)
        BY <2>1, <4>1 DEF Clock
      <4>5. o = Never \/ now + ticks >= o + Interval
        BY <1>4, <4>3, <4>4, GateAssumption
      <4> QED BY <4>2, <4>5
    <3> QED BY <1>1, <1>2, <1>3, <3>1 DEF IntervalKept, At, Here
  <2>2. CASE Here(t) # "interval"
    BY <1>1, <1>2, <1>3, <2>2 DEF IntervalKept, At, Here
  <2> QED BY <2>1, <2>2
<1>7. DaysKept'
  <2> SUFFICES ASSUME sets = 0 PROVE DaysKept'
    BY <1>1 DEF DaysKept
  <2>1. skew = 0 /\ Clock = now
    BY <1>2, <1>4 DEF DaysKept, Clock
  <2>2. CASE Here(t) # "interval"
    <3>1. ticks = 1 + ((TimeOfDay - TimeIn(now) - 1) % DayLength)
      BY <2>1, <2>2 DEF DailyWait
    <3>2. TimeIn(now + ticks) = TimeOfDay /\ Opening(Day(now)) <= now + ticks
      BY <1>4, <3>1, WakesAtOpening
    <3>3. now <= now + ticks + MaxLate
      BY <1>4, RetryAssumption
    <3>4. /\ Opening(Day(task'[t].began)) <= task'[t].wake
          /\ TimeIn(task'[t].wake) = TimeOfDay /\ now <= task'[t].wake + MaxLate
      BY <1>3, <2>1, <3>2, <3>3
    <3> QED BY <1>1, <1>2, <1>3, <3>4 DEF DaysKept, At, Here, Opening, Day, TimeIn
  <2>3. CASE Here(t) = "interval"
    BY <1>1, <1>2, <1>3, <2>3 DEF DaysKept, At, Here, Opening, Day, TimeIn
  <2> QED BY <2>2, <2>3
<1>8. \A u \in Tasks : PassesInTime(u)
  <2>1. \A u \in Tasks : task[u].gate \in Nat
    BY <1>2, GatesListed DEF TaskShapes, TaskRecords
  <2> QED BY <1>3, <2>1 DEF PassesInTime
<1> QED BY <1>6, <1>7, <1>8

LEMMA PassKeepsGates ==
  ASSUME GatesInv, NEW t \in Tasks, NEW stamp \in Int, Passes(t, stamp),
         task[t].gate \in DOMAIN gates, UNCHANGED <<timeVars, gates>>,
         IF Here(t) = "interval" THEN stamp = Clock ELSE sets = 0 => Opening(stamp) <= now
  PROVE  IntervalKept' /\ DaysKept' /\ \A u \in Tasks \ {t} : PassesInTime(u)
<1> DEFINE g == task[t].gate
<1>1. UNCHANGED <<now, skew, sets, gates>>
  BY DEF timeVars
<1>2. IntervalKept /\ DaysKept /\ Shapes /\ TaskShapes
  BY DEF GatesInv, PacedInv
<1>3. task'[t].at = "gate" /\ \A u \in Tasks \ {t} : task'[u] = task[u]
  BY <1>2 DEF Passes, TaskShapes, TaskRecords
<1>4. /\ \A k \in DOMAIN gates : memory'[k] = IF k = g THEN stamp ELSE memory[k]
      /\ \A k \in DOMAIN gates : opened'[t][k] = IF k = g THEN now ELSE opened[t][k]
      /\ \A u \in Tasks \ {t} : opened'[u] = opened[u]
  BY <1>2 DEF Passes, Passing, Shapes
<1>5. now \in Nat /\ skew \in Int /\ \A u \in Tasks, k \in DOMAIN gates : opened[u][k] \in Int
  BY <1>2 DEF Shapes
<1> HIDE DEF g
<1>6. gates[g] = Here(t)
  BY DEF Here, g
<1>7. ASSUME NEW u \in Tasks, NEW k \in DOMAIN gates
      PROVE  /\ opened'[u][k] <= now
             /\ gates[k] = "interval" /\ opened'[u][k] # Never => memory'[k] >= opened'[u][k] + skew
  <2>1. opened[u][k] <= now
    BY <1>2 DEF IntervalKept
  <2>2. opened'[u][k] = opened[u][k] \/ (u = t /\ k = g /\ opened'[u][k] = now)
    BY <1>4
  <2>3. opened'[u][k] <= now
    BY <1>5, <2>1, <2>2
  <2>4. CASE gates[k] = "interval" /\ opened'[u][k] # Never
    <3>1. CASE k = g
      <4>1. memory'[k] = now + skew
        BY <1>4, <1>6, <2>4, <3>1 DEF Clock
      <4>2. opened'[u][k] \in Int
        BY <1>5, <2>2
      <4> QED BY <1>5, <2>3, <4>1, <4>2
    <3>2. CASE k # g
      BY <1>2, <1>4, <2>2, <2>4, <3>2 DEF IntervalKept
    <3> QED BY <3>1, <3>2
  <2> QED BY <2>3, <2>4
<1>8. ASSUME NEW u \in Tasks, task'[u].at = "gated", gates[task'[u].gate] = "interval"
      PROVE  \/ opened'[u][task'[u].gate] = Never
             \/ task'[u].wake >= opened'[u][task'[u].gate] + Interval
  <2>1. u # t /\ task'[u] = task[u] /\ opened'[u] = opened[u]
    BY <1>3, <1>4, <1>8
  <2> QED BY <1>2, <1>8, <2>1 DEF IntervalKept, At, Here
<1>9. IntervalKept'
  BY <1>1, <1>7, <1>8 DEF IntervalKept, At, Here
<1>10. DaysKept'
  <2> SUFFICES ASSUME sets = 0 PROVE DaysKept'
    BY <1>1 DEF DaysKept
  <2>1. ASSUME NEW k \in DOMAIN gates, gates[k] # "interval"
        PROVE  Opening(memory'[k]) <= now
    <3>1. CASE k = g
      BY <1>4, <1>6, <2>1, <3>1
    <3>2. CASE k # g
      BY <1>2, <1>4, <2>1, <3>2 DEF DaysKept
    <3> QED BY <3>1, <3>2
  <2>2. ASSUME NEW u \in Tasks, task'[u].at = "gated", gates[task'[u].gate] # "interval"
        PROVE  /\ Opening(Day(task'[u].began)) <= task'[u].wake
               /\ TimeIn(task'[u].wake) = TimeOfDay /\ now <= task'[u].wake + MaxLate
    <3>1. u # t /\ task'[u] = task[u]
      BY <1>3, <2>2
    <3> QED BY <1>2, <2>2, <3>1 DEF DaysKept, At, Here
  <2>3. skew = 0
    BY <1>2 DEF DaysKept
  <2> QED BY <1>1, <2>1, <2>2, <2>3 DEF DaysKept, At, Here, Opening, Day, TimeIn
<1>11. \A u \in Tasks \ {t} : PassesInTime(u)
  <2>1. \A u \in Tasks : task[u].gate \in Nat
    BY <1>2, GatesListed DEF TaskShapes, TaskRecords
  <2> QED BY <1>3, <2>1 DEF PassesInTime
<1> QED BY <1>9, <1>10, <1>11

LEMMA CallKeepsGates ==
  ASSUME GatesInv, NEW t \in Tasks, CallGate(t), UNCHANGED timeVars
  PROVE  IntervalKept' /\ DaysKept' /\ \A u \in Tasks : PassesInTime(u)
<1>1. UNCHANGED <<now, skew, sets, gates>>
  BY DEF timeVars, CallGate
<1>2. PacedInv /\ IntervalKept /\ DaysKept /\ Shapes /\ TaskShapes
  BY DEF GatesInv, PacedInv
<1>3. task[t].gate \in DOMAIN gates /\ Clock \in Int /\ now \in Nat /\ skew \in Int
  BY <1>2, GatesListed DEF CallGate, Shapes, TaskShapes, TaskRecords
<1>4. PICK m \in Int : m = memory[task[t].gate]
  BY <1>2, <1>3 DEF Shapes
<1>5. PICK c \in Int : c = Clock /\ c = now + skew
  BY <1>3 DEF Clock
<1>6. CASE Here(t) = "interval"
  <2>1. PICK ticks \in IntervalWaits(m) : IF ticks = 0 THEN Passes(t, Clock) ELSE WaitsFor(t, ticks)
    BY <1>4, <1>6 DEF CallGate, CallIntervalGate, CallDailyGate
  <2>2. \/ c - m < Interval /\ \E j \in 0..GateJitter : ticks = Interval - (c - m) + j
        \/ ~(c - m < Interval) /\ ticks = 0
    BY <1>5, <2>1 DEF IntervalWaits
  <2>3. ticks \in Nat /\ ticks >= Interval - (c - m) /\ (ticks = 0 => c - m >= Interval)
    BY <2>2, GateAssumption
  <2>4. CASE ticks = 0
    <3>1. Passes(t, Clock)
      BY <2>1, <2>4
    <3>2. IntervalKept' /\ DaysKept' /\ \A u \in Tasks \ {t} : PassesInTime(u)
      BY <1>1, <1>3, <1>6, <3>1, PassKeepsGates
    <3>3. PICK o \in Int : o = opened[t][task[t].gate]
      BY <1>2, <1>3 DEF Shapes
    <3>4. o = Never \/ m >= o + skew
      BY <1>2, <1>3, <1>4, <1>6, <3>3 DEF IntervalKept, Here
    <3>5. o = Never \/ now - o >= Interval
      BY <1>3, <1>5, <2>3, <2>4, <3>4, GateAssumption
    <3>6. PassesInTime(t)
      BY <1>6, <3>3, <3>5 DEF PassesInTime
    <3> QED BY <3>2, <3>6
  <2>5. CASE ticks # 0
    <3>1. WaitsFor(t, ticks) /\ ticks >= Interval - (Clock - memory[task[t].gate])
      BY <1>4, <1>5, <2>1, <2>3, <2>5
    <3> QED BY <1>6, <2>3, <3>1, WaitKeepsGates
  <2> QED BY <2>4, <2>5
<1>7. CASE Here(t) # "interval"
  <2>1. CASE m = Day(Clock) /\ Passes(t, m)
    <3>1. sets = 0 => Opening(m) <= now
      BY <1>2, <1>3, <1>4, <1>7 DEF DaysKept, Here
    <3>2. IntervalKept' /\ DaysKept' /\ \A u \in Tasks \ {t} : PassesInTime(u)
      BY <1>1, <1>3, <1>7, <2>1, <3>1, PassKeepsGates
    <3>3. sets = 0 => TimeIn(Clock) >= TimeOfDay
      <4> SUFFICES ASSUME sets = 0 PROVE TimeIn(Clock) >= TimeOfDay
        OBVIOUS
      <4>1. Clock = now
        BY <1>2, <1>3 DEF DaysKept, Clock
      <4>2. Opening(Day(Clock)) <= Clock
        BY <2>1, <3>1, <4>1
      <4> QED BY <1>3, <4>2, OpenedToday
    <3>4. sets \in Nat
      BY <1>2, RetryAssumption DEF Shapes
    <3>5. PassesInTime(t)
      BY <1>7, <3>3, <3>4 DEF PassesInTime
    <3> QED BY <3>2, <3>5
  <2>2. CASE WaitsFor(t, DailyWait)
    <3>1. DailyWait \in Nat
      BY <1>2, <1>4, TicksAreNumbers
    <3> QED BY <1>7, <2>2, <3>1, WaitKeepsGates
  <2>3. CASE AttemptFails(t) /\ UNCHANGED <<memory, opened>>
    <3>1. Resets(t)
      BY <1>2, <2>3, FailureResets
    <3> QED BY <1>1, <2>3, <3>1, ResetKeepsGates DEF gateVars
  <2>4. \/ m = Day(Clock) /\ Passes(t, m)
        \/ WaitsFor(t, DailyWait)
        \/ AttemptFails(t) /\ UNCHANGED <<memory, opened>>
    BY <1>4, <1>7 DEF CallGate, CallIntervalGate, CallDailyGate, Skips
  <2> QED BY <2>1, <2>2, <2>3, <2>4
<1> QED BY <1>6, <1>7

LEMMA LeaveKeepsGates ==
  ASSUME TimeOfDay + MaxLate < DayLength, GatesInv, NEW t \in Tasks, LeaveGate(t), UNCHANGED timeVars
  PROVE  IntervalKept' /\ DaysKept' /\ \A u \in Tasks : PassesInTime(u)
<1>1. UNCHANGED <<now, skew, sets, gates>>
  BY DEF timeVars, LeaveGate
<1>2. PacedInv /\ IntervalKept /\ DaysKept /\ Shapes /\ TaskShapes
  BY DEF GatesInv, PacedInv
<1>3. At(t, "gated") /\ now >= task[t].wake /\ Passes(t, Stamp(t))
  BY DEF LeaveGate, Awake
<1>4. task[t].gate \in DOMAIN gates /\ Clock \in Int /\ now \in Nat /\ skew \in Int
  BY <1>2, <1>3, GatesListed DEF Shapes, TaskShapes, TaskRecords
<1>5. task[t].wake \in Int /\ task[t].began \in Int /\ sets \in Nat
  BY <1>2, RetryAssumption DEF Shapes, TaskShapes, TaskRecords
<1>6. CASE Here(t) = "interval"
  <2>1. Passes(t, Clock)
    BY <1>3, <1>6 DEF Stamp
  <2>2. IntervalKept' /\ DaysKept' /\ \A u \in Tasks \ {t} : PassesInTime(u)
    BY <1>1, <1>4, <1>6, <2>1, PassKeepsGates
  <2>3. PICK o \in Int : o = opened[t][task[t].gate]
    BY <1>2, <1>4 DEF Shapes
  <2>4. o = Never \/ task[t].wake >= o + Interval
    BY <1>2, <1>3, <1>6, <2>3 DEF IntervalKept
  <2>5. o = Never \/ now - o >= Interval
    BY <1>3, <1>4, <1>5, <2>4, GateAssumption
  <2>6. PassesInTime(t)
    BY <1>6, <2>3, <2>5 DEF PassesInTime
  <2> QED BY <2>2, <2>6
<1>7. CASE Here(t) # "interval"
  <2>1. PICK d \in Int : d = Day(task[t].began) /\ Passes(t, d)
    BY <1>3, <1>5, <1>7, Division DEF Stamp
  <2>2. ASSUME sets = 0
        PROVE  /\ Opening(d) <= task[t].wake /\ TimeIn(task[t].wake) = TimeOfDay
               /\ now <= task[t].wake + MaxLate /\ Clock = now
    <3>1. skew = 0
      BY <1>2, <2>2 DEF DaysKept
    <3> QED BY <1>2, <1>3, <1>4, <1>7, <2>1, <2>2, <3>1 DEF DaysKept, Clock
  <2>3. sets = 0 => Opening(d) <= now
    <3>1. Opening(d) \in Int
      BY GateAssumption DEF Opening
    <3> QED BY <1>3, <1>4, <1>5, <2>2, <3>1
  <2>4. IntervalKept' /\ DaysKept' /\ \A u \in Tasks \ {t} : PassesInTime(u)
    BY <1>1, <1>4, <1>7, <2>1, <2>3, PassKeepsGates
  <2>5. sets = 0 => TimeIn(Clock) >= TimeOfDay
    <3> SUFFICES ASSUME sets = 0 PROVE TimeIn(Clock) >= TimeOfDay
      OBVIOUS
    <3>1. task[t].wake <= now
      BY <1>3, <1>4, <1>5
    <3>2. TimeIn(now) >= TimeOfDay
      BY <1>4, <1>5, <2>2, <3>1, LateOnTheDay
    <3> QED BY <2>2, <3>2
  <2>6. PassesInTime(t)
    BY <1>5, <1>7, <2>5 DEF PassesInTime
  <2> QED BY <2>4, <2>6
<1> QED BY <1>6, <1>7

-----------------------------------------------------------------------------
(* The gates: the theorem *)

LEMMA GatesInit == Init => GatesInv
<1> SUFFICES ASSUME Init PROVE GatesInv
  OBVIOUS
<1>1. PacedInv
  BY PacedInit
<1>2. \A t \in Tasks : task[t].at = "out"
  BY DEF Init, TaskInit, Resting
<1>3. now \in Nat /\ skew = 0
  BY <1>1 DEF Init, TaskInit, PacedInv, Shapes
<1>4. \A t \in Tasks, k \in DOMAIN gates : opened[t][k] = Never
  BY DEF Init, GateInit
<1>5. IntervalKept
  BY <1>2, <1>3, <1>4 DEF IntervalKept, At, Never
<1>6. ASSUME NEW k \in DOMAIN gates, gates[k] # "interval"
      PROVE  Opening(memory[k]) <= now
  <2>1. memory[k] = -1
    BY <1>6 DEF Init, GateInit, Never
  <2>2. Opening(memory[k]) = TimeOfDay - DayLength
    BY <2>1, GateAssumption DEF Opening
  <2> QED BY <1>3, <2>2, GateAssumption
<1>7. DaysKept
  BY <1>2, <1>3, <1>6 DEF DaysKept, At
<1> QED BY <1>1, <1>5, <1>7 DEF GatesInv

LEMMA AroundKeepsGates ==
  ASSUME GatesInv, SetClock \/ ClosePool \/ TimePasses \/ UNCHANGED vars
  PROVE  IntervalKept' /\ DaysKept' /\ \A u \in Tasks : PassesInTime(u)
<1>1. UNCHANGED <<task, gates, memory>>
  BY DEF SetClock, ClosePool, Close, TimePasses, Tick, vars, timeVars, gateVars
<1>2. IntervalKept /\ DaysKept /\ Shapes /\ TaskShapes
  BY DEF GatesInv, PacedInv
<1>3. /\ now \in Nat /\ skew \in Int /\ sets \in Nat
      /\ \A t \in Tasks, k \in DOMAIN gates : opened[t][k] \in Int
      /\ \A k \in DOMAIN gates : memory[k] \in Int
  BY <1>2, RetryAssumption DEF Shapes
<1>4. \A u \in Tasks : task[u].gate \in Nat /\ task[u].wake \in Nat
  BY <1>2, GatesListed DEF TaskShapes, TaskRecords
<1>5. \A u \in Tasks : PassesInTime(u)
  BY <1>1, <1>4 DEF PassesInTime
<1>6. CASE SetClock
  <2>1. PICK step \in ClockSteps :
          /\ skew' = skew + step
          /\ opened' = IF step > 0 THEN [t \in Tasks |-> [k \in DOMAIN gates |-> Never]] ELSE opened
          /\ sets' = sets + 1 /\ UNCHANGED now
    BY <1>6 DEF SetClock
  <2>2. step \in Int /\ sets' # 0
    BY <1>3, <2>1, RetryAssumption
  <2>3. DaysKept'
    BY <2>2 DEF DaysKept
  <2>4. CASE step > 0
    <3>1. \A t \in Tasks, k \in DOMAIN gates : opened'[t][k] = Never
      BY <2>1, <2>4
    <3>2. \A t \in Tasks : At(t, "gated") => task[t].gate \in DOMAIN gates
      BY <1>2, GatesListed DEF TaskShapes, TaskRecords
    <3> QED BY <1>1, <1>3, <1>5, <2>1, <2>3, <3>1, <3>2 DEF IntervalKept, At, Here, Never
  <2>5. CASE ~(step > 0)
    <3>1. opened' = opened /\ step <= 0
      BY <2>1, <2>2, <2>5
    <3>2. IntervalKept'
      BY <1>1, <1>2, <1>3, <2>1, <2>2, <3>1 DEF IntervalKept, At, Here
    <3> QED BY <1>5, <2>3, <3>2
  <2> QED BY <2>4, <2>5
<1>7. CASE ClosePool \/ UNCHANGED vars
  <2>1. UNCHANGED <<now, skew, sets, opened>>
    BY <1>7 DEF ClosePool, vars, timeVars, gateVars
  <2> QED BY <1>1, <1>2, <1>5, <2>1 DEF IntervalKept, DaysKept, At, Here, Opening, Day, TimeIn
<1>8. CASE TimePasses
  <2>1. /\ now' = now + 1 /\ UNCHANGED <<skew, sets, opened>>
        /\ \A u \in Tasks : At(u, "gated") => now < task[u].wake + MaxLate
    BY <1>8 DEF TimePasses, Tick, gateVars, Sleeping, At
  <2>2. IntervalKept'
    BY <1>1, <1>2, <1>3, <2>1 DEF IntervalKept, At, Here
  <2>3. DaysKept'
    <3> SUFFICES ASSUME sets = 0 PROVE DaysKept'
      BY <2>1 DEF DaysKept
    <3>1. \A k \in DOMAIN gates : gates[k] # "interval" => Opening(memory[k]) <= now + 1
      <4>1. \A k \in DOMAIN gates : Opening(memory[k]) \in Int
        BY <1>3, GateAssumption DEF Opening
      <4> QED BY <1>2, <1>3, <4>1 DEF DaysKept
    <3>2. \A u \in Tasks : At(u, "gated") => now + 1 <= task[u].wake + MaxLate
      BY <1>3, <1>4, <2>1, RetryAssumption
    <3> QED BY <1>1, <1>2, <2>1, <3>1, <3>2 DEF DaysKept, At, Here, Opening, Day, TimeIn
  <2> QED BY <1>5, <2>2, <2>3
<1> QED BY <1>6, <1>7, <1>8

LEMMA GatesStep ==
  ASSUME TimeOfDay + MaxLate < DayLength, GatesInv, [Next]_vars
  PROVE  GatesInv' /\ \A u \in Tasks : PassesInTime(u)
<1>1. PacedInv'
  BY PacedNext DEF GatesInv
<1>2. ASSUME NEW t \in Tasks, TaskStep(t)
      PROVE  IntervalKept' /\ DaysKept' /\ \A u \in Tasks : PassesInTime(u)
  <2>1. CASE PassGate(t)
    BY <2>1, CallKeepsGates, LeaveKeepsGates DEF PassGate
  <2>2. CASE ~PassGate(t)
    BY <1>2, <2>2, UngatedResets, ResetKeepsGates DEF GatesInv, PacedInv
  <2> QED BY <2>1, <2>2
<1>3. ASSUME SetClock \/ ClosePool \/ TimePasses \/ UNCHANGED vars
      PROVE  IntervalKept' /\ DaysKept' /\ \A u \in Tasks : PassesInTime(u)
  BY <1>3, AroundKeepsGates
<1>4. IntervalKept' /\ DaysKept' /\ \A u \in Tasks : PassesInTime(u)
  BY <1>2, <1>3 DEF Next, Progress
<1> QED BY <1>1, <1>4 DEF GatesInv

\* A task passes an interval gate at most once in its interval, whoever else waits there, and a
\* daily gate at its time of day or later on that day, unless the clock was set: what the gates
\* remember, read before a sleep and written after it, still keeps each task apart from itself.
\* A sleep may end late, if not so late that the gate's day is over.
THEOREM GatesAreKept ==
  ASSUME TimeOfDay + MaxLate < DayLength
  PROVE  Spec => GatesHold
<1>1. Init => GatesInv
  BY GatesInit
<1>2. GatesInv /\ [Next]_vars => GatesInv'
  BY GatesStep
<1>3. GatesInv /\ [Next]_vars =>
        [\A t \in Tasks : task'[t].gate > task[t].gate =>
           IF Here(t) = "interval"
           THEN opened[t][task[t].gate] = Never \/ now - opened[t][task[t].gate] >= Interval
           ELSE TimeIn(Clock) >= TimeOfDay \/ sets > 0]_<<timeVars, task, gateVars>>
  BY GatesStep DEF PassesInTime
<1> QED BY <1>1, <1>2, <1>3, PTL DEF Spec, GatesHold
=============================================================================
