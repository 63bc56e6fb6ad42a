---------------------------- MODULE PacedRequests ----------------------------
(***************************************************************************)
(* Requests through a connection pool, HTTP or SFTP: a task leases a       *)
(* connection, and each attempt of a request passes the gates and then the *)
(* rate limiter, which sleeps under its lock.  The steps of an attempt     *)
(* between two sleeps are steps of their own here.  (How the SFTP pool     *)
(* finds a connection is SftpPool's subject.)                              *)
(***************************************************************************)
EXTENDS OperationGates, HttpPool

CONSTANTS
  MinInterval, \* 1 / rate_limit_requests_per_second
  MaxRequests, \* requests the tasks make: the work of one run is finite
  NoTask

ASSUME RateAssumption ==
  /\ MinInterval \in Nat /\ MaxRequests \in Nat /\ NoTask \notin Tasks
  /\ \A s \in Starts : s >= MinInterval /\ s >= Interval

VARIABLES
  protocol, \* "http" or "sftp"
  last,     \* _last_request_time
  holder,   \* who has _rate_limit_lock
  made,     \* requests begun, and leases that will begin one
  sentAt    \* history: when the last request was sent

rateVars == <<last, holder, sentAt>>
vars == <<timeVars, task, gateVars, poolVars, protocol, rateVars, made>>

Init ==
  /\ protocol \in {"http", "sftp"}
  /\ TaskInit /\ GateInit /\ PoolInit
  /\ protocol = "http" => gates = <<>>
  /\ last = 0 /\ holder = NoTask /\ sentAt = Never
  /\ made = 0

MoreToDo == made < MaxRequests /\ made' = made + 1

-----------------------------------------------------------------------------
(* The connection *)

Lease(t) ==
  /\ MoreToDo
  /\ IF protocol = "http" THEN Acquire(t) ELSE At(t, "out") /\ FirstAttempt(t) /\ UNCHANGED poolVars
  /\ UNCHANGED <<timeVars, gateVars, protocol, rateVars>>

Serve(t) == Woken(t) /\ UNCHANGED <<timeVars, gateVars, protocol, rateVars, made>>

\* One request per HTTP lease, several per SFTP lease.
NextRequest(t) ==
  /\ At(t, "ended") /\ protocol = "sftp"
  /\ MoreToDo
  /\ FirstAttempt(t)
  /\ UNCHANGED <<timeVars, gateVars, poolVars, protocol, rateVars>>

GiveBack(t) ==
  /\ IF protocol = "http" THEN Release(t) ELSE At(t, "ended") /\ GoesTo(t, "out") /\ UNCHANGED poolVars
  /\ UNCHANGED <<timeVars, gateVars, protocol, rateVars, made>>

-----------------------------------------------------------------------------
(* An attempt: request_with_existing's _make_request *)

PassGate(t) ==
  /\ CallGate(t) \/ LeaveGate(t)
  /\ UNCHANGED <<timeVars, poolVars, protocol, rateVars, made>>

LockFree_Unlocked == TRUE
LockFree == holder = NoTask

Send(t) ==
  /\ last' = Clock
  /\ sentAt' = now
  /\ Keeping(t, "sending", 0)

\* Under the lock: when the last request was too recent, sleep for the rest of the interval.
Pace(t) ==
  /\ At(t, "gate") /\ task[t].gate = Len(gates) + 1
  /\ LockFree
  /\ IF Clock - last < MinInterval
     THEN holder' = t /\ Sleeps(t, "paced", MinInterval - (Clock - last)) /\ UNCHANGED <<last, sentAt>>
     ELSE Send(t) /\ UNCHANGED holder
  /\ UNCHANGED <<timeVars, gateVars, poolVars, protocol, made>>

Unlocked_Kept == holder
Unlocked == NoTask

Paced(t) ==
  /\ At(t, "paced") /\ Awake(t)
  /\ Send(t)
  /\ holder' = Unlocked
  /\ UNCHANGED <<timeVars, gateVars, poolVars, protocol, made>>

Answer(t) ==
  /\ At(t, "sending")
  /\ GoesTo(t, "ended") \/ AttemptFails(t)
  /\ UNCHANGED <<timeVars, gateVars, poolVars, protocol, rateVars, made>>

Retry(t) == NextAttempt(t) /\ UNCHANGED <<timeVars, gateVars, poolVars, protocol, rateVars, made>>

-----------------------------------------------------------------------------
(* What happens around them *)

\* Between its sleeps a task runs on: no time passes while one does, by any clock.
Running(t) ==
  At(t, "ended") \/ (At(t, "gate") /\ (task[t].gate <= Len(gates) \/ holder = NoTask))
AllAwait == \A t \in Tasks : ~Running(t)

\* The wall clock is set.  Forward, requests and passes seem longer ago than they are.
SetClock ==
  /\ AllAwait
  /\ sets < MaxSets
  /\ sets' = sets + 1
  /\ \E step \in ClockSteps :
       /\ skew' = skew + step
       /\ sentAt' = IF step > 0 THEN Never ELSE sentAt
       /\ opened' = IF step > 0 THEN [t \in Tasks |-> [k \in DOMAIN gates |-> Never]] ELSE opened
  /\ UNCHANGED <<now, task, gates, memory, poolVars, protocol, last, holder, made>>

ClosePool == protocol = "http" /\ Close /\ UNCHANGED <<timeVars, gateVars, protocol, rateVars, made>>

TimePasses ==
  /\ AllAwait
  /\ Tick
  /\ UNCHANGED <<gateVars, poolVars, protocol, rateVars, made>>

TaskStep(t) ==
  Lease(t) \/ Serve(t) \/ NextRequest(t) \/ GiveBack(t) \/ PassGate(t) \/ Pace(t) \/ Paced(t)
  \/ Answer(t) \/ Retry(t)

Progress == (\E t \in Tasks : TaskStep(t)) \/ TimePasses

Next == Progress \/ SetClock \/ ClosePool

\* The event loop runs every task that can run, sleeps end and requests are answered (clients
\* have a timeout).  Each of these steps brings the finite work forward, so one condition does.
Spec == Init /\ [][Next]_vars /\ WF_vars(Progress)

-----------------------------------------------------------------------------
(* Properties *)

TypeOK ==
  /\ RetryTypeOK /\ GateTypeOK /\ PoolTypeOK
  /\ \A t \in Tasks : task[t].at \in {"out", "waiting", "gate", "sending", "ended"} \cup Sleeping
  /\ protocol \in {"http", "sftp"} /\ last \in Int
  /\ holder \in Tasks \cup {NoTask} /\ (holder # NoTask => At(holder, "paced"))
  /\ made \in 0..MaxRequests

\* Requests of one pool, first attempts and retries of all tasks together, are sent at least the
\* minimal interval apart, unless the clock was set forward between two of them.
RatePaced ==
  [][\A t \in Tasks : ~At(t, "sending") /\ task'[t].at = "sending" =>
       sentAt = Never \/ now - sentAt >= MinInterval]_vars

\* Whoever wants a connection gets one and gives it back, however attempts fail and tasks wait
\* for gates, the lock and each other, unless close() has taken clients from those who wait.
RequestEnds == \A t \in Tasks : ~At(t, "out") ~> (At(t, "out") \/ closing.called)

-----------------------------------------------------------------------------
(* The inductive invariant *)

Stages == {"out", "waiting", "gate", "sending", "ended"} \cup Sleeping

TaskRecords ==
  [at : Stages, attempt : 0..MaxRetries, gate : 1..Len(gates) + 1, began : Int, wake : Nat]

TaskShapes ==
  /\ task \in [Tasks -> TaskRecords]
  /\ \A t \in Tasks : At(t, "gated") => task[t].gate <= Len(gates)
  /\ \A t \in Tasks : At(t, "backoff") => task[t].attempt < MaxRetries

Shapes ==
  /\ now \in Nat /\ skew \in Int /\ sets \in 0..MaxSets
  /\ gates \in GateSequences /\ memory \in [DOMAIN gates -> Int]
  /\ opened \in [Tasks -> [DOMAIN gates -> Int]]
  /\ protocol \in {"http", "sftp"} /\ last \in Int
  /\ made \in 0..MaxRequests

\* Who sleeps in the rate limiter is who has its lock.
LockHeld ==
  /\ holder \in Tasks \cup {NoTask}
  /\ \A t \in Tasks : At(t, "paced") <=> holder = t

\* Only who asks the HTTP pool for a client waits for one, and only who got one goes on.
ClientsUsed ==
  /\ protocol = "sftp" => idle = <<>> /\ \A t \in Tasks : ~At(t, "waiting")
  /\ protocol = "http" => \A t \in Tasks : holds[t] = NoClient <=> task[t].at \in {"out", "waiting"}

PacedInv == Shapes /\ TaskShapes /\ LockHeld /\ PoolKept /\ ClientsUsed

\* Seen by the clock, no task's last pass of an interval gate is longer ago than the gate's memory
\* says, and who waits at one wakes when that pass is an interval ago.
IntervalKept ==
  /\ \A t \in Tasks, k \in DOMAIN gates :
       /\ opened[t][k] <= now
       /\ gates[k] = "interval" /\ opened[t][k] # Never => memory[k] >= opened[t][k] + skew
  /\ \A t \in Tasks : At(t, "gated") /\ Here(t) = "interval" =>
       \/ opened[t][task[t].gate] = Never
       \/ task[t].wake >= opened[t][task[t].gate] + Interval

\* The time at which a daily gate opens on a day.
Opening(day) == day * DayLength + TimeOfDay

\* Until the clock is set, the date in a daily gate's memory is of a day on which it was open at
\* some time that is over, and who waits at one wakes when it opens, if little late.
DaysKept ==
  sets = 0 =>
    /\ skew = 0
    /\ \A k \in DOMAIN gates : gates[k] # "interval" => Opening(memory[k]) <= now
    /\ \A t \in Tasks : At(t, "gated") /\ Here(t) # "interval" =>
         /\ Opening(Day(task[t].began)) <= task[t].wake
         /\ TimeIn(task[t].wake) = TimeOfDay
         /\ now <= task[t].wake + MaxLate

GatesInv == PacedInv /\ IntervalKept /\ DaysKept
=============================================================================
