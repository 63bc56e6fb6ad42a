------------------------------- MODULE HttpPool -------------------------------
(***************************************************************************)
(* The pool of HTTP clients (data_fetcher_http/http_pool.py).  Making a    *)
(* client does not suspend, so here, unlike in the SFTP pool, the limit is *)
(* checked and counted in one step.  Nobody but close() closes a client,   *)
(* and it takes it off the queue first: no closed client is ever queued or *)
(* leased.                                                                 *)
(***************************************************************************)
EXTENDS RetryEngine

CONSTANTS
  PoolMaxSize, \* config.pool_max_size
  MayClose,    \* close() is called while tasks use the pool
  NoClient

Clients == 1..PoolMaxSize + 1

ASSUME PoolAssumption == PoolMaxSize \in Nat \ {0} /\ MayClose \in BOOLEAN /\ NoClient \notin Clients

VARIABLES
  idle,    \* _idle
  total,   \* _total
  holds,   \* the client each task has leased
  closing  \* the client close() is closing; whether close() was called

poolVars == <<idle, total, holds, closing>>

PoolInit ==
  /\ idle = <<>> /\ total = 0
  /\ holds = [t \in Tasks |-> NoClient]
  /\ closing = [client |-> NoClient, called |-> FALSE]

Open == (ToSet(idle) \cup {holds[t] : t \in Tasks} \cup {closing.client}) \ {NoClient}

UnderLimit_Inclusive == total <= PoolMaxSize
UnderLimit == total < PoolMaxSize

\* With its client the task begins the request.
Leases(t, c) == holds' = [holds EXCEPT ![t] = c] /\ FirstAttempt(t)

TakeIdle(t) ==
  idle # <<>> /\ Leases(t, Head(idle)) /\ idle' = Tail(idle) /\ UNCHANGED total

Create(t) ==
  /\ idle = <<>> /\ UnderLimit
  /\ Leases(t, Min(Clients \ Open)) /\ total' = total + 1 /\ UNCHANGED idle

Wait(t) ==
  idle = <<>> /\ ~UnderLimit /\ GoesTo(t, "waiting") /\ UNCHANGED <<idle, total, holds>>

\* acquire, up to where it returns or waits.
Acquire(t) == At(t, "out") /\ (TakeIdle(t) \/ Create(t) \/ Wait(t)) /\ UNCHANGED closing

\* _idle.get() returns, if no other task was faster.
Woken(t) == At(t, "waiting") /\ TakeIdle(t) /\ UNCHANGED closing

Release(t) ==
  /\ At(t, "ended")
  /\ idle' = Append(idle, holds[t])
  /\ holds' = [holds EXCEPT ![t] = NoClient]
  /\ GoesTo(t, "out")
  /\ UNCHANGED <<total, closing>>

\* close takes the next idle client, closes it, and counts it off when it is closed or could
\* not be; nobody who waits is told that there is room.
Close ==
  /\ MayClose
  /\ \/ /\ closing.client = NoClient /\ idle # <<>>
        /\ closing' = [client |-> Head(idle), called |-> TRUE]
        /\ idle' = Tail(idle)
        /\ UNCHANGED total
     \/ /\ closing.client # NoClient
        /\ closing' = [closing EXCEPT !.client = NoClient]
        /\ total' = total - 1
        /\ UNCHANGED idle
  /\ UNCHANGED <<task, holds>>

\* Never more clients than the configuration allows, each counted, none with two tasks.
PoolTypeOK ==
  /\ total = Cardinality(Open) /\ total \in 0..PoolMaxSize
  /\ IsInjective(idle) /\ \A t \in Tasks : holds[t] \notin ToSet(idle)
  /\ \A t, u \in Tasks : t # u /\ holds[t] # NoClient => holds[t] # holds[u]

\* What makes it inductive: the client that is being closed is nobody's.
PoolKept ==
  /\ PoolTypeOK
  /\ idle \in Seq(Clients) /\ holds \in [Tasks -> Clients \cup {NoClient}]
  /\ closing \in [client : Clients \cup {NoClient}, called : BOOLEAN]
  /\ closing.client \notin ToSet(idle)
  /\ \A t \in Tasks : holds[t] # NoClient => holds[t] # closing.client
=============================================================================
