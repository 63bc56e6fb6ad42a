------------------------------ MODULE SftpPool ------------------------------
(***************************************************************************)
(* The pool of SFTP connections (data_fetcher_sftp/sftp_pool.py) that the  *)
(* locator thread and the workers share.  A task that calls acquire runs   *)
(* without interruption until it has a connection, or suspends: while a    *)
(* connection is created (the retry engine sleeps between attempts) or     *)
(* while it waits for the idle queue.  Connections live on the server too: *)
(* one can break at any time, in the queue or in use.                      *)
(***************************************************************************)
EXTENDS Integers, FiniteSets, SequencesExt

CONSTANTS
  Tasks,        \* the tasks that borrow connections
  PoolMaxSize,  \* config.pool_max_size
  HasBaseDir,   \* config.base_dir is set
  MayClose,     \* close() is called while tasks still borrow
  MaxUses,      \* how often a task borrows: the work of one run is finite
  NumConns,     \* names for connections; a closed connection's name is used again
  NoConn

Conns == 1..NumConns

ASSUME PoolAssumption ==
  /\ IsFiniteSet(Tasks) /\ Tasks # {}
  /\ PoolMaxSize \in Nat \ {0} /\ MaxUses \in Nat /\ {HasBaseDir, MayClose} \subseteq BOOLEAN
  /\ NumConns \in Nat /\ NumConns >= PoolMaxSize - 1 + Cardinality(Tasks)
  /\ NoConn \notin Conns

VARIABLES
  idle,     \* _idle
  total,    \* _total
  at,       \* where each task stands
  holds,    \* the connection each task has leased
  uses,     \* how often each task has called acquire
  broken,   \* connections whose server side is gone
  leaked,   \* slots counted in _total that no connection will ever give back
  dropped   \* a connection was closed, or a slot leaked, since the start

vars == <<idle, total, at, holds, uses, broken, leaked, dropped>>

TaskStates == {"out", "creating", "recreating", "waiting", "leased"}

Init ==
  /\ idle = <<>>
  /\ total = 0
  /\ at = [t \in Tasks |-> "out"]
  /\ holds = [t \in Tasks |-> NoConn]
  /\ uses = [t \in Tasks |-> 0]
  /\ broken = {}
  /\ leaked = 0
  /\ dropped = FALSE

InUse == {holds[t] : t \in Tasks} \ {NoConn}
Fresh == Min(Conns \ (ToSet(idle) \cup InUse))
With(state) == {t \in Tasks : at[t] = state}

After_PeekOnly(k) == SubSeq(idle, k, Len(idle))
After(k) == SubSeq(idle, k + 1, Len(idle))

TotalLess_Kept(n) == total
TotalLess(n) == IF total > n THEN total - n ELSE 0

\* _ensure_baseline on connection c: the task has it, or, when chdir raises, closes it and
\* creates another for the same slot.
Baseline(t, c) ==
  \/ /\ at' = [at EXCEPT ![t] = "leased"]
     /\ holds' = [holds EXCEPT ![t] = c]
  \/ /\ HasBaseDir
     /\ at' = [at EXCEPT ![t] = "recreating"]
     /\ UNCHANGED holds

UnderLimit_OneLess(n) == n < PoolMaxSize - 1
UnderLimit_Inclusive(n) == n <= PoolMaxSize
UnderLimit(n) == n < PoolMaxSize

\* acquire up to where it suspends or returns: idle connections are tried in order and the
\* unhealthy ones closed; without a healthy one a connection is created or waited for.
Obtain(t) ==
  LET healthy == {k \in DOMAIN idle : idle[k] \notin broken}
      closed == IF healthy = {} THEN Len(idle) ELSE Min(healthy) - 1
  IN /\ total' = TotalLess(closed)
     /\ dropped' = (dropped \/ closed > 0)
     /\ broken' = broken \ {idle[k] : k \in 1..closed}
     /\ IF healthy # {}
        THEN /\ idle' = After(closed + 1)
             /\ Baseline(t, idle[closed + 1])
        ELSE /\ idle' = <<>>
             /\ at' = [at EXCEPT ![t] = IF UnderLimit(total') THEN "creating" ELSE "waiting"]
             /\ UNCHANGED holds
     /\ UNCHANGED leaked

Acquire(t) ==
  /\ at[t] = "out"
  /\ uses[t] < MaxUses
  /\ uses' = [uses EXCEPT ![t] = @ + 1]
  /\ Obtain(t)

\* _idle.get() returns, if no other task was faster.
Woken(t) ==
  /\ at[t] = "waiting"
  /\ idle # <<>>
  /\ UNCHANGED uses
  /\ Obtain(t)

\* The limit was checked before the connection was created, the total is raised after.
Created(t) ==
  /\ at[t] = "creating"
  /\ total' = total + 1
  /\ Baseline(t, Fresh)
  /\ UNCHANGED <<idle, uses, broken, leaked, dropped>>

CreationFails(t) ==
  /\ at[t] = "creating"
  /\ at' = [at EXCEPT ![t] = "out"]
  /\ UNCHANGED <<idle, total, holds, uses, broken, leaked, dropped>>

Recreated(t) ==
  /\ at[t] = "recreating"
  /\ at' = [at EXCEPT ![t] = "leased"]
  /\ holds' = [holds EXCEPT ![t] = Fresh]
  /\ UNCHANGED <<idle, total, uses, broken, leaked, dropped>>

\* No second connection, or base_dir is refused again: acquire raises and the slot of the
\* closed connection stays counted.
RecreationFails(t) ==
  /\ at[t] = "recreating"
  /\ at' = [at EXCEPT ![t] = "out"]
  /\ leaked' = leaked + 1
  /\ dropped' = TRUE
  /\ UNCHANGED <<idle, total, holds, uses, broken>>

GiveBack_Forgotten(t) ==
  /\ holds[t] \notin broken
  /\ UNCHANGED <<idle, total, broken, dropped>>

\* A healthy connection goes back to the queue; another one, or one that cannot be reset
\* to base_dir, is closed, and nobody who waits is told that there is room again.
GiveBack(t) ==
  /\ holds[t] \notin broken
  /\ idle' = Append(idle, holds[t])
  /\ UNCHANGED <<total, broken, dropped>>

CloseInstead(t) ==
  /\ holds[t] \in broken \/ HasBaseDir
  /\ total' = TotalLess(1)
  /\ broken' = broken \ {holds[t]}
  /\ dropped' = TRUE
  /\ UNCHANGED idle

Release(t) ==
  /\ at[t] = "leased"
  /\ GiveBack(t) \/ CloseInstead(t)
  /\ at' = [at EXCEPT ![t] = "out"]
  /\ holds' = [holds EXCEPT ![t] = NoConn]
  /\ UNCHANGED <<uses, leaked>>

\* close(): drains the queue, as far as the first connection whose close() raises (the retry
\* engine then calls it again).
Close ==
  /\ MayClose
  /\ \E n \in DOMAIN idle :
        /\ idle' = After(n)
        /\ total' = TotalLess(n)
        /\ broken' = broken \ {idle[k] : k \in 1..n}
  /\ dropped' = TRUE
  /\ UNCHANGED <<at, holds, uses, leaked>>

\* The server ends a connection.
Break(c) ==
  /\ c \in (ToSet(idle) \cup InUse) \ broken
  /\ broken' = broken \cup {c}
  /\ UNCHANGED <<idle, total, at, holds, uses, leaked, dropped>>

TaskStep(t) ==
  Acquire(t) \/ Woken(t) \/ Created(t) \/ CreationFails(t) \/ Recreated(t)
  \/ RecreationFails(t) \/ Release(t)

Next ==
  \/ \E t \in Tasks : TaskStep(t)
  \/ Close
  \/ \E c \in Conns : Break(c)

\* Every attempt to connect ends, callers release what they hold (`async with`), and a
\* waiter that finds the queue filled goes on.  Nobody has to call acquire.
Fairness ==
  \A t \in Tasks :
    /\ WF_vars(Woken(t))
    /\ WF_vars(Created(t) \/ CreationFails(t) \/ Recreated(t) \/ RecreationFails(t))
    /\ WF_vars(Release(t))

Spec == Init /\ [][Next]_vars /\ Fairness

-----------------------------------------------------------------------------
(* Properties *)

Open == ToSet(idle) \cup InUse

TypeOK ==
  /\ idle \in Seq(Conns) /\ IsInjective(idle)
  /\ total \in Nat /\ leaked \in Nat
  /\ at \in [Tasks -> TaskStates]
  /\ holds \in [Tasks -> Conns \cup {NoConn}]
  /\ \A t \in Tasks : holds[t] # NoConn <=> at[t] = "leased"
  /\ uses \in [Tasks -> 0..MaxUses]
  /\ broken \subseteq Open
  /\ dropped \in BOOLEAN

\* A connection is in the queue or with one task, never with two.
LeasesAreExclusive ==
  /\ ToSet(idle) \cap InUse = {}
  /\ \A t, u \in Tasks : holds[t] = holds[u] /\ holds[t] # NoConn => t = u

\* _total counts the open connections, the ones being replaced and the slots that acquire
\* leaked, whatever was created, dropped or closed meanwhile.
TotalIsExact == total = Cardinality(Open) + Cardinality(With("recreating")) + leaked

\* The limit is checked before the creation and counted after it, so it can be passed, but
\* only by the tasks that were creating at that moment.
OvershootBounded ==
  total + Cardinality(With("creating")) <= PoolMaxSize - 1 + Cardinality(Tasks)

\* Until a connection is dropped, whoever waits has somebody to wait for: the pool is full
\* of connections that are queued, in use, or being replaced.
NobodyWaitsForNothing ==
  With("waiting") # {} /\ ~dropped =>
    Cardinality(Open) + Cardinality(With("recreating")) >= PoolMaxSize

\* As long as no slot was lost none is counted in vain, and a task only began to wait when the
\* pool was full.
SlotsKept == ~dropped => leaked = 0 /\ (With("waiting") # {} => total >= PoolMaxSize)

\* What makes the above inductive: a name for a new connection is free because of the bound on
\* the total, and a task that waits has seen the total that NobodyWaitsForNothing speaks of.
IInv == TypeOK /\ LeasesAreExclusive /\ TotalIsExact /\ OvershootBounded /\ SlotsKept

\* And gets a connection, or is allowed to create one.
WaiterIsServed == \A t \in Tasks : at[t] = "waiting" ~> (at[t] # "waiting" \/ dropped)

\* What acquire says of itself: "create if under limit".
PoolBounded == Cardinality(Open) <= PoolMaxSize

\* "At capacity; block until one is released": who waits does not wait for ever.
WaitingEnds == \A t \in Tasks : at[t] = "waiting" ~> at[t] # "waiting"
=============================================================================
