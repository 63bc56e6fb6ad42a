----------------------------- MODULE RetryEngine -----------------------------
(***************************************************************************)
(* Tasks in time, and the retry engine (data_fetcher_core/retry.py) around *)
(* each of their operations: an attempt that raises is followed by a sleep *)
(* and another attempt, until the last one's exception goes to the caller. *)
(***************************************************************************)
EXTENDS Integers, FiniteSets, SequencesExt

CONSTANTS
  Tasks,
  MaxRetries, BaseDelay, MaxDelay, ExponentialBase,  \* RetryConfig
  Jitter,      \* factors of a delay, in percent
  Starts,      \* times at which the program may begin
  ClockSteps,  \* by how much the wall clock can be set
  MaxSets,     \* how often it is set
  MaxLate      \* by how much a sleep is longer than asked for

ASSUME RetryAssumption ==
  /\ IsFiniteSet(Tasks) /\ Tasks # {}
  /\ MaxRetries \in Nat /\ {BaseDelay, MaxDelay} \subseteq Nat \ {0}
  /\ ExponentialBase \in Nat \ {0, 1}
  /\ Jitter \subseteq Nat \ {0} /\ Jitter # {}
  /\ Starts \subseteq Nat /\ Starts # {} /\ ClockSteps \subseteq Int
  /\ {MaxSets, MaxLate} \subseteq Nat

\* True of all numbers; it is here because the prover knows nothing of powers.
ASSUME PowersAssumption == \A n \in 0..MaxRetries : ExponentialBase ^ n \in Nat

VARIABLES
  now,   \* time, as sleeping tasks measure it
  skew,  \* what time.time() adds to it
  task,  \* each task: where it stands, the attempt, the gate it is at, when it called that gate,
         \* when its sleep is over
  sets   \* how often the wall clock has been set

timeVars == <<now, skew, sets>>

Clock == now + skew

Resting(at) == [at |-> at, attempt |-> 0, gate |-> 1, began |-> 0, wake |-> 0]

TaskInit ==
  /\ now \in Starts /\ skew = 0
  /\ task = [t \in Tasks |-> Resting("out")]
  /\ sets = 0

At(t, at) == task[t].at = at
GoesTo(t, at) == task' = [task EXCEPT ![t] = Resting(at)]
Keeping(t, at, wake) ==
  task' = [task EXCEPT ![t] = [Resting(at) EXCEPT !.attempt = task[t].attempt, !.wake = wake]]
Sleeps(t, at, ticks) == Keeping(t, at, now + ticks)
Awake(t) == now >= task[t].wake

Sleeping == {"gated", "paced", "backoff"}

\* Time goes on while somebody sleeps, also past the end of another's sleep.
Tick ==
  /\ \A t \in Tasks : task[t].at \in Sleeping => now < task[t].wake + MaxLate
  /\ \E t \in Tasks : task[t].at \in Sleeping /\ ~Awake(t)
  /\ now' = now + 1
  /\ UNCHANGED <<skew, sets, task>>

-----------------------------------------------------------------------------
(* execute_with_retry_async *)

Backoff(attempt) == Min({BaseDelay * ExponentialBase ^ attempt, MaxDelay})
Delays(attempt) == {(Backoff(attempt) * factor) \div 100 : factor \in Jitter}

\* The operation, from its first step on: for the pools, the first gate.
Attempts(t, attempt) ==
  task' = [task EXCEPT ![t] = [Resting("gate") EXCEPT !.attempt = attempt]]

FirstAttempt(t) == Attempts(t, 0)

AttemptFails(t) ==
  IF task[t].attempt < MaxRetries
  THEN \E delay \in Delays(task[t].attempt) : Sleeps(t, "backoff", delay)
  ELSE GoesTo(t, "ended")

NextAttempt(t) == At(t, "backoff") /\ Awake(t) /\ Attempts(t, task[t].attempt + 1)

RetryTypeOK ==
  /\ now \in Nat /\ skew \in Int
  /\ \A t \in Tasks : task[t].attempt \in 0..MaxRetries /\ task[t].wake \in Nat
  /\ sets \in 0..MaxSets
=============================================================================
