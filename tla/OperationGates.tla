---------------------------- MODULE OperationGates ----------------------------
(***************************************************************************)
(* The gates before an SFTP operation (data_fetcher_sftp/sftp_gating.py):  *)
(* one that opens at a time of day, one that opens once in an interval,    *)
(* and a composite that passes its gates in their order.  All tasks of a   *)
(* pool share the gates; a gate reads its memory before it sleeps and      *)
(* writes it after, so tasks can wait at one at the same time.             *)
(***************************************************************************)
EXTENDS RetryEngine

CONSTANTS
  GateSequences,  \* sequences of "interval", "daily", "daily_always"
  Interval, GateJitter,
  DayLength, TimeOfDay,
  MonthLength     \* days; the day after a month's last has no date

ASSUME GateAssumption ==
  /\ GateSequences \subseteq Seq({"interval", "daily", "daily_always"})
  /\ {Interval, GateJitter} \subseteq Nat
  /\ {DayLength, MonthLength} \subseteq Nat \ {0} /\ TimeOfDay \in 0..DayLength - 1

VARIABLES
  gates,    \* gating_strategy: the gates in their order
  memory,   \* each gate's _last_execution_time or _last_execution_date
  opened    \* history: when each task last passed each gate

gateVars == <<gates, memory, opened>>

Never == -1
Day(time) == time \div DayLength
TimeIn(time) == time % DayLength

GateInit ==
  /\ gates \in GateSequences
  /\ memory = [k \in DOMAIN gates |-> IF gates[k] = "interval" THEN 0 ELSE Never]
  /\ opened = [t \in Tasks |-> [k \in DOMAIN gates |-> Never]]

Here(t) == gates[task[t].gate]
Passing(t) == opened' = [opened EXCEPT ![t][task[t].gate] = now]

-----------------------------------------------------------------------------
(* wait_if_needed, up to the sleep *)

\* How long a task that calls now has to wait; 0 for not at all.
IntervalWaits(last) ==
  IF Clock - last < Interval THEN {Interval - (Clock - last) + j : j \in 0..GateJitter} ELSE {0}

\* "Already executed today", when the date in the gate's memory is today's.
Skips_Ever(last) == last # Never
Skips(last) == last = Day(Clock)

\* The next time the clock shows TimeOfDay, today or tomorrow.
DailyWait == 1 + ((TimeOfDay - TimeIn(Clock) - 1) % DayLength)
EndOfMonth == TimeOfDay <= TimeIn(Clock) /\ (Day(Clock) + 1) % MonthLength = 0

WaitsFor(t, ticks) ==
  /\ task' = [task EXCEPT ![t] = [@ EXCEPT !.at = "gated", !.began = Clock, !.wake = now + ticks]]
  /\ UNCHANGED <<memory, opened>>

\* The gate is passed and remembers it.
Passes(t, stamp) ==
  /\ memory' = [memory EXCEPT ![task[t].gate] = stamp]
  /\ task' = [task EXCEPT ![t] =
       [@ EXCEPT !.at = "gate", !.gate = task[t].gate + 1, !.began = 0, !.wake = 0]]
  /\ Passing(t)

CallIntervalGate(t) ==
  /\ Here(t) = "interval"
  /\ \E ticks \in IntervalWaits(memory[task[t].gate]) :
       IF ticks = 0 THEN Passes(t, Clock) ELSE WaitsFor(t, ticks)

CallDailyGate(t) ==
  LET last == memory[task[t].gate]
      skips == Here(t) = "daily" /\ Skips(last)
  IN /\ Here(t) # "interval"
     /\ \/ skips /\ Passes(t, last)
        \/ ~skips /\ ~EndOfMonth /\ WaitsFor(t, DailyWait)
        \/ ~skips /\ EndOfMonth /\ AttemptFails(t) /\ UNCHANGED <<memory, opened>>

CallGate(t) ==
  /\ At(t, "gate") /\ task[t].gate <= Len(gates)
  /\ CallIntervalGate(t) \/ CallDailyGate(t)
  /\ UNCHANGED gates

-----------------------------------------------------------------------------
(* wait_if_needed, after the sleep *)

\* The interval gate remembers the time after the sleep, the daily gate the date before it.
Stamp_Before(t) == IF Here(t) = "interval" THEN task[t].began ELSE Day(task[t].began)
Stamp(t) == IF Here(t) = "interval" THEN Clock ELSE Day(task[t].began)

LeaveGate(t) ==
  /\ At(t, "gated") /\ Awake(t)
  /\ Passes(t, Stamp(t))
  /\ UNCHANGED gates

-----------------------------------------------------------------------------
GateTypeOK ==
  /\ gates \in GateSequences
  /\ DOMAIN memory = DOMAIN gates /\ \A k \in DOMAIN gates : memory[k] \in Int
  /\ \A t \in Tasks : task[t].gate \in 1..Len(gates) + 1

\* A task passes an interval gate at most once in the interval, whoever else waits at it, unless
\* the clock was set forward since; and it passes a daily gate at the time of day or later on
\* that day, unless the clock was set.
GatesHold ==
  [][\A t \in Tasks : task'[t].gate > task[t].gate =>
       IF Here(t) = "interval"
       THEN opened[t][task[t].gate] = Never \/ now - opened[t][task[t].gate] >= Interval
       ELSE TimeIn(Clock) >= TimeOfDay \/ sets > 0]_<<timeVars, task, gateVars>>
=============================================================================
