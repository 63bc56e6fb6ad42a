------------------------------ MODULE TeeStream ------------------------------
(***************************************************************************)
(* TeeStream (storage/streaming/tee_stream.py): one stream read by two     *)
(* consumers at their own pace.  A feeding task reads the input and puts   *)
(* each chunk into both consumers' bounded queues.  Chunks are counted:    *)
(* a stream is the chunks it still holds and whether its end follows them. *)
(***************************************************************************)
EXTENDS Integers, FiniteSets

CONSTANTS
  Chunks,   \* chunks of the response body
  Capacity, \* max_queue_size of a consumer's queue
  Passes    \* resources one add_resource can make of a body: the body, its members or fallbacks

ASSUME TeeAssumption == Chunks \in Nat /\ {Capacity, Passes} \subseteq Nat \ {0}

Source == <<-1, 0>>    \* the response body, or the remote file
File(p) == <<-2, p>>   \* what a decorator reads from its temporary file
Tees == 0..Passes      \* tee 0 is the unzip decorator's, tee p the tar/gz decorator's
Consumer(t, i) == <<t, i>>
Consumers(t) == {Consumer(t, 0), Consumer(t, 1)}
Inputs == {Source} \cup {File(p) : p \in 1..Passes}
Streams == Inputs \cup UNION {Consumers(t) : t \in Tees}

VARIABLES
  stream,  \* each stream's chunks, and whether the end mark is behind them
  feeder,  \* the feeding task of each tee
  cut,     \* history: a tee ended its consumers' streams before the input's end
  dropped  \* history: the consumers whose end mark found the queue full

teeVars == <<stream, feeder, cut, dropped>>

NoFeeder == [at |-> "off", input |-> Source]

\* Before anyone reads: a decorator's file is one chunk, a consumer's queue is empty.
FreshStream(s) ==
  IF s \in Inputs THEN [n |-> IF s = Source THEN Chunks ELSE 1, mark |-> TRUE]
  ELSE [n |-> 0, mark |-> FALSE]

TeeInit ==
  /\ stream = [s \in Streams |-> FreshStream(s)]
  /\ feeder = [t \in Tees |-> NoFeeder]
  /\ cut = FALSE /\ dropped = {}

Ready(s) == stream[s].n > 0
Ended(s) == stream[s].n = 0 /\ stream[s].mark
\* The next read of an input raises.
Broken(s) == s \in Inputs /\ stream[s].n = 0 /\ ~stream[s].mark

Full_OffByOne(s) == stream[s].n + (IF stream[s].mark THEN 1 ELSE 0) > Capacity
Full(s) == stream[s].n + (IF stream[s].mark THEN 1 ELSE 0) >= Capacity

Take(s) == Ready(s) /\ stream' = [stream EXCEPT ![s].n = @ - 1]

-----------------------------------------------------------------------------
(* The feeding task *)

\* get_stream: the first consumer's queue starts the task.
Fed(f, t, input) == [f EXCEPT ![t] = [at |-> "read", input |-> input]]
Feeding(t, at) == feeder' = [feeder EXCEPT ![t].at = at]
Target(t) == Consumer(t, IF feeder[t].at = "first" THEN 0 ELSE 1)

FeedRead(t) ==
  /\ feeder[t].at = "read"
  /\ Take(feeder[t].input)
  /\ Feeding(t, "first")
  /\ UNCHANGED <<cut, dropped>>

\* A full queue is tried again after a while; the other consumer waits meanwhile.
Offered_Skipping(t) ==
  stream' = [stream EXCEPT ![Target(t)].n = IF Full(Target(t)) THEN @ ELSE @ + 1]
Offered(t) == ~Full(Target(t)) /\ stream' = [stream EXCEPT ![Target(t)].n = @ + 1]

FeedPut(t) ==
  /\ feeder[t].at \in {"first", "second"}
  /\ Offered(t)
  /\ Feeding(t, IF feeder[t].at = "first" THEN "second" ELSE "read")
  /\ UNCHANGED <<cut, dropped>>

\* However the task ends, the consumers get their end mark, those whose queue has room.
Marked_FirstOnly(t) == {Consumer(t, 0)} \ {s \in Consumers(t) : Full(s)}
Marked(t) == {s \in Consumers(t) : ~Full(s)}

FeedStops(t) ==
  /\ stream' = [s \in Streams |-> IF s \in Marked(t) THEN [stream[s] EXCEPT !.mark = TRUE] ELSE stream[s]]
  /\ dropped' = dropped \cup {s \in Consumers(t) : Full(s)}
  /\ Feeding(t, "done")

FeedEnd(t) ==
  feeder[t].at = "read" /\ Ended(feeder[t].input) /\ FeedStops(t) /\ UNCHANGED cut

\* The queue was still full at the tenth attempt.
FeedGiveUp(t) ==
  /\ feeder[t].at \in {"first", "second"}
  /\ Full(Target(t))
  /\ FeedStops(t)
  /\ cut' = TRUE

\* The input raises: nobody awaits the task, and the consumers see an ordinary end.
FeedBreaks(t) ==
  feeder[t].at = "read" /\ Broken(feeder[t].input) /\ FeedStops(t) /\ cut' = TRUE

FeedStep(t) == FeedRead(t) \/ FeedPut(t) \/ FeedEnd(t) \/ FeedGiveUp(t) \/ FeedBreaks(t)

-----------------------------------------------------------------------------
TeeTypeOK ==
  /\ \A t \in Tees : \A s \in Consumers(t) : stream[s].n \in 0..Capacity
  /\ \A s \in Inputs : stream[s].n \in 0..Chunks + 1
  /\ \A t \in Tees : feeder[t].at \in {"off", "read", "first", "second", "done"}
  /\ cut \in BOOLEAN /\ dropped \subseteq Streams
=============================================================================
