------------------------ MODULE SftpDirectoryLocator ------------------------
(***************************************************************************)
(* The directory locator (DirectorySftpBundleLocator in                    *)
(* data_fetcher_sftp/sftp_bundle_locators.py) over a store that outlives   *)
(* the process.  A file on the server is known when it is processed, in    *)
(* flight or queued.  The fetcher's locator thread asks for bundles (the   *)
(* call); workers load what was handed out and report it (the bundles'     *)
(* stages).  Every access to the store is a step of its own where the two  *)
(* sides share what it touches: the in-flight marks, the processed marks   *)
(* and the results.  The persistent queue is touched by the call alone, so *)
(* each of its operations is one step; what a process loss leaves of one   *)
(* is part of Crash.  Every access makes a new KVStoreQueue, whose first   *)
(* operation recovers the counters.                                        *)
(***************************************************************************)
EXTENDS Integers, FiniteSets, SequencesExt, QueueCounters

CONSTANTS
  Files,      \* files that match the pattern and pass the filter
  MaxBatch,   \* bundles asked for at once (max_files, when set, caps it likewise)
  ResultIds,  \* the values hash() may have in a result's key
  MaxRuns,    \* runs of the program, one after the other
  Workers,    \* bundles the fetcher handles at the same time
  MaxFaults   \* loads, and store operations of the handlers, that raise

ASSUME LocatorAssumption ==
  /\ IsFiniteSet(Files)
  /\ {MaxBatch, MaxRuns, Workers} \subseteq Nat \ {0} /\ MaxFaults \in Nat
  /\ ResultIds \subseteq Int

VARIABLES
  remote,               \* files now on the server
  items, next_id, size, \* the persistent queue: id -> bundle, and its counters
  in_flight, processed, \* the files with such a mark
  results,              \* the numbers that end the keys of saved results
  bundles,              \* every bundle minted so far: its file and its stage
  call,                 \* get_next_bundle_refs: where it stands, and its locals
  retired,              \* the fetcher has got an empty answer in this run
  runs, faults

queueVars == <<items, next_id, size>>
marks == <<in_flight, processed>>
vars == <<remote, queueVars, marks, results, bundles, call, retired, runs, faults>>

\* limit: bundle_refs_needed.  todo: the listed files still to check.  found: the bundles
\* minted for unknown files.  answer: the bundles taken from the queue.
Idle == [at |-> "idle", limit |-> 0, todo |-> <<>>, found |-> <<>>, answer |-> <<>>]

\* found: minted, not stored yet.  dropped: minted, never stored.  taken: dequeued, not
\* handed out yet.  removed: the handler has removed the in-flight mark and not written the
\* processed mark; unmarked: it never will.
InHand == {"loading", "removed", "marked"}
InProgress == InHand \cup {"handed"}
Stages == InProgress \cup {"found", "dropped", "queued", "taken", "unmarked", "done", "failed",
                           "lost"}

Init ==
  /\ remote \in SUBSET Files
  /\ items = <<>> /\ next_id = 0 /\ size = 0
  /\ in_flight = {} /\ processed = {} /\ results = {}
  /\ bundles = <<>>
  /\ call = Idle
  /\ retired = FALSE
  /\ runs = 1 /\ faults = 0

FileOf(b) == bundles[b].file
With(set, stage) ==
  [b \in DOMAIN bundles |-> IF b \in set THEN [bundles[b] EXCEPT !.stage = stage] ELSE bundles[b]]

-----------------------------------------------------------------------------
(* The queue, as the call uses it *)

\* What recovery makes of the counters.  Its scan has no end key, and the results' keys sort
\* after the items' keys.
Recovered ==
  LET ids == DOMAIN items \cup results
  IN IF Consistent(ids, next_id, size) THEN [next_id |-> next_id, size |-> size]
     ELSE [next_id |-> NextIdAfter(ids), size |-> Cardinality(ids)]

HeadId == next_id - size
HasHead == size # 0 /\ HeadId \in DOMAIN items

Put(batch, first) ==
  LET new == first..(first + Len(batch) - 1)
  IN [k \in new \cup DOMAIN items |-> IF k \in new THEN batch[k - first + 1] ELSE items[k]]
Without(id) == [k \in DOMAIN items \ {id} |-> items[k]]

-----------------------------------------------------------------------------
(* get_next_bundle_refs *)

\* A new queue object: its size() recovers the counters.  An empty queue starts a listing.
Begin(n) ==
  /\ call.at = "idle"
  /\ ~retired
  /\ next_id' = Recovered.next_id /\ size' = Recovered.size
  /\ call' = [Idle EXCEPT !.limit = n, !.at = IF size' = 0 THEN "listing" ELSE "peeking"]
  /\ UNCHANGED <<remote, items, marks, results, bundles, retired, runs, faults>>

\* The listing, in one order (file_sort's, or the server's).  Before it, every in-flight bundle
\* is to be re-queued, but none can be rebuilt (its request_meta, a read-only mapping, was
\* stored as a string), nor can anything else the scan without an end key returns: the errors
\* are logged and the marks stay.
List ==
  /\ call.at = "listing"
  /\ call' = [call EXCEPT !.todo = SetToSeq(remote),
                          !.at = IF remote = {} THEN "enqueuing" ELSE "check_processed"]
  /\ UNCHANGED <<remote, queueVars, marks, results, bundles, retired, runs, faults>>

\* The call with the file at hand behind it.
NextFile(found) ==
  [call EXCEPT !.todo = Tail(@), !.found = found,
               !.at = IF Len(call.todo) = 1 THEN "enqueuing" ELSE "check_processed"]

CheckProcessed ==
  /\ call.at = "check_processed"
  /\ call' = IF Head(call.todo) \in processed THEN NextFile(call.found)
             ELSE [call EXCEPT !.at = "check_in_flight"]
  /\ UNCHANGED <<remote, queueVars, marks, results, bundles, retired, runs, faults>>

KnownInFlight_NotLooked(f) == FALSE
KnownInFlight(f) == f \in in_flight

CheckInFlight ==
  /\ call.at = "check_in_flight"
  /\ call' = IF KnownInFlight(Head(call.todo)) THEN NextFile(call.found)
             ELSE [call EXCEPT !.at = "check_queue"]
  /\ UNCHANGED <<remote, queueVars, marks, results, bundles, retired, runs, faults>>

\* Another new queue object; all of its window is peeked at.  For an unknown file a bundle
\* is minted.
CheckQueue ==
  /\ call.at = "check_queue"
  /\ next_id' = Recovered.next_id /\ size' = Recovered.size
  /\ LET f == Head(call.todo)
         window == (next_id' - size')..(next_id' - 1)
     IN IF \E k \in window \cap DOMAIN items : FileOf(items[k]) = f
        THEN call' = NextFile(call.found) /\ UNCHANGED bundles
        ELSE /\ bundles' = Append(bundles, [file |-> f, stage |-> "found"])
             /\ call' = NextFile(Append(call.found, Len(bundles) + 1))
  /\ UNCHANGED <<remote, items, marks, results, retired, runs, faults>>

EnqueueFound ==
  /\ call.at = "enqueuing"
  /\ IF call.found = <<>> THEN UNCHANGED <<queueVars, bundles>>
     ELSE /\ items' = Put(call.found, Recovered.next_id)
          /\ next_id' = Recovered.next_id + Len(call.found)
          /\ size' = Recovered.size + Len(call.found)
          /\ bundles' = With(ToSet(call.found), "queued")
  /\ call' = [call EXCEPT !.at = "peeking", !.found = <<>>]
  /\ UNCHANGED <<remote, marks, results, retired, runs, faults>>

StillNeeded_OneMore == Len(call.answer) <= call.limit
StillNeeded == Len(call.answer) < call.limit

MarkedInFlight_Not(f) == in_flight
MarkedInFlight(f) == in_flight \cup {f}

\* The bundle at the head, peeked at, is marked first: it is in flight from here on,
\* dequeued or not.
MarkInFlight ==
  /\ call.at = "peeking"
  /\ StillNeeded
  /\ HasHead
  /\ in_flight' = MarkedInFlight(FileOf(items[HeadId]))
  /\ call' = [call EXCEPT !.at = "dequeuing"]
  /\ UNCHANGED <<remote, queueVars, processed, results, bundles, retired, runs, faults>>

Dequeue ==
  /\ call.at = "dequeuing"
  /\ items' = Without(HeadId)
  /\ size' = size - 1
  /\ bundles' = With({items[HeadId]}, "taken")
  /\ call' = [call EXCEPT !.at = "peeking", !.answer = Append(@, items[HeadId])]
  /\ UNCHANGED <<remote, next_id, marks, results, retired, runs, faults>>

\* Enough, or nothing at the head of the window.  The fetcher does not ask again after an
\* empty answer.
Return ==
  /\ call.at = "peeking"
  /\ ~(StillNeeded /\ HasHead)
  /\ bundles' = With(ToSet(call.answer), "handed")
  /\ retired' = (call.answer = <<>>)
  /\ call' = Idle
  /\ UNCHANGED <<remote, queueVars, marks, results, runs, faults>>

CallStep ==
  \/ \E n \in 1..MaxBatch : Begin(n)
  \/ List \/ CheckProcessed \/ CheckInFlight \/ CheckQueue \/ EnqueueFound
  \/ MarkInFlight \/ Dequeue \/ Return

-----------------------------------------------------------------------------
(* The bundle in a worker's hands: the loader, then handle_bundle_processed *)

\* Workers take the bundles in the order they were handed over in.
StartLoad(b) ==
  /\ bundles[b].stage = "handed"
  /\ \A c \in 1..(b - 1) : bundles[c].stage # "handed"
  /\ Cardinality({c \in DOMAIN bundles : bundles[c].stage \in InHand}) < Workers
  /\ bundles' = With({b}, "loading")
  /\ UNCHANGED <<remote, queueVars, marks, results, call, retired, runs, faults>>

\* The load has succeeded.
RemoveInFlight(b) ==
  /\ bundles[b].stage = "loading"
  /\ in_flight' = in_flight \ {FileOf(b)}
  /\ bundles' = With({b}, "removed")
  /\ UNCHANGED <<remote, queueVars, processed, results, call, retired, runs, faults>>

MarkedProcessed_Not(f) == processed
MarkedProcessed(f) == processed \cup {f}

MarkProcessed(b) ==
  /\ bundles[b].stage = "removed"
  /\ processed' = MarkedProcessed(FileOf(b))
  /\ bundles' = With({b}, "marked")
  /\ UNCHANGED <<remote, queueVars, in_flight, results, call, retired, runs, faults>>

SaveResult(b) ==
  /\ bundles[b].stage = "marked"
  /\ \E h \in ResultIds : results' = results \cup {h}
  /\ bundles' = With({b}, "done")
  /\ UNCHANGED <<remote, queueVars, marks, call, retired, runs, faults>>

\* What is left of a bundle when its worker goes no further.
Stopped(stage, otherwise) ==
  CASE stage = "removed" -> "unmarked"
    [] stage = "marked" -> "done"
    [] OTHER -> otherwise

\* The loader or the store raises: the fetcher records an error and tells the locator nothing.
HandlingFails(b) ==
  /\ faults < MaxFaults
  /\ faults' = faults + 1
  /\ bundles[b].stage \in InHand
  /\ bundles' = With({b}, Stopped(bundles[b].stage, "failed"))
  /\ UNCHANGED <<remote, queueVars, marks, results, call, retired, runs>>

BundleStep(b) ==
  StartLoad(b) \/ RemoveInFlight(b) \/ MarkProcessed(b) \/ SaveResult(b) \/ HandlingFails(b)

-----------------------------------------------------------------------------
\* The bound: a file that arrives in the last run may come too late for it.
FileArrives ==
  /\ runs < MaxRuns
  /\ \E f \in Files \ remote : remote' = remote \cup {f}
  /\ UNCHANGED <<queueVars, marks, results, bundles, call, retired, runs, faults>>

\* Another process starts over the same store.
NewRun ==
  /\ runs < MaxRuns
  /\ runs' = runs + 1
  /\ call' = Idle
  /\ retired' = FALSE
  /\ UNCHANGED <<remote, marks, results, faults>>

\* The run has ended: nothing more to locate, and every worker is done.
EndRun ==
  /\ retired
  /\ \A b \in DOMAIN bundles : bundles[b].stage \notin InProgress
  /\ NewRun
  /\ UNCHANGED <<queueVars, bundles>>

\* What the loss of the process leaves of a bundle: stored are the found ones that have come
\* into the queue, deleted what has gone from it.
LeftOf(b, stored, deleted) ==
  CASE bundles[b].stage = "found" -> IF b \in stored THEN "queued" ELSE "dropped"
    [] bundles[b].stage = "taken" \/ b \in deleted -> "lost"
    [] bundles[b].stage \in InProgress -> Stopped(bundles[b].stage, "lost")
    [] OTHER -> bundles[b].stage

\* The process is lost, or a listing or the store raises in the call, which aborts the run.
\* Of an enqueue a first part may be stored, of a dequeue the deletion may be done; recovery
\* mends the counters from the items, however many of the counters were written.
Crash ==
  /\ NewRun
  /\ \E stored \in 0..Len(call.found), deleted \in BOOLEAN :
        LET kept == IF call.at = "enqueuing" THEN SubSeq(call.found, 1, stored) ELSE <<>>
            gone == IF call.at = "dequeuing" /\ deleted THEN {HeadId} ELSE {}
        IN /\ items' = [k \in DOMAIN Put(kept, Recovered.next_id) \ gone |->
                          Put(kept, Recovered.next_id)[k]]
           /\ bundles' = [b \in DOMAIN bundles |->
                [bundles[b] EXCEPT !.stage = LeftOf(b, ToSet(kept), {items[k] : k \in gone})]]
  /\ UNCHANGED <<next_id, size>>

Next ==
  \/ CallStep
  \/ \E b \in DOMAIN bundles : BundleStep(b)
  \/ FileArrives
  \/ EndRun
  \/ Crash

\* Store, server and loader answer in the end; the fetcher asks until the answer is empty,
\* and the program is run again.
Fairness ==
  /\ WF_vars(CallStep)
  /\ WF_vars(\E b \in DOMAIN bundles : BundleStep(b))
  /\ WF_vars(EndRun)

Spec == Init /\ [][Next]_vars /\ Fairness

-----------------------------------------------------------------------------
(* Properties *)

\* Every variable has its type; an answer never holds more bundles than were asked for, which
\* the fetcher would refuse with a ConfigurationError.
TypeOK ==
  /\ remote \subseteq Files /\ in_flight \subseteq Files /\ processed \subseteq Files
  /\ DOMAIN items \subseteq Int /\ \A k \in DOMAIN items : items[k] \in DOMAIN bundles
  /\ next_id \in Int /\ size \in Nat
  /\ results \subseteq ResultIds
  /\ bundles \in Seq([file : Files, stage : Stages])
  /\ call.at \in {"idle", "listing", "check_processed", "check_in_flight", "check_queue",
                  "enqueuing", "peeking", "dequeuing"}
  /\ call.limit \in 0..MaxBatch /\ Len(call.answer) <= call.limit
  /\ retired \in BOOLEAN /\ runs \in 1..MaxRuns

Live(b) == bundles[b].stage \in {"found", "queued", "taken", "handed", "loading"}

\* No two bundles of one file are on their way at the same time, in the queue or in a
\* worker's hands, across restarts: what "known" means is read piece by piece, while the
\* workers change the pieces.
OneLiveBundle ==
  \A b, c \in DOMAIN bundles : Live(b) /\ Live(c) /\ FileOf(b) = FileOf(c) => b = c

\* A file whose bundle was stored is not forgotten, wherever the process is lost: it is
\* queued, in flight or processed, except between the two writes of its handler.
NeverForgotten ==
  \A b \in DOMAIN bundles :
    \/ bundles[b].stage \in {"found", "dropped", "removed", "unmarked"}
    \/ b \in {items[k] : k \in DOMAIN items}
    \/ FileOf(b) \in in_flight \cup processed

TakenOut(f) ==
  \E b \in DOMAIN bundles :
    FileOf(b) = f /\ bundles[b].stage \notin {"found", "dropped", "queued"}

\* A file on the server gets its bundle taken out of the queue in some run, as long as no
\* result has been saved.
Served == \A f \in Files : f \in remote ~> (TakenOut(f) \/ results # {})

\* "List of dequeued items. May be empty if queue is empty.": the locator has no more
\* bundles to give only when none is stored.  A saved result breaks it.
EmptyAnswerMeansEmptyQueue == retired => items = <<>>

\* "Re-queue any in-flight bundles (assume they failed)": a file whose bundle was lost with
\* the process is taken out of the queue again in a later run.
LostIsTakenAgain ==
  \A b \in 1..(Cardinality(Files) * MaxRuns) :
    (b \in DOMAIN bundles /\ bundles[b].stage = "lost") ~>
      ((\E c \in DOMAIN bundles : c > b /\ FileOf(c) = FileOf(b)) \/ results # {})

-----------------------------------------------------------------------------
(* The inductive invariant *)

\* A listing begins only when nothing is stored, and nothing is until it ends.
Listing == {"listing", "check_processed", "check_in_flight", "check_queue", "enqueuing"}
Checking == {"check_processed", "check_in_flight", "check_queue"}

\* In these stages a bundle's file has its in-flight mark.
Held == {"taken", "handed", "loading", "failed", "lost"}
InStage(set) == {b \in DOMAIN bundles : bundles[b].stage \in set}

Finite == IsFiniteSet(remote) /\ IsFiniteSet(DOMAIN items) /\ IsFiniteSet(results)

\* The locals of the call.
Locals ==
  /\ call = [at |-> call.at, limit |-> call.limit, todo |-> call.todo, found |-> call.found,
             answer |-> call.answer]
  /\ call.todo \in Seq(Files) /\ IsInjective(call.todo)
  /\ call.found \in Seq(DOMAIN bundles) /\ IsInjective(call.found)
  /\ call.answer \in Seq(DOMAIN bundles)
  /\ call.at \in Checking => call.todo # <<>>
  /\ call.at \notin Checking => call.todo = <<>>
  /\ call.at \notin Checking \cup {"enqueuing"} => call.found = <<>>
  /\ retired => call.at = "idle"

\* The queue holds each queued bundle once; what was found, or taken, the call has in its locals.
\* A file that has a bundle is not looked at again in the same listing.
Stored ==
  /\ {items[k] : k \in DOMAIN items} = InStage({"queued"}) /\ IsInjective(items)
  /\ ToSet(call.found) = InStage({"found"})
  /\ ToSet(call.answer) \subseteq InStage({"taken"})
  /\ call.at \in Listing => DOMAIN items = {}
  /\ \A b \in ToSet(call.found) : FileOf(b) \notin ToSet(call.todo)

\* A file has one bundle at a time that is stored, marked as in flight, or about to be stored.
OneOpen ==
  /\ \A b, c \in InStage({"found", "queued"} \cup Held) : FileOf(b) = FileOf(c) => b = c
  /\ call.at = "check_queue" =>
       \A b \in InStage({"found", "queued"} \cup Held) : FileOf(b) # Head(call.todo)

Marked ==
  /\ \A b \in InStage(Held) : FileOf(b) \in in_flight
  /\ \A b \in InStage({"marked", "done"}) : FileOf(b) \in processed
  /\ call.at = "dequeuing" =>
       HasHead /\ StillNeeded /\ FileOf(items[HeadId]) \in in_flight

IInv == TypeOK /\ Finite /\ Locals /\ Stored /\ OneOpen /\ Marked
=============================================================================
