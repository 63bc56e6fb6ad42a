---------------------- MODULE SftpDirectoryLocatorProofs ----------------------
(***************************************************************************)
(* The safety of the directory locator, for every set of files, every      *)
(* batch size, any number of runs, workers and faults, and every number a  *)
(* result's key may end with: no file has two bundles on their way, and no *)
(* file whose bundle was stored is forgotten.  IInv (in                    *)
(* SftpDirectoryLocator) is inductive.                                     *)
(***************************************************************************)
EXTENDS SftpDirectoryLocator, SequenceSets

Bundle == [file : Files, stage : Stages]

-----------------------------------------------------------------------------
(* The operators *)

LEMMA Recovery ==
  ASSUME TypeOK, Finite
  PROVE  /\ Recovered.next_id \in Int /\ Recovered.size \in Nat
         /\ Recovered.size = 0 => DOMAIN items = {}
<1> DEFINE ids == DOMAIN items \cup results
<1>1. ids \in SUBSET Int /\ IsFiniteSet(ids)
  BY LocatorAssumption, FS_Union DEF TypeOK, Finite
<1>2. Cardinality(ids) \in Nat /\ (Cardinality(ids) = 0 <=> ids = {})
  BY <1>1, FS_CardinalityType, FS_EmptySet
<1>3. NextIdAfter(ids) \in Int
  <2>1. CASE ids = {}
    BY <2>1 DEF NextIdAfter
  <2>2. CASE ids # {}
    <3>1. Max(ids) \in Int
      BY <1>1, <2>2, GreatestInteger
    <3> QED BY <2>2, <3>1 DEF NextIdAfter
  <2> QED BY <2>1, <2>2
<1>4. Recovered = IF Consistent(ids, next_id, size) THEN [next_id |-> next_id, size |-> size]
                  ELSE [next_id |-> NextIdAfter(ids), size |-> Cardinality(ids)]
  BY DEF Recovered
<1>5. Consistent(ids, next_id, size) => ids = {} \/ Cardinality(ids) = size
  BY DEF Consistent
<1>6. next_id \in Int /\ size \in Nat /\ DOMAIN items \subseteq ids
  BY DEF TypeOK
<1> HIDE DEF ids
<1>7. CASE Consistent(ids, next_id, size)
  BY <1>2, <1>4, <1>5, <1>6, <1>7
<1>8. CASE ~ Consistent(ids, next_id, size)
  BY <1>2, <1>3, <1>4, <1>6, <1>8
<1> QED BY <1>7, <1>8

\* Bundles go to another stage.
LEMMA Staged ==
  ASSUME bundles \in Seq(Bundle), NEW set, NEW st \in Stages, bundles' = With(set, st)
  PROVE  /\ bundles' \in Seq(Bundle) /\ DOMAIN bundles' = DOMAIN bundles
         /\ \A b \in DOMAIN bundles :
              /\ bundles'[b].file = bundles[b].file
              /\ bundles'[b].stage = IF b \in set THEN st ELSE bundles[b].stage
<1>1. bundles' = [b \in DOMAIN bundles |->
                    IF b \in set THEN [bundles[b] EXCEPT !.stage = st] ELSE bundles[b]]
  BY DEF With
<1>2. DOMAIN bundles = 1..Len(bundles) /\ Len(bundles) \in Nat
      /\ \A b \in DOMAIN bundles : bundles[b] \in Bundle
  OBVIOUS
<1>3. ASSUME NEW b \in DOMAIN bundles
      PROVE  /\ bundles'[b] \in Bundle
             /\ bundles'[b].file = bundles[b].file
             /\ bundles'[b].stage = IF b \in set THEN st ELSE bundles[b].stage
  BY <1>1, <1>2 DEF Bundle
<1>4. bundles' \in [1..Len(bundles) -> Bundle]
  BY <1>1, <1>2, <1>3
<1> QED BY <1>1, <1>2, <1>3, <1>4

\* A batch stored in an empty queue.
LEMMA PutInEmpty ==
  ASSUME DOMAIN items = {}, NEW S, NEW batch \in Seq(S), IsInjective(batch), NEW first \in Int
  PROVE  /\ DOMAIN Put(batch, first) \subseteq Int /\ IsFiniteSet(DOMAIN Put(batch, first))
         /\ {Put(batch, first)[k] : k \in DOMAIN Put(batch, first)} = ToSet(batch)
         /\ IsInjective(Put(batch, first))
<1> DEFINE p == Put(batch, first)
           n == Len(batch)
<1>1. n \in Nat /\ DOMAIN batch = 1..n
  OBVIOUS
<1>2. p = [k \in first..(first + n - 1) |-> batch[k - first + 1]]
  BY DEF Put
<1> HIDE DEF p, n
<1>3. DOMAIN p = first..(first + n - 1) /\ first + n - 1 \in Int
      /\ \A k \in DOMAIN p : p[k] = batch[k - first + 1] /\ k - first + 1 \in DOMAIN batch
  BY <1>1, <1>2
<1>4. \A i \in DOMAIN batch : i + first - 1 \in DOMAIN p /\ p[i + first - 1] = batch[i]
  <2> SUFFICES ASSUME NEW i \in DOMAIN batch
               PROVE  i + first - 1 \in DOMAIN p /\ p[i + first - 1] = batch[i]
    OBVIOUS
  <2>1. i + first - 1 \in first..(first + n - 1) /\ (i + first - 1) - first + 1 = i
    BY <1>1
  <2> QED BY <1>3, <2>1
<1>5. DOMAIN p \subseteq Int /\ IsFiniteSet(DOMAIN p)
  BY <1>3, FS_Interval
<1>6. {p[k] : k \in DOMAIN p} = ToSet(batch)
  BY <1>3, <1>4 DEF ToSet
<1>7. ASSUME NEW j \in DOMAIN p, NEW k \in DOMAIN p, p[j] = p[k] PROVE j = k
  <2>1. j - first + 1 = k - first + 1
    BY <1>3, <1>7 DEF IsInjective
  <2>2. j \in Int /\ k \in Int
    BY <1>3
  <2> QED BY <2>1, <2>2
<1> QED BY <1>5, <1>6, <1>7 DEF p, IsInjective

\* The first n elements of a sequence.
LEMMA Prefix ==
  ASSUME NEW S, NEW s \in Seq(S), IsInjective(s), NEW n \in 0..Len(s)
  PROVE  /\ SubSeq(s, 1, n) \in Seq(S) /\ IsInjective(SubSeq(s, 1, n))
         /\ ToSet(SubSeq(s, 1, n)) \subseteq ToSet(s)
<1> DEFINE r == SubSeq(s, 1, n)
<1>1. Len(s) \in Nat /\ DOMAIN s = 1..Len(s) /\ n \in Nat /\ n <= Len(s)
  OBVIOUS
<1>2. r = [k \in 1..n |-> s[k]] /\ r \in Seq(S) /\ DOMAIN r = 1..n
  BY <1>1
<1> HIDE DEF r
<1>3. \A k \in DOMAIN r : r[k] = s[k] /\ k \in DOMAIN s
  BY <1>1, <1>2
<1> QED BY <1>2, <1>3 DEF r, IsInjective, ToSet

-----------------------------------------------------------------------------
LEMMA Begins == Init => IInv
<1> SUFFICES ASSUME Init PROVE IInv
  OBVIOUS
<1> USE LocatorAssumption DEF Init
<1>1. DOMAIN items = {} /\ DOMAIN bundles = {} /\ ToSet(<<>>) = {}
  BY DEF ToSet
<1>2. TypeOK
  <2>1. /\ call.at = "idle" /\ call.limit = 0 /\ call.answer = <<>>
        /\ MaxBatch \in Nat /\ MaxRuns \in Nat \ {0}
    BY DEF Idle
  <2>2. call.limit \in 0..MaxBatch /\ Len(call.answer) <= call.limit /\ runs \in 1..MaxRuns
    BY <2>1
  <2>3. bundles \in Seq([file : Files, stage : Stages])
    OBVIOUS
  <2>4. DOMAIN items \subseteq Int /\ \A k \in DOMAIN items : items[k] \in DOMAIN bundles
    BY <1>1
  <2>5. /\ remote \subseteq Files /\ in_flight \subseteq Files /\ processed \subseteq Files
        /\ results \subseteq ResultIds
    OBVIOUS
  <2>6. next_id \in Int /\ size \in Nat
    OBVIOUS
  <2>7. retired \in BOOLEAN
    OBVIOUS
  <2> HIDE DEF Init
  <2> QED BY <2>1, <2>2, <2>3, <2>4, <2>5, <2>6, <2>7 DEF TypeOK
<1>3. Finite
  <2>1. IsFiniteSet({})
    BY FS_EmptySet
  <2>2. IsFiniteSet(remote)
    BY FS_Subset
  <2> QED BY <1>1, <2>1, <2>2 DEF Finite
<1>4. Locals
  BY <1>1 DEF Locals, Idle, IsInjective, Checking
<1>5. Stored
  BY <1>1 DEF Stored, Idle, IsInjective, InStage, Listing
<1>6. OneOpen /\ Marked
  BY <1>1 DEF OneOpen, Marked, InStage, Idle
<1> QED BY <1>2, <1>3, <1>4, <1>5, <1>6 DEF IInv

-----------------------------------------------------------------------------
(* The handlers *)

\* A bundle in a worker's hands goes from stage to stage: what is left to check of the step is
\* what it writes in the store.
LEMMA HandlerKeeps ==
  ASSUME IInv, NEW b \in DOMAIN bundles, bundles[b].stage \in InProgress,
         NEW st \in InProgress \cup {"done", "failed", "unmarked"}, bundles' = With({b}, st),
         st \in Held => bundles[b].stage \in Held,
         UNCHANGED <<remote, queueVars, call, retired, runs>>,
         in_flight' \subseteq Files, processed' \subseteq Files,
         results' \subseteq ResultIds, IsFiniteSet(results')
  PROVE  /\ TypeOK' /\ Finite' /\ Locals' /\ Stored' /\ OneOpen'
         /\ DOMAIN bundles' = DOMAIN bundles
         /\ \A c \in DOMAIN bundles :
              /\ bundles'[c].file = bundles[c].file
              /\ bundles'[c].stage = IF c = b THEN st ELSE bundles[c].stage
<1> USE DEF queueVars
<1>1. /\ bundles' \in Seq(Bundle) /\ DOMAIN bundles' = DOMAIN bundles
      /\ \A c \in DOMAIN bundles :
           /\ bundles'[c].file = bundles[c].file
           /\ bundles'[c].stage = IF c \in {b} THEN st ELSE bundles[c].stage
  <2>1. bundles \in Seq(Bundle) /\ st \in Stages
    BY DEF IInv, TypeOK, Bundle, InProgress, InHand, Stages
  <2> QED BY <2>1, Staged
<1>2. \A c \in DOMAIN bundles : FileOf(c)' = FileOf(c)
  BY <1>1 DEF FileOf
<1>3. /\ InStage({"queued"})' = InStage({"queued"}) /\ InStage({"found"})' = InStage({"found"})
      /\ InStage({"taken"})' = InStage({"taken"})
      /\ InStage({"found", "queued"} \cup Held)' \subseteq InStage({"found", "queued"} \cup Held)
  BY <1>1 DEF InStage, InProgress, InHand, Held
<1>4. TypeOK'
  <2>1. bundles' \in Seq([file : Files, stage : Stages])
    BY <1>1 DEF Bundle
  <2> QED BY <1>1, <2>1 DEF IInv, TypeOK
<1>5. Finite'
  BY DEF IInv, Finite
<1>6. Locals'
  BY <1>1 DEF IInv, Locals
<1>7. Stored'
  <2>1. /\ {items'[k] : k \in DOMAIN items'} = InStage({"queued"})' /\ IsInjective(items')
        /\ ToSet(call'.found) = InStage({"found"})'
        /\ ToSet(call'.answer) \subseteq InStage({"taken"})'
        /\ call'.at \in Listing => DOMAIN items' = {}
    BY <1>3 DEF IInv, Stored
  <2>2. ASSUME NEW c \in ToSet(call'.found) PROVE FileOf(c)' \notin ToSet(call'.todo)
    <3>1. c \in DOMAIN bundles /\ FileOf(c) \notin ToSet(call.todo)
      BY <2>2 DEF IInv, Stored, InStage
    <3> QED BY <1>2, <3>1
  <2> QED BY <2>1, <2>2 DEF Stored
<1>8. OneOpen'
  <2>1. ASSUME NEW c \in InStage({"found", "queued"} \cup Held)',
               NEW d \in InStage({"found", "queued"} \cup Held)', FileOf(c)' = FileOf(d)'
        PROVE  c = d
    <3>1. c \in InStage({"found", "queued"} \cup Held) /\ d \in InStage({"found", "queued"} \cup Held)
      BY <1>3
    <3>2. FileOf(c) = FileOf(d)
      BY <1>2, <2>1, <3>1 DEF InStage
    <3> QED BY <3>1, <3>2 DEF IInv, OneOpen
  <2>2. ASSUME call'.at = "check_queue", NEW c \in InStage({"found", "queued"} \cup Held)'
        PROVE  FileOf(c)' # Head(call'.todo)
    <3>1. c \in InStage({"found", "queued"} \cup Held) /\ call.at = "check_queue"
      BY <1>3, <2>2
    <3>2. FileOf(c) # Head(call.todo)
      BY <3>1 DEF IInv, OneOpen
    <3> QED BY <1>2, <3>1, <3>2 DEF InStage
  <2> QED BY <2>1, <2>2 DEF OneOpen
<1> QED BY <1>1, <1>4, <1>5, <1>6, <1>7, <1>8

\* The marks after a handler's step that leaves them all, for the stages that need one.
LEMMA HandlerLeavesMarks ==
  ASSUME IInv, NEW b \in DOMAIN bundles, NEW st, DOMAIN bundles' = DOMAIN bundles,
         \A c \in DOMAIN bundles :
           /\ bundles'[c].file = bundles[c].file
           /\ bundles'[c].stage = IF c = b THEN st ELSE bundles[c].stage,
         st \in Held => bundles[b].stage \in Held,
         st \in {"marked", "done"} => FileOf(b) \in processed',
         processed \subseteq processed',
         \A c \in InStage(Held)' : FileOf(c) \in in_flight => FileOf(c) \in in_flight',
         call.at = "dequeuing" => FileOf(items[HeadId]) \in in_flight',
         UNCHANGED <<queueVars, call>>
  PROVE  Marked'
<1> USE DEF queueVars
<1>1. \A c \in DOMAIN bundles : FileOf(c)' = FileOf(c)
  BY DEF FileOf
<1>2. ASSUME NEW c \in InStage(Held)' PROVE FileOf(c)' \in in_flight'
  <2>1. c \in InStage(Held)
    BY DEF InStage
  <2>2. FileOf(c) \in in_flight
    BY <2>1 DEF IInv, Marked
  <2> QED BY <1>1, <2>1, <2>2 DEF InStage
<1>3. ASSUME NEW c \in InStage({"marked", "done"})' PROVE FileOf(c)' \in processed'
  <2>1. c \in DOMAIN bundles /\ bundles'[c].stage \in {"marked", "done"}
    BY DEF InStage
  <2>2. CASE c = b
    BY <1>1, <2>1, <2>2
  <2>3. CASE c # b
    <3>1. c \in InStage({"marked", "done"})
      BY <2>1, <2>3 DEF InStage
    <3> QED BY <1>1, <2>1, <3>1 DEF IInv, Marked
  <2> QED BY <2>2, <2>3
<1>4. ASSUME call'.at = "dequeuing"
      PROVE  HasHead' /\ StillNeeded' /\ FileOf(items[HeadId])' \in in_flight'
  <2>1. HasHead /\ StillNeeded /\ FileOf(items[HeadId]) \in in_flight'
    BY <1>4 DEF IInv, Marked
  <2>2. HeadId' = HeadId /\ HasHead' /\ StillNeeded'
    BY <2>1 DEF HeadId, HasHead, StillNeeded
  <2>3. items[HeadId] \in DOMAIN bundles
    BY <2>1 DEF IInv, TypeOK, HasHead
  <2>4. FileOf(items[HeadId])' = FileOf(items[HeadId])
    BY <1>1, <2>2, <2>3 DEF FileOf
  <2> QED BY <2>1, <2>2, <2>4
<1> QED BY <1>2, <1>3, <1>4 DEF Marked

LEMMA HandlerStep ==
  ASSUME IInv, NEW b \in DOMAIN bundles, BundleStep(b)
  PROVE  IInv'
<1> USE DEF marks
<1>1. /\ in_flight \subseteq Files /\ processed \subseteq Files /\ results \subseteq ResultIds
      /\ IsFiniteSet(results) /\ FileOf(b) \in Files
  <2>1. bundles \in Seq(Bundle)
    BY DEF IInv, TypeOK, Bundle
  <2>2. bundles[b] \in Bundle
    BY <2>1
  <2> QED BY <2>2 DEF IInv, TypeOK, Finite, FileOf, Bundle
<1>2. call.at = "dequeuing" =>
        /\ FileOf(items[HeadId]) \in in_flight /\ items[HeadId] \in InStage({"queued"})
  BY DEF IInv, Marked, Stored, HasHead
<1>3. CASE StartLoad(b)
  <2>1. bundles[b].stage = "handed" /\ bundles' = With({b}, "loading")
        /\ UNCHANGED <<remote, queueVars, marks, results, call, retired, runs, faults>>
    BY <1>3 DEF StartLoad
  <2>2. "loading" \in InProgress /\ bundles[b].stage \in InProgress /\ bundles[b].stage \in Held
    BY <2>1 DEF InProgress, InHand, Held
  <2>3. /\ TypeOK' /\ Finite' /\ Locals' /\ Stored' /\ OneOpen'
        /\ DOMAIN bundles' = DOMAIN bundles
        /\ \A c \in DOMAIN bundles :
             /\ bundles'[c].file = bundles[c].file
             /\ bundles'[c].stage = IF c = b THEN "loading" ELSE bundles[c].stage
    BY <1>1, <2>1, <2>2, HandlerKeeps
  <2>4. Marked'
    BY <1>1, <1>2, <2>1, <2>2, <2>3, HandlerLeavesMarks
  <2> QED BY <2>3, <2>4 DEF IInv
<1>4. CASE RemoveInFlight(b)
  <2>1. bundles[b].stage = "loading" /\ bundles' = With({b}, "removed")
        /\ in_flight' = in_flight \ {FileOf(b)}
        /\ UNCHANGED <<remote, queueVars, processed, results, call, retired, runs, faults>>
    BY <1>4 DEF RemoveInFlight
  <2>2. "removed" \in InProgress /\ bundles[b].stage \in InProgress /\ "removed" \notin Held
        /\ bundles[b].stage \in Held /\ "removed" \notin {"marked", "done"}
    BY <2>1 DEF InProgress, InHand, Held
  <2>3. /\ TypeOK' /\ Finite' /\ Locals' /\ Stored' /\ OneOpen'
        /\ DOMAIN bundles' = DOMAIN bundles
        /\ \A c \in DOMAIN bundles :
             /\ bundles'[c].file = bundles[c].file
             /\ bundles'[c].stage = IF c = b THEN "removed" ELSE bundles[c].stage
    BY <1>1, <2>1, <2>2, HandlerKeeps
  <2>4. ASSUME NEW c \in InStage(Held)' PROVE FileOf(c) \in in_flight => FileOf(c) \in in_flight'
    <3>1. c # b /\ c \in InStage({"found", "queued"} \cup Held)
          /\ b \in InStage({"found", "queued"} \cup Held)
      BY <2>2, <2>3, <2>4 DEF InStage
    <3>2. FileOf(c) # FileOf(b)
      BY <3>1 DEF IInv, OneOpen
    <3> QED BY <2>1, <3>2
  <2>5. call.at = "dequeuing" => FileOf(items[HeadId]) \in in_flight'
    <3> SUFFICES ASSUME call.at = "dequeuing" PROVE FileOf(items[HeadId]) # FileOf(b)
      BY <1>2, <2>1
    <3>1. items[HeadId] \in InStage({"found", "queued"} \cup Held) /\ items[HeadId] # b
          /\ b \in InStage({"found", "queued"} \cup Held)
      BY <1>2, <2>1, <2>2 DEF InStage
    <3> QED BY <3>1 DEF IInv, OneOpen
  <2>6. Marked'
    BY <2>1, <2>2, <2>3, <2>4, <2>5, HandlerLeavesMarks
  <2> QED BY <2>3, <2>6 DEF IInv
<1>5. CASE MarkProcessed(b)
  <2>1. bundles[b].stage = "removed" /\ bundles' = With({b}, "marked")
        /\ processed' = processed \cup {FileOf(b)}
        /\ UNCHANGED <<remote, queueVars, in_flight, results, call, retired, runs, faults>>
    BY <1>5 DEF MarkProcessed, MarkedProcessed
  <2>2. "marked" \in InProgress /\ bundles[b].stage \in InProgress /\ "marked" \notin Held
    BY <2>1 DEF InProgress, InHand, Held
  <2>3. /\ TypeOK' /\ Finite' /\ Locals' /\ Stored' /\ OneOpen'
        /\ DOMAIN bundles' = DOMAIN bundles
        /\ \A c \in DOMAIN bundles :
             /\ bundles'[c].file = bundles[c].file
             /\ bundles'[c].stage = IF c = b THEN "marked" ELSE bundles[c].stage
    BY <1>1, <2>1, <2>2, HandlerKeeps
  <2>4. Marked'
    BY <1>1, <1>2, <2>1, <2>2, <2>3, HandlerLeavesMarks
  <2> QED BY <2>3, <2>4 DEF IInv
<1>6. CASE SaveResult(b)
  <2>1. PICK h \in ResultIds : results' = results \cup {h}
    BY <1>6 DEF SaveResult
  <2>2. bundles[b].stage = "marked" /\ bundles' = With({b}, "done")
        /\ UNCHANGED <<remote, queueVars, marks, call, retired, runs, faults>>
    BY <1>6 DEF SaveResult
  <2>3. "done" \notin Held /\ bundles[b].stage \in InProgress
    BY <2>2 DEF InProgress, InHand, Held
  <2>4. results' \subseteq ResultIds /\ IsFiniteSet(results')
    BY <1>1, <2>1, FS_AddElement
  <2>5. /\ TypeOK' /\ Finite' /\ Locals' /\ Stored' /\ OneOpen'
        /\ DOMAIN bundles' = DOMAIN bundles
        /\ \A c \in DOMAIN bundles :
             /\ bundles'[c].file = bundles[c].file
             /\ bundles'[c].stage = IF c = b THEN "done" ELSE bundles[c].stage
    BY <1>1, <2>2, <2>3, <2>4, HandlerKeeps
  <2>6. FileOf(b) \in processed
    BY <2>2 DEF IInv, Marked, InStage
  <2>7. Marked'
    BY <1>1, <1>2, <2>2, <2>3, <2>5, <2>6, HandlerLeavesMarks
  <2> QED BY <2>5, <2>7 DEF IInv
<1>7. CASE HandlingFails(b)
  <2> DEFINE st == Stopped(bundles[b].stage, "failed")
  <2>1. bundles[b].stage \in InHand /\ bundles' = With({b}, st)
        /\ UNCHANGED <<remote, queueVars, marks, results, call, retired, runs>>
    BY <1>7 DEF HandlingFails
  <2>2. \/ bundles[b].stage = "loading" /\ st = "failed"
        \/ bundles[b].stage = "removed" /\ st = "unmarked"
        \/ bundles[b].stage = "marked" /\ st = "done"
    <3>1. CASE bundles[b].stage = "loading"
      BY <3>1 DEF Stopped
    <3>2. CASE bundles[b].stage = "removed"
      BY <3>2 DEF Stopped
    <3>3. CASE bundles[b].stage = "marked"
      BY <3>3 DEF Stopped
    <3> QED BY <2>1, <3>1, <3>2, <3>3 DEF InHand
  <2> HIDE DEF st
  <2>3. /\ st \in {"done", "failed", "unmarked"} /\ (st \in Held => bundles[b].stage \in Held)
        /\ bundles[b].stage \in InProgress
        /\ st \in {"marked", "done"} => bundles[b].stage = "marked"
    BY <2>2 DEF InProgress, InHand, Held
  <2>4. /\ TypeOK' /\ Finite' /\ Locals' /\ Stored' /\ OneOpen'
        /\ DOMAIN bundles' = DOMAIN bundles
        /\ \A c \in DOMAIN bundles :
             /\ bundles'[c].file = bundles[c].file
             /\ bundles'[c].stage = IF c = b THEN st ELSE bundles[c].stage
    BY <1>1, <2>1, <2>3, HandlerKeeps
  <2>5. st \in {"marked", "done"} => FileOf(b) \in processed
    BY <2>3 DEF IInv, Marked, InStage
  <2>6. Marked'
    BY <1>1, <1>2, <2>1, <2>3, <2>4, <2>5, HandlerLeavesMarks
  <2> QED BY <2>4, <2>6 DEF IInv
<1> QED BY <1>3, <1>4, <1>5, <1>6, <1>7 DEF BundleStep

-----------------------------------------------------------------------------
(* The call, as far as it only looks *)

CallStages == {"idle", "listing", "check_processed", "check_in_flight", "check_queue",
               "enqueuing", "peeking", "dequeuing"}

LEMMA LookingKeeps ==
  ASSUME IInv, UNCHANGED <<remote, items, marks, results, bundles, retired, runs>>,
         next_id' \in Int, size' \in Nat,
         call'.at \in CallStages \ {"dequeuing"}, call'.limit \in 0..MaxBatch,
         Len(call'.answer) <= call'.limit, Locals',
         call'.found = call.found, ToSet(call'.answer) \subseteq ToSet(call.answer),
         call'.at \in Listing => DOMAIN items = {},
         \A b \in ToSet(call.found) : FileOf(b) \notin ToSet(call'.todo),
         call'.at = "check_queue" => Head(call'.todo) \notin in_flight /\ call'.todo # <<>>
  PROVE  IInv'
<1> USE DEF marks
<1>1. \A S : InStage(S)' = InStage(S)
  BY DEF InStage
<1>2. \A b : FileOf(b)' = FileOf(b)
  BY DEF FileOf
<1>3. TypeOK'
  BY DEF IInv, TypeOK, CallStages
<1>4. Finite'
  BY DEF IInv, Finite
<1>5. Stored'
  <2>1. /\ {items'[k] : k \in DOMAIN items'} = InStage({"queued"}) /\ IsInjective(items')
        /\ ToSet(call'.found) = InStage({"found"})
        /\ ToSet(call'.answer) \subseteq InStage({"taken"})
        /\ call'.at \in Listing => DOMAIN items' = {}
    BY DEF IInv, Stored
  <2>2. InStage({"queued"})' = InStage({"queued"}) /\ InStage({"found"})' = InStage({"found"})
        /\ InStage({"taken"})' = InStage({"taken"})
    BY <1>1
  <2>3. \A b \in ToSet(call'.found) : FileOf(b)' \notin ToSet(call'.todo)
    BY <1>2
  <2> QED BY <2>1, <2>2, <2>3 DEF Stored
<1>6. OneOpen'
  <2> DEFINE O == InStage({"found", "queued"} \cup Held)
  <2>1. O' = O
    BY <1>1
  <2>2. \A b, c \in O : FileOf(b) = FileOf(c) => b = c
    BY DEF IInv, OneOpen
  <2>3. ASSUME call'.at = "check_queue", NEW b \in O PROVE FileOf(b) # Head(call'.todo)
    <3>1. CASE b \in InStage({"found"})
      <4>1. b \in ToSet(call.found)
        BY <3>1 DEF IInv, Stored
      <4>2. Head(call'.todo) \in ToSet(call'.todo)
        <5>1. call'.todo \in Seq(Files) /\ call'.todo # <<>> /\ IsInjective(call'.todo)
          BY <2>3 DEF Locals
        <5> QED BY <5>1, ToSetTail
      <4> QED BY <4>1, <4>2
    <3>2. CASE b \in InStage({"queued"})
      BY <2>3, <3>2 DEF IInv, Stored, Listing
    <3>3. CASE b \in InStage(Held)
      BY <2>3, <3>3 DEF IInv, Marked
    <3> QED BY <3>1, <3>2, <3>3 DEF InStage
  <2>4. O' = O /\ \A b \in O : FileOf(b)' = FileOf(b)
    BY <2>1, <1>2
  <2>5. \A b, c \in O : FileOf(b)' = FileOf(c)' => b = c
    BY <2>2, <1>2
  <2>6. call'.at = "check_queue" => \A b \in O : FileOf(b)' # Head(call'.todo)
    BY <2>3, <1>2
  <2> HIDE DEF O
  <2>7. (\A b, c \in O' : FileOf(b)' = FileOf(c)' => b = c)
        /\ (call'.at = "check_queue" => \A b \in O' : FileOf(b)' # Head(call'.todo))
    BY <2>1, <2>5, <2>6
  <2> QED BY <2>7 DEF OneOpen, O
<1>7. Marked'
  <2>1. InStage(Held)' = InStage(Held) /\ InStage({"marked", "done"})' = InStage({"marked", "done"})
    BY <1>1
  <2>2. (\A b \in InStage(Held) : FileOf(b)' \in in_flight')
        /\ (\A b \in InStage({"marked", "done"}) : FileOf(b)' \in processed')
    BY <1>2 DEF IInv, Marked
  <2> QED BY <2>1, <2>2 DEF Marked
<1> QED BY <1>3, <1>4, <1>5, <1>6, <1>7 DEF IInv

LEMMA BeginStep ==
  ASSUME IInv, NEW n \in 1..MaxBatch, Begin(n)
  PROVE  IInv'
<1>1. /\ call.at = "idle" /\ ~retired
      /\ next_id' = Recovered.next_id /\ size' = Recovered.size
      /\ call' = [Idle EXCEPT !.limit = n, !.at = IF size' = 0 THEN "listing" ELSE "peeking"]
      /\ UNCHANGED <<remote, items, marks, results, bundles, retired, runs, faults>>
  BY DEF Begin
<1>2. /\ next_id' \in Int /\ size' \in Nat /\ (size' = 0 => DOMAIN items = {})
  BY <1>1, Recovery DEF IInv
<1>3. call' = [at |-> IF size' = 0 THEN "listing" ELSE "peeking", limit |-> n, todo |-> <<>>,
               found |-> <<>>, answer |-> <<>>]
  BY <1>1 DEF Idle
<1>4. /\ call'.at \in {"listing", "peeking"} /\ call'.limit = n /\ call'.todo = <<>>
      /\ call'.found = <<>> /\ call'.answer = <<>>
      /\ call' = [at |-> call'.at, limit |-> call'.limit, todo |-> call'.todo,
                  found |-> call'.found, answer |-> call'.answer]
      /\ call'.at = "listing" => DOMAIN items = {}
  BY <1>2, <1>3
<1>5. call.found = <<>> /\ ToSet(<<>>) = {}
  BY <1>1 DEF IInv, Locals, Checking, ToSet
<1>6. Locals'
  <2>1. /\ <<>> \in Seq(Files) /\ <<>> \in Seq(DOMAIN bundles') /\ DOMAIN <<>> = {}
        /\ call'.at \notin Checking
    BY <1>4 DEF Checking
  <2>2. /\ call'.todo \in Seq(Files) /\ IsInjective(call'.todo)
        /\ call'.found \in Seq(DOMAIN bundles') /\ IsInjective(call'.found)
        /\ call'.answer \in Seq(DOMAIN bundles')
    BY <1>4, <2>1 DEF IsInjective
  <2>3. ~retired'
    BY <1>1
  <2> QED BY <1>4, <2>1, <2>2, <2>3 DEF Locals
<1>7. /\ call'.at \in CallStages \ {"dequeuing"} /\ call'.limit \in 0..MaxBatch
      /\ Len(call'.answer) <= call'.limit
      /\ call'.at \in Listing => DOMAIN items = {}
      /\ call'.at # "check_queue"
  BY <1>4, LocatorAssumption DEF CallStages, Listing
<1> QED BY <1>1, <1>2, <1>4, <1>5, <1>6, <1>7, LookingKeeps

LEMMA ListStep ==
  ASSUME IInv, List
  PROVE  IInv'
<1>1. /\ call.at = "listing"
      /\ call' = [call EXCEPT !.todo = SetToSeq(remote),
                              !.at = IF remote = {} THEN "enqueuing" ELSE "check_processed"]
      /\ UNCHANGED <<remote, queueVars, marks, results, bundles, retired, runs, faults>>
  BY DEF List
<1>2. call = [at |-> call.at, limit |-> call.limit, todo |-> call.todo, found |-> call.found,
              answer |-> call.answer]
  BY DEF IInv, Locals
<1> DEFINE s == SetToSeq(remote)
<1>3. s \in Seq(remote) /\ IsInjective(s) /\ (s = <<>> <=> remote = {}) /\ remote \subseteq Files
  BY SetListed DEF IInv, Finite, TypeOK
<1>4. s \in Seq(Files)
  BY <1>3
<1> HIDE DEF s
<1>5. /\ call'.at = IF remote = {} THEN "enqueuing" ELSE "check_processed"
      /\ call'.limit = call.limit /\ call'.todo = s
      /\ call'.found = call.found /\ call'.answer = call.answer
      /\ call' = [at |-> call'.at, limit |-> call'.limit, todo |-> call'.todo,
                  found |-> call'.found, answer |-> call'.answer]
  BY <1>1, <1>2 DEF s
<1>6. call.found = <<>> /\ ToSet(<<>>) = {} /\ ~retired
  BY <1>1 DEF IInv, Locals, Checking, ToSet
<1>7. Locals'
  <2>1. call'.answer \in Seq(DOMAIN bundles') /\ call'.found \in Seq(DOMAIN bundles')
        /\ IsInjective(call'.found) /\ call'.todo \in Seq(Files) /\ IsInjective(call'.todo)
    BY <1>1, <1>3, <1>4, <1>5 DEF IInv, Locals
  <2>2. ~retired'
    BY <1>1, <1>6
  <2>3. /\ call'.at \in Checking => call'.todo # <<>>
        /\ call'.at \notin Checking => call'.todo = <<>>
        /\ call'.found = <<>>
    BY <1>3, <1>5, <1>6 DEF Checking
  <2> QED BY <1>5, <2>1, <2>2, <2>3 DEF Locals
<1>8. /\ call'.at \in CallStages \ {"dequeuing"} /\ call'.limit \in 0..MaxBatch
      /\ Len(call'.answer) <= call'.limit
      /\ DOMAIN items = {} /\ call'.at # "check_queue"
      /\ next_id' \in Int /\ size' \in Nat
  BY <1>1, <1>5 DEF IInv, TypeOK, CallStages, Listing, Stored, queueVars
<1> QED BY <1>1, <1>5, <1>6, <1>7, <1>8, LookingKeeps DEF queueVars

\* The file at hand is left behind.
LEMMA FileBehind ==
  ASSUME IInv, call.at \in Checking, NEW found, call' = NextFile(found)
  PROVE  /\ call'.at = (IF call'.todo = <<>> THEN "enqueuing" ELSE "check_processed")
         /\ call'.limit = call.limit /\ call'.found = found /\ call'.answer = call.answer
         /\ call' = [at |-> call'.at, limit |-> call'.limit, todo |-> call'.todo,
                     found |-> call'.found, answer |-> call'.answer]
         /\ call'.todo \in Seq(Files) /\ IsInjective(call'.todo)
         /\ ToSet(call'.todo) = ToSet(call.todo) \ {Head(call.todo)}
         /\ Head(call.todo) \in ToSet(call.todo) /\ Head(call.todo) \in Files
<1>1. /\ call = [at |-> call.at, limit |-> call.limit, todo |-> call.todo, found |-> call.found,
                 answer |-> call.answer]
      /\ call.todo \in Seq(Files) /\ IsInjective(call.todo) /\ call.todo # <<>>
  BY DEF IInv, Locals
<1> DEFINE t == call.todo
           last == Len(t) = 1
<1>2. /\ Head(t) \in ToSet(t) /\ ToSet(Tail(t)) = ToSet(t) \ {Head(t)} /\ IsInjective(Tail(t))
      /\ Tail(t) \in Seq(Files) /\ Head(t) \in Files
  <2>1. /\ Head(t) \in ToSet(t) /\ ToSet(Tail(t)) = ToSet(t) \ {Head(t)} /\ IsInjective(Tail(t))
    BY <1>1, ToSetTail
  <2> QED BY <1>1, <2>1
<1>3. last <=> Tail(t) = <<>>
  <2>1. t \in Seq(Files) /\ t # <<>>
    BY <1>1
  <2> HIDE DEF t
  <2>2. Len(t) \in Nat \ {0} /\ Len(Tail(t)) = Len(t) - 1 /\ Tail(t) \in Seq(Files)
    BY <2>1
  <2>3. Len(Tail(t)) = 0 <=> Tail(t) = <<>>
    BY <2>2
  <2> QED BY <2>2, <2>3 DEF last
<1>4. call' = [call EXCEPT !.todo = Tail(t), !.found = found,
                           !.at = IF last THEN "enqueuing" ELSE "check_processed"]
  BY DEF NextFile
<1> HIDE DEF t, last
<1>5. /\ call'.at = (IF last THEN "enqueuing" ELSE "check_processed")
      /\ call'.limit = call.limit /\ call'.todo = Tail(t)
      /\ call'.found = found /\ call'.answer = call.answer
      /\ call' = [at |-> call'.at, limit |-> call'.limit, todo |-> call'.todo,
                  found |-> call'.found, answer |-> call'.answer]
  BY <1>1, <1>4
<1> QED BY <1>2, <1>3, <1>5 DEF t

\* A known file is left behind.
LEMMA FileSkipped ==
  ASSUME IInv, call.at \in Checking, call' = NextFile(call.found),
         next_id' \in Int, size' \in Nat,
         UNCHANGED <<remote, items, marks, results, bundles, retired, runs>>
  PROVE  IInv'
<1>1. /\ call'.at = (IF call'.todo = <<>> THEN "enqueuing" ELSE "check_processed")
      /\ call'.limit = call.limit /\ call'.found = call.found /\ call'.answer = call.answer
      /\ call' = [at |-> call'.at, limit |-> call'.limit, todo |-> call'.todo,
                  found |-> call'.found, answer |-> call'.answer]
      /\ call'.todo \in Seq(Files) /\ IsInjective(call'.todo)
      /\ ToSet(call'.todo) \subseteq ToSet(call.todo)
  BY FileBehind
<1>2. /\ call.found \in Seq(DOMAIN bundles) /\ IsInjective(call.found)
      /\ call.answer \in Seq(DOMAIN bundles) /\ ~retired
  BY DEF IInv, Locals, Checking
<1>3. Locals'
  BY <1>1, <1>2 DEF Locals, Checking
<1>4. /\ call'.at \in CallStages \ {"dequeuing"} /\ call'.limit \in 0..MaxBatch
      /\ Len(call'.answer) <= call'.limit /\ DOMAIN items = {}
      /\ call'.at # "check_queue"
      /\ \A b \in ToSet(call.found) : FileOf(b) \notin ToSet(call'.todo)
  BY <1>1 DEF IInv, TypeOK, CallStages, Listing, Stored, Checking
<1> QED BY <1>1, <1>3, <1>4, LookingKeeps

\* The file at hand is looked for in the next place.
LEMMA FileLookedFor ==
  ASSUME IInv, call.at \in Checking, NEW at \in {"check_in_flight", "check_queue"},
         call' = [call EXCEPT !.at = at],
         at = "check_queue" => Head(call.todo) \notin in_flight,
         UNCHANGED <<remote, queueVars, marks, results, bundles, retired, runs>>
  PROVE  IInv'
<1>1. call = [at |-> call.at, limit |-> call.limit, todo |-> call.todo, found |-> call.found,
              answer |-> call.answer]
  BY DEF IInv, Locals
<1>2. /\ call'.at = at /\ call'.limit = call.limit /\ call'.todo = call.todo
      /\ call'.found = call.found /\ call'.answer = call.answer
      /\ call' = [at |-> call'.at, limit |-> call'.limit, todo |-> call'.todo,
                  found |-> call'.found, answer |-> call'.answer]
  BY <1>1
<1>3. Locals'
  BY <1>2 DEF IInv, Locals, Checking
<1>4. /\ call'.at \in CallStages \ {"dequeuing"} /\ call'.limit \in 0..MaxBatch
      /\ Len(call'.answer) <= call'.limit /\ DOMAIN items = {}
      /\ call.todo # <<>>
      /\ \A b \in ToSet(call.found) : FileOf(b) \notin ToSet(call'.todo)
  BY <1>2 DEF IInv, TypeOK, CallStages, Listing, Stored, Checking, Locals
<1>5. next_id' \in Int /\ size' \in Nat
  BY DEF IInv, TypeOK, queueVars
<1> QED BY <1>2, <1>3, <1>4, <1>5, LookingKeeps DEF queueVars

LEMMA CheckSteps ==
  ASSUME IInv, CheckProcessed \/ CheckInFlight
  PROVE  IInv'
<1>1. next_id \in Int /\ size \in Nat
  BY DEF IInv, TypeOK
<1>2. CASE CheckProcessed
  <2>1. /\ call.at \in Checking
        /\ UNCHANGED <<remote, queueVars, marks, results, bundles, retired, runs>>
    BY <1>2 DEF CheckProcessed, Checking
  <2>2. CASE call' = NextFile(call.found)
    BY <1>1, <2>1, <2>2, FileSkipped DEF queueVars
  <2>3. CASE call' = [call EXCEPT !.at = "check_in_flight"]
    BY <2>1, <2>3, FileLookedFor
  <2> QED BY <1>2, <2>2, <2>3 DEF CheckProcessed
<1>3. CASE CheckInFlight
  <2>1. /\ call.at \in Checking
        /\ UNCHANGED <<remote, queueVars, marks, results, bundles, retired, runs>>
    BY <1>3 DEF CheckInFlight, Checking
  <2>2. CASE call' = NextFile(call.found)
    BY <1>1, <2>1, <2>2, FileSkipped DEF queueVars
  <2>3. CASE /\ call' = [call EXCEPT !.at = "check_queue"]
             /\ Head(call.todo) \notin in_flight
    BY <2>1, <2>3, FileLookedFor
  <2> QED BY <1>3, <2>2, <2>3 DEF CheckInFlight, KnownInFlight
<1> QED BY <1>2, <1>3

-----------------------------------------------------------------------------
(* The call, where it changes what is stored *)

\* No file gets another open bundle.
LEMMA OpenKept ==
  ASSUME IInv, \A c \in DOMAIN bundles : FileOf(c)' = FileOf(c),
         InStage({"found", "queued"} \cup Held)' \subseteq InStage({"found", "queued"} \cup Held),
         call'.at # "check_queue"
  PROVE  OneOpen'
<1> DEFINE O == InStage({"found", "queued"} \cup Held)
<1>1. \A c \in O : FileOf(c)' = FileOf(c)
  BY DEF InStage
<1>2. \A c, d \in O : FileOf(c) = FileOf(d) => c = d
  BY DEF IInv, OneOpen
<1>3. O' \subseteq O
  OBVIOUS
<1> HIDE DEF O
<1>4. \A c, d \in O' : FileOf(c)' = FileOf(d)' => c = d
  BY <1>1, <1>2, <1>3
<1> QED BY <1>4 DEF OneOpen, O

\* The marks stay, and a bundle that now needs one has it.
LEMMA MarksKept ==
  ASSUME IInv, \A c \in DOMAIN bundles : FileOf(c)' = FileOf(c), UNCHANGED marks,
         InStage(Held)' \subseteq
           InStage(Held) \cup {c \in DOMAIN bundles : FileOf(c) \in in_flight},
         InStage({"marked", "done"})' \subseteq InStage({"marked", "done"}),
         call'.at # "dequeuing"
  PROVE  Marked'
<1>1. \A c \in InStage(Held) : c \in DOMAIN bundles /\ FileOf(c) \in in_flight
  BY DEF IInv, Marked, InStage
<1>2. \A c \in InStage({"marked", "done"}) : c \in DOMAIN bundles /\ FileOf(c) \in processed
  BY DEF IInv, Marked, InStage
<1>3. \A c \in InStage(Held)' : FileOf(c)' \in in_flight'
  BY <1>1 DEF marks
<1>4. \A c \in InStage({"marked", "done"})' : FileOf(c)' \in processed'
  BY <1>2 DEF marks
<1> QED BY <1>3, <1>4 DEF Marked

LEMMA CheckQueueStep ==
  ASSUME IInv, CheckQueue
  PROVE  IInv'
<1>0. PICK n : n = Len(bundles) + 1
  OBVIOUS
<1> DEFINE f == Head(call.todo)
           new == [file |-> f, stage |-> "found"]
<1>1. /\ call.at = "check_queue" /\ call.at \in Checking /\ DOMAIN items = {}
      /\ next_id' = Recovered.next_id /\ size' = Recovered.size
      /\ UNCHANGED <<remote, items, marks, results, retired, runs>>
  BY DEF CheckQueue, Checking, IInv, Stored, Listing
<1>2. bundles' = Append(bundles, new) /\ call' = NextFile(Append(call.found, n))
  BY <1>0, <1>1 DEF CheckQueue
<1>3. next_id' \in Int /\ size' \in Nat
  BY <1>1, Recovery DEF IInv
<1> DEFINE found == Append(call.found, n)
<1>4. /\ call'.at = (IF call'.todo = <<>> THEN "enqueuing" ELSE "check_processed")
      /\ call'.limit = call.limit /\ call'.found = found /\ call'.answer = call.answer
      /\ call' = [at |-> call'.at, limit |-> call'.limit, todo |-> call'.todo,
                  found |-> call'.found, answer |-> call'.answer]
      /\ call'.todo \in Seq(Files) /\ IsInjective(call'.todo)
      /\ ToSet(call'.todo) = ToSet(call.todo) \ {f}
      /\ f \in ToSet(call.todo) /\ f \in Files
  <2> HIDE DEF found
  <2>1. call' = NextFile(found)
    BY <1>2 DEF found
  <2> QED BY <1>1, <2>1, FileBehind
<1> HIDE DEF f
<1>5. /\ bundles \in Seq(Bundle) /\ new \in Bundle
      /\ call.found \in Seq(DOMAIN bundles) /\ IsInjective(call.found)
      /\ call.answer \in Seq(DOMAIN bundles) /\ ~retired
  BY <1>1, <1>4 DEF IInv, TypeOK, Locals, Bundle, Stages
<1>6. /\ bundles' \in Seq(Bundle)
      /\ DOMAIN bundles' = DOMAIN bundles \cup {n} /\ n \notin DOMAIN bundles
      /\ \A b \in DOMAIN bundles : bundles'[b] = bundles[b]
      /\ bundles'[n].file = f /\ bundles'[n].stage = "found"
  <2> HIDE DEF new
  <2>1. /\ Len(bundles) \in Nat /\ DOMAIN bundles = 1..Len(bundles)
        /\ bundles' \in Seq(Bundle) /\ DOMAIN bundles' = 1..(Len(bundles) + 1)
        /\ \A b \in 1..Len(bundles) : bundles'[b] = bundles[b]
        /\ bundles'[Len(bundles) + 1] = new
    BY <1>2, <1>5
  <2>2. 1..(Len(bundles) + 1) = 1..Len(bundles) \cup {Len(bundles) + 1}
        /\ Len(bundles) + 1 \notin 1..Len(bundles)
    BY <2>1
  <2> QED BY <1>0, <2>1, <2>2 DEF new
<1>7. /\ found \in Seq(DOMAIN bundles') /\ IsInjective(found)
      /\ ToSet(found) = ToSet(call.found) \cup {n}
      /\ call.answer \in Seq(DOMAIN bundles')
  <2>1. call.found \in Seq(DOMAIN bundles') /\ call.answer \in Seq(DOMAIN bundles')
        /\ n \in DOMAIN bundles'
    BY <1>5, <1>6
  <2>2. ToSet(call.found) \subseteq DOMAIN bundles
    BY <1>5 DEF ToSet
  <2>3. n \notin ToSet(call.found)
    BY <1>6, <2>2
  <2> QED BY <1>5, <2>1, <2>3, InjectiveAppend, ToSetAppend
<1> HIDE DEF found, new
<1>8. /\ \A b \in DOMAIN bundles : FileOf(b)' = FileOf(b)
      /\ FileOf(n)' = f
  BY <1>6 DEF FileOf
<1>9. /\ InStage({"queued"})' = InStage({"queued"})
      /\ InStage({"found"})' = InStage({"found"}) \cup {n}
      /\ InStage({"taken"})' = InStage({"taken"})
      /\ InStage(Held)' = InStage(Held)
      /\ InStage({"marked", "done"})' = InStage({"marked", "done"})
      /\ InStage({"found", "queued"} \cup Held)' = InStage({"found", "queued"} \cup Held) \cup {n}
  BY <1>6 DEF InStage, Held
<1>10. TypeOK'
  <2>1. bundles' \in Seq([file : Files, stage : Stages])
    BY <1>6 DEF Bundle
  <2>2. call'.at \in CallStages /\ call'.limit \in 0..MaxBatch /\ Len(call'.answer) <= call'.limit
    BY <1>4 DEF IInv, TypeOK, CallStages
  <2> QED BY <1>1, <1>3, <2>1, <2>2 DEF IInv, TypeOK, CallStages, marks
<1>11. Finite'
  BY <1>1 DEF IInv, Finite
<1>12. Locals'
  <2>1. /\ call'.at \in Checking => call'.todo # <<>>
        /\ call'.at \notin Checking => call'.todo = <<>>
        /\ call'.at \in Checking \cup {"enqueuing"}
    BY <1>4 DEF Checking
  <2>2. ~retired'
    BY <1>1, <1>5
  <2> QED BY <1>4, <1>7, <2>1, <2>2 DEF Locals
<1>13. Stored'
  <2>1. /\ {items'[k] : k \in DOMAIN items'} = InStage({"queued"})' /\ IsInjective(items')
        /\ ToSet(call'.found) = InStage({"found"})'
        /\ ToSet(call'.answer) \subseteq InStage({"taken"})'
        /\ DOMAIN items' = {}
    BY <1>1, <1>4, <1>7, <1>9 DEF IInv, Stored
  <2>2. ASSUME NEW b \in ToSet(call'.found) PROVE FileOf(b)' \notin ToSet(call'.todo)
    <3>1. CASE b = n
      BY <1>4, <1>8, <3>1
    <3>2. CASE b \in ToSet(call.found)
      <4>1. b \in DOMAIN bundles /\ FileOf(b) \notin ToSet(call.todo)
        BY <3>2 DEF IInv, Stored, InStage
      <4> QED BY <1>4, <1>8, <4>1
    <3> QED BY <1>4, <1>7, <2>2, <3>1, <3>2
  <2> QED BY <2>1, <2>2 DEF Stored
<1>14. OneOpen'
  <2> DEFINE O == InStage({"found", "queued"} \cup Held)
  <2>1. \A b \in O : b \in DOMAIN bundles /\ FileOf(b) # f
    BY <1>1 DEF IInv, OneOpen, InStage, f
  <2>2. \A b, c \in O : FileOf(b) = FileOf(c) => b = c
    BY DEF IInv, OneOpen
  <2>3. O' = O \cup {n}
    BY <1>9
  <2> HIDE DEF O
  <2>4. \A b, c \in O' : FileOf(b)' = FileOf(c)' => b = c
    <3> SUFFICES ASSUME NEW b \in O', NEW c \in O', FileOf(b)' = FileOf(c)' PROVE b = c
      OBVIOUS
    <3>1. /\ b = n \/ (b \in O /\ FileOf(b)' = FileOf(b) /\ FileOf(b) # f)
          /\ c = n \/ (c \in O /\ FileOf(c)' = FileOf(c) /\ FileOf(c) # f)
      BY <1>8, <2>1, <2>3
    <3> QED BY <1>8, <2>2, <3>1
  <2>5. call'.at # "check_queue"
    BY <1>4
  <2> QED BY <2>4, <2>5 DEF OneOpen, O
<1>15. Marked'
  <2>1. \A b \in InStage(Held)' : FileOf(b)' \in in_flight'
    <3>1. \A b \in InStage(Held) : b \in DOMAIN bundles /\ FileOf(b) \in in_flight
      BY DEF IInv, Marked, InStage
    <3> QED BY <1>1, <1>8, <1>9, <3>1 DEF marks
  <2>2. \A b \in InStage({"marked", "done"})' : FileOf(b)' \in processed'
    <3>1. \A b \in InStage({"marked", "done"}) : b \in DOMAIN bundles /\ FileOf(b) \in processed
      BY DEF IInv, Marked, InStage
    <3> QED BY <1>1, <1>8, <1>9, <3>1 DEF marks
  <2>3. call'.at # "dequeuing"
    BY <1>4
  <2> QED BY <2>1, <2>2, <2>3 DEF Marked
<1> QED BY <1>10, <1>11, <1>12, <1>13, <1>14, <1>15 DEF IInv

LEMMA EnqueueStep ==
  ASSUME IInv, EnqueueFound
  PROVE  IInv'
<1>1. /\ call.at = "enqueuing" /\ DOMAIN items = {}
      /\ call' = [call EXCEPT !.at = "peeking", !.found = <<>>]
      /\ UNCHANGED <<remote, marks, results, retired, runs>>
      /\ IF call.found = <<>> THEN UNCHANGED <<queueVars, bundles>>
         ELSE /\ items' = Put(call.found, Recovered.next_id)
              /\ next_id' = Recovered.next_id + Len(call.found)
              /\ size' = Recovered.size + Len(call.found)
              /\ bundles' = With(ToSet(call.found), "queued")
  BY DEF EnqueueFound, IInv, Stored, Listing
<1>2. /\ call = [at |-> call.at, limit |-> call.limit, todo |-> call.todo, found |-> call.found,
                 answer |-> call.answer]
      /\ call.found \in Seq(DOMAIN bundles) /\ IsInjective(call.found)
      /\ call.answer \in Seq(DOMAIN bundles) /\ call.todo = <<>> /\ ~retired
  BY <1>1 DEF IInv, Locals, Checking
<1>3. /\ call'.at = "peeking" /\ call'.limit = call.limit /\ call'.todo = <<>>
      /\ call'.found = <<>> /\ call'.answer = call.answer
      /\ call' = [at |-> call'.at, limit |-> call'.limit, todo |-> call'.todo,
                  found |-> call'.found, answer |-> call'.answer]
  BY <1>1, <1>2
<1>4. CASE call.found = <<>>
  <2>1. next_id \in Int /\ size \in Nat
    BY DEF IInv, TypeOK
  <2>2. Locals'
    <3>1. /\ call'.todo \in Seq(Files) /\ IsInjective(call'.todo)
          /\ call'.found \in Seq(DOMAIN bundles') /\ IsInjective(call'.found)
          /\ call'.answer \in Seq(DOMAIN bundles')
      <4>1. DOMAIN <<>> = {} /\ <<>> \in Seq(Files) /\ <<>> \in Seq(DOMAIN bundles')
        OBVIOUS
      <4>2. call'.answer \in Seq(DOMAIN bundles')
        BY <1>1, <1>2, <1>3, <1>4
      <4> QED BY <1>3, <4>1, <4>2 DEF IsInjective
    <3>2. ~retired' /\ call'.at \notin Checking
      BY <1>1, <1>2, <1>3 DEF Checking
    <3> QED BY <1>3, <3>1, <3>2 DEF Locals
  <2>3. /\ call'.at \in CallStages \ {"dequeuing"} /\ call'.limit \in 0..MaxBatch
        /\ Len(call'.answer) <= call'.limit /\ call'.at \notin Listing
        /\ call'.at # "check_queue"
    BY <1>3 DEF IInv, TypeOK, CallStages, Listing
  <2>4. ToSet(call.found) = {}
    BY <1>4 DEF ToSet
  <2>5. UNCHANGED <<remote, items, marks, results, bundles, retired, runs>> /\ next_id' = next_id
        /\ size' = size
    BY <1>1, <1>4 DEF queueVars
  <2> QED BY <1>3, <1>4, <2>1, <2>2, <2>3, <2>4, <2>5, LookingKeeps
<1>5. CASE call.found # <<>>
  <2>1. /\ items' = Put(call.found, Recovered.next_id)
        /\ next_id' = Recovered.next_id + Len(call.found)
        /\ size' = Recovered.size + Len(call.found)
        /\ bundles' = With(ToSet(call.found), "queued")
    BY <1>1, <1>5
  <2>2. /\ bundles' \in Seq(Bundle) /\ DOMAIN bundles' = DOMAIN bundles
        /\ \A b \in DOMAIN bundles :
             /\ bundles'[b].file = bundles[b].file
             /\ bundles'[b].stage = IF b \in ToSet(call.found) THEN "queued" ELSE bundles[b].stage
    <3>1. bundles \in Seq(Bundle) /\ "queued" \in Stages
      BY DEF IInv, TypeOK, Bundle, Stages
    <3> QED BY <2>1, <3>1, Staged
  <2>3. /\ DOMAIN items' \subseteq Int /\ IsFiniteSet(DOMAIN items')
        /\ {items'[k] : k \in DOMAIN items'} = ToSet(call.found) /\ IsInjective(items')
    <3>1. Recovered.next_id \in Int
      BY Recovery DEF IInv
    <3> QED BY <1>1, <1>2, <2>1, <3>1, PutInEmpty
  <2>4. \A b : FileOf(b)' = bundles'[b].file
    BY DEF FileOf
  <2>5. /\ InStage({"queued"}) = {} /\ ToSet(call.found) = InStage({"found"})
        /\ ToSet(call.answer) \subseteq InStage({"taken"})
    BY <1>1 DEF IInv, Stored
  <2>6. /\ InStage({"queued"})' = ToSet(call.found) /\ InStage({"found"})' = {}
        /\ InStage({"taken"})' = InStage({"taken"}) /\ InStage(Held)' = InStage(Held)
        /\ InStage({"marked", "done"})' = InStage({"marked", "done"})
        /\ InStage({"found", "queued"} \cup Held)' = InStage({"found", "queued"} \cup Held)
    BY <2>2, <2>5 DEF InStage, Held
  <2>7. TypeOK'
    <3>1. bundles' \in Seq([file : Files, stage : Stages])
      BY <2>2 DEF Bundle
    <3>2. call'.at \in CallStages /\ call'.limit \in 0..MaxBatch
          /\ Len(call'.answer) <= call'.limit
      BY <1>3 DEF IInv, TypeOK, CallStages
    <3>3. next_id' \in Int /\ size' \in Nat
      <4>1. Recovered.next_id \in Int /\ Recovered.size \in Nat
        BY Recovery DEF IInv
      <4>2. Len(call.found) \in Nat
        BY <1>2
      <4> QED BY <2>1, <4>1, <4>2
    <3>4. ASSUME NEW k \in DOMAIN items' PROVE items'[k] \in DOMAIN bundles'
      <4>1. items'[k] \in InStage({"found"})
        BY <2>3, <2>5
      <4> QED BY <2>2, <4>1 DEF InStage
    <3> QED BY <1>1, <2>3, <3>1, <3>2, <3>3, <3>4 DEF IInv, TypeOK, CallStages, marks
  <2>8. Finite'
    BY <1>1, <2>3 DEF IInv, Finite
  <2>9. Locals'
    <3>1. /\ <<>> \in Seq(Files) /\ <<>> \in Seq(DOMAIN bundles') /\ DOMAIN <<>> = {}
          /\ call'.answer \in Seq(DOMAIN bundles')
      BY <1>2, <1>3, <2>2
    <3>2. IsInjective(<<>>)
      BY <3>1 DEF IsInjective
    <3>3. ~retired' /\ call'.at \notin Checking
      BY <1>1, <1>2, <1>3 DEF Checking
    <3> QED BY <1>3, <3>1, <3>2, <3>3 DEF Locals
  <2>10. Stored'
    <3>1. ToSet(call'.found) = {} /\ call'.at \notin Listing
      BY <1>3 DEF ToSet, Listing
    <3> QED BY <1>3, <2>3, <2>5, <2>6, <3>1 DEF Stored
  <2>11. \A c \in DOMAIN bundles : FileOf(c)' = FileOf(c)
    BY <2>2 DEF FileOf
  <2>12. OneOpen' /\ Marked'
    BY <1>1, <1>3, <2>6, <2>11, OpenKept, MarksKept
  <2> QED BY <2>7, <2>8, <2>9, <2>10, <2>12 DEF IInv
<1> QED BY <1>4, <1>5

LEMMA MarkStep ==
  ASSUME IInv, MarkInFlight
  PROVE  IInv'
<1>0. PICK h : h = HeadId
  OBVIOUS
<1>1. /\ call.at = "peeking" /\ StillNeeded /\ HasHead
      /\ in_flight' = in_flight \cup {FileOf(items[h])}
      /\ call' = [call EXCEPT !.at = "dequeuing"]
      /\ UNCHANGED <<remote, queueVars, processed, results, bundles, retired, runs>>
  BY <1>0 DEF MarkInFlight, MarkedInFlight
<1>2. call = [at |-> call.at, limit |-> call.limit, todo |-> call.todo, found |-> call.found,
              answer |-> call.answer]
  BY DEF IInv, Locals
<1>3. /\ call'.at = "dequeuing" /\ call'.limit = call.limit /\ call'.todo = call.todo
      /\ call'.found = call.found /\ call'.answer = call.answer
      /\ call' = [at |-> call'.at, limit |-> call'.limit, todo |-> call'.todo,
                  found |-> call'.found, answer |-> call'.answer]
  BY <1>1, <1>2
<1>4. /\ h \in DOMAIN items /\ items[h] \in DOMAIN bundles
      /\ bundles \in Seq(Bundle)
  BY <1>0, <1>1 DEF HasHead, IInv, TypeOK, Bundle
<1>5. FileOf(items[h]) \in Files
  <2>1. bundles[items[h]] \in Bundle
    BY <1>4
  <2> QED BY <2>1 DEF Bundle, FileOf
<1>6. (\A S : InStage(S)' = InStage(S)) /\ (\A b : FileOf(b)' = FileOf(b))
  BY <1>1 DEF InStage, FileOf
<1>7. TypeOK'
  BY <1>1, <1>3, <1>5 DEF IInv, TypeOK, queueVars
<1>8. Finite'
  BY <1>1 DEF IInv, Finite, queueVars
<1>9. Locals'
  <2>1. ~retired
    BY <1>1 DEF IInv, Locals
  <2>2. ~retired'
    BY <1>1, <2>1
  <2>3. call.at \notin Checking /\ call'.at \notin Checking
        /\ call.todo = <<>> /\ call.found = <<>>
    BY <1>1, <1>3 DEF IInv, Locals, Checking
  <2>4. /\ call'.todo \in Seq(Files) /\ IsInjective(call'.todo)
        /\ call'.found \in Seq(DOMAIN bundles') /\ IsInjective(call'.found)
        /\ call'.answer \in Seq(DOMAIN bundles')
    BY <1>1, <1>3 DEF IInv, Locals
  <2> QED BY <1>3, <2>2, <2>3, <2>4 DEF Locals
<1>10. Stored'
  <2>1. call'.at \notin Listing
    BY <1>3 DEF Listing
  <2>2. items' = items
    BY <1>1 DEF queueVars
  <2>3. /\ {items[k] : k \in DOMAIN items} = InStage({"queued"})' /\ IsInjective(items)
        /\ ToSet(call.found) = InStage({"found"})'
        /\ ToSet(call.answer) \subseteq InStage({"taken"})'
        /\ \A b \in ToSet(call.found) : FileOf(b)' \notin ToSet(call.todo)
    BY <1>6 DEF IInv, Stored
  <2> QED BY <1>3, <2>1, <2>2, <2>3 DEF Stored
<1>11. OneOpen'
  BY <1>3, <1>6, OpenKept
<1>12. Marked'
  <2>1. (\A b \in InStage(Held)' : FileOf(b)' \in in_flight')
        /\ (\A b \in InStage({"marked", "done"})' : FileOf(b)' \in processed')
    BY <1>1, <1>6 DEF IInv, Marked
  <2>2. HeadId' = HeadId /\ HasHead' /\ StillNeeded'
    BY <1>1, <1>3 DEF HeadId, HasHead, StillNeeded, queueVars
  <2>3. items'[HeadId'] = items[h]
    BY <1>0, <1>1, <2>2 DEF queueVars
  <2>4. FileOf(items[HeadId])' = FileOf(items[h])
    BY <1>1, <2>3 DEF FileOf
  <2>5. FileOf(items[HeadId])' \in in_flight'
    BY <1>1, <2>4
  <2> QED BY <2>1, <2>2, <2>5 DEF Marked
<1> QED BY <1>7, <1>8, <1>9, <1>10, <1>11, <1>12 DEF IInv

LEMMA DequeueStep ==
  ASSUME IInv, Dequeue
  PROVE  IInv'
<1>0. PICK h, b : h = HeadId /\ b = items[HeadId]
  OBVIOUS
<1>1. /\ call.at = "dequeuing"
      /\ items' = [k \in DOMAIN items \ {h} |-> items[k]]
      /\ size' = size - 1 /\ next_id' = next_id
      /\ bundles' = With({b}, "taken")
      /\ call' = [call EXCEPT !.at = "peeking", !.answer = Append(call.answer, b)]
      /\ UNCHANGED <<remote, marks, results, retired, runs>>
  BY <1>0 DEF Dequeue, Without
<1>2. /\ call = [at |-> call.at, limit |-> call.limit, todo |-> call.todo, found |-> call.found,
                 answer |-> call.answer]
      /\ call.answer \in Seq(DOMAIN bundles) /\ call.todo = <<>> /\ call.found = <<>> /\ ~retired
  BY <1>1 DEF IInv, Locals, Checking
<1>3. /\ h \in DOMAIN items /\ b = items[h] /\ b \in DOMAIN bundles /\ size # 0
      /\ FileOf(b) \in in_flight /\ Len(call.answer) < call.limit
      /\ bundles[b].stage = "queued"
  BY <1>0, <1>1 DEF IInv, Marked, HasHead, StillNeeded, TypeOK, Stored, InStage
<1>4. /\ call'.at = "peeking" /\ call'.limit = call.limit /\ call'.todo = <<>>
      /\ call'.found = <<>> /\ call'.answer = Append(call.answer, b)
      /\ call' = [at |-> call'.at, limit |-> call'.limit, todo |-> call'.todo,
                  found |-> call'.found, answer |-> call'.answer]
  BY <1>1, <1>2
<1>5. /\ bundles' \in Seq(Bundle) /\ DOMAIN bundles' = DOMAIN bundles
      /\ \A c \in DOMAIN bundles :
           /\ bundles'[c].file = bundles[c].file
           /\ bundles'[c].stage = IF c \in {b} THEN "taken" ELSE bundles[c].stage
  <2>1. bundles \in Seq(Bundle) /\ "taken" \in Stages
    BY DEF IInv, TypeOK, Bundle, Stages
  <2> QED BY <1>1, <2>1, Staged
<1>6. \A c \in DOMAIN bundles : FileOf(c)' = FileOf(c)
  BY <1>5 DEF FileOf
<1>7. /\ InStage({"queued"})' = InStage({"queued"}) \ {b}
      /\ InStage({"found"})' = InStage({"found"})
      /\ InStage({"taken"})' = InStage({"taken"}) \cup {b}
      /\ InStage(Held)' = InStage(Held) \cup {b}
      /\ InStage({"marked", "done"})' = InStage({"marked", "done"})
      /\ InStage({"found", "queued"} \cup Held)' = InStage({"found", "queued"} \cup Held)
  BY <1>3, <1>5 DEF InStage, Held
<1>8. /\ DOMAIN items' = DOMAIN items \ {h}
      /\ \A k \in DOMAIN items' : items'[k] = items[k]
  BY <1>1
<1>9. /\ call'.answer \in Seq(DOMAIN bundles)
      /\ ToSet(call'.answer) = ToSet(call.answer) \cup {b}
      /\ Len(call'.answer) = Len(call.answer) + 1 /\ Len(call.answer) \in Nat
  BY <1>2, <1>3, <1>4, ToSetAppend
<1>10. TypeOK'
  <2>1. bundles' \in Seq([file : Files, stage : Stages])
    BY <1>5 DEF Bundle
  <2>2. call.limit \in 0..MaxBatch /\ MaxBatch \in Nat
    BY LocatorAssumption DEF IInv, TypeOK
  <2>3. Len(call'.answer) <= call'.limit
    <3> DEFINE l == Len(call.answer)
               m == call.limit
    <3>1. l \in Nat /\ l < m /\ m \in Nat
      BY <1>3, <1>9, <2>2
    <3> HIDE DEF l, m
    <3>2. l + 1 <= m
      BY <3>1
    <3> QED BY <1>4, <1>9, <3>2 DEF l, m
  <2>4. size' \in Nat /\ next_id' \in Int
    BY <1>1, <1>3 DEF IInv, TypeOK
  <2>5. DOMAIN items' \subseteq Int /\ \A k \in DOMAIN items' : items'[k] \in DOMAIN bundles'
    BY <1>5, <1>8 DEF IInv, TypeOK
  <2> QED BY <1>1, <1>4, <2>1, <2>2, <2>3, <2>4, <2>5 DEF IInv, TypeOK, marks
<1>11. Finite'
  BY <1>1, <1>8, FS_Subset DEF IInv, Finite
<1>12. Locals'
  <2>1. /\ DOMAIN <<>> = {} /\ <<>> \in Seq(Files) /\ <<>> \in Seq(DOMAIN bundles')
        /\ call'.answer \in Seq(DOMAIN bundles')
    BY <1>5, <1>9
  <2>2. IsInjective(<<>>)
    BY <2>1 DEF IsInjective
  <2>3. ~retired' /\ call'.at \notin Checking
    BY <1>1, <1>2, <1>4 DEF Checking
  <2> QED BY <1>4, <2>1, <2>2, <2>3 DEF Locals
<1>13. Stored'
  <2>1. \A j, k \in DOMAIN items : items[j] = items[k] => j = k
    BY DEF IInv, Stored, IsInjective
  <2>2. IsInjective(items')
    BY <1>8, <2>1 DEF IsInjective
  <2>3. {items'[k] : k \in DOMAIN items'} = {items[k] : k \in DOMAIN items} \ {b}
    <3>1. \A k \in DOMAIN items : k # h => items[k] # b
      BY <1>3, <2>1
    <3>2. {items'[k] : k \in DOMAIN items'} = {items[k] : k \in DOMAIN items \ {h}}
      BY <1>8
    <3> QED BY <1>3, <3>1, <3>2
  <2>4. {items'[k] : k \in DOMAIN items'} = InStage({"queued"})'
    BY <1>7, <2>3 DEF IInv, Stored
  <2>5. ToSet(call'.found) = InStage({"found"})' /\ ToSet(call'.answer) \subseteq InStage({"taken"})'
    BY <1>2, <1>4, <1>7, <1>9 DEF IInv, Stored
  <2>6. call'.at \notin Listing /\ ToSet(call'.found) = {}
    BY <1>4 DEF Listing, ToSet
  <2> QED BY <2>2, <2>4, <2>5, <2>6 DEF Stored
<1>14. OneOpen'
  BY <1>4, <1>6, <1>7, OpenKept
<1>15. Marked'
  BY <1>1, <1>3, <1>4, <1>6, <1>7, MarksKept
<1> QED BY <1>10, <1>11, <1>12, <1>13, <1>14, <1>15 DEF IInv

LEMMA ReturnStep ==
  ASSUME IInv, Return
  PROVE  IInv'
<1>1. /\ call.at = "peeking" /\ bundles' = With(ToSet(call.answer), "handed")
      /\ call' = Idle
      /\ UNCHANGED <<remote, queueVars, marks, results, runs>>
  BY DEF Return
<1>2. retired' = (call.answer = <<>>)
  BY DEF Return
<1>3. /\ call'.at = "idle" /\ call'.limit = 0 /\ call'.todo = <<>>
      /\ call'.found = <<>> /\ call'.answer = <<>>
      /\ call' = [at |-> call'.at, limit |-> call'.limit, todo |-> call'.todo,
                  found |-> call'.found, answer |-> call'.answer]
  BY <1>1 DEF Idle
<1>4. ToSet(call.answer) \subseteq InStage({"taken"}) /\ call.found = <<>>
  BY <1>1 DEF IInv, Stored, Locals, Checking
<1>5. /\ bundles' \in Seq(Bundle) /\ DOMAIN bundles' = DOMAIN bundles
      /\ \A c \in DOMAIN bundles :
           /\ bundles'[c].file = bundles[c].file
           /\ bundles'[c].stage = IF c \in ToSet(call.answer) THEN "handed" ELSE bundles[c].stage
  <2>1. bundles \in Seq(Bundle) /\ "handed" \in Stages
    BY DEF IInv, TypeOK, Bundle, Stages, InProgress
  <2> QED BY <1>1, <2>1, Staged
<1>6. \A c \in DOMAIN bundles : FileOf(c)' = FileOf(c)
  BY <1>5 DEF FileOf
<1>7. /\ InStage({"queued"})' = InStage({"queued"})
      /\ InStage({"found"})' = InStage({"found"})
      /\ InStage(Held)' = InStage(Held)
      /\ InStage({"marked", "done"})' = InStage({"marked", "done"})
      /\ InStage({"found", "queued"} \cup Held)' = InStage({"found", "queued"} \cup Held)
  BY <1>4, <1>5 DEF InStage, Held
<1>8. TypeOK'
  <2>1. bundles' \in Seq([file : Files, stage : Stages])
    BY <1>5 DEF Bundle
  <2>2. retired' \in BOOLEAN
    BY <1>2
  <2>3. call'.limit \in 0..MaxBatch /\ Len(call'.answer) <= call'.limit
    BY <1>3, LocatorAssumption
  <2> QED BY <1>1, <1>3, <1>5, <2>1, <2>2, <2>3 DEF IInv, TypeOK, marks, queueVars
<1>9. Finite'
  BY <1>1 DEF IInv, Finite, queueVars
<1>10. Locals'
  <2>1. DOMAIN <<>> = {} /\ <<>> \in Seq(Files) /\ <<>> \in Seq(DOMAIN bundles')
    OBVIOUS
  <2>2. IsInjective(<<>>)
    BY <2>1 DEF IsInjective
  <2>3. call'.at \notin Checking
    BY <1>3 DEF Checking
  <2> QED BY <1>3, <2>1, <2>2, <2>3 DEF Locals
<1>11. Stored'
  <2>1. ToSet(call'.found) = {} /\ ToSet(call'.answer) = {} /\ call'.at \notin Listing
    BY <1>3 DEF ToSet, Listing
  <2>2. /\ {items'[k] : k \in DOMAIN items'} = InStage({"queued"}) /\ IsInjective(items')
    BY <1>1 DEF IInv, Stored, queueVars
  <2>3. InStage({"found"}) = {}
    BY <1>3, <1>4, <2>1 DEF IInv, Stored
  <2> QED BY <1>7, <2>1, <2>2, <2>3 DEF Stored
<1>12. OneOpen'
  BY <1>3, <1>6, <1>7, OpenKept
<1>13. Marked'
  BY <1>1, <1>3, <1>6, <1>7, MarksKept
<1> QED BY <1>8, <1>9, <1>10, <1>11, <1>12, <1>13 DEF IInv

-----------------------------------------------------------------------------
(* The environment: files arrive, a run ends, the process is lost *)

LEMMA ArrivalStep ==
  ASSUME IInv, FileArrives
  PROVE  IInv'
<1>1. PICK f \in Files \ remote : remote' = remote \cup {f}
  BY DEF FileArrives
<1>2. UNCHANGED <<queueVars, marks, results, bundles, call, retired, runs>>
  BY DEF FileArrives
<1> USE <1>2 DEF queueVars, marks
<1>3. TypeOK'
  BY <1>1 DEF IInv, TypeOK
<1>4. Finite'
  BY <1>1, FS_AddElement DEF IInv, Finite
<1>5. Locals' /\ Stored'
  BY DEF IInv, Locals, Stored, InStage, FileOf
<1>6. OneOpen' /\ Marked'
  BY DEF IInv, OneOpen, Marked, InStage, FileOf, HeadId, HasHead, StillNeeded
<1> QED BY <1>3, <1>4, <1>5, <1>6 DEF IInv

\* The locals of a run that has just started.
LEMMA FreshLocals ==
  ASSUME NewRun
  PROVE  /\ call'.at = "idle" /\ call'.limit = 0 /\ call'.todo = <<>>
         /\ call'.found = <<>> /\ call'.answer = <<>> /\ ToSet(call'.found) = {}
         /\ ToSet(call'.answer) = {} /\ Locals'
         /\ call'.limit \in 0..MaxBatch /\ Len(call'.answer) <= call'.limit
         /\ call'.at \notin Listing
<1>1. call' = Idle /\ ~retired'
  BY DEF NewRun
<1>2. /\ call'.at = "idle" /\ call'.limit = 0 /\ call'.todo = <<>>
      /\ call'.found = <<>> /\ call'.answer = <<>>
      /\ call' = [at |-> call'.at, limit |-> call'.limit, todo |-> call'.todo,
                  found |-> call'.found, answer |-> call'.answer]
  BY <1>1 DEF Idle
<1>3. DOMAIN <<>> = {} /\ <<>> \in Seq(Files) /\ <<>> \in Seq(DOMAIN bundles')
  OBVIOUS
<1>4. IsInjective(<<>>) /\ ToSet(<<>>) = {}
  BY <1>3 DEF IsInjective, ToSet
<1>5. call'.at \notin Checking /\ call'.at \notin Listing
  BY <1>2 DEF Checking, Listing
<1>6. Locals'
  BY <1>1, <1>2, <1>3, <1>4, <1>5 DEF Locals
<1>7. call'.limit \in 0..MaxBatch /\ Len(call'.answer) <= call'.limit
  BY <1>2, LocatorAssumption
<1> QED BY <1>2, <1>4, <1>5, <1>6, <1>7

LEMMA EndRunStep ==
  ASSUME IInv, EndRun
  PROVE  IInv'
<1>1. NewRun /\ UNCHANGED <<queueVars, bundles>> /\ call.at = "idle"
  BY DEF EndRun, IInv, Locals
<1>2. /\ UNCHANGED <<remote, marks, results>> /\ runs' = runs + 1 /\ runs < MaxRuns
      /\ retired' = FALSE
  BY <1>1 DEF NewRun
<1>3. call.found = <<>> /\ ToSet(<<>>) = {}
  BY <1>1 DEF IInv, Locals, Checking, ToSet
<1>4. (\A S : InStage(S)' = InStage(S)) /\ (\A b : FileOf(b)' = FileOf(b))
  BY <1>1 DEF InStage, FileOf
<1>5. TypeOK'
  <2>1. runs' \in 1..MaxRuns
    BY <1>2, LocatorAssumption DEF IInv, TypeOK
  <2>2. retired' \in BOOLEAN
    BY <1>2
  <2> QED BY <1>1, <1>2, <2>1, <2>2, FreshLocals DEF IInv, TypeOK, queueVars, marks
<1>6. Finite' /\ Locals'
  BY <1>1, <1>2, FreshLocals DEF IInv, Finite, queueVars
<1>7. Stored'
  <2>1. {items'[k] : k \in DOMAIN items'} = InStage({"queued"})' /\ IsInjective(items')
    BY <1>1, <1>4 DEF IInv, Stored, queueVars
  <2>2. InStage({"found"})' = {}
    BY <1>3, <1>4 DEF IInv, Stored
  <2> QED BY <1>1, <2>1, <2>2, FreshLocals DEF Stored
<1>8. OneOpen' /\ Marked'
  <2>1. call'.at = "idle"
    BY <1>1, FreshLocals
  <2> QED BY <1>2, <1>4, <2>1, OpenKept, MarksKept
<1> QED BY <1>5, <1>6, <1>7, <1>8 DEF IInv

\* What the loss of the process leaves of the stages: what was found is stored or gone, what
\* was dequeued is lost, and so is what the deletion of a dequeue has taken out.
LEMMA CrashStages ==
  ASSUME IInv, NEW keep, NEW out, bundles \in Seq(Bundle), keep \subseteq InStage({"found"}),
         out \subseteq InStage({"queued"}),
         bundles' = [b \in DOMAIN bundles |-> bundles'[b]],
         \A b \in DOMAIN bundles :
           bundles'[b] = [bundles[b] EXCEPT !.stage = LeftOf(b, keep, out)]
  PROVE  /\ bundles' \in Seq(Bundle) /\ DOMAIN bundles' = DOMAIN bundles
         /\ \A b \in DOMAIN bundles : bundles'[b].file = bundles[b].file
         /\ InStage({"queued"})' = (InStage({"queued"}) \ out) \cup keep
         /\ InStage({"found"})' = {}
         /\ InStage(Held)' \subseteq InStage(Held) \cup out
         /\ InStage({"marked", "done"})' \subseteq InStage({"marked", "done"})
<1> DEFINE S(b) == LeftOf(b, keep, out)
<1>1. DOMAIN bundles = 1..Len(bundles) /\ Len(bundles) \in Nat
      /\ \A b \in DOMAIN bundles : bundles[b] \in Bundle
  OBVIOUS
<1>2. DOMAIN bundles' = DOMAIN bundles
      /\ \A b \in DOMAIN bundles : bundles'[b] = [bundles[b] EXCEPT !.stage = S(b)]
  OBVIOUS
<1>3. ASSUME NEW b \in DOMAIN bundles
      PROVE  /\ bundles[b].stage = "found" /\ b \in keep => S(b) = "queued"
             /\ bundles[b].stage = "found" /\ b \notin keep => S(b) = "dropped"
             /\ bundles[b].stage = "taken" => S(b) = "lost"
             /\ bundles[b].stage = "queued" /\ b \in out => S(b) = "lost"
             /\ bundles[b].stage = "queued" /\ b \notin out => S(b) = "queued"
             /\ bundles[b].stage \in {"handed", "loading"} => S(b) = "lost"
             /\ bundles[b].stage = "removed" => S(b) = "unmarked"
             /\ bundles[b].stage = "marked" => S(b) = "done"
             /\ bundles[b].stage \in {"dropped", "unmarked", "done", "failed", "lost"}
                  => S(b) = bundles[b].stage
  <2>1. bundles[b].stage = "found" /\ b \in keep => S(b) = "queued"
    BY DEF LeftOf, InStage, InProgress, InHand
  <2>2. bundles[b].stage = "found" /\ b \notin keep => S(b) = "dropped"
    BY DEF LeftOf, InStage, InProgress, InHand
  <2>3. bundles[b].stage = "taken" => S(b) = "lost"
    BY DEF LeftOf, InStage, InProgress, InHand
  <2>4. bundles[b].stage = "queued" /\ b \in out => S(b) = "lost"
    BY DEF LeftOf, InStage, InProgress, InHand
  <2>5. bundles[b].stage = "queued" /\ b \notin out => S(b) = "queued"
    BY DEF LeftOf, InStage, InProgress, InHand
  <2>6. bundles[b].stage \in {"handed", "loading"} => S(b) = "lost"
    BY DEF LeftOf, InStage, InProgress, InHand, Stopped
  <2>7. bundles[b].stage = "removed" => S(b) = "unmarked"
    BY DEF LeftOf, InStage, InProgress, InHand, Stopped
  <2>8. bundles[b].stage = "marked" => S(b) = "done"
    BY DEF LeftOf, InStage, InProgress, InHand, Stopped
  <2>9. bundles[b].stage \in {"dropped", "unmarked", "done", "failed", "lost"}
          => S(b) = bundles[b].stage
    BY DEF LeftOf, InStage, InProgress, InHand
  <2> QED BY <2>1, <2>2, <2>3, <2>4, <2>5, <2>6, <2>7, <2>8, <2>9
<1> HIDE DEF S
<1>4. \A b \in DOMAIN bundles : bundles[b].stage \in
        {"found", "taken", "queued", "handed", "loading", "removed", "marked", "dropped",
         "unmarked", "done", "failed", "lost"}
  BY <1>1 DEF Bundle, Stages, InProgress, InHand
<1>5. ASSUME NEW b \in DOMAIN bundles
      PROVE  /\ S(b) \in Stages
             /\ bundles'[b] \in Bundle /\ bundles'[b].file = bundles[b].file
             /\ bundles'[b].stage = S(b)
  <2>1. S(b) \in Stages
    BY <1>3, <1>4 DEF Stages, InProgress, InHand
  <2>2. bundles[b] = [file |-> bundles[b].file, stage |-> bundles[b].stage]
        /\ bundles[b].file \in Files
    BY <1>1 DEF Bundle
  <2>3. PICK x : x = S(b)
    OBVIOUS
  <2>4. bundles'[b] = [bundles[b] EXCEPT !.stage = x]
    BY <1>2, <2>3
  <2>5. bundles'[b] = [file |-> bundles[b].file, stage |-> x]
    BY <2>2, <2>4
  <2> QED BY <2>1, <2>2, <2>3, <2>5 DEF Bundle
<1>6. bundles' \in Seq(Bundle)
  <2>1. bundles' \in [1..Len(bundles) -> Bundle]
    BY <1>1, <1>2, <1>5
  <2> QED BY <1>1, <2>1
<1>7. InStage({"queued"})' = (InStage({"queued"}) \ out) \cup keep
  <2>1. \A b \in DOMAIN bundles : bundles'[b].stage = "queued" <=>
          (bundles[b].stage = "queued" /\ b \notin out) \/ b \in keep
    BY <1>3, <1>4, <1>5 DEF InStage
  <2> QED BY <1>2, <2>1 DEF InStage
<1>8. InStage({"found"})' = {}
  <2>1. \A b \in DOMAIN bundles : bundles'[b].stage # "found"
    BY <1>3, <1>4, <1>5
  <2> QED BY <1>2, <2>1 DEF InStage
<1>9. InStage(Held)' \subseteq InStage(Held) \cup out
  <2>1. \A b \in DOMAIN bundles : bundles'[b].stage \in Held =>
          bundles[b].stage \in Held \/ b \in out
    BY <1>3, <1>4, <1>5 DEF Held
  <2> QED BY <1>2, <2>1 DEF InStage
<1>10. InStage({"marked", "done"})' \subseteq InStage({"marked", "done"})
  <2>1. \A b \in DOMAIN bundles : bundles'[b].stage \in {"marked", "done"} =>
          bundles[b].stage \in {"marked", "done"}
    BY <1>3, <1>4, <1>5
  <2> QED BY <1>2, <2>1 DEF InStage
<1> QED BY <1>2, <1>5, <1>6, <1>7, <1>8, <1>9, <1>10

\* Nothing more is put in the queue.
LEMMA PutNothing ==
  ASSUME NEW first \in Int
  PROVE  /\ DOMAIN Put(<<>>, first) = DOMAIN items
         /\ \A k \in DOMAIN items : Put(<<>>, first)[k] = items[k]
<1>1. Len(<<>>) = 0
  OBVIOUS
<1>2. first..(first + Len(<<>>) - 1) = {}
  BY <1>1
<1> QED BY <1>2 DEF Put

LEMMA CrashStep ==
  ASSUME IInv, Crash
  PROVE  IInv'
<1>1. /\ NewRun /\ UNCHANGED <<remote, marks, results, next_id, size>>
      /\ runs' = runs + 1 /\ runs < MaxRuns /\ retired' = FALSE
  BY DEF Crash, NewRun
<1>2. PICK stored \in 0..Len(call.found), deleted \in BOOLEAN :
        LET kept == IF call.at = "enqueuing" THEN SubSeq(call.found, 1, stored) ELSE <<>>
            gone == IF call.at = "dequeuing" /\ deleted THEN {HeadId} ELSE {}
        IN /\ items' = [k \in DOMAIN Put(kept, Recovered.next_id) \ gone |->
                          Put(kept, Recovered.next_id)[k]]
           /\ bundles' = [b \in DOMAIN bundles |->
                [bundles[b] EXCEPT !.stage = LeftOf(b, ToSet(kept), {items[k] : k \in gone})]]
  BY DEF Crash
<1>3. PICK kept : kept = IF call.at = "enqueuing" THEN SubSeq(call.found, 1, stored) ELSE <<>>
  OBVIOUS
<1>4. PICK gone : gone = IF call.at = "dequeuing" /\ deleted THEN {HeadId} ELSE {}
  OBVIOUS
<1>5. PICK first, p : first = Recovered.next_id /\ p = Put(kept, first)
  OBVIOUS
<1>6. PICK out : out = {items[k] : k \in gone}
  OBVIOUS
<1>7. items' = [k \in DOMAIN p \ gone |-> p[k]]
  BY <1>2, <1>3, <1>4, <1>5
<1>8. bundles' = [b \in DOMAIN bundles |->
                   [bundles[b] EXCEPT !.stage = LeftOf(b, ToSet(kept), out)]]
  BY <1>2, <1>3, <1>4, <1>6
<1>9. /\ bundles \in Seq(Bundle)
      /\ call.found \in Seq(DOMAIN bundles) /\ IsInjective(call.found)
      /\ ToSet(call.found) = InStage({"found"})
      /\ {items[k] : k \in DOMAIN items} = InStage({"queued"})
      /\ \A j, k \in DOMAIN items : items[j] = items[k] => j = k
      /\ DOMAIN items \subseteq Int /\ IsFiniteSet(DOMAIN items)
      /\ first \in Int
  BY <1>5, Recovery DEF IInv, TypeOK, Bundle, Locals, Stored, IsInjective, Finite
\* What is stored: the head may be gone, or a part of what was found may be there.
<1>10. /\ ToSet(kept) \subseteq InStage({"found"}) /\ out \subseteq InStage({"queued"})
       /\ \A b \in out : FileOf(b) \in in_flight
       /\ DOMAIN items' \subseteq Int /\ IsFiniteSet(DOMAIN items') /\ IsInjective(items')
       /\ {items'[k] : k \in DOMAIN items'} = (InStage({"queued"}) \ out) \cup ToSet(kept)
  <2>1. CASE call.at = "enqueuing"
    <3>1. DOMAIN items = {} /\ gone = {} /\ out = {} /\ kept = SubSeq(call.found, 1, stored)
      BY <1>3, <1>4, <1>6, <2>1 DEF IInv, Stored, Listing
    <3>2. /\ kept \in Seq(DOMAIN bundles) /\ IsInjective(kept)
          /\ ToSet(kept) \subseteq ToSet(call.found)
      BY <1>9, <3>1, Prefix
    <3>3. /\ DOMAIN p \subseteq Int /\ IsFiniteSet(DOMAIN p) /\ IsInjective(p)
          /\ {p[k] : k \in DOMAIN p} = ToSet(kept)
      <4>1. /\ DOMAIN Put(kept, first) \subseteq Int /\ IsFiniteSet(DOMAIN Put(kept, first))
            /\ IsInjective(Put(kept, first))
            /\ {Put(kept, first)[k] : k \in DOMAIN Put(kept, first)} = ToSet(kept)
        <5>1. DOMAIN items = {} /\ first \in Int
          BY <1>9, <3>1
        <5>2. kept \in Seq(DOMAIN bundles) /\ IsInjective(kept)
          BY <3>2
        <5> QED BY ONLY <5>1, <5>2, PutInEmpty
      <4> QED BY <1>5, <4>1
    <3>4. DOMAIN items' = DOMAIN p /\ \A k \in DOMAIN p : items'[k] = p[k]
      BY <1>7, <3>1
    <3>5. IsInjective(items') /\ {items'[k] : k \in DOMAIN items'} = ToSet(kept)
      BY <3>3, <3>4 DEF IsInjective
    <3>6. InStage({"queued"}) = {}
      BY <1>9, <3>1
    <3> QED BY <1>9, <3>1, <3>2, <3>3, <3>4, <3>5, <3>6
  <2>2. CASE call.at # "enqueuing"
    <3>1. kept = <<>> /\ ToSet(kept) = {}
      BY <1>3, <2>2 DEF ToSet
    <3>2. DOMAIN p = DOMAIN items /\ \A k \in DOMAIN items : p[k] = items[k]
      BY <1>5, <1>9, <3>1, PutNothing
    <3>3. /\ DOMAIN items' = DOMAIN items \ gone
          /\ \A k \in DOMAIN items' : items'[k] = items[k]
      BY <1>7, <3>2
    <3>4. gone \subseteq DOMAIN items /\ \A k \in gone : FileOf(items[k]) \in in_flight
      <4>1. call.at = "dequeuing" =>
              HeadId \in DOMAIN items /\ FileOf(items[HeadId]) \in in_flight
        BY DEF IInv, Marked, HasHead
      <4> QED BY <1>4, <4>1
    <3>5. out \subseteq InStage({"queued"}) /\ \A b \in out : FileOf(b) \in in_flight
      BY <1>6, <1>9, <3>4
    <3>6. {items'[k] : k \in DOMAIN items'} = {items[k] : k \in DOMAIN items} \ out
      <4>1. \A k \in DOMAIN items \ gone : items[k] \notin out
        BY <1>6, <1>9, <3>4
      <4>2. {items'[k] : k \in DOMAIN items'} = {items[k] : k \in DOMAIN items \ gone}
        BY <3>3
      <4> QED BY <1>6, <4>1, <4>2
    <3>7. IsInjective(items')
      BY <1>9, <3>3 DEF IsInjective
    <3>8. DOMAIN items' \subseteq Int /\ IsFiniteSet(DOMAIN items')
      BY <1>9, <3>3, FS_Subset
    <3> QED BY <1>9, <3>1, <3>5, <3>6, <3>7, <3>8
  <2> QED BY <2>1, <2>2
<1>11. /\ bundles' \in Seq(Bundle) /\ DOMAIN bundles' = DOMAIN bundles
       /\ \A b \in DOMAIN bundles : bundles'[b].file = bundles[b].file
       /\ InStage({"queued"})' = (InStage({"queued"}) \ out) \cup ToSet(kept)
       /\ InStage({"found"})' = {}
       /\ InStage(Held)' \subseteq InStage(Held) \cup out
       /\ InStage({"marked", "done"})' \subseteq InStage({"marked", "done"})
  <2>1. PICK keep : keep = ToSet(kept)
    OBVIOUS
  <2>2. /\ bundles' = [b \in DOMAIN bundles |-> bundles'[b]]
        /\ \A b \in DOMAIN bundles :
             bundles'[b] = [bundles[b] EXCEPT !.stage = LeftOf(b, keep, out)]
    BY <1>8, <2>1
  <2>3. keep \subseteq InStage({"found"}) /\ out \subseteq InStage({"queued"})
    BY <1>10, <2>1
  <2>4. /\ bundles' \in Seq(Bundle) /\ DOMAIN bundles' = DOMAIN bundles
        /\ \A b \in DOMAIN bundles : bundles'[b].file = bundles[b].file
        /\ InStage({"queued"})' = (InStage({"queued"}) \ out) \cup keep
        /\ InStage({"found"})' = {}
        /\ InStage(Held)' \subseteq InStage(Held) \cup out
        /\ InStage({"marked", "done"})' \subseteq InStage({"marked", "done"})
    BY <1>9, <2>2, <2>3, CrashStages
  <2> QED BY <2>1, <2>4
<1>12. \A b \in DOMAIN bundles : FileOf(b)' = FileOf(b)
  BY <1>11 DEF FileOf
<1>13. TypeOK'
  <2>1. runs' \in 1..MaxRuns
    BY <1>1, LocatorAssumption DEF IInv, TypeOK
  <2>2. retired' \in BOOLEAN
    BY <1>1
  <2>3. bundles' \in Seq([file : Files, stage : Stages])
    BY <1>11 DEF Bundle
  <2>4. \A k \in DOMAIN items' : items'[k] \in DOMAIN bundles'
    BY <1>10, <1>11 DEF InStage
  <2>5. /\ call'.at \in CallStages /\ call'.limit \in 0..MaxBatch
        /\ Len(call'.answer) <= call'.limit
    BY <1>1, FreshLocals DEF CallStages
  <2> QED BY <1>1, <1>10, <2>1, <2>2, <2>3, <2>4, <2>5 DEF IInv, TypeOK, marks, CallStages
<1>14. Finite' /\ Locals'
  BY <1>1, <1>10, FreshLocals DEF IInv, Finite
<1>15. Stored'
  BY <1>1, <1>10, <1>11, FreshLocals DEF Stored
<1>16. OneOpen' /\ Marked'
  <2>1. call'.at = "idle"
    BY <1>1, FreshLocals
  <2>2. InStage({"found", "queued"} \cup Held)' \subseteq InStage({"found", "queued"} \cup Held)
    <3>1. InStage({"found", "queued"} \cup Held)'
            = InStage({"found"})' \cup InStage({"queued"})' \cup InStage(Held)'
      BY DEF InStage
    <3>2. InStage({"found", "queued"} \cup Held)
            = InStage({"found"}) \cup InStage({"queued"}) \cup InStage(Held)
      BY DEF InStage
    <3> QED BY <1>10, <1>11, <3>1, <3>2
  <2>3. out \subseteq {c \in DOMAIN bundles : FileOf(c) \in in_flight}
    BY <1>10 DEF InStage
  <2> QED BY <1>1, <1>11, <1>12, <2>1, <2>2, <2>3, OpenKept, MarksKept
<1> QED BY <1>13, <1>14, <1>15, <1>16 DEF IInv

-----------------------------------------------------------------------------
(* The theorems *)

LEMMA LocatorInvariant == Spec => []IInv
<1> USE DEF IInv
<1>1. Init => IInv
  BY Begins
<1>2. IInv /\ [Next]_vars => IInv'
  <2> SUFFICES ASSUME IInv, [Next]_vars PROVE IInv'
    OBVIOUS
  <2> HIDE DEF IInv
  <2>1. CASE CallStep
    <3>1. ASSUME NEW n \in 1..MaxBatch, Begin(n) PROVE IInv'
      BY <3>1, BeginStep
    <3> QED BY <2>1, <3>1, ListStep, CheckSteps, CheckQueueStep, EnqueueStep, MarkStep, DequeueStep,
               ReturnStep DEF CallStep
  <2>2. ASSUME NEW b \in DOMAIN bundles, BundleStep(b) PROVE IInv'
    BY <2>2, HandlerStep
  <2>3. CASE FileArrives \/ EndRun \/ Crash
    BY <2>3, ArrivalStep, EndRunStep, CrashStep
  <2>4. CASE UNCHANGED vars
    <3> USE <2>4 DEF vars, queueVars, marks
    <3>1. TypeOK' /\ Finite'
      BY DEF IInv, TypeOK, Finite
    <3>2. Locals' /\ Stored'
      BY DEF IInv, Locals, Stored, InStage, FileOf
    <3>3. OneOpen' /\ Marked'
      BY DEF IInv, OneOpen, Marked, InStage, FileOf, HeadId, HasHead, StillNeeded
    <3> QED BY <3>1, <3>2, <3>3 DEF IInv
  <2> QED BY <2>1, <2>2, <2>3, <2>4 DEF Next
<1> HIDE DEF IInv
<1> QED BY <1>1, <1>2, PTL DEF Spec

\* Every variable keeps its type: an answer never holds more bundles than were asked for, and
\* the queue never holds an id of a bundle that was not minted.
THEOREM LocatorTypeCorrect == Spec => []TypeOK
<1>1. IInv => TypeOK
  BY DEF IInv
<1> QED BY <1>1, LocatorInvariant, PTL

\* Whatever the workers write while the call looks, and wherever a process is lost: no file
\* has two bundles in the queue or on their way.  A listing begins only when nothing is stored,
\* and until it has stored what it found, every other bundle of a file is told by its mark.
THEOREM OneBundlePerFile == Spec => []OneLiveBundle
<1>1. IInv => OneLiveBundle
  <2> SUFFICES ASSUME IInv, NEW b \in DOMAIN bundles, NEW c \in DOMAIN bundles,
                      Live(b), Live(c), FileOf(b) = FileOf(c)
               PROVE  b = c
    BY DEF OneLiveBundle
  <2>1. b \in InStage({"found", "queued"} \cup Held) /\ c \in InStage({"found", "queued"} \cup Held)
    BY DEF Live, InStage, Held
  <2> QED BY <2>1 DEF IInv, OneOpen
<1> QED BY <1>1, LocatorInvariant, PTL

\* A bundle that was stored is in the queue, or its file is marked as in flight or processed,
\* outside the two writes of its handler: a file is never forgotten, however often the process
\* is lost.
THEOREM FilesNotForgotten == Spec => []NeverForgotten
<1>1. IInv => NeverForgotten
  <2> SUFFICES ASSUME IInv, NEW b \in DOMAIN bundles,
                      bundles[b].stage \notin {"found", "dropped", "removed", "unmarked"},
                      b \notin {items[k] : k \in DOMAIN items}
               PROVE  FileOf(b) \in in_flight \cup processed
    BY DEF NeverForgotten
  <2>1. bundles[b].stage # "queued"
    BY DEF IInv, Stored, InStage
  <2>2. bundles \in Seq(Bundle)
    BY DEF IInv, TypeOK, Bundle
  <2>3. bundles[b] \in Bundle
    BY <2>2
  <2>4. bundles[b].stage \in Held \cup {"marked", "done"}
    BY <2>1, <2>3 DEF Bundle, Stages, InProgress, InHand, Held
  <2> QED BY <2>4 DEF IInv, Marked, InStage
<1> QED BY <1>1, LocatorInvariant, PTL
=============================================================================
