---------------------------- MODULE BundleLoaders ----------------------------
(***************************************************************************)
(* One load: a loader (HTTP, API, SFTP file or SFTP directory) that        *)
(* fetches, starts a bundle, adds the resource through the decorators and  *)
(* completes the bundle, down to the storage.  Tasks the load leaves       *)
(* behind (a wrapped upload, the tees' feeding tasks) go on beside it.     *)
(***************************************************************************)
EXTENDS ResourceDecorators

VARIABLE load \* where the load stands, the file it is at, the bundles it has finished

vars == <<conf, teeVars, storageVars, faults, decoratorVars, load>>

Init ==
  /\ TeeInit /\ StorageInit /\ DecoratorInit
  /\ load = [at |-> "fetch", file |-> 1, finished |-> 0]

LoadAt(at) == load' = [load EXCEPT !.at = at]
OnlyLoad == UNCHANGED <<teeVars, storageVars, decoratorVars>>

\* The request, the status check, the directory listing.  The HTTP loader may have no storage; a
\* directory without a matching file is an error.
Fetch ==
  /\ load.at = "fetch"
  /\ LoadAt(CASE conf.storage = "none" -> "loaded" [] conf.files = 0 -> "failed" [] OTHER -> "start")
  /\ OnlyLoad /\ UNCHANGED faults

\* A new bundle, with streams and tees of its own.
Start ==
  /\ load.at = "start"
  /\ StartBundle(load.file)
  /\ LoadAt("add")
  /\ stream' = [s \in Streams |-> FreshStream(s)]
  /\ feeder' = [t \in Tees |-> NoFeeder]
  /\ low' = NoPass /\ unz' = NoUnzip
  /\ UNCHANGED <<cut, dropped, faults>>

Add ==
  /\ load.at = "add"
  /\ AddResource
  /\ LoadAt("adding")
  /\ UNCHANGED <<stream, cut, dropped, completed, active, faults>>

\* The connection, the request, or opening the remote file raises; and before a bundle starts,
\* the SFTP loader's stat of the file or the storage itself: the bus has to answer, the file
\* storage makes a directory, S3 is not asked for anything.
CanRaise ==
  \/ load.at \in {"fetch", "add"}
  \/ load.at = "start" /\ (conf.storage # "s3" \/ conf.loader \in {"sftp_file", "sftp_dir"})

Raise == CanRaise /\ Fault /\ LoadAt("failed") /\ OnlyLoad

\* The response body raises where it stands.
SourceBreaks ==
  /\ load.at = "adding" /\ stream[Source].mark
  /\ Fault
  /\ stream' = [stream EXCEPT ![Source] = [n |-> 0, mark |-> FALSE]]
  /\ UNCHANGED <<feeder, cut, dropped, storageVars, decoratorVars, load>>

\* The HTTP loader never completes its bundle.
AfterAdd == IF conf.loader = "http" THEN "loaded" ELSE "complete"

AddEnds ==
  /\ load.at = "adding"
  /\ \/ AddedOk /\ LoadAt(AfterAdd)
     \/ AddRaised /\ LoadAt("failed")
  /\ OnlyLoad /\ UNCHANGED faults

Complete ==
  /\ load.at = "complete" /\ MayComplete
  /\ completed' = TRUE
  /\ LoadAt(HookOrder[1])
  /\ UNCHANGED <<teeVars, upload, pending, event, active, object, decoratorVars, faults>>

\* A directory's next file, each with a bundle of the same reference.
NextFile(finished) ==
  IF load.file < conf.files THEN [at |-> "start", file |-> load.file + 1, finished |-> finished]
  ELSE [at |-> "loaded", file |-> load.file, finished |-> finished]

AfterHook(step, finished) ==
  load' = IF step = HookOrder[1] THEN [load EXCEPT !.at = HookOrder[2], !.finished = finished]
          ELSE NextFile(finished)

\* The storage writes the bundle's metadata, or the bus takes note; a failure leaves the bundle
\* active and marked as completed.
Finish ==
  /\ load.at = "finish"
  /\ \/ active' = ActiveAfterFinish /\ AfterHook("finish", load.finished + 1) /\ UNCHANGED faults
     \/ Fault /\ LoadAt("failed") /\ UNCHANGED active
  /\ UNCHANGED <<teeVars, upload, pending, event, completed, object, decoratorVars>>

\* The completion callbacks of the loader and the locators.
Callbacks ==
  /\ load.at = "callbacks"
  /\ \/ AfterHook("callbacks", load.finished) /\ (UNCHANGED faults \/ (~CallbackRaises /\ Fault))
     \/ CallbackRaises /\ Fault /\ LoadAt("failed")
  /\ OnlyLoad

LoadStep == Fetch \/ Start \/ Add \/ AddEnds \/ Complete \/ Finish \/ Callbacks

TaskStep ==
  \/ (\E t \in Tees : FeedStep(t)) /\ UNCHANGED <<storageVars, faults, decoratorVars, load>>
  \/ (\E u \in Uploads : UploadStep(u)) /\ UNCHANGED <<decoratorVars, load>>
  \/ (TarGzStep \/ UnzipStep) /\ UNCHANGED load

Progress == (LoadStep \/ TaskStep) /\ UNCHANGED conf

Next ==
  Progress \/ ((Raise \/ SourceBreaks \/ (FileBreaks /\ UNCHANGED load)) /\ UNCHANGED conf)

\* Every task that can run does.
Spec == Init /\ [][Next]_vars /\ WF_vars(Progress)

-----------------------------------------------------------------------------
(* Properties *)

LoadStages == {"fetch", "start", "add", "adding", "complete", "callbacks", "finish", "loaded",
               "failed"}

TypeOK ==
  /\ TeeTypeOK /\ StorageTypeOK /\ DecoratorTypeOK
  /\ load.at \in LoadStages
  /\ load.file = 1 \/ load.file \in 1..conf.files
  /\ load.finished \in 0..load.file

Expected(u) == IF u \in {1, Gunzipped(1)} THEN Chunks ELSE 1

\* The file storage writes a name twice at once: the tar/gz decorator stores a compressed body
\* and its decompressed copy under one name, at the same time.
TwoWriters == conf.storage = "file" /\ \E p \in 1..Passes : upload[Gunzipped(p)].at # "none"

\* What is stored under a name is the whole of one resource, whatever was slow and however the
\* tasks interleaved, unless a tee ended a stream early; in the file storage, also unless an
\* upload to that name failed or two wrote to it at once.
StoredIsWhole ==
  \A u \in Uploads : upload[u].at = "stored" =>
    LET mine == {v \in Uploads : NameOf(v) = NameOf(u)}
    IN \/ \E v \in mine : upload[v].at = "stored" /\ object[NameOf(u)] = [by |-> {v}, got |-> Expected(v)]
       \/ cut \/ TwoWriters
       \/ conf.storage = "file" /\ \E v \in mine : upload[v].at \in {"writing", "failed"}

\* The body is taken apart, and so is what was inside.
TakenApart == conf.unzip /\ conf.targz /\ conf.content # "plain"

\* A load that returns has stored its resource, has finished every bundle it started, once, and
\* left neither a bundle active nor an upload under way.  The HTTP loader finishes no bundle, and
\* may return before an upload of what was inside ends: the outer decorator goes on when the
\* inner one gives up beside its upload.
LoadedIsComplete ==
  load.at = "loaded" /\ conf.storage # "none" =>
    /\ upload[1].at = "stored"
    /\ conf.loader # "http" => pending = {} /\ active = NoBundle /\ load.finished = conf.files
    /\ TakenApart \/ pending = {}

\* The detailed storage keeps the promise of BundleLife.
Life == INSTANCE BundleLife WITH
  open <- active # NoBundle,
  writing <- {u \in Uploads : Writing(u)},
  kept <- {u \in Uploads : upload[u].at = "stored"}
ImplementsBundleLife == Life!Spec

\* Every load ends, unless an end mark found a consumer's queue full: that consumer waits for ever.
LoadEnds == TRUE ~> (load.at \in {"loaded", "failed"} \/ dropped # {})

-----------------------------------------------------------------------------
(* The inductive invariant of the life of a bundle: it leaves the streams aside *)

Shapes ==
  /\ conf \in Setups
  /\ upload \in [Uploads -> [at : {"none", "writing", "stored", "failed"}, from : Streams,
                             got : Nat]]
  /\ load \in [at : LoadStages, file : Nat \ {0}, finished : Nat]
  /\ low \in [at : {"off", "direct", "peek", "gunzip", "spill", "wait", "ok", "raised"},
             pass : 1..Passes, content : {"plain", "gzip", "zip"}]
  /\ unz \in [at : {"off", "reading", "waiting", "deriving", "ok", "raised"}, got : Nat]
  /\ event \in BOOLEAN

\* The event is set exactly when no upload is pending.
Counted ==
  /\ pending = {u \in Uploads : Writing(u)}
  /\ event <=> pending = {}

\* An upload begins once for a bundle: pass by pass, and the decompressed copy after its original.
Fresh ==
  /\ \A u \in Uploads : upload[u].at # "none" =>
       low.at # "off" /\ (u \in 1..low.pass \/ Gunzipped(u) \in 1..low.pass)
  /\ low.at \in {"direct", "peek"} => upload[Gunzipped(low.pass)].at = "none"

\* What the stages of the decorators tell of the uploads they are about.
Stages ==
  /\ low.at \in {"spill", "wait", "ok", "raised"} => ~Writing(Gunzipped(low.pass))
  /\ low.at = "ok" => upload[low.pass].at = "stored"
  /\ low.at # "off" => (low.at = "direct" <=> ~conf.targz)
  /\ ~conf.unzip => unz.at = "off"
  /\ unz.at \in {"off", "reading", "waiting"} => low.pass = 1
  /\ unz.at \in {"deriving", "ok"} => upload[1].at = "stored"
  /\ unz.at = "deriving" => conf.content # "plain"
  /\ unz.at = "ok" => low.at \in {"direct", "ok", "raised"} /\ (TakenApart \/ pending = {})
  /\ TakenApart \/ pending \subseteq {low.pass, Gunzipped(low.pass)}

\* No decorator begins another upload.
Quiet == low.at \in {"off", "direct", "ok", "raised"} /\ unz.at \in {"off", "ok", "raised"}

\* How far the load is with its files, and whether the storage has the bundle.
Progressing ==
  /\ load.at \notin {"adding", "failed"} => Quiet
  /\ load.at \in {"fetch", "add"} => low.at = "off" /\ unz.at = "off"
  /\ load.at = "fetch" => load.file = 1
  /\ load.at \in {"start", "callbacks", "finish"} => pending = {}
  /\ load.at \in {"fetch", "start", "add", "adding", "complete", "finish"} =>
       load.finished = load.file - 1
  /\ load.at \in {"fetch", "start"} => active = NoBundle
  /\ load.at \in {"add", "adding", "complete", "finish"} => active = load.file
  /\ load.at = "callbacks" =>
       IF conf.storage = "bus" THEN active = load.file /\ load.finished = load.file - 1
       ELSE active = NoBundle /\ load.finished = load.file
  /\ load.at \in {"start", "add", "adding", "complete", "callbacks", "finish"} =>
       load.file <= conf.files
  /\ load.at \in {"complete", "callbacks", "finish"} =>
       conf.loader # "http" /\ upload[1].at = "stored"

LifeInv == Shapes /\ Counted /\ Fresh /\ Stages /\ Progressing /\ LoadedIsComplete

-----------------------------------------------------------------------------
(* The inductive invariant of what is stored: what a stream still yields, and where it went *)

Amount(t) == IF t \in {0, 1} THEN Chunks ELSE 1

Live(t) == feeder[t].at \in {"read", "first", "second"}
\* The chunk the feeding task still owes its consumer i.
Owed(t, i) == IF feeder[t].at = "first" \/ (feeder[t].at = "second" /\ i = 1) THEN 1 ELSE 0

\* What a tee reads, and what the base context's upload u reads.
InputOf(t) == IF t = 0 THEN Source
              ELSE IF t = 1 THEN IF conf.unzip THEN Consumer(0, 0) ELSE Source ELSE File(t)
FromOf(u) == IF u < 0 THEN Consumer(Gunzipped(u), 1)
             ELSE IF conf.targz THEN Consumer(u, 0) ELSE InputOf(u)

\* What a consumer may still get: what it has, what it is owed, and what its tee's input may yield.
LeftOfFirst(i) ==
  stream[Consumer(0, i)].n + Owed(0, i) + (IF Live(0) THEN stream[Source].n ELSE 0)
LeftOfInput(t) == IF t = 1 /\ conf.unzip THEN LeftOfFirst(0) ELSE stream[InputOf(t)].n
Left(t, i) ==
  stream[Consumer(t, i)].n + Owed(t, i) + (IF Live(t) THEN LeftOfInput(t) ELSE 0)

\* What is read broke before the tee has seen its end: the tee will cut its consumers' streams.
Doomed(t) ==
  Live(t) /\ IF t = 1 /\ conf.unzip THEN Live(0) /\ ~stream[Source].mark ELSE ~stream[InputOf(t)].mark

\* Of a tee's input, what a reader has got and what it may still get.
Flows(t, i, got) ==
  /\ got + Left(t, i) <= Amount(t)
  /\ got + Left(t, i) = Amount(t) \/ cut \/ Doomed(t)

\* Who reads a consumer's stream, and how much it has got.
Reads(t, i) ==
  IF t = 0 THEN IF i = 1 THEN unz.at = "reading" ELSE conf.unzip /\ ~conf.targz /\ Writing(1)
  ELSE IF i = 0 THEN conf.targz /\ Writing(t)
  ELSE Writing(Gunzipped(t)) \/ (low.at = "peek" /\ low.pass = t)
Got(t, i) ==
  IF t = 0 THEN IF i = 1 THEN unz.got ELSE upload[1].got
  ELSE IF i = 0 THEN upload[t].got
  ELSE IF Writing(Gunzipped(t)) THEN upload[Gunzipped(t)].got ELSE 0

\* The upload that reads a pass's input itself: without a tar/gz decorator.
ReadsInput(p) == ~conf.targz /\ Writing(p) /\ ~(p = 1 /\ conf.unzip)
InputFlows(p) ==
  LET all == upload[p].got + stream[InputOf(p)].n
  IN all <= Amount(p) /\ (all = Amount(p) \/ ~stream[InputOf(p)].mark)

StreamShapes ==
  /\ stream \in [Streams -> [n : Nat, mark : BOOLEAN]]
  /\ feeder \in [Tees -> [at : {"off", "read", "first", "second", "done"}, input : Streams]]
  /\ \A t \in Tees, i \in {0, 1} : stream[Consumer(t, i)].n <= Capacity
  /\ stream[Source].n <= Chunks /\ \A p \in 1..Passes : stream[File(p)].n <= 1

Tidy ==
  /\ cut \in BOOLEAN /\ dropped \subseteq Streams /\ completed \in BOOLEAN
  /\ faults \in 0..MaxFaults
  /\ load.file = 1 \/ load.file <= conf.files
  /\ load.finished <= load.file

\* Who reads what.
Wired ==
  /\ \A t \in Tees : feeder[t].at # "off" =>
       /\ feeder[t].input = InputOf(t) /\ low.at # "off"
       /\ IF t = 0 THEN conf.unzip ELSE conf.targz /\ t <= low.pass
  /\ \A u \in Uploads : Writing(u) => upload[u].from = FromOf(u) /\ (u < 0 => conf.targz)
  /\ unz.at # "off" \/ load.at = "adding" => low.at # "off"

\* What nobody has read or fed yet, and which streams are at their end.
Untouched ==
  /\ low.at = "off" => \A s \in Streams : stream[s] = FreshStream(s)
  /\ \A p \in 1..Passes : p > low.pass =>
       stream[File(p)].n = 1 /\ \A i \in {0, 1} : stream[Consumer(p, i)].n = 0
  /\ \A t \in Tees, i \in {0, 1} : stream[Consumer(t, i)].mark => feeder[t].at = "done"

Flowing ==
  /\ unz.got <= Chunks
  /\ \A t \in Tees, i \in {0, 1} : Reads(t, i) => Flows(t, i, Got(t, i))
  /\ \A p \in 1..Passes : ReadsInput(p) => InputFlows(p)
  /\ \A u \in Uploads : upload[u].got <= Expected(u)
  /\ \A u \in Uploads : upload[u].at = "stored" => upload[u].got = Expected(u) \/ cut

\* A compressed body that the tar/gz decorator saw has a decompressed copy beside it.
Copied ==
  /\ low.at # "off" /\ low.pass = 1 => low.content = conf.content
  /\ conf.targz /\ conf.content = "gzip" /\ (low.at \notin {"off", "peek"} \/ low.pass > 1) =>
       cut \/ upload[Gunzipped(1)].at # "none"

\* What lies under the name of an upload is what that upload wrote, or in the end another to the
\* same name that is whole.
Wrote(u) == object[NameOf(u)] = [by |-> {u}, got |-> upload[u].got]
Kept(u) ==
  \E v \in Uploads : /\ NameOf(v) = NameOf(u) /\ upload[v].at = "stored"
                     /\ object[NameOf(u)] = [by |-> {v}, got |-> Expected(v)]

\* S3 and the bus keep one upload whole.
KeptWhole ==
  conf.storage # "file" /\ ~cut => \A u \in Uploads : upload[u].at = "stored" => Kept(u)

\* The file storage keeps what the last pass to a name writes.
FileWhole ==
  conf.storage = "file" /\ ~cut /\ ~TwoWriters => \A u \in 1..low.pass :
    IF conf.content = "zip" \/ u = low.pass THEN upload[u].at \in {"writing", "stored"} => Wrote(u)
    ELSE ~Writing(u)

Lying ==
  /\ object \in [Uploads -> [by : SUBSET Uploads, got : Nat]]
  /\ low.at # "off" => upload[low.pass].at # "none"
  /\ KeptWhole /\ FileWhole

WholeInv == StreamShapes /\ Tidy /\ Wired /\ Untouched /\ Flowing /\ Copied /\ Lying
=============================================================================
