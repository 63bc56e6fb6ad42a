---------------------------- MODULE BundleStorage ----------------------------
(***************************************************************************)
(* A bundle in a storage: BundleStorageContext, which counts the uploads   *)
(* under way and completes the bundle after them, over the pipeline bus,   *)
(* file or S3 storage.  Uploads are concurrent tasks; each reads a stream  *)
(* chunk by chunk.                                                         *)
(***************************************************************************)
EXTENDS TeeStream

CONSTANTS
  Setups,   \* the configurations, see SetupAssumption
  MaxFaults \* operations that raise

SetupTypes ==
  [storage : {"bus", "file", "s3", "none"}, loader : {"http", "api", "sftp_file", "sftp_dir"},
   files : Nat, unzip : BOOLEAN, targz : BOOLEAN, content : {"plain", "gzip", "zip"}]

ASSUME SetupAssumption ==
  /\ MaxFaults \in Nat
  /\ \A c \in Setups :
       /\ c \in SetupTypes
       /\ c.loader # "sftp_dir" => c.files = 1
       /\ c.storage = "none" => c.loader = "http"
       /\ Chunks = 0 => c.content = "plain"  \* the content is told by the body's first bytes

VARIABLES
  conf,      \* the storage, the loader, and which decorators take the resource apart
  upload,    \* each upload: the base context's add_resource
  pending,   \* _pending_uploads
  event,     \* _completion_event is set
  completed, \* _is_completed
  active,    \* _active_bundles: the bundle the storage has under this bid
  object,    \* what is stored under each name: who wrote it, and how much
  faults

storageVars == <<upload, pending, event, completed, active, object>>

Gunzipped(p) == -p         \* the tar/gz decorator's decompressed copy of what pass p adds
Uploads == (-Passes..Passes) \ {0}  \* upload p stores what pass p adds
NoUpload == [at |-> "none", from |-> Source, got |-> 0]
NoBundle == 0

\* The suffix is stripped for the original as for its decompressed copy: one name for both.
NameOf(u) == IF conf.content = "zip" /\ u > 1 THEN u ELSE 1
Nothing == [by |-> {}, got |-> 0]

StorageInit ==
  /\ conf \in Setups
  /\ upload = [u \in Uploads |-> NoUpload]
  /\ pending = {} /\ event = TRUE /\ completed = FALSE
  /\ active = NoBundle
  /\ object = [u \in Uploads |-> Nothing]
  /\ faults = 0

Fault == faults < MaxFaults /\ faults' = faults + 1

-----------------------------------------------------------------------------
(* add_resource of the base context, and the storages' _add_resource_to_bundle *)

Writing(u) == upload[u].at = "writing"
Rivals(u) == {v \in Uploads : Writing(v) /\ NameOf(v) = NameOf(u)}

\* The file storage opens the file, and empties it, before it reads the stream; S3 and the bus
\* keep what they had until the upload is complete.
Opened(u, got) ==
  IF conf.storage = "file" THEN [object EXCEPT ![NameOf(u)] = [by |-> {u} \cup Rivals(u), got |-> got]]
  ELSE object

EventAfterAdd_NotCleared(p) == event
EventAfterAdd(p) == IF Cardinality(p) = 1 THEN FALSE ELSE event

\* A storage that does not have the bundle refuses the resource.
Begin(u, from, got) ==
  /\ upload' = [upload EXCEPT ![u] = [at |-> IF active = NoBundle THEN "failed" ELSE "writing",
                                      from |-> from, got |-> got]]
  /\ pending' = IF active = NoBundle THEN pending ELSE pending \cup {u}
  /\ event' = IF active = NoBundle THEN event ELSE EventAfterAdd(pending \cup {u})
  /\ object' = Opened(u, got)

Write(u) ==
  /\ Writing(u)
  /\ Take(upload[u].from)
  /\ upload' = [upload EXCEPT ![u].got = @ + 1]
  /\ object' = IF conf.storage # "file" THEN object
               ELSE [object EXCEPT ![NameOf(u)] = [by |-> @.by \cup {u}, got |-> @.got + 1]]
  /\ UNCHANGED <<feeder, cut, dropped, pending, event, completed, active, faults>>

\* However the upload ends, the context forgets it, and wakes who waits for the last one.
Settle(u, result) ==
  /\ Writing(u)
  /\ upload' = [upload EXCEPT ![u].at = result]
  /\ pending' = pending \ {u}
  /\ event' = (event \/ pending \ {u} = {})
  /\ UNCHANGED <<teeVars, completed, active>>

\* The metadata file is written; the multipart upload is completed.
Store(u) ==
  /\ Ended(upload[u].from)
  /\ Settle(u, "stored")
  /\ object' = IF conf.storage = "file" THEN object
               ELSE [object EXCEPT ![NameOf(u)] = [by |-> {u}, got |-> upload[u].got]]
  /\ UNCHANGED faults

\* The stream or the storage raises: S3 aborts the multipart upload, the file keeps what was
\* written.
Fail(u) ==
  /\ IF Broken(upload[u].from) THEN UNCHANGED faults ELSE Fault
  /\ Settle(u, "failed")
  /\ UNCHANGED object

UploadStep(u) == Write(u) \/ Store(u) \/ Fail(u)

-----------------------------------------------------------------------------
(* start_bundle and the completion *)

\* A new context; an active bundle of the same bid is replaced.
StartBundle(number) ==
  /\ active' = number
  /\ upload' = [u \in Uploads |-> NoUpload]
  /\ pending' = {} /\ event' = TRUE /\ completed' = FALSE
  /\ object' = [u \in Uploads |-> Nothing]

\* complete: once, and when no upload is pending.
MayComplete == event /\ ~completed

\* The bus runs the callbacks and then completes the bundle; file and S3 finalize it first.
HookOrder == IF conf.storage = "bus" THEN <<"callbacks", "finish">> ELSE <<"finish", "callbacks">>

ActiveAfterFinish_Kept == active
ActiveAfterFinish == NoBundle

\* Only the file storage lets a callback's exception through.
CallbackRaises == conf.storage = "file"

-----------------------------------------------------------------------------
StorageTypeOK ==
  /\ conf \in Setups
  /\ \A u \in Uploads : /\ upload[u].at \in {"none", "writing", "stored", "failed"}
                        /\ upload[u].from \in Streams /\ upload[u].got \in 0..Chunks + 1
  /\ pending = {u \in Uploads : Writing(u)}
  /\ event \in BOOLEAN /\ completed \in BOOLEAN
  /\ object \in [Uploads -> [by : SUBSET Uploads, got : Nat]]
  /\ faults \in 0..MaxFaults
=============================================================================
