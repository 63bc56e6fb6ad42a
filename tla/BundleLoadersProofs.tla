------------------------- MODULE BundleLoadersProofs -------------------------
(***************************************************************************)
(* One load, for every configuration of storage, loader and decorators,    *)
(* every size of a body, every capacity of the tees' queues and any number *)
(* of faults: the storage keeps the promise of BundleLife, and a load that *)
(* returns is complete.  LifeInv (in BundleLoaders) is inductive; it does  *)
(* not speak of the streams.                                               *)
(***************************************************************************)
EXTENDS BundleLoaders, FiniteSetTheorems, TLAPS

Upload == [at : {"none", "writing", "stored", "failed"}, from : Streams, got : Nat]

-----------------------------------------------------------------------------
(* Names *)

LEMMA Numbers ==
  /\ Passes \in Nat \ {0} /\ Members \in Nat /\ Passes >= 3 /\ Passes >= Members + 1
  /\ \A u \in Uploads : u \in Int /\ Gunzipped(u) \in Uploads /\ Gunzipped(Gunzipped(u)) = u
                        /\ u # Gunzipped(u)
  /\ \A p \in 1..Passes : p \in Uploads /\ Gunzipped(p) \in Uploads /\ p \in Tees /\ p # 0
  /\ 1 \in Uploads /\ 0 \in Tees
<1>1. Passes \in Nat \ {0} /\ Members \in Nat /\ Passes >= 3 /\ Passes >= Members + 1
  BY TeeAssumption, DecoratorAssumption
<1>2. ASSUME NEW u \in Uploads
      PROVE  u \in Int /\ Gunzipped(u) \in Uploads /\ Gunzipped(Gunzipped(u)) = u /\ u # Gunzipped(u)
  BY <1>1 DEF Uploads, Gunzipped
<1>3. ASSUME NEW p \in 1..Passes
      PROVE  p \in Uploads /\ Gunzipped(p) \in Uploads /\ p \in Tees /\ p # 0
  BY <1>1 DEF Uploads, Gunzipped, Tees
<1>4. 1 \in Uploads /\ 0 \in Tees
  BY <1>1 DEF Uploads, Tees
<1> QED BY <1>1, <1>2, <1>3, <1>4

LEMMA StreamNames ==
  /\ Source \in Streams
  /\ \A p \in 1..Passes : File(p) \in Streams
  /\ \A t \in Tees : Consumer(t, 0) \in Streams /\ Consumer(t, 1) \in Streams
<1>1. Source \in Streams
  BY DEF Streams, Inputs
<1>2. \A p \in 1..Passes : File(p) \in Streams
  BY DEF Streams, Inputs
<1>3. \A t \in Tees : Consumer(t, 0) \in Streams /\ Consumer(t, 1) \in Streams
  BY DEF Streams, Consumers
<1> QED BY <1>1, <1>2, <1>3

-----------------------------------------------------------------------------
(* The uploads *)

\* An upload begins that has not been begun before.
LEMMA BeginFresh ==
  ASSUME LifeInv, NEW u \in Uploads, NEW from \in Streams, NEW got \in Nat,
         upload[u].at = "none", Begin(u, from, got)
  PROVE  /\ upload' \in [Uploads -> Upload] /\ Counted'
         /\ upload'[u].at = IF active = NoBundle THEN "failed" ELSE "writing"
         /\ \A v \in Uploads \ {u} : upload'[v] = upload[v]
         /\ pending' = IF active = NoBundle THEN pending ELSE pending \cup {u}
<1> DEFINE at == IF active = NoBundle THEN "failed" ELSE "writing"
<1>1. upload \in [Uploads -> Upload] /\ upload' = [upload EXCEPT ![u] = [at |-> at, from |-> from, got |-> got]]
  BY DEF LifeInv, Shapes, Upload, Begin
<1>2. at \in {"failed", "writing"} /\ (at = "writing" <=> active # NoBundle)
  OBVIOUS
<1> HIDE DEF at
<1>3. /\ upload' \in [Uploads -> Upload]
      /\ upload'[u].at = at /\ \A v \in Uploads \ {u} : upload'[v] = upload[v]
  BY <1>1, <1>2 DEF Upload
<1>4. pending' = IF active = NoBundle THEN pending ELSE pending \cup {u}
  BY DEF Begin
<1>5. pending = {v \in Uploads : upload[v].at = "writing"} /\ (event <=> pending = {})
  BY DEF LifeInv, Counted, Writing
<1>6. pending' = {v \in Uploads : upload'[v].at = "writing"}
  BY <1>2, <1>3, <1>4, <1>5
<1>7. event' <=> pending' = {}
  <2>1. CASE active = NoBundle
    BY <1>4, <1>5, <2>1 DEF Begin
  <2>2. CASE active # NoBundle
    <3>1. event' = EventAfterAdd(pending \cup {u}) /\ pending' = pending \cup {u}
      BY <1>4, <2>2 DEF Begin
    <3>2. CASE pending = {}
      <4>1. pending \cup {u} = {u} /\ Cardinality({u}) = 1
        BY <3>2, FS_Singleton
      <4> QED BY <3>1, <4>1 DEF EventAfterAdd
    <3>3. CASE pending # {}
      BY <1>5, <3>1, <3>3 DEF EventAfterAdd
    <3> QED BY <3>2, <3>3
  <2> QED BY <2>1, <2>2
<1> QED BY <1>3, <1>4, <1>6, <1>7 DEF Counted, Writing, at

\* An upload ends.
LEMMA SettleFacts ==
  ASSUME LifeInv, NEW u \in Uploads, NEW result \in {"stored", "failed"}, Settle(u, result)
  PROVE  /\ upload' \in [Uploads -> Upload] /\ Counted'
         /\ upload[u].at = "writing" /\ upload'[u].at = result
         /\ \A v \in Uploads \ {u} : upload'[v] = upload[v]
         /\ pending' = pending \ {u} /\ event' \in BOOLEAN
<1>1. /\ upload \in [Uploads -> Upload] /\ upload' = [upload EXCEPT ![u].at = result]
      /\ upload[u].at = "writing" /\ pending' = pending \ {u}
  BY DEF LifeInv, Shapes, Upload, Settle, Writing
<1>2. event' = (event \/ pending \ {u} = {})
  BY DEF Settle
<1>3. /\ upload' \in [Uploads -> Upload]
      /\ upload'[u].at = result /\ \A v \in Uploads \ {u} : upload'[v] = upload[v]
  BY <1>1 DEF Upload
<1>4. pending = {v \in Uploads : upload[v].at = "writing"}
  BY DEF LifeInv, Counted, Writing
<1>5. pending' = {v \in Uploads : upload'[v].at = "writing"}
  BY <1>1, <1>3, <1>4
<1>6. event' <=> pending' = {}
  <2>1. event <=> pending = {}
    BY DEF LifeInv, Counted
  <2>2. u \in pending
    BY <1>1, <1>4
  <2> QED BY <1>1, <1>2, <2>1, <2>2
<1>7. event' \in BOOLEAN
  BY <1>2
<1> QED BY <1>1, <1>3, <1>5, <1>6, <1>7 DEF Counted, Writing

-----------------------------------------------------------------------------
(* LifeInv, step by step *)

\* Chunks move, nothing else: LifeInv speaks of the stages of the uploads only.
LEMMA NothingMoves ==
  ASSUME LifeInv, UNCHANGED <<conf, pending, event, active, low, load>>,
         upload' \in [Uploads -> Upload], \A u \in Uploads : upload'[u].at = upload[u].at,
         unz' \in [at : {unz.at}, got : Nat]
  PROVE  LifeInv'
<1>1. unz'.at = unz.at /\ unz' \in [at : {"off", "reading", "waiting", "deriving", "ok", "raised"}, got : Nat]
  BY DEF LifeInv, Shapes
<1>2. 1 \in Uploads /\ low.pass \in Uploads /\ Gunzipped(low.pass) \in Uploads
  BY Numbers DEF LifeInv, Shapes
<1>3. Shapes'
  BY <1>1 DEF LifeInv, Shapes, Upload
<1>4. Counted'
  BY DEF LifeInv, Counted, Writing
<1>5. Fresh'
  BY <1>2 DEF LifeInv, Fresh, Gunzipped
<1>6. Stages'
  BY <1>1, <1>2 DEF LifeInv, Stages, Writing, TakenApart, Gunzipped
<1>7. Progressing' /\ LoadedIsComplete'
  BY <1>1, <1>2 DEF LifeInv, Progressing, Quiet, LoadedIsComplete, TakenApart
<1> QED BY <1>3, <1>4, <1>5, <1>6, <1>7 DEF LifeInv

\* An upload ends.
LEMMA UploadMoves ==
  ASSUME LifeInv, NEW u \in Uploads, NEW result \in {"stored", "failed"}, Settle(u, result),
         UNCHANGED <<conf, low, unz, load>>
  PROVE  LifeInv'
<1>1. /\ upload' \in [Uploads -> Upload] /\ Counted'
      /\ upload[u].at = "writing" /\ upload'[u].at = result
      /\ \A v \in Uploads \ {u} : upload'[v] = upload[v]
      /\ pending' = pending \ {u} /\ event' \in BOOLEAN
  BY SettleFacts
<1>2. 1 \in Uploads /\ low.pass \in Uploads /\ Gunzipped(low.pass) \in Uploads
  BY Numbers DEF LifeInv, Shapes
<1>3. active' = active
  BY DEF Settle
<1>4. Shapes'
  BY <1>1 DEF LifeInv, Shapes, Upload
<1>5. \A v \in Uploads : upload'[v].at # "none" <=> upload[v].at # "none"
  BY <1>1
<1>6. \A v \in Uploads : upload[v].at = "stored" => upload'[v].at = "stored"
  BY <1>1
<1>7. Fresh'
  BY <1>2, <1>5 DEF LifeInv, Fresh, Gunzipped
<1>8. \A v \in Uploads : upload'[v].at = "writing" => upload[v].at = "writing"
  BY <1>1
<1>9. Stages'
  BY <1>1, <1>2, <1>6, <1>8 DEF LifeInv, Stages, Writing, TakenApart, Gunzipped
<1>10. pending = {} => pending' = {}
  BY <1>1
<1>11. Progressing' /\ LoadedIsComplete'
  BY <1>2, <1>3, <1>6, <1>10 DEF LifeInv, Progressing, Quiet, LoadedIsComplete, TakenApart
<1> QED BY <1>1, <1>4, <1>7, <1>9, <1>11 DEF LifeInv

\* The tar/gz decorator goes from one of its stages to the next.
LEMMA LowMoves ==
  ASSUME LifeInv, low.at \in {"peek", "gunzip", "spill", "wait"},
         NEW at \in {"spill", "wait", "ok", "raised"}, LowAt(at),
         ~Writing(Gunzipped(low.pass)), at = "ok" => upload[low.pass].at = "stored",
         UNCHANGED <<conf, upload, pending, event, active, unz, load>>
  PROVE  LifeInv'
<1>1. low'.at = at /\ low'.pass = low.pass /\ Shapes'
  BY DEF LifeInv, Shapes, LowAt
<1>2. load.at \in {"adding", "failed"} /\ unz.at # "ok"
  BY DEF LifeInv, Progressing, Quiet, Stages
<1>3. Counted'
  BY DEF LifeInv, Counted, Writing
<1>4. Fresh'
  BY <1>1 DEF LifeInv, Fresh, Gunzipped
<1>5. Stages'
  BY <1>1, <1>2 DEF LifeInv, Stages, Writing, TakenApart, Gunzipped
<1>6. Progressing' /\ LoadedIsComplete'
  BY <1>1, <1>2 DEF LifeInv, Progressing, Quiet, LoadedIsComplete, TakenApart
<1> QED BY <1>1, <1>3, <1>4, <1>5, <1>6 DEF LifeInv

\* The unzip decorator goes from one of its stages to the next, or ends.
LEMMA UnzMoves ==
  ASSUME LifeInv, unz.at \in {"reading", "waiting", "deriving"},
         NEW at \in {"waiting", "ok", "raised"}, UnzAt(at), at = "waiting" => unz.at = "reading",
         at = "ok" => /\ upload[1].at = "stored" /\ low.at \in {"direct", "ok", "raised"}
                      /\ TakenApart \/ pending = {},
         UNCHANGED <<conf, upload, pending, event, active, low, load>>
  PROVE  LifeInv'
<1>1. unz'.at = at /\ Shapes'
  BY DEF LifeInv, Shapes, UnzAt
<1>2. load.at \in {"adding", "failed"}
  BY DEF LifeInv, Progressing, Quiet
<1>3. Counted' /\ Fresh'
  BY DEF LifeInv, Counted, Writing, Fresh, Gunzipped
<1>4. Stages'
  BY <1>1 DEF LifeInv, Stages, Writing, TakenApart, Gunzipped
<1>5. Progressing' /\ LoadedIsComplete'
  BY <1>1, <1>2 DEF LifeInv, Progressing, Quiet, LoadedIsComplete, TakenApart
<1> QED BY <1>1, <1>3, <1>4, <1>5 DEF LifeInv

\* The resource a decorator waits for has ended: without both decorators on an archive no upload
\* is under way.
LEMMA BelowEnded ==
  ASSUME LifeInv, BelowOk \/ BelowRaised
  PROVE  /\ low.at \in {"direct", "ok", "raised"}
         /\ BelowOk => upload[low.pass].at = "stored"
         /\ BelowOk \/ ~conf.targz => TakenApart \/ pending = {}
<1>1. low.at \in {"direct", "ok", "raised"} /\ (BelowOk => upload[low.pass].at = "stored")
  BY DEF LifeInv, Stages, BelowOk, BelowRaised
<1>2. low.pass \in Uploads /\ Gunzipped(low.pass) \in Uploads
  BY Numbers DEF LifeInv, Shapes
<1>3. ASSUME BelowOk \/ ~conf.targz, ~TakenApart
      PROVE  pending = {}
  <2>1. low.pass \notin pending
    BY <1>1, <1>2, <1>3 DEF LifeInv, Counted, Writing, BelowOk, BelowRaised
  <2>2. Gunzipped(low.pass) \notin pending
    <3>1. CASE conf.targz
      BY <1>2, <1>3, <3>1 DEF LifeInv, Counted, Stages, Writing, BelowOk
    <3>2. CASE ~conf.targz
      BY <1>2, <3>2 DEF LifeInv, Counted, Fresh, Writing, BelowOk, BelowRaised
    <3> QED BY <3>1, <3>2
  <2>3. pending \subseteq {low.pass, Gunzipped(low.pass)}
    BY <1>3 DEF LifeInv, Stages
  <2> QED BY <2>1, <2>2, <2>3
<1> QED BY <1>1, <1>3

\* What the next pass uploads has not been begun.
LEMMA NextPassFresh ==
  ASSUME LifeInv, NEW p \in 1..Passes, low.at = "off" \/ p = low.pass + 1
  PROVE  upload[p].at = "none" /\ upload[Gunzipped(p)].at = "none"
<1>1. p \in Uploads /\ Gunzipped(p) \in Uploads
  BY Numbers
<1>2. low.pass \in 1..Passes
  BY DEF LifeInv, Shapes
<1>3. \A u \in Uploads : upload[u].at # "none" =>
        low.at # "off" /\ (u \in 1..low.pass \/ Gunzipped(u) \in 1..low.pass)
  BY DEF LifeInv, Fresh
<1> QED BY <1>1, <1>2, <1>3 DEF Gunzipped

LEMMA AddBelowFacts ==
  ASSUME LifeInv, NEW p \in 1..Passes, NEW f, NEW from \in Streams,
         NEW content \in {"plain", "gzip", "zip"}, low.at = "off" \/ p = low.pass + 1,
         AddBelow(f, p, from, content)
  PROVE  /\ low' = [at |-> IF conf.targz THEN "peek" ELSE "direct", pass |-> p, content |-> content]
         /\ upload' \in [Uploads -> Upload] /\ Counted'
         /\ upload'[p].at = IF active = NoBundle THEN "failed" ELSE "writing"
         /\ \A v \in Uploads \ {p} : upload'[v] = upload[v]
         /\ pending' = IF active = NoBundle THEN pending ELSE pending \cup {p}
         /\ Fresh'
<1>1. upload[p].at = "none" /\ upload[Gunzipped(p)].at = "none" /\ p \in Uploads
      /\ Gunzipped(p) \in Uploads /\ p # Gunzipped(p)
  BY NextPassFresh, Numbers
<1> DEFINE source == IF conf.targz THEN Consumer(p, 0) ELSE from
<1>2. source \in Streams
  BY StreamNames, Numbers
<1>3. Begin(p, source, 0) /\ 0 \in Nat
  BY DEF AddBelow
<1> HIDE DEF source
<1>4. /\ upload' \in [Uploads -> Upload] /\ Counted'
      /\ upload'[p].at = IF active = NoBundle THEN "failed" ELSE "writing"
      /\ \A v \in Uploads \ {p} : upload'[v] = upload[v]
      /\ pending' = IF active = NoBundle THEN pending ELSE pending \cup {p}
  BY <1>1, <1>2, <1>3, BeginFresh
<1>5. low' = [at |-> IF conf.targz THEN "peek" ELSE "direct", pass |-> p, content |-> content]
  BY DEF AddBelow
<1>6. low'.at # "off" /\ low'.pass = p /\ low.pass \in 1..Passes
  BY <1>5 DEF LifeInv, Shapes
<1>7. \A u \in Uploads : upload'[u].at # "none" =>
        low'.at # "off" /\ (u \in 1..low'.pass \/ Gunzipped(u) \in 1..low'.pass)
  <2>1. SUFFICES ASSUME NEW u \in Uploads, upload'[u].at # "none"
                 PROVE  u \in 1..p \/ Gunzipped(u) \in 1..p
    BY <1>6
  <2>2. CASE u = p
    BY <2>2
  <2>3. CASE u # p
    <3>1. low.at # "off" /\ (u \in 1..low.pass \/ Gunzipped(u) \in 1..low.pass)
      BY <1>4, <2>1, <2>3 DEF LifeInv, Fresh
    <3> QED BY <1>6, <3>1
  <2> QED BY <2>2, <2>3
<1>8. upload'[Gunzipped(p)].at = "none"
  BY <1>1, <1>4
<1>9. Fresh'
  BY <1>6, <1>7, <1>8 DEF Fresh, Gunzipped
<1> QED BY <1>4, <1>5, <1>9

\* The resource the loader adds.
LEMMA AddInv ==
  ASSUME LifeInv, Add, UNCHANGED conf
  PROVE  LifeInv'
<1> DEFINE f == IF conf.unzip THEN Fed(feeder, 0, Source) ELSE feeder
           from == IF conf.unzip THEN Consumer(0, 0) ELSE Source
<1>1. load.at = "add" /\ low.at = "off" /\ unz.at = "off" /\ active = load.file
      /\ load.finished = load.file - 1 /\ load.file <= conf.files
  BY DEF LifeInv, Progressing, Add
<1>2. /\ AddBelow(f, 1, from, conf.content)
      /\ unz' = [at |-> IF conf.unzip THEN "reading" ELSE "off", got |-> 0]
      /\ load' = [load EXCEPT !.at = "adding"] /\ active' = active
  BY DEF Add, AddResource, LoadAt, NoUnzip
<1>3. 1 \in 1..Passes /\ 1 \in Uploads /\ Gunzipped(1) \in Uploads
  BY Numbers
<1>4. conf \in SetupTypes
  BY SetupAssumption DEF LifeInv, Shapes
<1>5. from \in Streams /\ conf.content \in {"plain", "gzip", "zip"}
  BY <1>4, Numbers, StreamNames DEF SetupTypes
<1> HIDE DEF f, from
<1>6. /\ low' = [at |-> IF conf.targz THEN "peek" ELSE "direct", pass |-> 1, content |-> conf.content]
      /\ upload' \in [Uploads -> Upload] /\ Counted'
      /\ upload'[1].at = IF active = NoBundle THEN "failed" ELSE "writing"
      /\ \A v \in Uploads \ {1} : upload'[v] = upload[v]
      /\ pending' = IF active = NoBundle THEN pending ELSE pending \cup {1}
      /\ Fresh'
  BY <1>1, <1>2, <1>3, <1>5, AddBelowFacts
<1>7. active # NoBundle /\ load.file \in Nat \ {0} /\ load.finished \in Nat
  BY <1>1 DEF LifeInv, Shapes, NoBundle
<1>8. event' \in BOOLEAN
  BY <1>2, <1>7 DEF AddBelow, Begin, EventAfterAdd, LifeInv, Shapes
<1>9. Shapes'
  <2>1. low' \in [at : {"off", "direct", "peek", "gunzip", "spill", "wait", "ok", "raised"},
                  pass : 1..Passes, content : {"plain", "gzip", "zip"}]
    BY <1>3, <1>5, <1>6
  <2>2. unz' \in [at : {"off", "reading", "waiting", "deriving", "ok", "raised"}, got : Nat]
    BY <1>2
  <2>3. load' \in [at : LoadStages, file : Nat \ {0}, finished : Nat]
    BY <1>2 DEF LifeInv, Shapes, LoadStages
  <2> QED BY <1>6, <1>8, <2>1, <2>2, <2>3 DEF LifeInv, Shapes, Upload
<1>10. \A u \in Uploads : upload[u].at = "none"
  BY <1>1 DEF LifeInv, Fresh
<1>11. pending = {}
  BY <1>10 DEF LifeInv, Counted, Writing
<1>12. Stages'
  <2>1. ~Writing(Gunzipped(low.pass))'
    BY <1>3, <1>6, <1>10, Numbers DEF Writing, Gunzipped
  <2>2. low'.pass = 1 /\ low'.at \in {"peek", "direct"} /\ (low'.at = "direct" <=> ~conf.targz)
        /\ unz'.at \in {"off", "reading"} /\ (~conf.unzip => unz'.at = "off")
    BY <1>2, <1>6
  <2>3. pending' \subseteq {1}
    BY <1>6, <1>11
  <2> QED BY <2>1, <2>2, <2>3 DEF Stages, TakenApart, Gunzipped
<1>13. Progressing' /\ LoadedIsComplete'
  <2>1. load'.at = "adding" /\ load'.file = load.file /\ load'.finished = load.finished
    BY <1>2 DEF LifeInv, Shapes
  <2> QED BY <1>1, <1>2, <2>1 DEF Progressing, LoadedIsComplete
<1> QED BY <1>6, <1>9, <1>12, <1>13 DEF LifeInv

\* The next resource the unzip decorator finds.
LEMMA DeriveInv ==
  ASSUME LifeInv, NEW content \in {"plain", "gzip"}, low.pass + 1 \in 1..Passes,
         unz.at \in {"waiting", "deriving"}, conf.content # "plain", upload[1].at = "stored",
         TakenApart \/ pending = {}, Derive(low.pass + 1, content),
         unz' \in [at : {"deriving"}, got : Nat], UNCHANGED <<conf, load>>
  PROVE  LifeInv'
<1> DEFINE q == low.pass + 1
<1>0. PICK p : p = q
  OBVIOUS
<1>1. load.at \in {"adding", "failed"} /\ conf.unzip /\ p # 1 /\ p \in 1..Passes
  BY <1>0 DEF LifeInv, Progressing, Quiet, Stages, Shapes
<1>2. AddBelow(feeder, p, File(p), content) /\ active' = active
  BY <1>0 DEF Derive
<1>3. p \in Uploads /\ 1 \in Uploads /\ Gunzipped(p) \in Uploads /\ Gunzipped(p) # p /\ File(p) \in Streams
  BY <1>1, Numbers, StreamNames
<1>4. content \in {"plain", "gzip", "zip"} /\ p = low.pass + 1
  BY <1>0
<1> HIDE DEF q
<1>5. /\ low' = [at |-> IF conf.targz THEN "peek" ELSE "direct", pass |-> p, content |-> content]
      /\ upload' \in [Uploads -> Upload] /\ Counted'
      /\ upload'[p].at = IF active = NoBundle THEN "failed" ELSE "writing"
      /\ \A v \in Uploads \ {p} : upload'[v] = upload[v]
      /\ pending' = IF active = NoBundle THEN pending ELSE pending \cup {p}
      /\ Fresh'
  BY <1>1, <1>2, <1>3, <1>4, AddBelowFacts
<1>6. event' \in BOOLEAN
  <2>1. event \in BOOLEAN
    BY DEF LifeInv, Shapes
  <2>2. event' = IF active = NoBundle THEN event ELSE EventAfterAdd(pending \cup {p})
    BY <1>2 DEF AddBelow, Begin
  <2> QED BY <2>1, <2>2 DEF EventAfterAdd
<1>7. Shapes'
  <2>1. low' \in [at : {"off", "direct", "peek", "gunzip", "spill", "wait", "ok", "raised"},
                  pass : 1..Passes, content : {"plain", "gzip", "zip"}]
    BY <1>1, <1>4, <1>5
  <2>2. unz' \in [at : {"off", "reading", "waiting", "deriving", "ok", "raised"}, got : Nat]
    OBVIOUS
  <2> QED BY <1>5, <1>6, <2>1, <2>2 DEF LifeInv, Shapes, Upload
<1>8. Stages'
  <2>2. ~Writing(Gunzipped(low.pass))' /\ upload'[1].at = "stored"
    BY <1>1, <1>3, <1>4, <1>5, NextPassFresh DEF Writing, Gunzipped
  <2>3. low'.pass = p /\ low'.at \in {"peek", "direct"} /\ (low'.at = "direct" <=> ~conf.targz)
        /\ unz'.at = "deriving"
    BY <1>5
  <2>4. TakenApart' \/ pending' \subseteq {p}
    BY <1>5 DEF TakenApart
  <2> QED BY <1>1, <2>2, <2>3, <2>4 DEF Stages, TakenApart, Gunzipped
<1>9. Progressing' /\ LoadedIsComplete'
  BY <1>1, <1>2 DEF LifeInv, Progressing, LoadedIsComplete
<1> QED BY <1>5, <1>7, <1>8, <1>9 DEF LifeInv

\* The decompressed copy is uploaded beside the original.
LEMMA GunzipBegins ==
  ASSUME LifeInv, low.at = "peek", LowAt("gunzip"), NEW from \in Streams,
         Begin(Gunzipped(low.pass), from, 1), UNCHANGED <<conf, active, unz, load>>
  PROVE  LifeInv'
<1>0. PICK u : u = Gunzipped(low.pass)
  OBVIOUS
<1>1. u \in Uploads /\ low.pass \in 1..Passes /\ low.pass \in Uploads /\ u # low.pass
      /\ Gunzipped(u) = low.pass /\ 1 \in Uploads
  BY <1>0, Numbers DEF LifeInv, Shapes
<1>2. upload[u].at = "none" /\ Begin(u, from, 1) /\ 1 \in Nat
  BY <1>0 DEF LifeInv, Fresh
<1>3. /\ upload' \in [Uploads -> Upload] /\ Counted'
      /\ upload'[u].at = IF active = NoBundle THEN "failed" ELSE "writing"
      /\ \A v \in Uploads \ {u} : upload'[v] = upload[v]
      /\ pending' = IF active = NoBundle THEN pending ELSE pending \cup {u}
  BY <1>1, <1>2, BeginFresh
<1>4. low'.at = "gunzip" /\ low'.pass = low.pass
  BY DEF LowAt, LifeInv, Shapes
<1>5. event' \in BOOLEAN
  <2>1. event \in BOOLEAN
    BY DEF LifeInv, Shapes
  <2>2. event' = IF active = NoBundle THEN event ELSE EventAfterAdd(pending \cup {u})
    BY <1>2 DEF Begin
  <2> QED BY <2>1, <2>2 DEF EventAfterAdd
<1>6. Shapes'
  BY <1>3, <1>5 DEF LifeInv, Shapes, Upload, LowAt
<1>7. load.at \in {"adding", "failed"} /\ unz.at # "ok"
  BY DEF LifeInv, Progressing, Quiet, Stages
<1>8. \A v \in Uploads : upload[v].at # "none" => v \in 1..low.pass \/ Gunzipped(v) \in 1..low.pass
  BY DEF LifeInv, Fresh
<1>9. Fresh'
  <2>1. ASSUME NEW v \in Uploads, upload'[v].at # "none"
        PROVE  v \in 1..low.pass \/ Gunzipped(v) \in 1..low.pass
    BY <1>1, <1>3, <1>8, <2>1
  <2> QED BY <1>4, <2>1 DEF Fresh, Gunzipped
<1>10. Stages'
  <2>1. upload[1].at = "stored" => upload'[1].at = "stored"
    BY <1>1, <1>2, <1>3
  <2>2. TakenApart \/ pending' \subseteq {low.pass, u}
    BY <1>0, <1>3 DEF LifeInv, Stages
  <2> QED BY <1>0, <1>4, <1>7, <2>1, <2>2 DEF LifeInv, Stages, TakenApart, Gunzipped
<1>11. Progressing' /\ LoadedIsComplete'
  BY <1>7 DEF LifeInv, Progressing, LoadedIsComplete
<1> QED BY <1>3, <1>6, <1>9, <1>10, <1>11 DEF LifeInv

\* The load goes on, and leaves the storage's bookkeeping and the decorators alone.
LEMMA LoadMoves ==
  ASSUME LifeInv, UNCHANGED <<conf, upload, pending, event, low, unz>>,
         load' \in [at : LoadStages, file : Nat \ {0}, finished : Nat]
  PROVE  Shapes' /\ Counted' /\ Fresh' /\ Stages'
<1>1. Shapes' /\ Counted'
  BY DEF LifeInv, Shapes, Counted, Writing
<1>2. Fresh' /\ Stages'
  BY DEF LifeInv, Fresh, Stages, Writing, TakenApart, Gunzipped
<1> QED BY <1>1, <1>2

LEMMA FetchInv ==
  ASSUME LifeInv, Fetch, UNCHANGED conf
  PROVE  LifeInv'
<1> DEFINE at == CASE conf.storage = "none" -> "loaded" [] conf.files = 0 -> "failed" [] OTHER -> "start"
<1>1. /\ load.at = "fetch" /\ load' = [load EXCEPT !.at = at]
      /\ UNCHANGED <<conf, upload, pending, event, active, low, unz>>
  BY DEF Fetch, LoadAt, OnlyLoad, storageVars, decoratorVars
<1>2. /\ at \in {"loaded", "failed", "start"} /\ (at = "loaded" => conf.storage = "none")
      /\ at = "start" => conf.files # 0
  OBVIOUS
<1> HIDE DEF at
<1>3. load'.at = at /\ load'.file = load.file /\ load'.finished = load.finished
      /\ load' \in [at : LoadStages, file : Nat \ {0}, finished : Nat]
  BY <1>1, <1>2 DEF LifeInv, Shapes, LoadStages
<1>4. low.at = "off" /\ unz.at = "off" /\ load.file = 1 /\ load.finished = load.file - 1 /\ active = NoBundle
  BY <1>1 DEF LifeInv, Progressing
<1>5. pending = {}
  BY <1>4 DEF LifeInv, Fresh, Counted, Writing
<1>6. conf.files \in Nat
  BY SetupAssumption DEF LifeInv, Shapes, SetupTypes
<1>7. Progressing' /\ LoadedIsComplete'
  BY <1>1, <1>2, <1>3, <1>4, <1>5, <1>6 DEF Progressing, Quiet, LoadedIsComplete
<1> QED BY <1>1, <1>3, <1>7, LoadMoves DEF LifeInv

LEMMA StartInv ==
  ASSUME LifeInv, Start, UNCHANGED conf
  PROVE  LifeInv'
<1>1. /\ load.at = "start" /\ load' = [load EXCEPT !.at = "add"]
      /\ active' = load.file /\ upload' = [u \in Uploads |-> NoUpload]
      /\ pending' = {} /\ event' = TRUE /\ low' = NoPass /\ unz' = NoUnzip
  BY DEF Start, StartBundle, LoadAt
<1>2. load'.at = "add" /\ load'.file = load.file /\ load'.finished = load.finished
      /\ load' \in [at : LoadStages, file : Nat \ {0}, finished : Nat]
  BY <1>1 DEF LifeInv, Shapes, LoadStages
<1>3. low'.at = "off" /\ low'.pass = 1 /\ unz'.at = "off"
  BY <1>1 DEF NoPass, NoUnzip
<1>4. \A u \in Uploads : upload'[u].at = "none"
  BY <1>1 DEF NoUpload
<1>5. Shapes'
  <2>1. low' \in [at : {"off", "direct", "peek", "gunzip", "spill", "wait", "ok", "raised"},
                  pass : 1..Passes, content : {"plain", "gzip", "zip"}]
    BY <1>1, Numbers DEF NoPass
  <2>2. unz' \in [at : {"off", "reading", "waiting", "deriving", "ok", "raised"}, got : Nat]
    BY <1>1 DEF NoUnzip
  <2>3. upload' \in [Uploads -> Upload]
    BY <1>1, StreamNames DEF NoUpload, Upload
  <2> QED BY <1>1, <1>2, <2>1, <2>2, <2>3 DEF LifeInv, Shapes, Upload
<1>6. Counted' /\ Fresh'
  BY <1>1, <1>3, <1>4 DEF Counted, Fresh, Writing
<1>7. Stages'
  BY <1>1, <1>3 DEF Stages, TakenApart
<1>8. load.finished = load.file - 1 /\ load.file <= conf.files
  BY <1>1 DEF LifeInv, Progressing
<1>9. Progressing' /\ LoadedIsComplete'
  BY <1>1, <1>2, <1>3, <1>8 DEF Progressing, Quiet, LoadedIsComplete
<1> QED BY <1>5, <1>6, <1>7, <1>9 DEF LifeInv

\* A load that fails owes nothing.
LEMMA FailedInv ==
  ASSUME LifeInv, UNCHANGED <<conf, upload, pending, event, low, unz>>, LoadAt("failed")
  PROVE  LifeInv'
<1>1. load'.at = "failed" /\ load' \in [at : LoadStages, file : Nat \ {0}, finished : Nat]
  BY DEF LifeInv, Shapes, LoadStages, LoadAt
<1>2. Progressing' /\ LoadedIsComplete'
  BY <1>1 DEF Progressing, LoadedIsComplete
<1> QED BY <1>1, <1>2, LoadMoves DEF LifeInv

LEMMA AddEndsInv ==
  ASSUME LifeInv, AddEnds, UNCHANGED conf
  PROVE  LifeInv'
<1>1. load.at = "adding" /\ UNCHANGED <<conf, upload, pending, event, active, low, unz>>
  BY DEF AddEnds, OnlyLoad, storageVars, decoratorVars
<1>2. CASE AddedOk /\ LoadAt(AfterAdd)
  <2>1. /\ low.at \in {"direct", "ok", "raised"} /\ unz.at \in {"off", "ok"}
        /\ upload[1].at = "stored" /\ (TakenApart \/ pending = {})
    <3>1. CASE conf.unzip
      BY <1>2, <3>1 DEF AddedOk, LifeInv, Stages
    <3>2. CASE ~conf.unzip
      <4>1. BelowOk /\ unz.at = "off" /\ low.pass = 1
        BY <1>2, <3>2 DEF AddedOk, LifeInv, Stages
      <4> QED BY <4>1, BelowEnded
    <3> QED BY <3>1, <3>2
  <2>2. /\ load'.at = IF conf.loader = "http" THEN "loaded" ELSE "complete"
        /\ load'.file = load.file /\ load'.finished = load.finished
        /\ load' \in [at : LoadStages, file : Nat \ {0}, finished : Nat]
    BY <1>2 DEF LifeInv, Shapes, LoadStages, LoadAt, AfterAdd
  <2>3. load.finished = load.file - 1 /\ load.file <= conf.files /\ active = load.file
    BY <1>1 DEF LifeInv, Progressing
  <2>4. Progressing' /\ LoadedIsComplete'
    BY <1>1, <2>1, <2>2, <2>3 DEF Progressing, Quiet, LoadedIsComplete, TakenApart
  <2> QED BY <1>1, <2>2, <2>4, LoadMoves DEF LifeInv
<1>3. CASE AddRaised /\ LoadAt("failed")
  BY <1>1, <1>3, FailedInv
<1> QED BY <1>2, <1>3 DEF AddEnds

-----------------------------------------------------------------------------
(* The completion *)

LEMMA Hooks ==
  /\ HookOrder[1] = IF conf.storage = "bus" THEN "callbacks" ELSE "finish"
  /\ HookOrder[2] = IF conf.storage = "bus" THEN "finish" ELSE "callbacks"
BY DEF HookOrder

LEMMA CompleteInv ==
  ASSUME LifeInv, Complete, UNCHANGED conf
  PROVE  LifeInv'
<1>1. /\ load.at = "complete" /\ event
      /\ load' = [load EXCEPT !.at = IF conf.storage = "bus" THEN "callbacks" ELSE "finish"]
      /\ UNCHANGED <<conf, upload, pending, event, active, low, unz>>
  BY Hooks DEF Complete, MayComplete, LoadAt, decoratorVars
<1>2. /\ load'.at = IF conf.storage = "bus" THEN "callbacks" ELSE "finish"
      /\ load'.file = load.file /\ load'.finished = load.finished
      /\ load' \in [at : LoadStages, file : Nat \ {0}, finished : Nat]
  BY <1>1 DEF LifeInv, Shapes, LoadStages
<1>3. pending = {}
  BY <1>1 DEF LifeInv, Counted
<1>4. Progressing' /\ LoadedIsComplete'
  BY <1>1, <1>2, <1>3 DEF LifeInv, Progressing, Quiet, LoadedIsComplete
<1> QED BY <1>1, <1>2, <1>4, LoadMoves DEF LifeInv

\* The second hook has run, and the bundle is finished: the next file's, or the end.
LEMMA NextFileInv ==
  ASSUME LifeInv, load.at \in {"callbacks", "finish"}, active' = NoBundle,
         UNCHANGED <<conf, upload, pending, event, low, unz>>, load' = NextFile(load.file)
  PROVE  LifeInv'
<1>1. /\ Quiet /\ pending = {} /\ load.file <= conf.files
      /\ conf.loader # "http" /\ upload[1].at = "stored"
  BY DEF LifeInv, Progressing
<1>2. load.file \in Nat \ {0} /\ conf.files \in Nat
  BY SetupAssumption DEF LifeInv, Shapes, SetupTypes
<1>3. CASE load.file < conf.files
  <2>1. load'.at = "start" /\ load'.file = load.file + 1 /\ load'.finished = load.file
        /\ load' \in [at : LoadStages, file : Nat \ {0}, finished : Nat]
    BY <1>2, <1>3 DEF NextFile, LoadStages
  <2>2. Progressing' /\ LoadedIsComplete'
    BY <1>1, <1>2, <1>3, <2>1 DEF Progressing, Quiet, LoadedIsComplete
  <2> QED BY <2>1, <2>2, LoadMoves DEF LifeInv
<1>4. CASE ~(load.file < conf.files)
  <2>1. load'.at = "loaded" /\ load'.file = load.file /\ load'.finished = load.file
        /\ load' \in [at : LoadStages, file : Nat \ {0}, finished : Nat]
    BY <1>2, <1>4 DEF NextFile, LoadStages
  <2>2. load.file = conf.files
    BY <1>1, <1>2, <1>4
  <2>3. Progressing' /\ LoadedIsComplete'
    BY <1>1, <1>2, <2>1, <2>2 DEF Progressing, Quiet, LoadedIsComplete
  <2> QED BY <2>1, <2>3, LoadMoves DEF LifeInv
<1> QED BY <1>3, <1>4

LEMMA FinishInv ==
  ASSUME LifeInv, Finish, UNCHANGED conf
  PROVE  LifeInv'
<1>1. load.at = "finish" /\ UNCHANGED <<conf, upload, pending, event, low, unz>>
  BY DEF Finish, decoratorVars
<1>2. load.finished = load.file - 1 /\ load.file \in Nat \ {0} /\ load.finished + 1 = load.file
  <2>1. load.finished = load.file - 1 /\ load.file \in Nat \ {0}
    BY <1>1 DEF LifeInv, Shapes, Progressing
  <2> QED BY <2>1
<1>3. CASE active' = ActiveAfterFinish /\ AfterHook("finish", load.finished + 1)
  <2>1. active' = NoBundle
    BY <1>3 DEF ActiveAfterFinish
  <2>2. CASE conf.storage = "bus"
    <3>1. load' = NextFile(load.file)
      BY <1>2, <1>3, <2>2, Hooks DEF AfterHook
    <3> QED BY <1>1, <2>1, <3>1, NextFileInv
  <2>3. CASE conf.storage # "bus"
    <3>1. load' = [load EXCEPT !.at = "callbacks", !.finished = load.file]
      BY <1>2, <1>3, <2>3, Hooks DEF AfterHook
    <3>2. load'.at = "callbacks" /\ load'.file = load.file /\ load'.finished = load.file
          /\ load' \in [at : LoadStages, file : Nat \ {0}, finished : Nat]
      BY <1>2, <3>1 DEF LifeInv, Shapes, LoadStages
    <3>3. Progressing' /\ LoadedIsComplete'
      BY <1>1, <2>1, <2>3, <3>2 DEF LifeInv, Progressing, Quiet, LoadedIsComplete
    <3> QED BY <1>1, <3>2, <3>3, LoadMoves DEF LifeInv
  <2> QED BY <2>2, <2>3
<1>4. CASE LoadAt("failed")
  BY <1>1, <1>4, FailedInv
<1> QED BY <1>3, <1>4 DEF Finish

LEMMA CallbacksInv ==
  ASSUME LifeInv, Callbacks, UNCHANGED conf
  PROVE  LifeInv'
<1>1. load.at = "callbacks" /\ UNCHANGED <<conf, upload, pending, event, active, low, unz>>
  BY DEF Callbacks, OnlyLoad, storageVars, decoratorVars
<1>2. CASE AfterHook("callbacks", load.finished)
  <2>1. CASE conf.storage = "bus"
    <3>1. load' = [load EXCEPT !.at = "finish", !.finished = load.finished]
      BY <1>2, <2>1, Hooks DEF AfterHook
    <3>2. load'.at = "finish" /\ load'.file = load.file /\ load'.finished = load.finished
          /\ load' \in [at : LoadStages, file : Nat \ {0}, finished : Nat]
      BY <3>1 DEF LifeInv, Shapes, LoadStages
    <3>3. Progressing' /\ LoadedIsComplete'
      BY <1>1, <2>1, <3>2 DEF LifeInv, Progressing, Quiet, LoadedIsComplete
    <3> QED BY <1>1, <3>2, <3>3, LoadMoves DEF LifeInv
  <2>2. CASE conf.storage # "bus"
    <3>1. active = NoBundle /\ load.finished = load.file
      BY <1>1, <2>2 DEF LifeInv, Progressing
    <3>2. load' = NextFile(load.file)
      BY <1>2, <2>2, <3>1, Hooks DEF AfterHook
    <3> QED BY <1>1, <3>1, <3>2, NextFileInv
  <2> QED BY <2>1, <2>2
<1>3. CASE LoadAt("failed")
  BY <1>1, <1>3, FailedInv
<1> QED BY <1>2, <1>3 DEF Callbacks

-----------------------------------------------------------------------------
(* The tasks beside the load *)

\* Every step of a task keeps the invariant.
LEMMA Still ==
  ASSUME LifeInv, UNCHANGED <<conf, pending, event, active, low, load, upload, unz>>
  PROVE  LifeInv'
<1>1. upload \in [Uploads -> Upload] /\ unz \in [at : {unz.at}, got : Nat]
  BY DEF LifeInv, Shapes, Upload
<1> QED BY <1>1, NothingMoves

LEMMA UploadStepInv ==
  ASSUME LifeInv, NEW u \in Uploads, UploadStep(u), UNCHANGED <<conf, decoratorVars, load>>
  PROVE  LifeInv'
<1>1. UNCHANGED <<conf, low, unz, load>>
  BY DEF decoratorVars
<1>2. CASE Write(u)
  <2>1. upload \in [Uploads -> Upload] /\ upload' = [upload EXCEPT ![u].got = @ + 1]
        /\ UNCHANGED <<pending, event, active>>
    BY <1>2 DEF LifeInv, Shapes, Upload, Write
  <2>2. upload' \in [Uploads -> Upload] /\ \A v \in Uploads : upload'[v].at = upload[v].at
    BY <2>1 DEF Upload
  <2>3. unz \in [at : {unz.at}, got : Nat]
    BY DEF LifeInv, Shapes
  <2> QED BY <1>1, <2>1, <2>2, <2>3, NothingMoves
<1>3. CASE Store(u)
  BY <1>1, <1>3, UploadMoves DEF Store
<1>4. CASE Fail(u)
  BY <1>1, <1>4, UploadMoves DEF Fail
<1> QED BY <1>2, <1>3, <1>4 DEF UploadStep

LEMMA TarGzStepInv ==
  ASSUME LifeInv, TarGzStep, UNCHANGED <<conf, load>>
  PROVE  LifeInv'
<1>0. low.pass \in Uploads /\ low.pass \in 1..Passes /\ Gunzipped(low.pass) \in Uploads
  BY Numbers DEF LifeInv, Shapes
<1>1. CASE PeekChunk
  <2>1. low.at = "peek" /\ UNCHANGED <<active, unz>>
    BY <1>1 DEF PeekChunk
  <2>2. CASE low.content = "gzip"
    <3>1. LowAt("gunzip") /\ Begin(Gunzipped(low.pass), Side, 1)
      BY <1>1, <2>2 DEF PeekChunk
    <3>2. Side \in Streams
      BY <1>0, Numbers, StreamNames DEF Side
    <3> QED BY <2>1, <3>1, <3>2, GunzipBegins
  <2>3. CASE low.content # "gzip"
    <3>1. LowAt("spill") /\ UNCHANGED <<upload, pending, event>>
      BY <1>1, <2>3 DEF PeekChunk
    <3>2. ~Writing(Gunzipped(low.pass))
      BY <2>1 DEF LifeInv, Fresh, Writing
    <3> QED BY <2>1, <3>1, <3>2, LowMoves
  <2> QED BY <2>2, <2>3
<1>2. CASE PeekEnd
  <2>1. low.at = "peek" /\ LowAt("spill") /\ UNCHANGED <<upload, pending, event, active, unz>>
    BY <1>2 DEF PeekEnd, OnlyLow, storageVars
  <2>2. ~Writing(Gunzipped(low.pass))
    BY <2>1 DEF LifeInv, Fresh, Writing
  <2> QED BY <2>1, <2>2, LowMoves
<1>3. CASE GunzipEnds
  <2>1. /\ low.at = "gunzip" /\ UNCHANGED <<upload, pending, event, active, unz>>
        /\ LowAt("wait") \/ LowAt("spill")
    BY <1>3 DEF GunzipEnds, OnlyLow, storageVars
  <2>2. ~Writing(Gunzipped(low.pass))
    BY <1>3 DEF GunzipEnds, Settled, Writing
  <2> QED BY <2>1, <2>2, LowMoves
<1>4. CASE SpillChunk
  BY <1>4, Still DEF SpillChunk, storageVars
<1>5. CASE SpillEnds
  <2>1. /\ low.at = "spill" /\ UNCHANGED <<upload, pending, event, active, unz>>
        /\ LowAt("wait") \/ LowAt("raised")
    BY <1>5 DEF SpillEnds, storageVars
  <2>2. ~Writing(Gunzipped(low.pass))
    BY <2>1 DEF LifeInv, Stages
  <2> QED BY <2>1, <2>2, LowMoves
<1>6. CASE BelowEnds
  <2>1. /\ low.at = "wait" /\ UNCHANGED <<upload, pending, event, active, unz>>
        /\ LowAt(IF upload[low.pass].at = "stored" THEN "ok" ELSE "raised")
    BY <1>6 DEF BelowEnds, OnlyLow, storageVars
  <2>2. ~Writing(Gunzipped(low.pass))
    BY <2>1 DEF LifeInv, Stages
  <2>3. CASE upload[low.pass].at = "stored"
    <3>1. LowAt("ok")
      BY <2>1, <2>3
    <3> QED BY <2>1, <2>2, <2>3, <3>1, LowMoves
  <2>4. CASE upload[low.pass].at # "stored"
    <3>1. LowAt("raised")
      BY <2>1, <2>4
    <3> QED BY <2>1, <2>2, <3>1, LowMoves
  <2> QED BY <2>3, <2>4
<1> QED BY <1>1, <1>2, <1>3, <1>4, <1>5, <1>6 DEF TarGzStep

\* The unzip decorator has found another resource, or is over.
LEMMA UnzipOverInv ==
  ASSUME LifeInv, UNCHANGED <<conf, load>>, unz.at \in {"waiting", "deriving"},
         NEW at \in {"ok", "raised"}, UnzipOver(at),
         at = "ok" => /\ upload[1].at = "stored" /\ low.at \in {"direct", "ok", "raised"}
                      /\ TakenApart \/ pending = {}
  PROVE  LifeInv'
<1>1. UnzAt(at) /\ UNCHANGED <<upload, pending, event, active, low>>
  BY DEF UnzipOver, storageVars
<1> QED BY <1>1, UnzMoves

LEMMA WrappedEndsInv ==
  ASSUME LifeInv, WrappedEnds, UNCHANGED <<conf, load>>
  PROVE  LifeInv'
<1>1. unz.at = "waiting" /\ low.pass = 1 /\ low.pass + 1 \in 1..Passes /\ unz.got \in Nat
  BY Numbers DEF LifeInv, Stages, Shapes, WrappedEnds
<1>2. BelowOk => /\ upload[1].at = "stored" /\ low.at \in {"direct", "ok", "raised"}
                 /\ TakenApart \/ pending = {}
  BY <1>1, BelowEnded
<1>3. CASE UnzipOver("raised")
  BY <1>1, <1>3, UnzipOverInv
<1>4. CASE BelowOk /\ UnzipOver("ok")
  BY <1>1, <1>2, <1>4, UnzipOverInv
<1>5. CASE BelowOk /\ Recognized /\ UnzAt("deriving") /\ Derive(2, "plain")
  <2>1. unz' \in [at : {"deriving"}, got : Nat]
    BY <1>5 DEF UnzAt, LifeInv, Shapes
  <2>2. Derive(low.pass + 1, "plain")
    <3>1. low.pass + 1 = 2
      BY <1>1
    <3> QED BY <1>5, <3>1
  <2>3. conf.content # "plain"
    BY <1>5 DEF Recognized
  <2> QED BY <1>1, <1>2, <1>5, <2>1, <2>2, <2>3, DeriveInv
<1> QED BY <1>3, <1>4, <1>5 DEF WrappedEnds

LEMMA MemberEndsInv ==
  ASSUME LifeInv, MemberEnds, UNCHANGED <<conf, load>>
  PROVE  LifeInv'
<1>1. /\ unz.at = "deriving" /\ conf.content = "zip" /\ upload[1].at = "stored" /\ conf.unzip
      /\ low.pass \in 1..Passes /\ unz \in [at : {"deriving"}, got : Nat]
  BY DEF LifeInv, Stages, Shapes, MemberEnds
<1>2. TakenApart <=> conf.targz
  BY <1>1 DEF TakenApart
<1>3. CASE BelowOk /\ low.pass <= Members /\ UNCHANGED unz /\ Derive(low.pass + 1, "plain")
  <2>1. low.pass + 1 \in 1..Passes
    BY <1>1, <1>3, Numbers
  <2>2. TakenApart \/ pending = {}
    BY <1>3, BelowEnded
  <2> QED BY <1>1, <1>3, <2>1, <2>2, DeriveInv
<1>4. CASE (BelowRaised \/ BelowOk) /\ UnzipOver("ok")
  <2>1. low.at \in {"direct", "ok", "raised"} /\ (TakenApart \/ pending = {})
    BY <1>2, <1>4, BelowEnded
  <2> QED BY <1>1, <1>4, <2>1, UnzipOverInv
<1> QED BY <1>3, <1>4 DEF MemberEnds

LEMMA GunzippedEndsInv ==
  ASSUME LifeInv, GunzippedEnds, UNCHANGED <<conf, load>>
  PROVE  LifeInv'
<1>1. /\ unz.at = "deriving" /\ conf.content = "gzip" /\ upload[1].at = "stored" /\ conf.unzip
      /\ unz \in [at : {"deriving"}, got : Nat]
  BY DEF LifeInv, Stages, Shapes, GunzippedEnds
<1>2. TakenApart <=> conf.targz
  BY <1>1 DEF TakenApart
<1>3. CASE BelowOk /\ UnzipOver("ok")
  <2>1. low.at \in {"direct", "ok", "raised"} /\ (TakenApart \/ pending = {})
    BY <1>3, BelowEnded
  <2> QED BY <1>1, <1>3, <2>1, UnzipOverInv
<1>4. CASE BelowRaised /\ low.pass = 2 /\ UNCHANGED unz /\ Derive(3, "gzip")
  <2>1. low.pass + 1 = 3 /\ low.pass + 1 \in 1..Passes
    BY <1>4, Numbers
  <2>2. Derive(low.pass + 1, "gzip")
    BY <1>4, <2>1
  <2>3. TakenApart \/ pending = {}
    BY <1>2, <1>4, BelowEnded
  <2> QED BY <1>1, <1>4, <2>1, <2>2, <2>3, DeriveInv
<1>5. CASE UnzipOver("raised")
  BY <1>1, <1>5, UnzipOverInv
<1> QED BY <1>3, <1>4, <1>5 DEF GunzippedEnds

LEMMA UnzipStepInv ==
  ASSUME LifeInv, UnzipStep, UNCHANGED <<conf, load>>
  PROVE  LifeInv'
<1>1. CASE ReadTemp
  <2>1. unz' \in [at : {unz.at}, got : Nat] /\ UNCHANGED <<upload, pending, event, active, low>>
    BY <1>1 DEF ReadTemp, storageVars, LifeInv, Shapes
  <2>2. upload \in [Uploads -> Upload]
    BY DEF LifeInv, Shapes, Upload
  <2> QED BY <2>1, <2>2, NothingMoves
<1>2. CASE TempEnds
  <2>1. /\ unz.at = "reading" /\ UNCHANGED <<upload, pending, event, active, low>>
        /\ UnzAt("waiting") \/ UnzAt("raised")
    BY <1>2 DEF TempEnds, storageVars
  <2> QED BY <2>1, UnzMoves
<1> QED BY <1>1, <1>2, WrappedEndsInv, MemberEndsInv, GunzippedEndsInv DEF UnzipStep

-----------------------------------------------------------------------------
(* The theorems *)

LEMMA InitLife == Init => LifeInv
<1> SUFFICES ASSUME Init PROVE LifeInv
  OBVIOUS
<1>1. /\ conf \in Setups /\ upload = [u \in Uploads |-> NoUpload] /\ pending = {} /\ event = TRUE
      /\ active = NoBundle /\ low = NoPass /\ unz = NoUnzip
      /\ load = [at |-> "fetch", file |-> 1, finished |-> 0]
  BY DEF Init, StorageInit, DecoratorInit
<1>2. Shapes
  <2>1. low \in [at : {"off", "direct", "peek", "gunzip", "spill", "wait", "ok", "raised"},
                 pass : 1..Passes, content : {"plain", "gzip", "zip"}]
    BY <1>1, Numbers DEF NoPass
  <2>2. unz \in [at : {"off", "reading", "waiting", "deriving", "ok", "raised"}, got : Nat]
    BY <1>1 DEF NoUnzip
  <2>3. upload \in [Uploads -> Upload]
    BY <1>1, StreamNames DEF NoUpload, Upload
  <2>4. load \in [at : LoadStages, file : Nat \ {0}, finished : Nat]
    BY <1>1 DEF LoadStages
  <2> QED BY <1>1, <2>1, <2>2, <2>3, <2>4 DEF Shapes, Upload
<1>3. \A u \in Uploads : upload[u].at = "none"
  BY <1>1 DEF NoUpload
<1>4. low.at = "off" /\ unz.at = "off" /\ low.pass = 1
  BY <1>1 DEF NoPass, NoUnzip
<1>5. Counted /\ Fresh /\ Stages
  BY <1>1, <1>3, <1>4 DEF Counted, Fresh, Stages, Writing, TakenApart
<1>6. Progressing /\ LoadedIsComplete
  BY <1>1, <1>4 DEF Progressing, Quiet, LoadedIsComplete
<1> QED BY <1>2, <1>5, <1>6 DEF LifeInv

LEMMA NextLife == LifeInv /\ [Next]_vars => LifeInv'
<1> SUFFICES ASSUME LifeInv, [Next]_vars PROVE LifeInv'
  OBVIOUS
<1>1. ASSUME Raise, UNCHANGED conf
      PROVE  LifeInv'
  BY <1>1, FailedInv DEF Raise, OnlyLoad, storageVars, decoratorVars
<1>2. ASSUME SourceBreaks, UNCHANGED conf
      PROVE  LifeInv'
  BY <1>2, Still DEF SourceBreaks, storageVars, decoratorVars
<1>3. ASSUME LoadStep, UNCHANGED conf
      PROVE  LifeInv'
  BY <1>3, FetchInv, StartInv, AddInv, AddEndsInv, CompleteInv, FinishInv, CallbacksInv DEF LoadStep
<1>4. ASSUME TaskStep, UNCHANGED conf
      PROVE  LifeInv'
  <2>1. CASE UNCHANGED <<storageVars, faults, decoratorVars, load>>
    BY <1>4, <2>1, Still DEF storageVars, decoratorVars
  <2>2. CASE (\E u \in Uploads : UploadStep(u)) /\ UNCHANGED <<decoratorVars, load>>
    BY <1>4, <2>2, UploadStepInv
  <2>3. CASE (TarGzStep \/ UnzipStep) /\ UNCHANGED load
    BY <1>4, <2>3, TarGzStepInv, UnzipStepInv
  <2> QED BY <1>4, <2>1, <2>2, <2>3 DEF TaskStep
<1>5. CASE UNCHANGED vars
  BY <1>5, Still DEF vars, storageVars, decoratorVars
<1>6. ASSUME FileBreaks, UNCHANGED load, UNCHANGED conf
      PROVE  LifeInv'
  BY <1>6, Still DEF FileBreaks, storageVars, decoratorVars
<1> QED BY <1>1, <1>2, <1>3, <1>4, <1>5, <1>6 DEF Next, Progress

LEMMA LifeInvariant == Spec => []LifeInv
BY InitLife, NextLife, PTL DEF Spec

\* A load that returns has stored its resource, and but for the HTTP loader's has finished every
\* bundle it started, with nothing active and nothing under way.
THEOREM LoadComplete == Spec => []LoadedIsComplete
<1>1. LifeInv => LoadedIsComplete
  BY DEF LifeInv
<1> QED BY <1>1, LifeInvariant, PTL

-----------------------------------------------------------------------------
(* The storage keeps the promise of BundleLife *)

LifeOk == [Life!Next]_(Life!vars)

\* Nothing that BundleLife tells of has changed.
LEMMA LifeStutters ==
  ASSUME active' = active, \A u \in Uploads : upload'[u].at = upload[u].at
  PROVE  LifeOk
<1>1. {u \in Uploads : Writing(u)}' = {u \in Uploads : Writing(u)}
  BY DEF Writing
<1>2. {u \in Uploads : upload[u].at = "stored"}' = {u \in Uploads : upload[u].at = "stored"}
  OBVIOUS
<1> QED BY <1>1, <1>2 DEF LifeOk, Life!vars

\* An upload begins, in a bundle the storage has; else it is refused.
LEMMA LifeBegins ==
  ASSUME NEW u \in Uploads, upload[u].at = "none", active' = active,
         upload'[u].at = IF active = NoBundle THEN "failed" ELSE "writing",
         \A v \in Uploads \ {u} : upload'[v] = upload[v]
  PROVE  LifeOk
<1> DEFINE W == {v \in Uploads : Writing(v)}
           K == {v \in Uploads : upload[v].at = "stored"}
<1>1. u \notin W /\ u \notin K
  BY DEF Writing
<1>2. K' = K
  OBVIOUS
<1>3. CASE active = NoBundle
  <2>1. W' = W
    BY <1>3 DEF Writing
  <2> QED BY <1>2, <2>1 DEF LifeOk, Life!vars
<1>4. CASE active # NoBundle
  <2>1. W' = W \cup {u}
    BY <1>4 DEF Writing
  <2>2. K' = K \ {u}
    BY <1>1, <1>2
  <2> QED BY <1>1, <1>4, <2>1, <2>2 DEF LifeOk, Life!Next, Life!Begin
<1> QED BY <1>3, <1>4

LEMMA LifeEnds ==
  ASSUME LifeInv, NEW u \in Uploads, NEW result \in {"stored", "failed"}, Settle(u, result)
  PROVE  LifeOk
<1> DEFINE W == {v \in Uploads : Writing(v)}
           K == {v \in Uploads : upload[v].at = "stored"}
<1>1. /\ upload[u].at = "writing" /\ upload'[u].at = result
      /\ \A v \in Uploads \ {u} : upload'[v] = upload[v]
      /\ active' = active
  BY SettleFacts DEF Settle
<1>2. u \in W /\ W' = W \ {u}
  BY <1>1 DEF Writing
<1>3. K' \in {K, K \cup {u}}
  <2>1. CASE result = "stored"
    <3>1. K' = K \cup {u}
      BY <1>1, <2>1
    <3> QED BY <3>1
  <2>2. CASE result = "failed"
    <3>1. K' = K
      BY <1>1, <2>2
    <3> QED BY <3>1
  <2> QED BY <2>1, <2>2
<1> QED BY <1>1, <1>2, <1>3 DEF LifeOk, Life!Next, Life!End

LEMMA LifeOpens ==
  ASSUME LifeInv, Start
  PROVE  LifeOk
<1> DEFINE W == {v \in Uploads : Writing(v)}
           K == {v \in Uploads : upload[v].at = "stored"}
<1>1. active = NoBundle /\ W = {} /\ load.file # NoBundle
  BY DEF LifeInv, Counted, Progressing, Shapes, Start, NoBundle
<1>2. active' = load.file /\ \A u \in Uploads : upload'[u].at = "none"
  BY DEF Start, StartBundle, NoUpload
<1>3. W' = {} /\ K' = {}
  BY <1>2 DEF Writing
<1> QED BY <1>1, <1>2, <1>3 DEF LifeOk, Life!Next, Life!Open

LEMMA LifeFinishes ==
  ASSUME LifeInv, Finish
  PROVE  LifeOk
<1>1. upload' = upload /\ (active' = NoBundle \/ active' = active)
  BY DEF Finish, ActiveAfterFinish
<1>2. CASE active' = active
  BY <1>1, <1>2, LifeStutters
<1>3. CASE active' = NoBundle
  <2> DEFINE W == {v \in Uploads : Writing(v)}
             K == {v \in Uploads : upload[v].at = "stored"}
  <2>1. active # NoBundle /\ W = {}
    BY DEF LifeInv, Counted, Progressing, Shapes, Finish, NoBundle
  <2>2. W' = W /\ K' = K
    BY <1>1 DEF Writing
  <2> QED BY <1>3, <2>1, <2>2 DEF LifeOk, Life!Next, Life!Finish
<1> QED BY <1>1, <1>2, <1>3

LEMMA LifeAdds ==
  ASSUME LifeInv, Add
  PROVE  LifeOk
<1> DEFINE f == IF conf.unzip THEN Fed(feeder, 0, Source) ELSE feeder
           from == IF conf.unzip THEN Consumer(0, 0) ELSE Source
<1>1. low.at = "off" /\ AddBelow(f, 1, from, conf.content) /\ active' = active
  BY DEF LifeInv, Progressing, Add, AddResource
<1>2. 1 \in 1..Passes /\ 1 \in Uploads
  BY Numbers
<1>3. from \in Streams /\ conf.content \in {"plain", "gzip", "zip"}
  BY SetupAssumption, Numbers, StreamNames DEF SetupTypes, LifeInv, Shapes
<1> HIDE DEF f, from
<1>4. /\ upload'[1].at = IF active = NoBundle THEN "failed" ELSE "writing"
      /\ \A v \in Uploads \ {1} : upload'[v] = upload[v]
  BY <1>1, <1>2, <1>3, AddBelowFacts
<1>5. upload[1].at = "none"
  BY <1>1, <1>2, NextPassFresh
<1> QED BY <1>1, <1>2, <1>4, <1>5, LifeBegins

LEMMA LifeDerives ==
  ASSUME LifeInv, NEW content \in {"plain", "gzip"}, low.pass + 1 \in 1..Passes,
         Derive(low.pass + 1, content)
  PROVE  LifeOk
<1>0. PICK p : p = low.pass + 1
  OBVIOUS
<1>1. AddBelow(feeder, p, File(p), content) /\ active' = active /\ p \in 1..Passes /\ p \in Uploads
  BY <1>0, Numbers DEF Derive
<1>2. File(p) \in Streams /\ content \in {"plain", "gzip", "zip"}
  BY <1>1, StreamNames
<1>3. /\ upload'[p].at = IF active = NoBundle THEN "failed" ELSE "writing"
      /\ \A v \in Uploads \ {p} : upload'[v] = upload[v]
  BY <1>0, <1>1, <1>2, AddBelowFacts
<1>4. upload[p].at = "none"
  BY <1>0, <1>1, NextPassFresh
<1> QED BY <1>1, <1>3, <1>4, LifeBegins

LEMMA LifeUploadStep ==
  ASSUME LifeInv, NEW u \in Uploads, UploadStep(u)
  PROVE  LifeOk
<1>1. CASE Write(u)
  <2>1. upload \in [Uploads -> Upload] /\ upload' = [upload EXCEPT ![u].got = @ + 1] /\ active' = active
    BY <1>1 DEF LifeInv, Shapes, Upload, Write
  <2>2. \A v \in Uploads : upload'[v].at = upload[v].at
    BY <2>1 DEF Upload
  <2> QED BY <2>1, <2>2, LifeStutters
<1>2. CASE Store(u)
  BY <1>2, LifeEnds DEF Store
<1>3. CASE Fail(u)
  BY <1>3, LifeEnds DEF Fail
<1> QED BY <1>1, <1>2, <1>3 DEF UploadStep

LEMMA LifeTarGz ==
  ASSUME LifeInv, TarGzStep
  PROVE  LifeOk
<1>1. CASE PeekChunk /\ low.content = "gzip"
  <2>1. low.at = "peek" /\ Begin(Gunzipped(low.pass), Side, 1) /\ active' = active
    BY <1>1 DEF PeekChunk
  <2>2. PICK u : u = Gunzipped(low.pass)
    OBVIOUS
  <2>3. u \in Uploads /\ Side \in Streams /\ 1 \in Nat /\ upload[u].at = "none" /\ Begin(u, Side, 1)
    BY <2>1, <2>2, Numbers, StreamNames DEF LifeInv, Shapes, Fresh, Side
  <2>4. /\ upload'[u].at = IF active = NoBundle THEN "failed" ELSE "writing"
        /\ \A v \in Uploads \ {u} : upload'[v] = upload[v]
    BY <2>3, BeginFresh
  <2> QED BY <2>1, <2>3, <2>4, LifeBegins
<1>2. CASE ~(PeekChunk /\ low.content = "gzip")
  <2>1. UNCHANGED <<active, upload>>
    BY <1>2 DEF TarGzStep, PeekChunk, PeekEnd, GunzipEnds, SpillChunk, SpillEnds, BelowEnds,
                OnlyLow, storageVars
  <2> QED BY <2>1, LifeStutters
<1> QED BY <1>1, <1>2

LEMMA LifeUnzip ==
  ASSUME LifeInv, UnzipStep
  PROVE  LifeOk
<1>1. CASE UNCHANGED <<active, upload>>
  BY <1>1, LifeStutters
<1>2. CASE WrappedEnds /\ Derive(2, "plain")
  <2>1. low.pass + 1 = 2 /\ low.pass + 1 \in 1..Passes
    BY <1>2, Numbers DEF LifeInv, Stages, WrappedEnds
  <2>2. Derive(low.pass + 1, "plain")
    BY <1>2, <2>1
  <2> QED BY <2>1, <2>2, LifeDerives
<1>3. CASE low.pass <= Members /\ Derive(low.pass + 1, "plain")
  <2>1. low.pass + 1 \in 1..Passes
    BY <1>3, Numbers DEF LifeInv, Shapes
  <2> QED BY <1>3, <2>1, LifeDerives
<1>4. CASE low.pass = 2 /\ Derive(3, "gzip")
  <2>1. low.pass + 1 = 3 /\ low.pass + 1 \in 1..Passes
    BY <1>4, Numbers
  <2>2. Derive(low.pass + 1, "gzip")
    BY <1>4, <2>1
  <2> QED BY <2>1, <2>2, LifeDerives
<1> QED BY <1>1, <1>2, <1>3, <1>4 DEF UnzipStep, ReadTemp, TempEnds, WrappedEnds, MemberEnds,
                                      GunzippedEnds, UnzipOver, storageVars

\* Whatever the loader and the decorators do, the storage has a bundle or not, takes uploads only
\* while it has it, finishes it when none is under way, and never changes what it then holds.
THEOREM StorageKeepsBundles == Spec => ImplementsBundleLife
<1>1. Init => Life!Init
  <2>1. Init => active = NoBundle /\ \A u \in Uploads : upload[u].at = "none"
    BY DEF Init, StorageInit, NoUpload
  <2> QED BY <2>1 DEF Life!Init, Writing
<1>2. LifeInv /\ [Next]_vars => LifeOk
  <2> SUFFICES ASSUME LifeInv, [Next]_vars PROVE LifeOk
    OBVIOUS
  <2>1. CASE UNCHANGED <<active, upload>>
    BY <2>1, LifeStutters
  <2>2. CASE Start \/ Finish \/ Add
    BY <2>2, LifeOpens, LifeFinishes, LifeAdds
  <2>3. CASE TarGzStep \/ UnzipStep \/ \E u \in Uploads : UploadStep(u)
    BY <2>3, LifeTarGz, LifeUnzip, LifeUploadStep
  <2>4. LoadStep => Start \/ Finish \/ Add \/ UNCHANGED <<active, upload>>
    BY DEF LoadStep, Fetch, AddEnds, Complete, Callbacks, OnlyLoad, storageVars
  <2>5. Raise \/ SourceBreaks \/ FileBreaks \/ UNCHANGED vars => UNCHANGED <<active, upload>>
    BY DEF Raise, SourceBreaks, FileBreaks, vars, OnlyLoad, storageVars
  <2>6. TaskStep => TarGzStep \/ UnzipStep \/ (\E u \in Uploads : UploadStep(u))
                    \/ UNCHANGED <<active, upload>>
    BY DEF TaskStep, storageVars
  <2> QED BY <2>1, <2>2, <2>3, <2>4, <2>5, <2>6 DEF Next, Progress
<1> QED BY <1>1, <1>2, LifeInvariant, PTL DEF Spec, ImplementsBundleLife, Life!Spec, LifeOk

-----------------------------------------------------------------------------
(* What is stored is whole *)

LEMMA Distinct ==
  /\ \A t \in Tees, i \in {0, 1} : /\ Consumer(t, i) \in Streams /\ Consumer(t, i) # Source
                                   /\ Consumer(t, i) \notin Inputs
  /\ \A t, v \in Tees, i, j \in {0, 1} : Consumer(t, i) = Consumer(v, j) => t = v /\ i = j
  /\ \A p \in 1..Passes : File(p) \in Inputs /\ File(p) # Source
  /\ \A p, q \in 1..Passes : File(p) = File(q) => p = q
  /\ Source \in Inputs /\ Inputs \subseteq Streams
  /\ \A s \in Streams : s \in Inputs \/ \E t \in Tees, i \in {0, 1} : s = Consumer(t, i)
<1>0. \A t \in Tees : t >= 0 /\ t \in Int
  BY Numbers DEF Tees
<1>1. ASSUME NEW t \in Tees, NEW i \in {0, 1}
      PROVE  /\ Consumer(t, i) \in Streams /\ Consumer(t, i) # Source /\ Consumer(t, i) \notin Inputs
  <2>1. Consumer(t, i) \in Streams
    BY DEF Streams, Consumers
  <2>2. t # -1 /\ t # -2
    BY <1>0
  <2> QED BY <2>1, <2>2 DEF Consumer, Source, File, Inputs
<1>2. \A t, v \in Tees, i, j \in {0, 1} : Consumer(t, i) = Consumer(v, j) => t = v /\ i = j
  BY DEF Consumer
<1>3. \A p \in 1..Passes : File(p) \in Inputs /\ File(p) # Source
  BY DEF Inputs, File, Source
<1>4. \A p, q \in 1..Passes : File(p) = File(q) => p = q
  BY DEF File
<1>5. Source \in Inputs /\ Inputs \subseteq Streams
  BY DEF Inputs, Streams
<1>6. \A s \in Streams : s \in Inputs \/ \E t \in Tees, i \in {0, 1} : s = Consumer(t, i)
  BY DEF Streams, Consumers
<1> QED BY <1>1, <1>2, <1>3, <1>4, <1>5, <1>6

LEMMA InputNames ==
  /\ \A t \in Tees : InputOf(t) \in Streams
  /\ \A t \in Tees : t # 1 \/ ~conf.unzip => InputOf(t) \in Inputs
  /\ InputOf(0) = Source /\ (conf.unzip => InputOf(1) = Consumer(0, 0)) /\ (~conf.unzip => InputOf(1) = Source)
  /\ \A p \in 1..Passes : p # 1 => InputOf(p) = File(p)
<1>1. InputOf(0) = Source /\ (conf.unzip => InputOf(1) = Consumer(0, 0)) /\ (~conf.unzip => InputOf(1) = Source)
  BY DEF InputOf
<1>2. \A p \in 1..Passes : p # 1 => InputOf(p) = File(p)
  BY Numbers DEF InputOf
<1>3. \A t \in Tees : t = 0 \/ t = 1 \/ (t \in 1..Passes /\ t # 1)
  BY Numbers DEF Tees
<1>4. Source \in Inputs /\ Source \in Streams /\ Consumer(0, 0) \in Streams
      /\ \A p \in 1..Passes : File(p) \in Inputs /\ File(p) \in Streams
  BY Distinct, Numbers
<1> QED BY <1>1, <1>2, <1>3, <1>4

\* A tee stays doomed, or not, while nobody breaks an input and it stays live, or not.
LEMMA DoomedStays ==
  ASSUME NEW t \in Tees, conf' = conf, Live(t)' <=> Live(t), Live(0)' <=> Live(0),
         \A r \in Inputs : stream'[r].mark <=> stream[r].mark
  PROVE  Doomed(t)' <=> Doomed(t)
<1>1. InputOf(t)' = InputOf(t)
  BY DEF InputOf
<1>2. stream'[Source].mark <=> stream[Source].mark
  BY Distinct
<1>3. CASE t = 1 /\ conf.unzip
  BY <1>2, <1>3 DEF Doomed
<1>4. CASE ~(t = 1 /\ conf.unzip)
  <2>1. stream'[InputOf(t)].mark <=> stream[InputOf(t)].mark
    BY <1>4, InputNames
  <2> QED BY <1>1, <1>4, <2>1 DEF Doomed
<1> QED BY <1>3, <1>4

Stream == [n : Nat, mark : BOOLEAN]

LEMMA TakeFacts ==
  ASSUME StreamShapes, NEW s \in Streams, Take(s)
  PROVE  /\ stream[s].n \in Nat \ {0} /\ stream'[s].n = stream[s].n - 1
         /\ \A r \in Streams : stream'[r].mark = stream[r].mark
         /\ \A r \in Streams \ {s} : stream'[r] = stream[r]
         /\ stream' \in [Streams -> Stream]
<1>1. stream \in [Streams -> Stream] /\ stream' = [stream EXCEPT ![s].n = @ - 1] /\ stream[s].n > 0
  BY DEF StreamShapes, Stream, Take, Ready
<1>2. stream[s] \in Stream
  BY <1>1
<1>3. stream[s].n - 1 \in Nat
  BY <1>1, <1>2 DEF Stream
<1>4. stream'[s] = [stream[s] EXCEPT !.n = stream[s].n - 1] /\ \A r \in Streams \ {s} : stream'[r] = stream[r]
  BY <1>1
<1>5. stream'[s].n = stream[s].n - 1 /\ stream'[s].mark = stream[s].mark /\ stream'[s] \in Stream
  BY <1>2, <1>3, <1>4 DEF Stream
<1> QED BY <1>1, <1>2, <1>4, <1>5 DEF Stream

\* What is left to a consumer is at least what lies in its queue.
LEMMA LeftNat ==
  ASSUME StreamShapes, NEW t \in Tees, NEW i \in {0, 1}
  PROVE  /\ Left(t, i) \in Nat /\ Left(t, i) >= stream[Consumer(t, i)].n
         /\ LeftOfInput(t) \in Nat /\ LeftOfInput(t) >= stream[InputOf(t)].n
<1>1. \A s \in Streams : stream[s].n \in Nat
  BY DEF StreamShapes
<1>2. \A v \in Tees, j \in {0, 1} : Owed(v, j) \in {0, 1}
  BY DEF Owed
<1>3. 0 \in Tees /\ 0 \in {0, 1} /\ Source \in Streams /\ InputOf(t) \in Streams /\ Consumer(0, 0) \in Streams
      /\ Consumer(t, i) \in Streams
  BY Numbers, Distinct, InputNames
<1>4. LeftOfFirst(0) \in Nat /\ LeftOfFirst(0) >= stream[Consumer(0, 0)].n
  BY <1>1, <1>2, <1>3 DEF LeftOfFirst
<1>5. LeftOfInput(t) \in Nat /\ LeftOfInput(t) >= stream[InputOf(t)].n
  BY <1>1, <1>3, <1>4, InputNames DEF LeftOfInput
<1> QED BY <1>1, <1>2, <1>3, <1>5 DEF Left

\* Somebody reads a consumer's stream that feeds no tee.
LEMMA LeftAfterTake ==
  ASSUME StreamShapes, NEW v \in Tees, NEW j \in {0, 1}, Take(Consumer(v, j)), UNCHANGED <<feeder, conf>>,
         v = 0 /\ j = 0 => ~Live(1), NEW t \in Tees, NEW i \in {0, 1}
  PROVE  /\ Left(t, i)' = IF t = v /\ i = j THEN Left(t, i) - 1 ELSE Left(t, i)
         /\ Doomed(t)' <=> Doomed(t)
<1> DEFINE s == Consumer(v, j)
<1>1. /\ s \in Streams /\ s # Source /\ s \notin Inputs /\ Consumer(t, i) \in Streams /\ 0 \in Tees
      /\ Consumer(0, 0) \in Streams /\ Source \in Streams
      /\ (Consumer(t, i) = s <=> t = v /\ i = j) /\ (Consumer(0, 0) = s <=> v = 0 /\ j = 0)
  BY Distinct, Numbers
<1> HIDE DEF s
<1>2. Take(s)
  BY DEF s
<1>3. /\ stream[s].n \in Nat \ {0} /\ stream'[s].n = stream[s].n - 1
      /\ \A r \in Streams : stream'[r].mark = stream[r].mark
      /\ \A r \in Streams \ {s} : stream'[r] = stream[r]
  BY <1>1, <1>2, TakeFacts
<1>4. /\ Owed(t, i)' = Owed(t, i) /\ (Live(t)' <=> Live(t)) /\ (Live(0)' <=> Live(0))
      /\ Owed(0, 0)' = Owed(0, 0) /\ InputOf(t)' = InputOf(t)
  BY DEF Owed, Live, InputOf
<1>5. Live(t) => LeftOfInput(t)' = LeftOfInput(t)
  <2>1. CASE t = 1 /\ conf.unzip
    <3>1. Live(t) => Consumer(0, 0) # s
      BY <1>1, <2>1
    <3> QED BY <1>1, <1>3, <1>4, <2>1, <3>1 DEF LeftOfInput, LeftOfFirst
  <2>2. CASE ~(t = 1 /\ conf.unzip)
    <3>1. InputOf(t) \in Streams /\ InputOf(t) # s
      BY <1>1, <2>2, InputNames
    <3> QED BY <1>3, <1>4, <2>2, <3>1 DEF LeftOfInput
  <2> QED BY <2>1, <2>2
<1>6. Doomed(t)' <=> Doomed(t)
  BY <1>3, <1>4, DoomedStays, Distinct
<1>7. Left(t, i)' = IF t = v /\ i = j THEN Left(t, i) - 1 ELSE Left(t, i)
  <2> DEFINE rest == Owed(t, i) + (IF Live(t) THEN LeftOfInput(t) ELSE 0)
  <2>1. rest' = rest
    BY <1>4, <1>5
  <2>2. rest \in Nat /\ stream[Consumer(t, i)].n \in Nat
    <3>1. Owed(t, i) \in Nat /\ LeftOfInput(t) \in Nat
      BY LeftNat DEF Owed
    <3> QED BY <1>1, <3>1 DEF StreamShapes
  <2>3. Left(t, i) = stream[Consumer(t, i)].n + rest /\ Left(t, i)' = stream'[Consumer(t, i)].n + rest'
    <3>1. Owed(t, i) \in Nat /\ LeftOfInput(t) \in Nat /\ (Live(t) => LeftOfInput(t)' \in Nat)
      BY <1>5, LeftNat DEF Owed
    <3>2. stream'[Consumer(t, i)].n \in Int
      BY <1>1, <1>3, <2>2
    <3> QED BY <1>4, <2>2, <3>1, <3>2 DEF Left
  <2> HIDE DEF rest
  <2> QED BY <1>1, <1>3, <2>1, <2>2, <2>3
<1> QED BY <1>6, <1>7

LEMMA ConsumerReads ==
  ASSUME StreamShapes, Flowing, NEW v \in Tees, NEW j \in {0, 1}, Take(Consumer(v, j)),
         UNCHANGED <<feeder, conf, cut>>, v = 0 /\ j = 0 => ~Live(1),
         \A u \in Uploads : upload[u].got \in Nat, unz.got \in Nat, low.pass \in 1..Passes,
         Reads(v, j)' => Reads(v, j) /\ Got(v, j)' = Got(v, j) + 1,
         \A t \in Tees, i \in {0, 1} : t # v \/ i # j =>
           (Reads(t, i)' => Reads(t, i) /\ Got(t, i)' = Got(t, i))
  PROVE  \A t \in Tees, i \in {0, 1} : Reads(t, i)' =>
           Flows(t, i, Got(t, i))' /\ Got(t, i)' <= Amount(t)
<1> SUFFICES ASSUME NEW t \in Tees, NEW i \in {0, 1}, Reads(t, i)'
             PROVE  Flows(t, i, Got(t, i))' /\ Got(t, i)' <= Amount(t)
  OBVIOUS
<1>1. Reads(t, i) /\ Got(t, i)' = IF t = v /\ i = j THEN Got(t, i) + 1 ELSE Got(t, i)
  OBVIOUS
<1>2. Flows(t, i, Got(t, i))
  BY <1>1 DEF Flowing
<1>3. Left(t, i)' = (IF t = v /\ i = j THEN Left(t, i) - 1 ELSE Left(t, i)) /\ (Doomed(t)' <=> Doomed(t))
  BY LeftAfterTake
<1>4. Got(t, i) \in Nat /\ Left(t, i) \in Nat
  <2>1. t = 0 \/ t \in 1..Passes
    BY Numbers DEF Tees
  <2>2. Got(t, i) \in Nat
    BY <2>1, Numbers DEF Got
  <2> QED BY <2>2, LeftNat
<1>5. Got(t, i)' + Left(t, i)' = Got(t, i) + Left(t, i)
  BY <1>1, <1>3, <1>4
<1>6. Got(t, i) + Left(t, i) <= Amount(t) /\ Amount(t) \in Nat /\ Amount(t)' = Amount(t)
  BY <1>2, TeeAssumption DEF Flows, Amount
<1>7. t = v /\ i = j => Left(t, i) >= 1
  <2>1. stream[Consumer(v, j)].n \in Nat \ {0}
    BY TakeFacts, Distinct
  <2> QED BY <1>4, <2>1, LeftNat
<1>8. Got(t, i)' <= Amount(t)
  BY <1>1, <1>4, <1>6, <1>7
<1>9. Flows(t, i, Got(t, i))'
  BY <1>2, <1>3, <1>5, <1>6 DEF Flows
<1> QED BY <1>8, <1>9

\* The streams nobody has touched, when a chunk is taken.
LEMMA UntouchedAfterTake ==
  ASSUME StreamShapes, Untouched, NEW s \in Streams, Take(s), UNCHANGED feeder,
         low.at # "off", low'.at # "off", low'.pass = low.pass, low.pass \in 1..Passes,
         \A p \in 1..Passes : s = File(p) => p <= low.pass
  PROVE  Untouched' /\ StreamShapes'
<1>1. /\ stream[s].n \in Nat \ {0} /\ stream'[s].n = stream[s].n - 1
      /\ \A r \in Streams : stream'[r].mark = stream[r].mark
      /\ \A r \in Streams \ {s} : stream'[r] = stream[r]
      /\ stream' \in [Streams -> Stream]
  BY TakeFacts
<1>2. /\ \A t \in Tees, i \in {0, 1} : Consumer(t, i) \in Streams
      /\ \A p \in 1..Passes : File(p) \in Streams /\ p \in Tees
      /\ Source \in Streams
  BY Distinct, Numbers
<1>3. \A r \in Streams : stream'[r].n <= stream[r].n /\ stream'[r].n \in Nat /\ stream[r].n \in Nat
  BY <1>1 DEF StreamShapes
<1>4. ASSUME NEW p \in 1..Passes, p > low.pass
      PROVE  stream'[File(p)].n = 1 /\ \A i \in {0, 1} : stream'[Consumer(p, i)].n = 0
  <2>1. File(p) # s
    BY <1>4
  <2>2. \A i \in {0, 1} : stream'[Consumer(p, i)].n = 0
    BY <1>2, <1>3, <1>4 DEF Untouched
  <2> QED BY <1>1, <1>2, <1>4, <2>1, <2>2 DEF Untouched
<1>5. Untouched'
  BY <1>1, <1>2, <1>4 DEF Untouched
<1>6. StreamShapes'
  <2>1. \A t \in Tees, i \in {0, 1} : stream'[Consumer(t, i)].n <= Capacity
    BY <1>2, <1>3, TeeAssumption DEF StreamShapes
  <2>2. stream'[Source].n <= Chunks /\ \A p \in 1..Passes : stream'[File(p)].n <= 1
    BY <1>2, <1>3, TeeAssumption DEF StreamShapes
  <2> QED BY <1>1, <2>1, <2>2 DEF StreamShapes, Stream
<1> QED BY <1>5, <1>6

LEMMA LyingKept ==
  ASSUME Lying, UNCHANGED <<conf, cut, upload, object>>, low'.pass = low.pass,
         low.at = "off" <=> low'.at = "off"
  PROVE  Lying'
<1>1. \A u : NameOf(u)' = NameOf(u) /\ (Writing(u)' <=> Writing(u)) /\ (Wrote(u)' <=> Wrote(u))
  BY DEF NameOf, Writing, Wrote
<1>2. \A u : Kept(u)' <=> Kept(u)
  BY <1>1 DEF Kept, Expected
<1>3. TwoWriters' <=> TwoWriters
  BY DEF TwoWriters
<1>4. KeptWhole'
  BY <1>2 DEF Lying, KeptWhole
<1>5. FileWhole'
  BY <1>1, <1>3 DEF Lying, FileWhole
<1> QED BY <1>4, <1>5 DEF Lying

\* Those who read their input themselves notice nothing.
LEMMA InputFlowsAfterTake ==
  ASSUME StreamShapes, Flowing, NEW v \in Tees, NEW j \in {0, 1}, Take(Consumer(v, j)), UNCHANGED conf,
         NEW p \in 1..Passes, ReadsInput(p)', ReadsInput(p), upload'[p].got = upload[p].got
  PROVE  InputFlows(p)'
<1>1. p \in Tees /\ InputOf(p)' = InputOf(p) /\ InputFlows(p)
  BY Numbers DEF InputOf, Flowing
<1>2. InputOf(p) \in Inputs /\ InputOf(p) \in Streams /\ Source \in Streams /\ Source # Consumer(v, j)
      /\ InputOf(p) # Consumer(v, j) /\ Consumer(v, j) \in Streams
  BY <1>1, InputNames, Distinct DEF ReadsInput
<1>3. stream'[InputOf(p)] = stream[InputOf(p)] /\ stream'[Source] = stream[Source]
  BY <1>2, TakeFacts
<1> QED BY <1>1, <1>3 DEF InputFlows, Amount

\* The unzip decorator copies a chunk aside.
LEMMA ReadTempWhole ==
  ASSUME LifeInv, WholeInv, ReadTemp, UNCHANGED <<conf, load>>
  PROVE  WholeInv'
<1>1. /\ unz.at = "reading" /\ Take(Consumer(0, 1)) /\ unz' = [unz EXCEPT !.got = @ + 1]
      /\ UNCHANGED <<conf, load, feeder, cut, dropped, upload, pending, event, completed, active, object, low, faults>>
  BY DEF ReadTemp, Copy, storageVars
<1>2. unz' \in [at : {"reading"}, got : Nat] /\ unz'.got = unz.got + 1 /\ unz.got \in Nat
  BY <1>1 DEF LifeInv, Shapes
<1>3. 0 \in Tees /\ 1 \in {0, 1} /\ low.pass \in 1..Passes /\ low.at # "off" /\ Consumer(0, 1) \in Streams
  BY <1>1, Numbers, Distinct DEF LifeInv, Shapes, WholeInv, Wired
<1>4. \A u \in Uploads : upload[u].got \in Nat
  BY DEF LifeInv, Shapes
<1>5. Reads(0, 1) /\ Reads(0, 1)' /\ Got(0, 1)' = Got(0, 1) + 1
  BY <1>1, <1>2 DEF Reads, Got
<1>6. \A t \in Tees, i \in {0, 1} : t # 0 \/ i # 1 =>
        (Reads(t, i)' => Reads(t, i) /\ Got(t, i)' = Got(t, i))
  BY <1>1 DEF Reads, Got, Writing, Gunzipped
<1>7. \A t \in Tees, i \in {0, 1} : Reads(t, i)' =>
        Flows(t, i, Got(t, i))' /\ Got(t, i)' <= Amount(t)
  <2>1. /\ StreamShapes /\ Flowing /\ Take(Consumer(0, 1)) /\ UNCHANGED <<feeder, conf, cut>>
        /\ Reads(0, 1)' => Reads(0, 1) /\ Got(0, 1)' = Got(0, 1) + 1
    BY <1>1, <1>5 DEF WholeInv
  <2> HIDE DEF WholeInv
  <2> QED BY ONLY <1>2, <1>3, <1>4, <1>6, <2>1, ConsumerReads
<1>8. Untouched' /\ StreamShapes'
  <2>1. \A p \in 1..Passes : Consumer(0, 1) # File(p)
    BY <1>3, Distinct
  <2> QED BY <1>1, <1>3, <2>1, UntouchedAfterTake DEF WholeInv
<1>9. unz'.got <= Chunks
  BY <1>3, <1>5, <1>7 DEF Got, Amount
<1>10. Flowing'
  <2>1. ASSUME NEW p \in 1..Passes, ReadsInput(p)'
        PROVE  InputFlows(p)'
    <3>1. ReadsInput(p)
      BY <1>1, <2>1 DEF ReadsInput, Writing
    <3> QED BY <1>1, <1>3, <2>1, <3>1, InputFlowsAfterTake DEF WholeInv
  <2> QED BY <1>1, <1>7, <1>9, <2>1 DEF WholeInv, Flowing, Expected, Gunzipped
<1>11. Wired'
  BY <1>1, <1>2, <1>3 DEF WholeInv, Wired, InputOf, FromOf, Writing, Gunzipped
<1>12. Tidy' /\ Copied' /\ Lying'
  BY <1>1, LyingKept DEF WholeInv, Tidy, Copied, Gunzipped
<1> QED BY <1>8, <1>10, <1>11, <1>12 DEF WholeInv

\* The tar/gz decorator copies a chunk aside, having looked at it or not.
LEMMA SideWhole ==
  ASSUME LifeInv, WholeInv, low.at \in {"peek", "spill"}, Take(Side), low' = [low EXCEPT !.at = "spill"],
         low.at = "peek" => low.content # "gzip",
         UNCHANGED <<conf, load, feeder, cut, dropped, upload, object, completed, unz, faults>>
  PROVE  WholeInv'
<1>0. PICK p : p = low.pass
  OBVIOUS
<1>1. /\ p \in 1..Passes /\ p \in Tees /\ 1 \in {0, 1} /\ p # 0 /\ Take(Consumer(p, 1)) /\ Consumer(p, 1) \in Streams
      /\ Gunzipped(p) \in Uploads
  BY <1>0, Numbers, Distinct DEF LifeInv, Shapes, Side
<1>2. low'.at = "spill" /\ low'.pass = p /\ low'.content = low.content
  BY <1>0 DEF LifeInv, Shapes
<1>3. ~Writing(Gunzipped(p))
  BY <1>0 DEF LifeInv, Fresh, Stages, Writing
<1>4. /\ \A u \in Uploads : upload[u].got \in Nat
      /\ unz.got \in Nat
  BY DEF LifeInv, Shapes
<1>5. ~Reads(p, 1)'
  BY <1>1, <1>2, <1>3 DEF Reads, Writing, Gunzipped
<1>6. \A t \in Tees, i \in {0, 1} : t # p \/ i # 1 =>
        (Reads(t, i)' => Reads(t, i) /\ Got(t, i)' = Got(t, i))
  BY <1>0, <1>2 DEF Reads, Got, Writing, Gunzipped
<1>7. \A t \in Tees, i \in {0, 1} : Reads(t, i)' =>
        Flows(t, i, Got(t, i))' /\ Got(t, i)' <= Amount(t)
  <2>1. /\ StreamShapes /\ Flowing /\ UNCHANGED <<feeder, conf, cut>>
        /\ Reads(p, 1)' => Reads(p, 1) /\ Got(p, 1)' = Got(p, 1) + 1
    BY <1>5 DEF WholeInv
  <2>2. low.pass \in 1..Passes
    BY <1>0, <1>1
  <2> QED BY ONLY <1>1, <1>4, <1>6, <2>1, <2>2, ConsumerReads
<1>8. Untouched' /\ StreamShapes'
  <2>1. \A q \in 1..Passes : Consumer(p, 1) # File(q)
    BY <1>1, Distinct
  <2> QED BY <1>0, <1>1, <1>2, <2>1, UntouchedAfterTake DEF WholeInv
<1>9. Flowing'
  <2>1. ASSUME NEW q \in 1..Passes, ReadsInput(q)'
        PROVE  InputFlows(q)'
    <3>1. ReadsInput(q)
      BY <2>1 DEF ReadsInput, Writing
    <3> QED BY <1>1, <2>1, <3>1, InputFlowsAfterTake DEF WholeInv
  <2> QED BY <1>7, <2>1 DEF WholeInv, Flowing, Expected, Gunzipped
<1>10. Wired'
  BY <1>0, <1>2 DEF WholeInv, Wired, InputOf, FromOf, Writing, Gunzipped
<1>11. Copied'
  BY <1>0, <1>1, <1>2, Numbers DEF WholeInv, Copied
<1>12. Tidy' /\ Lying'
  BY <1>0, <1>2, LyingKept DEF WholeInv, Tidy
<1> QED BY <1>8, <1>9, <1>10, <1>11, <1>12 DEF WholeInv

\* An upload that begins leaves what is stored elsewhere.
LEMMA BeginStored ==
  ASSUME LifeInv, WholeInv, NEW u \in Uploads, NEW from \in Streams, NEW got \in Nat,
         upload[u].at = "none", Begin(u, from, got), UNCHANGED <<conf, cut>>
  PROVE  /\ upload'[u].from = from /\ upload'[u].got = got /\ upload' \in [Uploads -> Upload]
         /\ \A v \in Uploads \ {u} : upload'[v] = upload[v]
         /\ upload'[u].at = IF active = NoBundle THEN "failed" ELSE "writing"
         /\ object' \in [Uploads -> [by : SUBSET Uploads, got : Nat]] /\ KeptWhole'
<1> DEFINE at == IF active = NoBundle THEN "failed" ELSE "writing"
<1>1. upload \in [Uploads -> Upload] /\ upload' = [upload EXCEPT ![u] = [at |-> at, from |-> from, got |-> got]]
  BY DEF LifeInv, Shapes, Upload, Begin
<1>2. at \in {"failed", "writing"}
  OBVIOUS
<1> HIDE DEF at
<1>3. /\ upload'[u].from = from /\ upload'[u].got = got /\ upload'[u].at = at /\ upload' \in [Uploads -> Upload]
      /\ \A v \in Uploads \ {u} : upload'[v] = upload[v]
  BY <1>1, <1>2 DEF Upload
<1>4. NameOf(u) \in Uploads
  BY Numbers DEF NameOf
<1>5. object' \in [Uploads -> [by : SUBSET Uploads, got : Nat]]
  <2>1. object \in [Uploads -> [by : SUBSET Uploads, got : Nat]]
    BY DEF WholeInv, Lying
  <2>2. CASE conf.storage = "file"
    <3>1. PICK names : names = {u} \cup Rivals(u)
      OBVIOUS
    <3>2. names \in SUBSET Uploads
      BY <3>1 DEF Rivals
    <3>3. object' = [object EXCEPT ![NameOf(u)] = [by |-> names, got |-> got]]
      BY <2>2, <3>1 DEF Begin, Opened
    <3> QED BY <1>4, <2>1, <3>2, <3>3
  <2>3. CASE conf.storage # "file"
    BY <2>1, <2>3 DEF Begin, Opened
  <2> QED BY <2>2, <2>3
<1>6. KeptWhole'
  <2> SUFFICES ASSUME conf.storage # "file", ~cut, NEW v \in Uploads, upload'[v].at = "stored"
               PROVE  Kept(v)'
    BY DEF KeptWhole
  <2>1. upload[v].at = "stored" /\ object' = object
    BY <1>2, <1>3 DEF Begin, Opened
  <2>2. Kept(v)
    BY <2>1 DEF WholeInv, Lying, KeptWhole
  <2>3. PICK w \in Uploads : /\ NameOf(w) = NameOf(v) /\ upload[w].at = "stored"
                             /\ object[NameOf(v)] = [by |-> {w}, got |-> Expected(w)]
    BY <2>2 DEF Kept
  <2>4. upload'[w].at = "stored" /\ NameOf(w)' = NameOf(w) /\ NameOf(v)' = NameOf(v)
    BY <1>3, <2>3 DEF NameOf
  <2>5. Expected(w)' = Expected(w)
    BY DEF Expected
  <2> QED BY <2>1, <2>3, <2>4, <2>5 DEF Kept
<1> QED BY <1>3, <1>5, <1>6 DEF at

\* The tar/gz decorator sees a compressed body, and has its decompressed copy uploaded.
LEMMA GunzipWhole ==
  ASSUME LifeInv, WholeInv, low.at = "peek", Take(Side), low' = [low EXCEPT !.at = "gunzip"],
         Begin(Gunzipped(low.pass), Side, 1),
         UNCHANGED <<conf, load, feeder, cut, dropped, completed, unz, faults>>
  PROVE  WholeInv'
<1>0. PICK p : p = low.pass
  OBVIOUS
<1>1. PICK u : u = Gunzipped(p)
  OBVIOUS
<1>2. /\ p \in 1..Passes /\ p \in Tees /\ 1 \in {0, 1} /\ p # 0 /\ Take(Consumer(p, 1)) /\ Consumer(p, 1) \in Streams
      /\ u \in Uploads /\ p \in Uploads /\ u # p /\ Gunzipped(u) = p /\ u < 0
  BY <1>0, <1>1, Numbers, Distinct DEF LifeInv, Shapes, Side, Gunzipped
<1>3. upload[u].at = "none" /\ Begin(u, Consumer(p, 1), 1) /\ 1 \in Nat
  BY <1>0, <1>1 DEF LifeInv, Fresh, Side
<1>4. /\ upload'[u].from = Consumer(p, 1) /\ upload'[u].got = 1 /\ upload' \in [Uploads -> Upload]
      /\ \A v \in Uploads \ {u} : upload'[v] = upload[v]
      /\ upload'[u].at = IF active = NoBundle THEN "failed" ELSE "writing"
      /\ object' \in [Uploads -> [by : SUBSET Uploads, got : Nat]] /\ KeptWhole'
  BY <1>2, <1>3, BeginStored
<1>5. low'.at = "gunzip" /\ low'.pass = p /\ low'.content = low.content
  BY <1>0 DEF LifeInv, Shapes
<1>6. /\ \A v \in Uploads : upload[v].got \in Nat
      /\ unz.got \in Nat
  BY DEF LifeInv, Shapes
<1>7. Reads(p, 1) /\ Got(p, 1) = 0
  BY <1>0, <1>1, <1>2, <1>3 DEF Reads, Got, Writing
<1>8. Reads(p, 1)' => Got(p, 1)' = 1
  BY <1>1, <1>2, <1>4, <1>5 DEF Reads, Got, Writing, Gunzipped
<1>9. \A t \in Tees, i \in {0, 1} : t # p \/ i # 1 =>
        (Reads(t, i)' => Reads(t, i) /\ Got(t, i)' = Got(t, i))
  <2> SUFFICES ASSUME NEW t \in Tees, NEW i \in {0, 1}, t # p \/ i # 1, Reads(t, i)'
               PROVE  Reads(t, i) /\ Got(t, i)' = Got(t, i)
    OBVIOUS
  <2>1. \A q \in 1..Passes : q \in Uploads \ {u} /\ (q # p => Gunzipped(q) \in Uploads \ {u})
    BY <1>1, <1>2, Numbers DEF Gunzipped
  <2>2. t = 0 \/ t \in 1..Passes
    BY Numbers DEF Tees
  <2>3. 1 \in Uploads \ {u}
    BY <1>2, Numbers
  <2>4. CASE t = 0
    BY <1>4, <2>3, <2>4 DEF Reads, Got, Writing
  <2>5. CASE t # 0 /\ i = 0
    BY <1>4, <2>1, <2>2, <2>5 DEF Reads, Got, Writing
  <2>6. CASE t # 0 /\ i = 1
    <3>1. t # p /\ upload'[Gunzipped(t)] = upload[Gunzipped(t)]
      BY <1>4, <2>1, <2>2, <2>6
    <3> QED BY <1>0, <1>5, <2>6, <3>1 DEF Reads, Got, Writing, Gunzipped
  <2> QED BY <2>4, <2>5, <2>6
<1>10. \A t \in Tees, i \in {0, 1} : Reads(t, i)' =>
         Flows(t, i, Got(t, i))' /\ Got(t, i)' <= Amount(t)
  <2>1. /\ StreamShapes /\ Flowing /\ UNCHANGED <<feeder, conf, cut>>
        /\ Reads(p, 1)' => Reads(p, 1) /\ Got(p, 1)' = Got(p, 1) + 1
    BY <1>7, <1>8 DEF WholeInv
  <2>2. low.pass \in 1..Passes
    BY <1>0, <1>2
  <2> QED BY ONLY <1>2, <1>6, <1>9, <2>1, <2>2, ConsumerReads
<1>11. Untouched' /\ StreamShapes'
  <2>1. \A q \in 1..Passes : Consumer(p, 1) # File(q)
    BY <1>2, Distinct
  <2> QED BY <1>0, <1>2, <1>5, <2>1, UntouchedAfterTake DEF WholeInv
<1>12. 1 <= Expected(u)
  <2>1. Flows(p, 1, 0)
    BY <1>2, <1>7 DEF WholeInv, Flowing
  <2>2. Left(p, 1) \in Nat /\ Left(p, 1) >= 1
    <3>1. stream[Consumer(p, 1)].n \in Nat \ {0} /\ StreamShapes
      BY <1>2, TakeFacts DEF WholeInv
    <3> QED BY <1>2, <3>1, LeftNat
  <2>3. 1 <= Amount(p)
    BY <2>1, <2>2, TeeAssumption DEF Flows, Amount
  <2> QED BY <1>1, <1>2, <2>3 DEF Amount, Expected, Gunzipped
<1>13. Flowing'
  <2>1. ASSUME NEW q \in 1..Passes, ReadsInput(q)'
        PROVE  InputFlows(q)'
    <3>1. q \in Uploads \ {u}
      BY <1>2, Numbers
    <3>2. ReadsInput(q) /\ upload'[q].got = upload[q].got
      BY <1>4, <2>1, <3>1 DEF ReadsInput, Writing
    <3> QED BY <1>2, <2>1, <3>2, InputFlowsAfterTake DEF WholeInv
  <2>2. \A v \in Uploads : upload'[v].got <= Expected(v)
    BY <1>4, <1>12 DEF WholeInv, Flowing
  <2>3. \A v \in Uploads : upload'[v].at = "stored" => upload'[v].got = Expected(v) \/ cut
    BY <1>4 DEF WholeInv, Flowing
  <2> QED BY <1>10, <2>1, <2>2, <2>3 DEF WholeInv, Flowing, Expected
<1>14. Wired'
  <2>1. \A t \in Tees : InputOf(t)' = InputOf(t)
    BY DEF InputOf
  <2>2. \A t \in Tees : feeder'[t].at # "off" =>
          /\ feeder'[t].input = InputOf(t) /\ low'.at # "off"
          /\ IF t = 0 THEN conf.unzip ELSE conf.targz /\ t <= low'.pass
    BY <1>0, <1>5 DEF WholeInv, Wired
  <2>3. conf.targz
    BY DEF LifeInv, Stages
  <2>4. ASSUME NEW v \in Uploads, Writing(v)'
        PROVE  upload'[v].from = FromOf(v)' /\ (v < 0 => conf.targz)
    <3>1. FromOf(v)' = FromOf(v)
      BY DEF FromOf, InputOf
    <3>2. CASE v = u
      BY <1>2, <1>4, <2>3, <3>1, <3>2 DEF FromOf
    <3>3. CASE v # u
      BY <1>4, <2>4, <3>1, <3>3 DEF WholeInv, Wired, Writing
    <3> QED BY <3>2, <3>3
  <2> QED BY <1>5, <2>1, <2>2, <2>4 DEF Wired
<1>15. Copied'
  <2>1. upload'[Gunzipped(1)].at # "none" \/ p # 1
    BY <1>1, <1>4, <1>2
  <2>2. p # 1 => p > 1
    BY <1>2
  <2>3. upload[Gunzipped(1)].at # "none" => upload'[Gunzipped(1)].at # "none"
    BY <1>3, <1>4, Numbers
  <2> QED BY <1>0, <1>5, <2>1, <2>2, <2>3 DEF WholeInv, Copied, Gunzipped
<1>16. Lying'
  <2>1. upload'[p].at # "none"
    BY <1>0, <1>2, <1>4 DEF WholeInv, Lying
  <2>2. TwoWriters' \/ conf.storage # "file"
    BY <1>1, <1>2, <1>4 DEF TwoWriters, Gunzipped
  <2> QED BY <1>4, <1>5, <2>1, <2>2 DEF Lying, FileWhole
<1> QED BY <1>11, <1>13, <1>14, <1>15, <1>16 DEF WholeInv, Tidy

-----------------------------------------------------------------------------
(* An upload reads a chunk *)

\* What an upload's write changes besides the streams.
LEMMA WriteStored ==
  ASSUME LifeInv, WholeInv, NEW u \in Uploads, Write(u), UNCHANGED <<conf, low>>
  PROVE  /\ upload'[u].got = upload[u].got + 1 /\ \A v \in Uploads \ {u} : upload'[v] = upload[v]
         /\ \A v \in Uploads : upload'[v].at = upload[v].at /\ upload'[v].from = upload[v].from
         /\ Lying'
<1>1. upload \in [Uploads -> Upload] /\ upload' = [upload EXCEPT ![u].got = @ + 1]
      /\ upload[u].at = "writing" /\ cut' = cut
  BY DEF LifeInv, Shapes, Upload, Write, Writing
<1>2. /\ upload'[u].got = upload[u].got + 1 /\ \A v \in Uploads \ {u} : upload'[v] = upload[v]
      /\ \A v \in Uploads : upload'[v].at = upload[v].at /\ upload'[v].from = upload[v].from
      /\ upload[u].got \in Nat
  BY <1>1 DEF Upload
<1>3. object \in [Uploads -> [by : SUBSET Uploads, got : Nat]] /\ NameOf(u) \in Uploads
  BY Numbers DEF WholeInv, Lying, NameOf
<1>4. CASE conf.storage # "file"
  <2>1. object' = object
    BY <1>4 DEF Write
  <2>2. KeptWhole'
    <3>1. \A v \in Uploads : Kept(v) => Kept(v)'
      BY <1>2, <2>1 DEF Kept, NameOf, Expected
    <3> QED BY <1>1, <1>2, <3>1 DEF WholeInv, Lying, KeptWhole
  <2>3. low.at # "off" => upload'[low.pass].at # "none"
    <3>1. low.pass \in Uploads
      BY Numbers DEF LifeInv, Shapes
    <3> QED BY <1>2, <3>1 DEF WholeInv, Lying
  <2> QED BY <1>2, <1>3, <1>4, <2>1, <2>2, <2>3 DEF Lying, FileWhole
<1>5. CASE conf.storage = "file"
  <2>1. object' = [object EXCEPT ![NameOf(u)] = [by |-> object[NameOf(u)].by \cup {u},
                                                 got |-> object[NameOf(u)].got + 1]]
    BY <1>5 DEF Write
  <2>2. /\ object' \in [Uploads -> [by : SUBSET Uploads, got : Nat]]
        /\ object'[NameOf(u)] = [by |-> object[NameOf(u)].by \cup {u}, got |-> object[NameOf(u)].got + 1]
        /\ \A n \in Uploads \ {NameOf(u)} : object'[n] = object[n]
    BY <1>3, <2>1
  <2>3. low.pass \in Uploads /\ low.pass \in 1..Passes
    BY Numbers DEF LifeInv, Shapes
  <2>4. FileWhole'
    <3> SUFFICES ASSUME ~cut, ~TwoWriters', NEW v \in 1..low.pass
                 PROVE  IF conf.content = "zip" \/ v = low.pass
                        THEN upload'[v].at \in {"writing", "stored"} => Wrote(v)'
                        ELSE ~Writing(v)'
      BY <1>1 DEF FileWhole
    <3>1. ~TwoWriters
      BY <1>2, Numbers DEF TwoWriters
    <3>2. v \in Uploads /\ v \in 1..Passes /\ u \in 1..low.pass
      <4>1. v \in 1..Passes /\ v \in Uploads
        BY <2>3, Numbers
      <4>2. u \in 1..low.pass \/ Gunzipped(u) \in 1..low.pass
        BY <1>1 DEF LifeInv, Fresh
      <4>3. Gunzipped(u) \notin 1..low.pass
        <5> SUFFICES ASSUME Gunzipped(u) \in 1..low.pass PROVE FALSE
          OBVIOUS
        <5>1. Gunzipped(u) \in 1..Passes /\ Gunzipped(Gunzipped(u)) = u
          BY <2>3, Numbers
        <5> QED BY <1>1, <1>5, <3>1, <5>1 DEF TwoWriters
      <4> QED BY <4>1, <4>2, <4>3
    <3>3. IF conf.content = "zip" \/ v = low.pass
          THEN upload[v].at \in {"writing", "stored"} => Wrote(v)
          ELSE ~Writing(v)
      BY <1>5, <3>1 DEF WholeInv, Lying, FileWhole
    <3>4. CASE ~(conf.content = "zip" \/ v = low.pass)
      BY <1>2, <3>2, <3>3, <3>4 DEF Writing
    <3>5. CASE (conf.content = "zip" \/ v = low.pass) /\ v = u
      <4>1. object[NameOf(u)] = [by |-> {u}, got |-> upload[u].got]
        BY <1>1, <3>3, <3>5 DEF Wrote
      <4>2. object'[NameOf(u)] = [by |-> {u}, got |-> upload[u].got + 1]
        <5>1. object[NameOf(u)].by = {u} /\ object[NameOf(u)].got = upload[u].got
          BY <4>1
        <5> QED BY <2>2, <5>1
      <4>3. Wrote(u)'
        BY <1>2, <4>2 DEF Wrote, NameOf
      <4> QED BY <3>5, <4>3
    <3>6. CASE (conf.content = "zip" \/ v = low.pass) /\ v # u
      <4>1. conf.content = "zip"
        <5> SUFFICES ASSUME conf.content # "zip" PROVE FALSE
          OBVIOUS
        <5>1. ~Writing(u)
          BY <1>5, <3>1, <3>2, <3>6 DEF WholeInv, Lying, FileWhole
        <5> QED BY <1>1, <5>1 DEF Writing
      <4>2. NameOf(v) # NameOf(u) /\ NameOf(v) \in Uploads
        BY <2>3, <3>2, <3>6, <4>1 DEF NameOf
      <4>3. Wrote(v)' <=> Wrote(v)
        BY <1>2, <2>2, <3>2, <3>6, <4>2 DEF Wrote, NameOf
      <4> QED BY <1>2, <3>2, <3>3, <3>6, <4>3
    <3> QED BY <3>4, <3>5, <3>6
  <2>5. low.at # "off" => upload'[low.pass].at # "none"
    BY <1>2, <2>3 DEF WholeInv, Lying
  <2> QED BY <1>2, <1>5, <2>2, <2>4, <2>5 DEF Lying, KeptWhole
<1> QED BY <1>2, <1>4, <1>5

\* The reader of a consumer's stream.
LEMMA WriteConsumer ==
  ASSUME LifeInv, WholeInv, NEW u \in Uploads, Write(u), UNCHANGED <<conf, low, unz>>, ~ReadsInput(u)
  PROVE  /\ \A t \in Tees, i \in {0, 1} : Reads(t, i)' => Flows(t, i, Got(t, i))'
         /\ \A p \in 1..Passes : ReadsInput(p)' => InputFlows(p)'
         /\ upload'[u].got <= Expected(u)
         /\ \A p \in 1..Passes : upload[u].from # File(p)
<1>1. Writing(u) /\ Take(upload[u].from) /\ upload[u].from = FromOf(u) /\ (u < 0 => conf.targz)
      /\ UNCHANGED <<feeder, conf, cut>>
  BY DEF Write, WholeInv, Wired
<1>2. /\ upload'[u].got = upload[u].got + 1 /\ \A v \in Uploads \ {u} : upload'[v] = upload[v]
      /\ \A v \in Uploads : upload'[v].at = upload[v].at
  BY WriteStored
<1>0. PICK v, j : /\ v = IF u < 0 THEN Gunzipped(u) ELSE IF conf.targz THEN u ELSE 0
                  /\ j = IF u < 0 THEN 1 ELSE 0
  OBVIOUS
<1>3. u \in 1..Passes \/ (Gunzipped(u) \in 1..Passes /\ u < 0)
  BY Numbers DEF Uploads, Gunzipped
<1>4. ~conf.targz => u = 1 /\ conf.unzip
  BY <1>1, <1>3 DEF ReadsInput
<1>5. v \in Tees /\ j \in {0, 1} /\ upload[u].from = Consumer(v, j)
  BY <1>0, <1>1, <1>3, <1>4, Numbers DEF FromOf, InputOf
<1>6. v = 0 /\ j = 0 => ~Live(1)
  <2> SUFFICES ASSUME v = 0, j = 0 PROVE ~Live(1)
    OBVIOUS
  <2>1. ~conf.targz
    BY <1>0, <1>3
  <2>2. 1 \in Tees
    BY Numbers
  <2> QED BY <2>1, <2>2 DEF WholeInv, Wired, Live
<1>7. \A w \in 1..Passes : w \in Uploads /\ Gunzipped(w) \in Uploads /\ Gunzipped(Gunzipped(w)) = w /\ Gunzipped(w) < 0
  BY Numbers DEF Gunzipped
<1>8. /\ \A w \in Uploads : upload[w].got \in Nat
      /\ unz.got \in Nat /\ low.pass \in 1..Passes
  BY DEF LifeInv, Shapes
<1>9. \A t \in Tees : t = 0 \/ t \in 1..Passes
  BY Numbers DEF Tees
<1>10. \A t \in Tees, i \in {0, 1} : Reads(t, i)' <=> Reads(t, i)
  BY <1>2, <1>7, <1>9, Numbers DEF Reads, Writing, Gunzipped
<1>11. Reads(v, j) /\ Got(v, j) = upload[u].got /\ Got(v, j)' = upload[u].got + 1
  <2>1. CASE u < 0
    <3>1. v = Gunzipped(u) /\ j = 1 /\ v # 0 /\ Gunzipped(v) = u /\ Writing(u)'
      BY <1>0, <1>1, <1>2, <1>3, <2>1, Numbers DEF Writing
    <3> QED BY <1>1, <1>2, <3>1 DEF Reads, Got, Writing, Gunzipped
  <2>2. CASE ~(u < 0) /\ conf.targz
    <3>1. v = u /\ j = 0 /\ u # 0
      BY <1>0, <1>3, <2>2
    <3> QED BY <1>1, <1>2, <2>2, <3>1 DEF Reads, Got
  <2>3. CASE ~(u < 0) /\ ~conf.targz
    <3>1. v = 0 /\ j = 0 /\ u = 1 /\ conf.unzip
      BY <1>0, <1>4, <2>3
    <3> QED BY <1>1, <1>2, <2>3, <3>1 DEF Reads, Got
  <2> QED BY <2>1, <2>2, <2>3
<1>12. ASSUME NEW t \in Tees, NEW i \in {0, 1}, t # v \/ i # j, Reads(t, i)
       PROVE  Got(t, i)' = Got(t, i)
  <2>1. CASE t = 0 /\ i = 1
    BY <2>1 DEF Got
  <2>2. CASE t = 0 /\ i = 0
    <3>1. ~conf.targz
      BY <1>12, <2>2 DEF Reads
    <3>2. u = 1 /\ v = 0 /\ j = 0
      BY <1>0, <1>1, <1>3, <1>4, <3>1
    <3> QED BY <1>12, <2>2, <3>2
  <2>3. CASE t # 0 /\ i = 0
    <3>1. conf.targz /\ t \in Uploads
      BY <1>7, <1>9, <1>12, <2>3 DEF Reads
    <3>2. t # u
      BY <1>0, <1>3, <1>9, <1>12, <2>3, <3>1
    <3> QED BY <1>2, <2>3, <3>1, <3>2 DEF Got
  <2>4. CASE t # 0 /\ i = 1
    <3>1. Gunzipped(t) # u /\ Gunzipped(t) \in Uploads
      BY <1>0, <1>7, <1>9, <1>12, <2>4
    <3>2. upload'[Gunzipped(t)] = upload[Gunzipped(t)]
      BY <1>2, <3>1
    <3> QED BY <2>4, <3>2 DEF Got, Writing, Gunzipped
  <2> QED BY <2>1, <2>2, <2>3, <2>4
<1>13. PICK a \in Tees, b \in {0, 1} : a = v /\ b = j
  BY <1>5
<1>14. Amount(v) = Expected(u)
  BY <1>0, <1>3, <1>4, Numbers DEF Amount, Expected, Gunzipped
<1>15. \A t \in Tees, i \in {0, 1} : Reads(t, i)' =>
         Flows(t, i, Got(t, i))' /\ Got(t, i)' <= Amount(t)
  <2>1. Take(Consumer(a, b)) /\ (a = 0 /\ b = 0 => ~Live(1)) /\ StreamShapes /\ Flowing
    BY <1>1, <1>5, <1>6, <1>13 DEF WholeInv
  <2>2. Reads(a, b)' => Reads(a, b) /\ Got(a, b)' = Got(a, b) + 1
    BY <1>11, <1>13
  <2>3. \A t \in Tees, i \in {0, 1} : t # a \/ i # b => (Reads(t, i)' => Reads(t, i) /\ Got(t, i)' = Got(t, i))
    BY <1>10, <1>12, <1>13
  <2> QED BY ONLY <1>1, <1>8, <1>13, <2>1, <2>2, <2>3, ConsumerReads
<1>16. upload'[u].got <= Expected(u)
  <2>1. Reads(a, b)' /\ Got(a, b)' = upload'[u].got
    BY <1>2, <1>10, <1>11, <1>13
  <2> QED BY <1>13, <1>14, <1>15, <2>1
<1>17. ASSUME NEW p \in 1..Passes, ReadsInput(p)'
       PROVE  InputFlows(p)'
  <2>1. ReadsInput(p) /\ p \in Uploads
    BY <1>2, <1>7, <1>17 DEF ReadsInput, Writing
  <2>2. upload'[p].got = upload[p].got
    BY <1>2, <2>1
  <2>3. Take(Consumer(a, b))
    BY <1>1, <1>5, <1>13
  <2> QED BY <1>13, <1>17, <2>1, <2>2, <2>3, InputFlowsAfterTake DEF WholeInv
<1>18. \A p \in 1..Passes : upload[u].from # File(p)
  BY <1>5, Distinct
<1> QED BY <1>15, <1>16, <1>17, <1>18

\* The reader of the body or of a decorator's temporary file.
LEMMA WriteInput ==
  ASSUME LifeInv, WholeInv, NEW u \in Uploads, Write(u), UNCHANGED <<conf, low, unz>>, ReadsInput(u)
  PROVE  /\ \A t \in Tees, i \in {0, 1} : Reads(t, i)' => Flows(t, i, Got(t, i))'
         /\ \A p \in 1..Passes : ReadsInput(p)' => InputFlows(p)'
         /\ upload'[u].got <= Expected(u)
         /\ \A p \in 1..Passes : upload[u].from = File(p) => p <= low.pass
<1>1. Writing(u) /\ Take(upload[u].from) /\ upload[u].from = FromOf(u) /\ u \in 1..Passes /\ ~conf.targz
      /\ UNCHANGED <<feeder, conf, cut>>
  <2>1. Writing(u) /\ Take(upload[u].from) /\ upload[u].from = FromOf(u) /\ (u < 0 => conf.targz) /\ ~conf.targz
        /\ UNCHANGED <<feeder, conf, cut>>
    BY DEF Write, WholeInv, Wired, ReadsInput
  <2> QED BY <2>1, Numbers DEF Uploads
<1>2. /\ upload'[u].got = upload[u].got + 1 /\ \A v \in Uploads \ {u} : upload'[v] = upload[v]
      /\ \A v \in Uploads : upload'[v].at = upload[v].at
  BY WriteStored
<1>3. upload[u].from = InputOf(u) /\ InputOf(u) \in Inputs /\ u \in Tees /\ u # 0
      /\ InputOf(u) = IF u = 1 THEN Source ELSE File(u)
  <2>1. u \in Tees /\ u # 0 /\ ~(u < 0)
    BY <1>1, Numbers
  <2>2. InputOf(u) = IF u = 1 THEN Source ELSE File(u)
    BY <1>1, InputNames DEF ReadsInput
  <2> QED BY <1>1, <2>1, <2>2, InputNames, Distinct DEF FromOf
<1>4. PICK s \in Streams : s = InputOf(u)
  BY <1>3, Distinct
<1>5. /\ stream[s].n \in Nat \ {0} /\ stream'[s].n = stream[s].n - 1
      /\ \A r \in Streams : stream'[r].mark = stream[r].mark
      /\ \A r \in Streams \ {s} : stream'[r] = stream[r]
  BY <1>1, <1>3, <1>4, TakeFacts DEF WholeInv
<1>6. \A q \in 1..Passes : q \in Uploads /\ q \in Tees /\ Gunzipped(q) \in Uploads
  BY Numbers
<1>7. \A q \in 1..Passes : InputOf(q)' = InputOf(q)
  BY DEF InputOf
<1>8. u \in Uploads /\ Source \in Streams /\ upload[u].got \in Nat
  BY Distinct DEF LifeInv, Shapes
<1>9. ASSUME NEW p \in 1..Passes, ReadsInput(p)'
      PROVE  InputFlows(p)'
  <2>1. ReadsInput(p) /\ InputFlows(p)
    <3>1. ReadsInput(p)
      BY <1>2, <1>6, <1>9 DEF ReadsInput, Writing
    <3> QED BY <3>1 DEF WholeInv, Flowing
  <2>2. stream'[s].mark = stream[s].mark
    BY <1>5
  <2>3. CASE p = u
    <3>1. upload'[p].got + stream'[s].n = upload[p].got + stream[s].n
      BY <1>2, <1>5, <1>8, <2>3
    <3> QED BY <1>4, <1>7, <2>1, <2>2, <2>3, <3>1 DEF InputFlows, Amount
  <2>4. CASE p # u
    <3>1. InputOf(p) = IF p = 1 THEN Source ELSE File(p)
      BY <2>1, InputNames DEF ReadsInput
    <3>2. InputOf(p) # s /\ InputOf(p) \in Streams
      BY <1>1, <1>3, <1>4, <2>4, <3>1, Distinct
    <3>3. stream'[InputOf(p)] = stream[InputOf(p)] /\ upload'[p] = upload[p]
      BY <1>2, <1>5, <1>6, <2>4, <3>2
    <3> QED BY <1>7, <2>1, <2>2, <3>3 DEF InputFlows, Amount
  <2> QED BY <2>3, <2>4
<1>10. upload'[u].got <= Expected(u)
  <2>1. upload[u].got + stream[s].n <= Amount(u)
    BY <1>1, <1>4 DEF WholeInv, Flowing, InputFlows
  <2>2. Amount(u) = Expected(u) /\ Expected(u) \in Nat
    BY <1>1, Numbers, TeeAssumption DEF Amount, Expected, Gunzipped
  <2> QED BY <1>2, <1>5, <1>8, <2>1, <2>2
<1>11. ASSUME NEW p \in 1..Passes, upload[u].from = File(p)
       PROVE  p <= low.pass
  <2>1. u # 1 /\ p = u
    BY <1>1, <1>3, <1>11, Distinct
  <2>2. u \in 1..low.pass \/ Gunzipped(u) \in 1..low.pass
    BY <1>1 DEF LifeInv, Fresh, Writing
  <2> QED BY <1>1, <2>1, <2>2, Numbers DEF Gunzipped, LifeInv, Shapes
<1>12. ASSUME NEW t \in Tees, NEW i \in {0, 1}, Reads(t, i)'
       PROVE  Flows(t, i, Got(t, i))'
  <2>1. t = 0 \/ t \in 1..Passes
    BY Numbers DEF Tees
  <2>2. Reads(t, i)
    BY <1>2, <1>6, <1>12, <2>1, Numbers DEF Reads, Writing, Gunzipped
  <2>3. t = 0
    <3> SUFFICES ASSUME t # 0 PROVE FALSE
      OBVIOUS
    <3>1. Gunzipped(t) \in Uploads /\ Gunzipped(t) < 0
      BY <1>6, <2>1 DEF Gunzipped
    <3>2. ~Writing(Gunzipped(t))
      BY <1>1, <3>1 DEF WholeInv, Wired
    <3>3. low.at # "peek"
      BY <1>1 DEF LifeInv, Stages
    <3> QED BY <1>1, <2>2, <3>2, <3>3 DEF Reads
  <2>4. conf.unzip
    BY <2>2, <2>3 DEF Reads, LifeInv, Stages
  <2>5. u # 1 /\ s = File(u) /\ s # Source
    BY <1>1, <1>3, <1>4, <2>4, Distinct DEF ReadsInput
  <2>6. Got(t, i)' = Got(t, i)
    <3>1. 1 \in Uploads
      BY Numbers
    <3> QED BY <1>2, <2>3, <2>5, <3>1 DEF Got
  <2>7. Left(t, i)' = Left(t, i) /\ (Doomed(t)' <=> Doomed(t))
    <3>1. s \in Inputs /\ Consumer(0, i) # s /\ Consumer(0, i) \in Streams
      BY <1>3, <1>4, <2>3, Distinct
    <3>2. stream'[Consumer(0, i)] = stream[Consumer(0, i)] /\ stream'[Source] = stream[Source]
      BY <1>5, <1>8, <2>5, <3>1
    <3>3. Owed(t, i)' = Owed(t, i) /\ (Live(t)' <=> Live(t)) /\ LeftOfInput(t)' = LeftOfInput(t)
      BY <1>1, <2>3, <3>2 DEF Owed, Live, LeftOfInput, InputOf
    <3>4. Doomed(t)' <=> Doomed(t)
      BY <1>1, <1>5, <2>3, <3>3, DoomedStays, Distinct
    <3> QED BY <2>3, <3>2, <3>3, <3>4 DEF Left
  <2> QED BY <1>1, <2>2, <2>6, <2>7 DEF WholeInv, Flowing, Flows, Amount
<1> QED BY <1>9, <1>10, <1>11, <1>12

LEMMA WriteWhole ==
  ASSUME LifeInv, WholeInv, NEW u \in Uploads, Write(u), UNCHANGED <<conf, decoratorVars, load>>
  PROVE  WholeInv'
<1>1. UNCHANGED <<low, unz, feeder, cut, dropped, completed, faults>> /\ Writing(u) /\ Take(upload[u].from)
  BY DEF decoratorVars, Write
<1>2. /\ upload'[u].got = upload[u].got + 1 /\ \A v \in Uploads \ {u} : upload'[v] = upload[v]
      /\ \A v \in Uploads : upload'[v].at = upload[v].at /\ upload'[v].from = upload[v].from
      /\ Lying'
  BY <1>1, WriteStored
<1>3. /\ \A t \in Tees, i \in {0, 1} : Reads(t, i)' => Flows(t, i, Got(t, i))'
      /\ \A p \in 1..Passes : ReadsInput(p)' => InputFlows(p)'
      /\ upload'[u].got <= Expected(u)
      /\ \A p \in 1..Passes : upload[u].from = File(p) => p <= low.pass
  BY <1>1, WriteConsumer, WriteInput
<1>4. low.at # "off" /\ low.pass \in 1..Passes /\ upload[u].from \in Streams
  BY <1>1 DEF LifeInv, Shapes, Fresh, Writing
<1>5. Untouched' /\ StreamShapes'
  BY <1>1, <1>3, <1>4, UntouchedAfterTake DEF WholeInv
<1>6. Flowing'
  <2>1. \A v \in Uploads : upload'[v].got <= Expected(v)
    BY <1>2, <1>3 DEF WholeInv, Flowing
  <2>2. \A v \in Uploads : upload'[v].at = "stored" => upload'[v].got = Expected(v) \/ cut
    BY <1>1, <1>2 DEF WholeInv, Flowing, Writing
  <2> QED BY <1>1, <1>3, <2>1, <2>2 DEF WholeInv, Flowing, Expected
<1>7. Wired'
  BY <1>1, <1>2 DEF WholeInv, Wired, InputOf, FromOf, Writing, Gunzipped
<1>8. Copied'
  <2>1. upload'[Gunzipped(1)].at = upload[Gunzipped(1)].at
    BY <1>2, Numbers
  <2> QED BY <1>1, <2>1 DEF WholeInv, Copied, Gunzipped
<1> QED BY <1>1, <1>2, <1>5, <1>6, <1>7, <1>8 DEF WholeInv, Tidy

-----------------------------------------------------------------------------
(* An upload ends *)

LEMMA ReaderOf ==
  ASSUME LifeInv, WholeInv, NEW u \in Uploads, Writing(u), ~ReadsInput(u)
  PROVE  \E v \in Tees, j \in {0, 1} : /\ Reads(v, j) /\ Got(v, j) = upload[u].got
                                       /\ upload[u].from = Consumer(v, j) /\ Amount(v) = Expected(u)
<1>1. upload[u].from = FromOf(u) /\ (u < 0 => conf.targz)
  BY DEF WholeInv, Wired
<1>2. u \in 1..Passes \/ (Gunzipped(u) \in 1..Passes /\ u < 0)
  BY Numbers DEF Uploads, Gunzipped
<1>3. CASE u < 0
  <2>1. Gunzipped(u) \in Tees /\ Gunzipped(u) # 0 /\ Gunzipped(Gunzipped(u)) = u
    BY <1>2, <1>3, Numbers
  <2>2. Amount(Gunzipped(u)) = Expected(u)
    BY <1>2, <1>3, Numbers DEF Amount, Expected, Gunzipped
  <2>3. Reads(Gunzipped(u), 1) /\ Got(Gunzipped(u), 1) = upload[u].got
    BY <2>1 DEF Reads, Got
  <2> QED BY <1>1, <1>3, <2>1, <2>2, <2>3 DEF FromOf
<1>4. CASE ~(u < 0) /\ conf.targz
  <2>1. u \in Tees /\ u # 0
    BY <1>2, <1>4, Numbers
  <2>2. Amount(u) = Expected(u)
    BY <1>2, <1>4, Numbers DEF Amount, Expected, Gunzipped
  <2>3. Reads(u, 0) /\ Got(u, 0) = upload[u].got
    BY <1>4, <2>1 DEF Reads, Got
  <2> QED BY <1>1, <1>4, <2>1, <2>2, <2>3 DEF FromOf
<1>5. CASE ~(u < 0) /\ ~conf.targz
  <2>1. u = 1 /\ conf.unzip
    BY <1>2, <1>5 DEF ReadsInput
  <2>2. 0 \in Tees /\ Amount(0) = Expected(u)
    BY <2>1, Numbers DEF Amount, Expected
  <2>3. Reads(0, 0) /\ Got(0, 0) = upload[u].got
    BY <1>5, <2>1 DEF Reads, Got
  <2>4. FromOf(u) = Consumer(0, 0)
    BY <1>5, <2>1 DEF FromOf, InputOf
  <2> QED BY <1>1, <2>2, <2>3, <2>4
<1> QED BY <1>3, <1>4, <1>5

\* An upload whose stream is at its end has got all of it, unless a tee cut it.
LEMMA EndedIsWhole ==
  ASSUME LifeInv, WholeInv, NEW u \in Uploads, Writing(u), Ended(upload[u].from), ~cut
  PROVE  upload[u].got = Expected(u)
<1>1. CASE ReadsInput(u)
  <2>1. u \in 1..Passes /\ upload[u].from = InputOf(u)
    <3>1. upload[u].from = FromOf(u) /\ (u < 0 => conf.targz) /\ ~conf.targz
      BY <1>1 DEF WholeInv, Wired, ReadsInput
    <3> QED BY <3>1, Numbers DEF Uploads, FromOf
  <2>2. stream[InputOf(u)].n = 0 /\ stream[InputOf(u)].mark
    BY <2>1 DEF Ended
  <2>3. upload[u].got + 0 = Amount(u) \/ (u = 1 /\ ~stream[Source].mark)
    BY <1>1, <2>1, <2>2 DEF WholeInv, Flowing, InputFlows
  <2>4. u = 1 => InputOf(u) = Source
    BY <1>1, InputNames DEF ReadsInput
  <2>5. upload[u].got \in Nat
    BY DEF LifeInv, Shapes
  <2>6. Amount(u) = Expected(u)
    BY <2>1, Numbers DEF Amount, Expected, Gunzipped
  <2> QED BY <2>2, <2>3, <2>4, <2>5, <2>6
<1>2. CASE ~ReadsInput(u)
  <2>1. PICK v \in Tees, j \in {0, 1} : /\ Reads(v, j) /\ Got(v, j) = upload[u].got
                                        /\ upload[u].from = Consumer(v, j) /\ Amount(v) = Expected(u)
    BY <1>2, ReaderOf
  <2>2. stream[Consumer(v, j)].n = 0 /\ stream[Consumer(v, j)].mark
    BY <2>1 DEF Ended
  <2>3. feeder[v].at = "done"
    BY <2>2 DEF WholeInv, Untouched
  <2>4. Left(v, j) = 0 /\ ~Doomed(v)
    BY <2>2, <2>3 DEF Left, Owed, Live, Doomed
  <2>5. upload[u].got + 0 = Amount(v)
    BY <2>1, <2>4 DEF WholeInv, Flowing, Flows
  <2>6. upload[u].got \in Nat
    BY DEF LifeInv, Shapes
  <2> QED BY <2>1, <2>5, <2>6
<1> QED BY <1>1, <1>2

LEMMA StoredLying ==
  ASSUME LifeInv, WholeInv, NEW u \in Uploads, NEW result \in {"stored", "failed"}, Settle(u, result),
         UNCHANGED <<conf, low>>,
         IF result = "stored" /\ conf.storage # "file"
         THEN object' = [object EXCEPT ![NameOf(u)] = [by |-> {u}, got |-> upload[u].got]]
         ELSE object' = object,
         result = "stored" /\ ~cut => upload[u].got = Expected(u)
  PROVE  /\ upload'[u].at = result /\ upload[u].at = "writing"
         /\ \A v \in Uploads \ {u} : upload'[v] = upload[v]
         /\ \A v \in Uploads : upload'[v].got = upload[v].got /\ upload'[v].from = upload[v].from
         /\ Lying'
<1>1. upload \in [Uploads -> Upload] /\ upload' = [upload EXCEPT ![u].at = result]
      /\ upload[u].at = "writing" /\ cut' = cut
  BY DEF LifeInv, Shapes, Upload, Settle, Writing, teeVars
<1>2. /\ upload'[u].at = result /\ upload[u].at = "writing"
      /\ \A v \in Uploads \ {u} : upload'[v] = upload[v]
      /\ \A v \in Uploads : upload'[v].got = upload[v].got /\ upload'[v].from = upload[v].from
      /\ upload[u].got \in Nat
  BY <1>1 DEF Upload
<1>3. object \in [Uploads -> [by : SUBSET Uploads, got : Nat]] /\ NameOf(u) \in Uploads
      /\ low.pass \in Uploads /\ low.pass \in 1..Passes
  BY Numbers DEF WholeInv, Lying, NameOf, LifeInv, Shapes
<1>4. object' \in [Uploads -> [by : SUBSET Uploads, got : Nat]]
  BY <1>2, <1>3
<1>5. low.at # "off" => upload'[low.pass].at # "none"
  BY <1>2, <1>3 DEF WholeInv, Lying
<1>6. \A v : NameOf(v)' = NameOf(v) /\ Expected(v)' = Expected(v)
  BY DEF NameOf, Expected
<1>7. KeptWhole'
  <2> SUFFICES ASSUME conf.storage # "file", ~cut, NEW v \in Uploads, upload'[v].at = "stored"
               PROVE  Kept(v)'
    BY <1>1 DEF KeptWhole
  <2>0. NameOf(v) \in Uploads
    BY Numbers DEF NameOf
  <2>1. CASE result = "stored" /\ NameOf(v) = NameOf(u)
    <3>1. object'[NameOf(u)] = [by |-> {u}, got |-> Expected(u)]
      BY <1>3, <2>1
    <3> QED BY <1>2, <1>6, <2>1, <3>1 DEF Kept
  <2>2. CASE ~(result = "stored" /\ NameOf(v) = NameOf(u))
    <3>1. upload[v].at = "stored"
      BY <1>2, <2>2
    <3>2. PICK w \in Uploads : /\ NameOf(w) = NameOf(v) /\ upload[w].at = "stored"
                               /\ object[NameOf(v)] = [by |-> {w}, got |-> Expected(w)]
      BY <3>1 DEF WholeInv, Lying, KeptWhole, Kept
    <3>3. upload'[w].at = "stored" /\ object'[NameOf(v)] = object[NameOf(v)]
      BY <1>2, <1>3, <2>0, <2>2, <3>2
    <3> QED BY <1>6, <3>2, <3>3 DEF Kept
  <2> QED BY <2>1, <2>2
<1>8. FileWhole'
  <2> SUFFICES ASSUME conf.storage = "file", ~cut, ~TwoWriters', NEW v \in 1..low.pass
               PROVE  IF conf.content = "zip" \/ v = low.pass
                      THEN upload'[v].at \in {"writing", "stored"} => Wrote(v)'
                      ELSE ~Writing(v)'
    BY <1>1 DEF FileWhole
  <2>1. ~TwoWriters
    <3>1. \A w \in Uploads : upload[w].at # "none" => upload'[w].at # "none"
      BY <1>2
    <3> QED BY <3>1, Numbers DEF TwoWriters
  <2>2. v \in Uploads
    <3>1. v \in 1..Passes
      BY <1>3, Numbers
    <3> QED BY <3>1, Numbers
  <2>3. IF conf.content = "zip" \/ v = low.pass
        THEN upload[v].at \in {"writing", "stored"} => Wrote(v)
        ELSE ~Writing(v)
    BY <2>1 DEF WholeInv, Lying, FileWhole
  <2>4. Wrote(v)' <=> Wrote(v)
    BY <1>2, <1>6, <2>2 DEF Wrote
  <2>5. upload'[v].at \in {"writing", "stored"} => upload[v].at \in {"writing", "stored"}
    BY <1>2, <2>2
  <2>6. Writing(v)' => Writing(v)
    BY <1>2, <2>2 DEF Writing
  <2> QED BY <2>3, <2>4, <2>5, <2>6
<1> QED BY <1>2, <1>4, <1>5, <1>7, <1>8 DEF Lying

LEMMA SettleWhole ==
  ASSUME LifeInv, WholeInv, NEW u \in Uploads, NEW result \in {"stored", "failed"}, Settle(u, result),
         UNCHANGED <<conf, decoratorVars, load>>, faults' \in 0..MaxFaults,
         IF result = "stored" /\ conf.storage # "file"
         THEN object' = [object EXCEPT ![NameOf(u)] = [by |-> {u}, got |-> upload[u].got]]
         ELSE object' = object,
         result = "stored" /\ ~cut => upload[u].got = Expected(u)
  PROVE  WholeInv'
<1>1. UNCHANGED <<conf, low, unz, load, stream, feeder, cut, dropped, completed>>
  BY DEF decoratorVars, Settle, teeVars
<1>2. /\ upload'[u].at = result /\ upload[u].at = "writing"
      /\ \A v \in Uploads \ {u} : upload'[v] = upload[v]
      /\ \A v \in Uploads : upload'[v].got = upload[v].got /\ upload'[v].from = upload[v].from
      /\ Lying'
  BY <1>1, StoredLying
<1>3. \A v \in Uploads : Writing(v)' => Writing(v)
  BY <1>2 DEF Writing
<1>4. /\ \A p \in 1..Passes : p \in Uploads /\ Gunzipped(p) \in Uploads
      /\ \A t \in Tees : t = 0 \/ t \in 1..Passes
      /\ 1 \in Uploads
  BY Numbers DEF Tees
<1>5. ASSUME NEW t \in Tees, NEW i \in {0, 1}, Reads(t, i)'
      PROVE  Reads(t, i) /\ Got(t, i)' = Got(t, i)
  <2>1. Reads(t, i)
    BY <1>1, <1>3, <1>4, <1>5 DEF Reads, Gunzipped
  <2>2. CASE t = 0 \/ i = 0
    BY <2>1, <1>1, <1>2, <1>4, <2>2 DEF Got
  <2>3. CASE t # 0 /\ i = 1
    <3>1. Gunzipped(t) \in Uploads
      BY <1>4, <2>3
    <3>2. CASE Writing(Gunzipped(t))'
      <4>1. Writing(Gunzipped(t))
        BY <1>3, <3>1, <3>2 DEF Gunzipped
      <4> QED BY <2>1, <1>2, <2>3, <3>1, <3>2, <4>1 DEF Got, Gunzipped
    <3>3. CASE ~Writing(Gunzipped(t))'
      <4>1. low.at = "peek" /\ low.pass = t
        BY <1>1, <1>5, <2>3, <3>3 DEF Reads
      <4>2. ~Writing(Gunzipped(t))
        BY <4>1 DEF LifeInv, Fresh, Writing
      <4> QED BY <2>1, <2>3, <3>3, <4>2 DEF Got
    <3> QED BY <3>2, <3>3
  <2> QED BY <2>1, <2>2, <2>3
<1>6. \A t, i : Left(t, i)' = Left(t, i) /\ (Doomed(t)' <=> Doomed(t))
  BY <1>1 DEF Left, LeftOfInput, LeftOfFirst, Owed, Live, InputOf, Doomed
<1>7. \A t \in Tees, i \in {0, 1} : Reads(t, i)' => Flows(t, i, Got(t, i))'
  BY <1>1, <1>5, <1>6 DEF WholeInv, Flowing, Flows, Amount
<1>8. ASSUME NEW p \in 1..Passes, ReadsInput(p)'
      PROVE  InputFlows(p)'
  <2>1. ReadsInput(p)
    BY <1>1, <1>3, <1>4, <1>8 DEF ReadsInput
  <2> QED BY <1>1, <1>2, <1>4, <2>1 DEF WholeInv, Flowing, InputFlows, InputOf, Amount
<1>9. Flowing'
  <2>1. \A v \in Uploads : upload'[v].got <= Expected(v)
    BY <1>2 DEF WholeInv, Flowing
  <2>2. \A v \in Uploads : upload'[v].at = "stored" => upload'[v].got = Expected(v) \/ cut
    BY <1>2 DEF WholeInv, Flowing
  <2> QED BY <1>1, <1>7, <1>8, <2>1, <2>2 DEF WholeInv, Flowing, Expected
<1>10. Wired'
  BY <1>1, <1>2, <1>3 DEF WholeInv, Wired, InputOf, FromOf, Gunzipped
<1>11. Copied'
  <2>1. upload[Gunzipped(1)].at # "none" => upload'[Gunzipped(1)].at # "none"
    BY <1>2, Numbers
  <2> QED BY <1>1, <2>1 DEF WholeInv, Copied, Gunzipped
<1>12. Untouched' /\ StreamShapes' /\ Tidy'
  BY <1>1 DEF WholeInv, Untouched, StreamShapes, Tidy, FreshStream
<1> QED BY <1>2, <1>9, <1>10, <1>11, <1>12 DEF WholeInv

LEMMA UploadStepWhole ==
  ASSUME LifeInv, WholeInv, NEW u \in Uploads, UploadStep(u), UNCHANGED <<conf, decoratorVars, load>>
  PROVE  WholeInv'
<1>0. faults \in 0..MaxFaults /\ MaxFaults \in Nat
  BY SetupAssumption DEF WholeInv, Tidy
<1>1. CASE Write(u)
  BY <1>1, WriteWhole
<1>2. CASE Store(u)
  <2>1. Settle(u, "stored") /\ faults' = faults /\ Writing(u) /\ Ended(upload[u].from)
    BY <1>2 DEF Store, Settle
  <2>2. ~cut => upload[u].got = Expected(u)
    BY <2>1, EndedIsWhole
  <2>3. IF conf.storage # "file"
        THEN object' = [object EXCEPT ![NameOf(u)] = [by |-> {u}, got |-> upload[u].got]]
        ELSE object' = object
    BY <1>2 DEF Store
  <2> QED BY <1>0, <2>1, <2>2, <2>3, SettleWhole
<1>3. CASE Fail(u)
  <2>1. Settle(u, "failed") /\ object' = object /\ faults' \in 0..MaxFaults
    BY <1>0, <1>3 DEF Fail, Fault
  <2> QED BY <2>1, SettleWhole
<1> QED BY <1>1, <1>2, <1>3 DEF UploadStep

\* The streams move, and nothing else: a reader notices a smaller rest only when the tee cuts it.
LEMMA StreamsMove ==
  ASSUME LifeInv, WholeInv, UNCHANGED <<conf, upload, object, completed, low, unz, load>>,
         StreamShapes', Wired', Untouched', cut' \in BOOLEAN, cut => cut', dropped' \subseteq Streams,
         faults' \in 0..MaxFaults,
         \A t \in Tees, i \in {0, 1} : Reads(t, i) =>
           /\ Left(t, i)' \in Nat /\ Left(t, i)' <= Left(t, i)
           /\ cut' \/ Doomed(t)' \/ (Left(t, i)' = Left(t, i) /\ ~Doomed(t)),
         \A p \in 1..Passes : ReadsInput(p) => InputFlows(p)'
  PROVE  WholeInv'
<1>1. ASSUME NEW t \in Tees, NEW i \in {0, 1}, Reads(t, i)'
      PROVE  Flows(t, i, Got(t, i))'
  <2>1. Reads(t, i) /\ Got(t, i)' = Got(t, i)
    BY <1>1 DEF Reads, Got, Writing, Gunzipped
  <2>2. Flows(t, i, Got(t, i))
    BY <2>1 DEF WholeInv, Flowing
  <2>3. Got(t, i) \in Nat /\ Left(t, i) \in Nat /\ Amount(t) \in Nat /\ Amount(t)' = Amount(t)
    <3>1. t = 0 \/ t \in 1..Passes
      BY Numbers DEF Tees
    <3>2. Got(t, i) \in Nat
      BY <3>1, Numbers DEF Got, LifeInv, Shapes
    <3> QED BY <3>2, LeftNat, TeeAssumption DEF WholeInv, Amount
  <2>4. /\ Left(t, i)' \in Nat /\ Left(t, i)' <= Left(t, i)
        /\ cut' \/ Doomed(t)' \/ (Left(t, i)' = Left(t, i) /\ ~Doomed(t))
    BY <2>1
  <2> HIDE DEF WholeInv
  <2>5. Got(t, i)' + Left(t, i)' <= Amount(t)
    BY <2>1, <2>2, <2>3, <2>4 DEF Flows
  <2>6. Got(t, i)' + Left(t, i)' = Amount(t) \/ cut' \/ Doomed(t)'
    BY <2>1, <2>2, <2>4 DEF Flows
  <2> QED BY <2>3, <2>5, <2>6 DEF Flows
<1>2. \A p \in 1..Passes : ReadsInput(p)' => InputFlows(p)'
  BY DEF ReadsInput, Writing
<1>3. Flowing'
  BY <1>1, <1>2 DEF WholeInv, Flowing, Expected, Gunzipped
<1>4. Lying'
  <2>1. CASE cut'
    BY <2>1 DEF WholeInv, Lying, KeptWhole, FileWhole
  <2>2. CASE ~cut'
    <3>1. cut' = cut
      BY <2>2 DEF WholeInv, Tidy
    <3> QED BY <3>1, LyingKept DEF WholeInv
  <2> QED BY <2>1, <2>2
<1>5. Tidy' /\ Copied'
  BY DEF WholeInv, Tidy, Copied, Gunzipped
<1> QED BY <1>3, <1>4, <1>5 DEF WholeInv

-----------------------------------------------------------------------------
(* The feeding tasks *)

\* A tee that feeds its consumers.
LEMMA FeederFacts ==
  ASSUME LifeInv, WholeInv, NEW v \in Tees, Live(v), NEW at \in {"read", "first", "second", "done"},
         Feeding(v, at), UNCHANGED <<conf, upload, low, unz, load>>
  PROVE  /\ low.at # "off" /\ low.pass \in 1..Passes /\ feeder[v].input = InputOf(v)
         /\ IF v = 0 THEN conf.unzip ELSE conf.targz /\ v \in 1..Passes /\ v <= low.pass
         /\ feeder'[v].at = at /\ \A t \in Tees \ {v} : feeder'[t] = feeder[t]
         /\ feeder' \in [Tees -> [at : {"off", "read", "first", "second", "done"}, input : Streams]]
         /\ Wired' /\ ~stream[Consumer(v, 0)].mark /\ ~stream[Consumer(v, 1)].mark
<1>1. /\ feeder \in [Tees -> [at : {"off", "read", "first", "second", "done"}, input : Streams]]
      /\ feeder' = [feeder EXCEPT ![v].at = at]
  BY DEF WholeInv, StreamShapes, Feeding
<1>2. feeder[v].at \in {"read", "first", "second"}
  BY DEF Live
<1>3. /\ feeder'[v].at = at /\ \A t \in Tees \ {v} : feeder'[t] = feeder[t]
      /\ \A t \in Tees : feeder'[t].input = feeder[t].input
      /\ feeder' \in [Tees -> [at : {"off", "read", "first", "second", "done"}, input : Streams]]
  BY <1>1
<1>4. /\ low.at # "off" /\ feeder[v].input = InputOf(v)
      /\ IF v = 0 THEN conf.unzip ELSE conf.targz /\ v <= low.pass
  BY <1>2 DEF WholeInv, Wired
<1>5. v # 0 => v \in 1..Passes
  BY Numbers DEF Tees
<1>6. Wired'
  BY <1>2, <1>3 DEF WholeInv, Wired, InputOf, FromOf, Writing, Gunzipped
<1>7. ~stream[Consumer(v, 0)].mark /\ ~stream[Consumer(v, 1)].mark
  BY <1>2 DEF WholeInv, Untouched
<1> QED BY <1>3, <1>4, <1>5, <1>6, <1>7 DEF LifeInv, Shapes

\* What is left to a tee's consumers, once it has read a chunk of its input.
LEMMA FeedReadWhole ==
  ASSUME LifeInv, WholeInv, NEW v \in Tees, FeedRead(v),
         UNCHANGED <<conf, upload, object, completed, low, unz, load, faults>>
  PROVE  WholeInv'
<1> DEFINE s == InputOf(v)
<1>0. feeder[v].at = "read" /\ Live(v)
  BY DEF FeedRead, Live
<1>1. /\ low.at # "off" /\ low.pass \in 1..Passes /\ feeder[v].input = s
      /\ IF v = 0 THEN conf.unzip ELSE conf.targz /\ v \in 1..Passes /\ v <= low.pass
      /\ feeder'[v].at = "first" /\ \A t \in Tees \ {v} : feeder'[t] = feeder[t]
      /\ feeder' \in [Tees -> [at : {"off", "read", "first", "second", "done"}, input : Streams]]
      /\ Wired' /\ ~stream[Consumer(v, 0)].mark /\ ~stream[Consumer(v, 1)].mark
  BY <1>0, FeederFacts DEF FeedRead
<1>2. s \in Streams
  BY InputNames
<1>3. Take(s) /\ UNCHANGED <<cut, dropped>>
  BY <1>1 DEF FeedRead
<1>4. /\ stream[s].n \in Nat \ {0} /\ stream'[s].n = stream[s].n - 1
      /\ \A r \in Streams : stream'[r].mark = stream[r].mark
      /\ \A r \in Streams \ {s} : stream'[r] = stream[r]
      /\ stream' \in [Streams -> Stream]
  BY <1>2, <1>3, TakeFacts DEF WholeInv
<1>5. /\ s = IF v = 0 THEN Source ELSE IF v = 1 THEN IF conf.unzip THEN Consumer(0, 0) ELSE Source ELSE File(v)
      /\ \A t, u \in Tees, i, j \in {0, 1} : Consumer(t, i) = Consumer(u, j) => t = u /\ i = j
      /\ \A t \in Tees, i \in {0, 1} : Consumer(t, i) \in Streams /\ Consumer(t, i) \notin Inputs
      /\ Source \in Inputs /\ Source \in Streams /\ \A p \in 1..Passes : File(p) \in Inputs /\ File(p) # Source /\ File(p) \in Streams
      /\ \A p, q \in 1..Passes : File(p) = File(q) => p = q
      /\ 0 \in Tees /\ 1 \in Tees /\ 1 \in 1..Passes
  BY Distinct, Numbers DEF InputOf
<1>6. \A t \in Tees, i \in {0, 1} : Consumer(t, i) = s => v = 1 /\ conf.unzip /\ t = 0 /\ i = 0
  BY <1>1, <1>5
<1>7. \A p \in 1..Passes : File(p) = s => p = v
  BY <1>1, <1>5
<1> HIDE DEF s
<1>8. /\ \A t \in Tees, i \in {0, 1} : Owed(t, i)' = (IF t = v THEN 1 ELSE Owed(t, i)) /\ (t = v => Owed(t, i) = 0)
      /\ \A t \in Tees : (Live(t)' <=> Live(t)) /\ InputOf(t)' = InputOf(t)
  BY <1>0, <1>1 DEF Owed, Live, InputOf
<1>9. \A r \in Streams : stream[r].n \in Nat
  BY DEF WholeInv, StreamShapes
<1>10. \A t \in Tees, i \in {0, 1} : Owed(t, i) \in {0, 1}
  BY DEF Owed
<1>11. ASSUME NEW t \in Tees, Live(t)
       PROVE  LeftOfInput(t)' = IF t = v THEN LeftOfInput(t) - 1 ELSE LeftOfInput(t)
  <2>1. CASE t = 1 /\ conf.unzip
    <3>1. LeftOfInput(t) = LeftOfFirst(0) /\ LeftOfInput(t)' = LeftOfFirst(0)'
      BY <2>1 DEF LeftOfInput
    <3>2. /\ LeftOfFirst(0) = stream[Consumer(0, 0)].n + Owed(0, 0) + (IF Live(0) THEN stream[Source].n ELSE 0)
          /\ LeftOfFirst(0)' = stream'[Consumer(0, 0)].n + Owed(0, 0)' + (IF Live(0) THEN stream'[Source].n ELSE 0)
      BY <1>5, <1>8 DEF LeftOfFirst
    <3>3. CASE v = 1
      <4>1. s = Consumer(0, 0) /\ Consumer(0, 0) # Source /\ Consumer(0, 0) \in Streams
        BY <1>5, <2>1, <3>3 DEF s, InputOf
      <4>2. stream'[Consumer(0, 0)].n = stream[Consumer(0, 0)].n - 1 /\ stream'[Source] = stream[Source] /\ Owed(0, 0)' = Owed(0, 0)
        BY <1>4, <1>5, <1>8, <3>3, <4>1
      <4>3. stream[Consumer(0, 0)].n \in Nat /\ stream[Source].n \in Nat /\ Owed(0, 0) \in Nat
        BY <1>5, <1>9, <1>10
      <4> QED BY <2>1, <3>1, <3>2, <3>3, <4>2, <4>3
    <3>4. CASE v = 0
      <4>1. s = Source /\ Consumer(0, 0) # Source /\ Consumer(0, 0) \in Streams
        BY <1>5, <3>4 DEF s, InputOf
      <4>2. stream'[Source].n = stream[Source].n - 1 /\ stream'[Consumer(0, 0)] = stream[Consumer(0, 0)]
            /\ Owed(0, 0)' = 1 /\ Owed(0, 0) = 0 /\ Live(0)
        BY <1>0, <1>4, <1>5, <1>8, <3>4, <4>1
      <4>3. stream[Consumer(0, 0)].n \in Nat /\ stream[Source].n \in Nat
        BY <1>5, <1>9
      <4> QED BY <2>1, <3>1, <3>2, <3>4, <4>2, <4>3
    <3>5. CASE v # 0 /\ v # 1
      <4>1. s = File(v) /\ Consumer(0, 0) # s /\ Source # s
        BY <1>1, <1>5, <3>5 DEF s, InputOf
      <4>2. stream'[Consumer(0, 0)] = stream[Consumer(0, 0)] /\ stream'[Source] = stream[Source] /\ Owed(0, 0)' = Owed(0, 0)
        BY <1>4, <1>5, <1>8, <3>5, <4>1
      <4> QED BY <2>1, <3>1, <3>2, <3>5, <4>2
    <3> QED BY <3>3, <3>4, <3>5
  <2>2. CASE ~(t = 1 /\ conf.unzip)
    <3>1. LeftOfInput(t) = stream[InputOf(t)].n /\ LeftOfInput(t)' = stream'[InputOf(t)].n
      BY <1>8, <2>2 DEF LeftOfInput
    <3>2. CASE t = v
      BY <1>4, <3>1, <3>2 DEF s
    <3>3. CASE t # v
      <4>1. IF t = 0 THEN conf.unzip ELSE t \in 1..Passes /\ conf.targz
        BY <1>11, Numbers DEF Live, WholeInv, Wired, Tees
      <4>2. InputOf(t) # s /\ InputOf(t) \in Streams
        BY <1>1, <1>5, <2>2, <3>3, <4>1, InputNames DEF s, InputOf
      <4> QED BY <1>4, <3>1, <3>3, <4>2
    <3> QED BY <3>2, <3>3
  <2> QED BY <2>1, <2>2
<1>12. ASSUME NEW t \in Tees, NEW i \in {0, 1}, Reads(t, i)
       PROVE  Left(t, i)' = Left(t, i) /\ Left(t, i) \in Nat
  <2>1. Consumer(t, i) # s
    <3>1. ~(v = 1 /\ conf.unzip /\ t = 0 /\ i = 0)
      BY <1>1, <1>12 DEF Reads
    <3> QED BY <1>6, <3>1
  <2>2. stream'[Consumer(t, i)].n = stream[Consumer(t, i)].n /\ stream[Consumer(t, i)].n \in Nat
    BY <1>4, <1>5, <1>9, <2>1
  <2>3. Owed(t, i) \in Nat /\ LeftOfInput(t) \in Nat
    BY <1>10, LeftNat DEF WholeInv
  <2>4. Left(t, i)' = stream'[Consumer(t, i)].n + Owed(t, i)' + (IF Live(t) THEN LeftOfInput(t)' ELSE 0)
    BY <1>8 DEF Left
  <2>5. Left(t, i) = stream[Consumer(t, i)].n + Owed(t, i) + (IF Live(t) THEN LeftOfInput(t) ELSE 0)
    BY DEF Left
  <2>6. CASE t = v
    <3>1. Owed(t, i)' = 1 /\ Owed(t, i) = 0 /\ Live(t) /\ LeftOfInput(t)' = LeftOfInput(t) - 1
      BY <1>0, <1>8, <1>11, <2>6
    <3> QED BY <2>2, <2>3, <2>4, <2>5, <3>1
  <2>7. CASE t # v
    <3>1. Owed(t, i)' = Owed(t, i) /\ (Live(t) => LeftOfInput(t)' = LeftOfInput(t))
      BY <1>8, <1>11, <2>7
    <3> QED BY <2>2, <2>3, <2>4, <2>5, <3>1
  <2> QED BY <2>6, <2>7
<1>13. \A t \in Tees, i \in {0, 1} : Reads(t, i) =>
         /\ Left(t, i)' \in Nat /\ Left(t, i)' <= Left(t, i)
         /\ cut' \/ Doomed(t)' \/ (Left(t, i)' = Left(t, i) /\ ~Doomed(t))
  <2>1. \A t \in Tees : Doomed(t)' <=> Doomed(t)
    BY <1>4, <1>5, <1>8, DoomedStays, Distinct
  <2> QED BY <1>12, <2>1
<1>14. ASSUME NEW p \in 1..Passes, ReadsInput(p)
       PROVE  InputFlows(p)'
  <2>1. InputFlows(p) /\ InputOf(p)' = InputOf(p)
    BY <1>14 DEF WholeInv, Flowing, InputOf
  <2>2. s = Source /\ InputOf(p) \in Inputs /\ InputOf(p) # Source /\ InputOf(p) \in Streams
    BY <1>1, <1>5, <1>14, InputNames DEF ReadsInput, s
  <2>3. stream'[InputOf(p)] = stream[InputOf(p)]
    BY <1>4, <1>5, <2>2
  <2> QED BY <2>1, <2>3 DEF InputFlows, Amount
<1>15. Untouched'
  <2>1. ASSUME NEW p \in 1..Passes, p > low.pass
        PROVE  stream'[File(p)].n = 1 /\ \A i \in {0, 1} : stream'[Consumer(p, i)].n = 0
    <3>1. File(p) # s /\ p # 0 /\ p \in Tees
      BY <1>1, <1>7, <2>1, Numbers
    <3>2. \A i \in {0, 1} : Consumer(p, i) # s
      BY <1>6, <3>1
    <3>3. stream[File(p)].n = 1 /\ \A i \in {0, 1} : stream[Consumer(p, i)].n = 0
      BY <2>1 DEF WholeInv, Untouched
    <3> QED BY <1>4, <1>5, <3>1, <3>2, <3>3
  <2>2. \A t \in Tees, i \in {0, 1} : stream'[Consumer(t, i)].mark => feeder'[t].at = "done"
    <3>1. \A t \in Tees, i \in {0, 1} : stream[Consumer(t, i)].mark => feeder[t].at = "done"
      BY DEF WholeInv, Untouched
    <3> QED BY <1>0, <1>1, <1>4, <1>5, <3>1
  <2> QED BY <1>1, <2>1, <2>2 DEF Untouched
<1>16. StreamShapes'
  <2>1. \A r \in Streams : stream'[r].n <= stream[r].n /\ stream'[r].n \in Nat /\ stream[r].n \in Nat
    BY <1>2, <1>4, <1>9
  <2>2. \A t \in Tees, i \in {0, 1} : stream'[Consumer(t, i)].n <= Capacity
    BY <1>5, <2>1, TeeAssumption DEF WholeInv, StreamShapes
  <2>3. stream'[Source].n <= Chunks /\ \A p \in 1..Passes : stream'[File(p)].n <= 1
    BY <1>5, <2>1, TeeAssumption DEF WholeInv, StreamShapes
  <2> QED BY <1>1, <1>4, <2>2, <2>3 DEF StreamShapes, Stream
<1>17. cut' \in BOOLEAN /\ (cut => cut') /\ dropped' \subseteq Streams /\ faults' \in 0..MaxFaults
  BY <1>3 DEF WholeInv, Tidy
<1> HIDE DEF WholeInv, LifeInv
<1> QED BY <1>1, <1>13, <1>14, <1>15, <1>16, <1>17, StreamsMove

\* A chunk the tee owed a consumer is now in its queue.
LEMMA FeedPutWhole ==
  ASSUME LifeInv, WholeInv, NEW v \in Tees, FeedPut(v),
         UNCHANGED <<conf, upload, object, completed, low, unz, load, faults>>
  PROVE  WholeInv'
<1>0. feeder[v].at \in {"first", "second"} /\ Live(v) /\ UNCHANGED <<cut, dropped>>
  BY DEF FeedPut, Live
<1>a. PICK j \in {0, 1} : j = IF feeder[v].at = "first" THEN 0 ELSE 1
  OBVIOUS
<1>b. PICK at \in {"second", "read"} : at = IF feeder[v].at = "first" THEN "second" ELSE "read"
  OBVIOUS
<1>1. /\ low.at # "off" /\ low.pass \in 1..Passes
      /\ IF v = 0 THEN conf.unzip ELSE conf.targz /\ v \in 1..Passes /\ v <= low.pass
      /\ feeder'[v].at = at /\ \A t \in Tees \ {v} : feeder'[t] = feeder[t]
      /\ feeder' \in [Tees -> [at : {"off", "read", "first", "second", "done"}, input : Streams]]
      /\ Wired' /\ ~stream[Consumer(v, 0)].mark /\ ~stream[Consumer(v, 1)].mark
  <2>1. Feeding(v, at)
    BY <1>b DEF FeedPut
  <2> QED BY <1>0, <2>1, FeederFacts
<1>2. /\ \A t, u \in Tees, i, k \in {0, 1} : Consumer(t, i) = Consumer(u, k) => t = u /\ i = k
      /\ \A t \in Tees, i \in {0, 1} : Consumer(t, i) \in Streams /\ Consumer(t, i) \notin Inputs
      /\ Source \in Inputs /\ Source \in Streams /\ \A p \in 1..Passes : File(p) \in Inputs /\ File(p) \in Streams
      /\ 0 \in Tees /\ 1 \in Tees /\ \A p \in 1..Passes : p \in Tees
  BY Distinct, Numbers
<1>3. PICK s \in Streams : s = Consumer(v, j)
  BY <1>2
<1>4. ~Full(s) /\ stream' = [stream EXCEPT ![s].n = @ + 1] /\ stream \in [Streams -> Stream]
  BY <1>a, <1>3 DEF FeedPut, Offered, Target, WholeInv, StreamShapes, Stream
<1>5. ~stream[s].mark /\ stream[s].n \in Nat /\ stream[s].n + 1 <= Capacity
  <2>1. ~stream[s].mark /\ stream[s].n \in Nat
    BY <1>1, <1>3, <1>4 DEF Stream
  <2> QED BY <1>4, <2>1, TeeAssumption DEF Full
<1>6. /\ stream'[s].n = stream[s].n + 1 /\ \A r \in Streams : stream'[r].mark = stream[r].mark
      /\ \A r \in Streams \ {s} : stream'[r] = stream[r]
      /\ stream' \in [Streams -> Stream]
  <2>1. stream[s] \in Stream /\ stream[s].n + 1 \in Nat
    BY <1>3, <1>4, <1>5
  <2> QED BY <1>3, <1>4, <2>1 DEF Stream
<1>7. \A t \in Tees, i \in {0, 1} : Consumer(t, i) = s <=> t = v /\ i = j
  BY <1>2, <1>3
<1>8. \A r \in Inputs : r # s
  BY <1>2, <1>3
<1>9. \A r \in Streams : stream[r].n \in Nat
  BY <1>4 DEF Stream
<1>10. /\ \A t \in Tees, i \in {0, 1} : /\ Owed(t, i) \in {0, 1}
                                        /\ IF t = v /\ i = j THEN Owed(t, i) = 1 /\ Owed(t, i)' = 0
                                           ELSE Owed(t, i)' = Owed(t, i)
       /\ \A t \in Tees : (Live(t)' <=> Live(t)) /\ InputOf(t)' = InputOf(t)
  <2>1. \A t \in Tees \ {v}, i \in {0, 1} : Owed(t, i)' = Owed(t, i) /\ (Live(t)' <=> Live(t))
    BY <1>1 DEF Owed, Live
  <2>2. CASE feeder[v].at = "first"
    <3>1. j = 0 /\ at = "second"
      BY <1>a, <1>b, <2>2
    <3> QED BY <1>1, <2>1, <2>2, <3>1 DEF Owed, Live, InputOf
  <2>3. CASE feeder[v].at = "second"
    <3>1. j = 1 /\ at = "read"
      BY <1>a, <1>b, <2>3
    <3> QED BY <1>1, <2>1, <2>3, <3>1 DEF Owed, Live, InputOf
  <2> QED BY <1>0, <2>2, <2>3
<1>11. \A t \in Tees, i \in {0, 1} :
         stream'[Consumer(t, i)].n + Owed(t, i)' = stream[Consumer(t, i)].n + Owed(t, i)
  <2> TAKE t \in Tees, i \in {0, 1}
  <2>1. Consumer(t, i) \in Streams /\ stream[Consumer(t, i)].n \in Nat
    BY <1>2, <1>9
  <2>2. CASE t = v /\ i = j
    BY <1>6, <1>7, <1>10, <2>1, <2>2
  <2>3. CASE ~(t = v /\ i = j)
    BY <1>6, <1>7, <1>10, <2>1, <2>3
  <2> QED BY <2>2, <2>3
<1>12. \A r \in Inputs : r \in Streams /\ stream'[r] = stream[r]
  BY <1>6, <1>8, Distinct
<1>13. LeftOfFirst(0)' = LeftOfFirst(0)
  BY <1>2, <1>10, <1>11, <1>12 DEF LeftOfFirst
<1>14. \A t \in Tees : LeftOfInput(t)' = LeftOfInput(t)
  BY <1>10, <1>12, <1>13, InputNames DEF LeftOfInput
<1>15. \A t \in Tees, i \in {0, 1} : Left(t, i)' = Left(t, i) /\ Left(t, i) \in Nat
  BY <1>10, <1>11, <1>14, LeftNat DEF Left, WholeInv
<1>16. \A t \in Tees, i \in {0, 1} : Reads(t, i) =>
         /\ Left(t, i)' \in Nat /\ Left(t, i)' <= Left(t, i)
         /\ cut' \/ Doomed(t)' \/ (Left(t, i)' = Left(t, i) /\ ~Doomed(t))
  <2>1. \A t \in Tees : Doomed(t)' <=> Doomed(t)
    BY <1>2, <1>6, <1>10, DoomedStays, Distinct
  <2> QED BY <1>15, <2>1
<1>17. ASSUME NEW p \in 1..Passes, ReadsInput(p)
       PROVE  InputFlows(p)'
  <2>1. InputFlows(p) /\ InputOf(p)' = InputOf(p) /\ InputOf(p) \in Inputs
    BY <1>2, <1>10, <1>17, InputNames DEF WholeInv, Flowing, ReadsInput
  <2> QED BY <1>2, <1>12, <2>1 DEF InputFlows, Amount
<1>18. Untouched'
  <2>1. ASSUME NEW p \in 1..Passes, p > low.pass
        PROVE  stream'[File(p)].n = 1 /\ \A i \in {0, 1} : stream'[Consumer(p, i)].n = 0
    <3>1. p # v /\ p \in Tees
      BY <1>1, <1>2, <2>1
    <3>2. stream[File(p)].n = 1 /\ \A i \in {0, 1} : stream[Consumer(p, i)].n = 0
      BY <2>1 DEF WholeInv, Untouched
    <3>3. \A i \in {0, 1} : stream'[Consumer(p, i)] = stream[Consumer(p, i)]
      BY <1>2, <1>6, <1>7, <3>1
    <3> QED BY <1>2, <1>12, <3>2, <3>3
  <2>2. \A t \in Tees, i \in {0, 1} : stream'[Consumer(t, i)].mark => feeder'[t].at = "done"
    <3>1. \A t \in Tees, i \in {0, 1} : stream[Consumer(t, i)].mark => feeder[t].at = "done"
      BY DEF WholeInv, Untouched
    <3> QED BY <1>0, <1>1, <1>2, <1>6, <3>1
  <2> QED BY <1>1, <2>1, <2>2 DEF Untouched
<1>19. StreamShapes'
  <2>1. \A t \in Tees, i \in {0, 1} : stream'[Consumer(t, i)].n <= Capacity
    <3> TAKE t \in Tees, i \in {0, 1}
    <3>1. stream[Consumer(t, i)].n <= Capacity
      BY DEF WholeInv, StreamShapes
    <3> QED BY <1>2, <1>3, <1>5, <1>6, <3>1
  <2>2. stream'[Source].n <= Chunks /\ \A p \in 1..Passes : stream'[File(p)].n <= 1
    BY <1>2, <1>12 DEF WholeInv, StreamShapes
  <2> QED BY <1>1, <1>6, <2>1, <2>2 DEF StreamShapes, Stream
<1>20. cut' \in BOOLEAN /\ (cut => cut') /\ dropped' \subseteq Streams /\ faults' \in 0..MaxFaults
  BY <1>0 DEF WholeInv, Tidy
<1> HIDE DEF WholeInv, LifeInv
<1> QED BY <1>1, <1>16, <1>17, <1>18, <1>19, <1>20, StreamsMove

\* The task ends, and marks the end of the streams that have room: what it still owed is lost.
LEMMA FeedStopsWhole ==
  ASSUME LifeInv, WholeInv, NEW v \in Tees, Live(v), FeedStops(v),
         cut' \/ (cut' = cut /\ feeder[v].at = "read" /\ Ended(feeder[v].input)), cut' \in BOOLEAN,
         UNCHANGED <<conf, upload, object, completed, low, unz, load, faults>>
  PROVE  WholeInv'
<1>1. /\ low.at # "off" /\ low.pass \in 1..Passes /\ feeder[v].input = InputOf(v)
      /\ IF v = 0 THEN conf.unzip ELSE conf.targz /\ v \in 1..Passes /\ v <= low.pass
      /\ feeder'[v].at = "done" /\ \A t \in Tees \ {v} : feeder'[t] = feeder[t]
      /\ feeder' \in [Tees -> [at : {"off", "read", "first", "second", "done"}, input : Streams]]
      /\ Wired'
  BY FeederFacts DEF FeedStops
<1>2. /\ \A t, u \in Tees, i, k \in {0, 1} : Consumer(t, i) = Consumer(u, k) => t = u /\ i = k
      /\ \A t \in Tees, i \in {0, 1} : Consumer(t, i) \in Streams /\ Consumer(t, i) \notin Inputs
      /\ Source \in Inputs /\ Source \in Streams /\ \A p \in 1..Passes : File(p) \in Inputs /\ File(p) \in Streams
      /\ 0 \in Tees /\ 1 \in Tees /\ \A p \in 1..Passes : p \in Tees
  BY Distinct, Numbers
<1>3. stream \in [Streams -> Stream] /\ \A r \in Streams : stream[r].n \in Nat
  BY DEF WholeInv, StreamShapes, Stream
<1>4. Consumers(v) = {Consumer(v, 0), Consumer(v, 1)} /\ Marked(v) \subseteq Consumers(v)
  BY DEF Consumers, Marked
<1>5. /\ stream' \in [Streams -> Stream] /\ \A r \in Streams : stream'[r].n = stream[r].n
      /\ \A r \in Streams : r \notin Consumers(v) => stream'[r] = stream[r]
  <2>1. stream' = [s \in Streams |-> IF s \in Marked(v) THEN [stream[s] EXCEPT !.mark = TRUE] ELSE stream[s]]
    BY DEF FeedStops
  <2>2. \A r \in Streams : stream[r] \in Stream
    BY <1>3
  <2> QED BY <1>4, <2>1, <2>2 DEF Stream
<1>6. \A r \in Inputs : r \in Streams /\ stream'[r] = stream[r]
  BY <1>2, <1>4, <1>5, Distinct
<1>7. \A t \in Tees, i \in {0, 1} : t # v => stream'[Consumer(t, i)] = stream[Consumer(t, i)]
  BY <1>2, <1>4, <1>5
<1>8. /\ \A t \in Tees : Live(t)' <=> (Live(t) /\ t # v)
      /\ \A t \in Tees, i \in {0, 1} : /\ Owed(t, i) \in {0, 1}
                                       /\ Owed(t, i)' = IF t = v THEN 0 ELSE Owed(t, i)
      /\ \A t \in Tees : InputOf(t)' = InputOf(t)
  BY <1>1 DEF Live, Owed, InputOf
<1>9. /\ LeftOfFirst(0) \in Nat /\ LeftOfFirst(0)' \in Nat /\ LeftOfFirst(0)' <= LeftOfFirst(0)
      /\ LeftOfFirst(0) = stream[Consumer(0, 0)].n + Owed(0, 0) + (IF Live(0) THEN stream[Source].n ELSE 0)
      /\ LeftOfFirst(0)' = stream[Consumer(0, 0)].n + Owed(0, 0)' + (IF Live(0) /\ v # 0 THEN stream[Source].n ELSE 0)
  <2>1. stream'[Consumer(0, 0)].n = stream[Consumer(0, 0)].n /\ stream'[Source].n = stream[Source].n
        /\ stream[Consumer(0, 0)].n \in Nat /\ stream[Source].n \in Nat
    BY <1>2, <1>3, <1>5
  <2>2. LeftOfFirst(0) = stream[Consumer(0, 0)].n + Owed(0, 0) + (IF Live(0) THEN stream[Source].n ELSE 0)
    BY DEF LeftOfFirst
  <2>3. LeftOfFirst(0)' = stream[Consumer(0, 0)].n + Owed(0, 0)' + (IF Live(0) /\ v # 0 THEN stream[Source].n ELSE 0)
    BY <1>2, <1>8, <2>1 DEF LeftOfFirst
  <2>4. Owed(0, 0) \in Nat /\ Owed(0, 0)' \in Nat /\ Owed(0, 0)' <= Owed(0, 0)
    BY <1>2, <1>8
  <2> QED BY <2>1, <2>2, <2>3, <2>4
<1>10. \A t \in Tees : LeftOfInput(t) \in Nat /\ LeftOfInput(t)' \in Nat /\ LeftOfInput(t)' <= LeftOfInput(t)
  <2> TAKE t \in Tees
  <2>1. CASE t = 1 /\ conf.unzip
    BY <1>9, <2>1 DEF LeftOfInput
  <2>2. CASE ~(t = 1 /\ conf.unzip)
    <3>1. InputOf(t) \in Inputs
      BY <2>2, InputNames
    <3> QED BY <1>3, <1>6, <1>8, <2>2, <3>1 DEF LeftOfInput
  <2> QED BY <2>1, <2>2
<1>11. \A t \in Tees, i \in {0, 1} :
         /\ Left(t, i)' \in Nat /\ Left(t, i)' <= Left(t, i)
         /\ Left(t, i) = stream[Consumer(t, i)].n + Owed(t, i) + (IF Live(t) THEN LeftOfInput(t) ELSE 0)
         /\ Left(t, i)' = stream[Consumer(t, i)].n + Owed(t, i)' + (IF Live(t) /\ t # v THEN LeftOfInput(t)' ELSE 0)
  <2> TAKE t \in Tees, i \in {0, 1}
  <2>1. stream'[Consumer(t, i)].n = stream[Consumer(t, i)].n /\ stream[Consumer(t, i)].n \in Nat
    BY <1>2, <1>3, <1>5
  <2>2. Left(t, i) = stream[Consumer(t, i)].n + Owed(t, i) + (IF Live(t) THEN LeftOfInput(t) ELSE 0)
    BY DEF Left
  <2>3. Left(t, i)' = stream[Consumer(t, i)].n + Owed(t, i)' + (IF Live(t) /\ t # v THEN LeftOfInput(t)' ELSE 0)
    BY <1>8, <2>1 DEF Left
  <2>4. Owed(t, i) \in Nat /\ Owed(t, i)' \in Nat /\ Owed(t, i)' <= Owed(t, i)
    BY <1>8
  <2> QED BY <1>10, <2>1, <2>2, <2>3, <2>4
<1>12. ASSUME ~cut', NEW t \in Tees, NEW i \in {0, 1}
       PROVE  Left(t, i)' = Left(t, i) /\ (~Doomed(t) \/ Doomed(t)')
  <2>1. feeder[v].at = "read" /\ Ended(InputOf(v)) /\ Owed(v, 0) = 0 /\ Owed(v, 1) = 0
    BY <1>1, <1>12 DEF Owed
  <2>2. stream[InputOf(v)].n = 0 /\ stream[InputOf(v)].mark
    BY <2>1 DEF Ended
  <2>3. v = 1 /\ conf.unzip => ~Live(0) /\ Owed(0, 0) = 0 /\ stream[Consumer(0, 0)].n = 0
    <3>1. v = 1 /\ conf.unzip => stream[Consumer(0, 0)].n = 0 /\ stream[Consumer(0, 0)].mark
      BY <2>2, InputNames
    <3>2. stream[Consumer(0, 0)].mark => feeder[0].at = "done"
      BY <1>2 DEF WholeInv, Untouched
    <3> QED BY <3>1, <3>2 DEF Live, Owed
  <2>4. v = 0 \/ (v = 1 /\ ~conf.unzip) => stream[Source].n = 0 /\ stream[Source].mark
    BY <2>2, InputNames
  <2>5. LeftOfInput(v) = 0
    <3>1. CASE v = 1 /\ conf.unzip
      BY <1>9, <2>3, <3>1 DEF LeftOfInput
    <3>2. CASE ~(v = 1 /\ conf.unzip)
      BY <2>2, <3>2 DEF LeftOfInput
    <3> QED BY <3>1, <3>2
  <2>6. v = 0 => LeftOfFirst(0)' = LeftOfFirst(0)
    BY <1>2, <1>8, <1>9, <2>1, <2>4
  <2>7. t # v => (Live(t) => LeftOfInput(t)' = LeftOfInput(t))
    <3> SUFFICES ASSUME t # v PROVE LeftOfInput(t)' = LeftOfInput(t)
      OBVIOUS
    <3>1. CASE t = 1 /\ conf.unzip
      <4>1. Owed(0, 0)' = Owed(0, 0) \/ v = 0
        BY <1>2, <1>8
      <4>2. LeftOfFirst(0)' = LeftOfFirst(0)
        BY <1>9, <2>6, <4>1
      <4> QED BY <3>1, <4>2 DEF LeftOfInput
    <3>2. CASE ~(t = 1 /\ conf.unzip)
      <4>1. InputOf(t) \in Inputs
        BY <3>2, InputNames
      <4> QED BY <1>6, <1>8, <3>2, <4>1 DEF LeftOfInput
    <3> QED BY <3>1, <3>2
  <2>8. Left(t, i)' = Left(t, i)
    <3>1. stream[Consumer(t, i)].n \in Nat
      BY <1>2, <1>3
    <3>2. CASE t = v
      <4>1. Owed(t, i) = 0 /\ Owed(t, i)' = 0 /\ LeftOfInput(t) = 0
        BY <1>8, <2>1, <2>5, <3>2
      <4> QED BY <1>11, <3>1, <3>2, <4>1
    <3>3. CASE t # v
      <4>1. Owed(t, i)' = Owed(t, i)
        BY <1>8, <3>3
      <4> QED BY <1>11, <2>7, <3>3, <4>1
    <3> QED BY <3>2, <3>3
  <2>9. Doomed(t) => Doomed(t)'
    <3>1. stream'[Source] = stream[Source]
      BY <1>2, <1>6
    <3>2. Doomed(t) => t # v /\ (t = 1 /\ conf.unzip => v # 0)
      <4>1. v = 0 => stream[Source].mark
        BY <2>4
      <4>2. v = 1 /\ conf.unzip => ~Live(0)
        BY <2>3
      <4> QED BY <2>2, <4>1, <4>2 DEF Doomed
    <3>3. CASE t = 1 /\ conf.unzip
      BY <1>2, <1>8, <3>1, <3>2, <3>3 DEF Doomed
    <3>4. CASE ~(t = 1 /\ conf.unzip)
      <4>1. stream'[InputOf(t)] = stream[InputOf(t)]
        BY <1>6, <3>4, InputNames
      <4> QED BY <1>8, <3>2, <3>4, <4>1 DEF Doomed
    <3> QED BY <3>3, <3>4
  <2> QED BY <2>8, <2>9
<1>13. \A t \in Tees, i \in {0, 1} : Reads(t, i) =>
         /\ Left(t, i)' \in Nat /\ Left(t, i)' <= Left(t, i)
         /\ cut' \/ Doomed(t)' \/ (Left(t, i)' = Left(t, i) /\ ~Doomed(t))
  BY <1>11, <1>12
<1>14. ASSUME NEW p \in 1..Passes, ReadsInput(p)
       PROVE  InputFlows(p)'
  <2>1. InputFlows(p) /\ InputOf(p)' = InputOf(p) /\ InputOf(p) \in Inputs
    BY <1>2, <1>8, <1>14, InputNames DEF WholeInv, Flowing, ReadsInput
  <2> QED BY <1>2, <1>6, <2>1 DEF InputFlows, Amount
<1>15. Untouched'
  <2>1. ASSUME NEW p \in 1..Passes, p > low.pass
        PROVE  stream'[File(p)].n = 1 /\ \A i \in {0, 1} : stream'[Consumer(p, i)].n = 0
    <3>1. stream[File(p)].n = 1 /\ \A i \in {0, 1} : stream[Consumer(p, i)].n = 0
      BY <2>1 DEF WholeInv, Untouched
    <3> QED BY <1>2, <1>5, <3>1
  <2>2. \A t \in Tees, i \in {0, 1} : stream'[Consumer(t, i)].mark => feeder'[t].at = "done"
    <3>1. \A t \in Tees, i \in {0, 1} : stream[Consumer(t, i)].mark => feeder[t].at = "done"
      BY DEF WholeInv, Untouched
    <3> QED BY <1>1, <1>7, <3>1
  <2> QED BY <1>1, <2>1, <2>2 DEF Untouched
<1>16. StreamShapes'
  <2>1. \A t \in Tees, i \in {0, 1} : stream'[Consumer(t, i)].n <= Capacity
    BY <1>2, <1>5 DEF WholeInv, StreamShapes
  <2>2. stream'[Source].n <= Chunks /\ \A p \in 1..Passes : stream'[File(p)].n <= 1
    BY <1>2, <1>5 DEF WholeInv, StreamShapes
  <2> QED BY <1>1, <1>5, <2>1, <2>2 DEF StreamShapes, Stream
<1>17. (cut => cut') /\ dropped' \subseteq Streams /\ faults' \in 0..MaxFaults
  <2>1. Consumers(v) \subseteq Streams
    BY <1>2, <1>4
  <2> QED BY <2>1 DEF WholeInv, Tidy, FeedStops
<1> HIDE DEF WholeInv, LifeInv
<1> QED BY <1>1, <1>13, <1>14, <1>15, <1>16, <1>17, StreamsMove

LEMMA FeedStepWhole ==
  ASSUME LifeInv, WholeInv, NEW v \in Tees, FeedStep(v),
         UNCHANGED <<conf, upload, object, completed, low, unz, load, faults>>
  PROVE  WholeInv'
<1> USE DEF Live
<1>1. CASE FeedRead(v)
  BY <1>1, FeedReadWhole
<1>2. CASE FeedPut(v)
  BY <1>2, FeedPutWhole
<1>3. CASE FeedEnd(v)
  <2>1. cut' = cut /\ cut \in BOOLEAN
    BY <1>3 DEF FeedEnd, WholeInv, Tidy
  <2> QED BY <1>3, <2>1, FeedStopsWhole DEF FeedEnd
<1>4. CASE FeedGiveUp(v)
  BY <1>4, FeedStopsWhole DEF FeedGiveUp
<1>5. CASE FeedBreaks(v)
  BY <1>5, FeedStopsWhole DEF FeedBreaks
<1> QED BY <1>1, <1>2, <1>3, <1>4, <1>5 DEF FeedStep

\* What a tee or an upload reads raises: whoever has not seen its end yet is cut, or fails.
LEMMA InputBreaksWhole ==
  ASSUME LifeInv, WholeInv, NEW q \in Inputs, NEW k \in Nat, k <= stream[q].n, low.at # "off",
         stream' = [stream EXCEPT ![q] = [n |-> k, mark |-> FALSE]],
         \A p \in 1..Passes : q = File(p) => p <= low.pass,
         UNCHANGED <<conf, feeder, cut, dropped, upload, object, completed, low, unz, load>>,
         faults' \in 0..MaxFaults
  PROVE  WholeInv'
<1>2. /\ stream \in [Streams -> Stream] /\ \A r \in Streams : stream[r].n \in Nat
      /\ q \in Streams /\ Source \in Streams /\ 0 \in Tees /\ \A p \in 1..Passes : p \in Tees
      /\ \A t \in Tees, i \in {0, 1} : Consumer(t, i) \in Streams /\ Consumer(t, i) # q
      /\ \A p \in 1..Passes : File(p) \in Streams
  BY Distinct, Numbers DEF WholeInv, StreamShapes, Stream
<1>3. /\ stream'[q].n = k /\ ~stream'[q].mark /\ \A r \in Streams \ {q} : stream'[r] = stream[r]
      /\ stream' \in [Streams -> Stream]
  BY <1>2 DEF Stream
<1>4. \A t \in Tees, i \in {0, 1} : stream'[Consumer(t, i)] = stream[Consumer(t, i)]
  BY <1>2, <1>3
<1>a. \A r \in Streams : stream'[r].n \in Nat /\ stream'[r].n <= stream[r].n /\ (stream'[r].mark => stream[r].mark)
  BY <1>2, <1>3
<1>5. /\ \A t, i : Owed(t, i)' = Owed(t, i) /\ Owed(t, i) \in {0, 1}
      /\ \A t : (Live(t)' <=> Live(t)) /\ InputOf(t)' = InputOf(t)
  BY DEF Owed, Live, InputOf
<1>6. /\ LeftOfFirst(0) \in Nat /\ LeftOfFirst(0)' \in Nat /\ LeftOfFirst(0)' <= LeftOfFirst(0)
      /\ LeftOfFirst(0)' = LeftOfFirst(0) \/ (Live(0) /\ q = Source)
  <2>1. stream[Consumer(0, 0)].n \in Nat /\ stream[Source].n \in Nat /\ Owed(0, 0) \in Nat
        /\ stream'[Source].n \in Nat /\ stream'[Source].n <= stream[Source].n
        /\ (q # Source => stream'[Source].n = stream[Source].n)
    BY <1>2, <1>3, <1>5, <1>a
  <2>2. stream'[Consumer(0, 0)].n = stream[Consumer(0, 0)].n
    BY <1>2, <1>4
  <2>3. LeftOfFirst(0) = stream[Consumer(0, 0)].n + Owed(0, 0) + (IF Live(0) THEN stream[Source].n ELSE 0)
    BY DEF LeftOfFirst
  <2>4. LeftOfFirst(0)' = stream[Consumer(0, 0)].n + Owed(0, 0) + (IF Live(0) THEN stream'[Source].n ELSE 0)
    BY <1>5, <2>2 DEF LeftOfFirst
  <2> QED BY <2>1, <2>3, <2>4
<1>7. ASSUME NEW t \in Tees
      PROVE  /\ LeftOfInput(t) \in Nat /\ LeftOfInput(t)' \in Nat /\ LeftOfInput(t)' <= LeftOfInput(t)
             /\ LeftOfInput(t)' = LeftOfInput(t) \/ (Live(t) => Doomed(t)')
  <2>1. CASE t = 1 /\ conf.unzip
    <3>1. LeftOfInput(t) = LeftOfFirst(0) /\ LeftOfInput(t)' = LeftOfFirst(0)'
      BY <2>1 DEF LeftOfInput
    <3>2. q = Source /\ Live(0) => (Live(t) => Doomed(t)')
      BY <1>3, <1>5, <2>1 DEF Doomed
    <3> QED BY <1>6, <3>1, <3>2
  <2>2. CASE ~(t = 1 /\ conf.unzip)
    <3>1. /\ LeftOfInput(t) = stream[InputOf(t)].n /\ LeftOfInput(t)' = stream'[InputOf(t)].n
          /\ InputOf(t) \in Streams
      BY <1>5, <2>2, InputNames DEF LeftOfInput
    <3>2. InputOf(t) = q => (Live(t) => Doomed(t)')
      BY <1>3, <1>5, <2>2 DEF Doomed
    <3> QED BY <1>2, <1>3, <1>a, <3>1, <3>2
  <2> QED BY <2>1, <2>2
<1>8. ASSUME NEW t \in Tees, NEW i \in {0, 1}
      PROVE  /\ Left(t, i)' \in Nat /\ Left(t, i)' <= Left(t, i)
             /\ cut' \/ Doomed(t)' \/ (Left(t, i)' = Left(t, i) /\ ~Doomed(t))
  <2>1. stream'[Consumer(t, i)].n = stream[Consumer(t, i)].n /\ stream[Consumer(t, i)].n \in Nat /\ Owed(t, i) \in Nat
    BY <1>2, <1>4, <1>5
  <2>2. Left(t, i)' = stream[Consumer(t, i)].n + Owed(t, i) + (IF Live(t) THEN LeftOfInput(t)' ELSE 0)
    BY <1>5, <2>1 DEF Left
  <2>3. Left(t, i) = stream[Consumer(t, i)].n + Owed(t, i) + (IF Live(t) THEN LeftOfInput(t) ELSE 0)
    BY DEF Left
  <2>4. Doomed(t) => Doomed(t)'
    <3>1. InputOf(t) \in Streams
      BY InputNames
    <3>2. (stream'[Source].mark => stream[Source].mark) /\ (stream'[InputOf(t)].mark => stream[InputOf(t)].mark)
      BY <1>2, <1>a, <3>1
    <3> QED BY <1>5, <3>2 DEF Doomed
  <2>5. Left(t, i)' = Left(t, i) \/ Doomed(t)'
    BY <1>7, <2>1, <2>2, <2>3
  <2>6. Left(t, i)' \in Nat /\ Left(t, i)' <= Left(t, i)
    BY <1>7, <2>1, <2>2, <2>3
  <2> QED BY <2>4, <2>5, <2>6
<1>9. ASSUME NEW p \in 1..Passes, ReadsInput(p)
      PROVE  InputFlows(p)'
  <2>1. InputFlows(p) /\ InputOf(p)' = InputOf(p) /\ InputOf(p) \in Streams /\ upload[p].got \in Nat
    BY <1>2, <1>5, <1>9, InputNames, Numbers DEF WholeInv, Flowing, LifeInv, Shapes
  <2>2. Amount(p)' = Amount(p) /\ Amount(p) \in Nat
    BY TeeAssumption DEF Amount
  <2>3. CASE InputOf(p) = q
    BY <1>2, <1>3, <1>a, <2>1, <2>2, <2>3 DEF InputFlows
  <2>4. CASE InputOf(p) # q
    BY <1>3, <2>1, <2>2, <2>4 DEF InputFlows
  <2> QED BY <2>3, <2>4
<1>10. Untouched'
  <2>1. ASSUME NEW p \in 1..Passes, p > low.pass
        PROVE  stream'[File(p)].n = 1 /\ \A i \in {0, 1} : stream'[Consumer(p, i)].n = 0
    <3>1. stream[File(p)].n = 1 /\ \A i \in {0, 1} : stream[Consumer(p, i)].n = 0
      BY <2>1 DEF WholeInv, Untouched
    <3>2. File(p) # q
      BY <2>1 DEF LifeInv, Shapes
    <3> QED BY <1>2, <1>3, <1>4, <3>1, <3>2
  <2>2. \A t \in Tees, i \in {0, 1} : stream'[Consumer(t, i)].mark => feeder'[t].at = "done"
    BY <1>4 DEF WholeInv, Untouched
  <2> QED BY <2>1, <2>2 DEF Untouched
<1>11. StreamShapes'
  <2>1. \A t \in Tees, i \in {0, 1} : stream'[Consumer(t, i)].n <= Capacity
    BY <1>4 DEF WholeInv, StreamShapes
  <2>2. stream'[Source].n <= Chunks /\ \A p \in 1..Passes : stream'[File(p)].n <= 1
    <3>1. stream[Source].n <= Chunks /\ \A p \in 1..Passes : stream[File(p)].n <= 1
      BY DEF WholeInv, StreamShapes
    <3> QED BY <1>2, <1>a, <3>1, TeeAssumption
  <2>3. feeder' \in [Tees -> [at : {"off", "read", "first", "second", "done"}, input : Streams]]
    BY DEF WholeInv, StreamShapes
  <2> QED BY <1>3, <2>1, <2>2, <2>3 DEF StreamShapes, Stream
<1>12. Wired' /\ cut' \in BOOLEAN /\ (cut => cut') /\ dropped' \subseteq Streams
  BY DEF WholeInv, Wired, Tidy, InputOf, FromOf, Writing, Gunzipped
<1> HIDE DEF WholeInv, LifeInv
<1> QED BY <1>8, <1>9, <1>10, <1>11, <1>12, StreamsMove

LEMMA SourceBreaksWhole ==
  ASSUME LifeInv, WholeInv, SourceBreaks, UNCHANGED conf
  PROVE  WholeInv'
<1>1. /\ low.at # "off" /\ stream' = [stream EXCEPT ![Source] = [n |-> 0, mark |-> FALSE]]
      /\ UNCHANGED <<conf, feeder, cut, dropped, upload, object, completed, low, unz, load>>
      /\ faults' \in 0..MaxFaults
  BY SetupAssumption DEF SourceBreaks, Fault, storageVars, decoratorVars, WholeInv, Wired, Tidy
<1>2. Source \in Inputs /\ 0 \in Nat /\ 0 <= stream[Source].n /\ \A p \in 1..Passes : Source # File(p)
  BY Distinct DEF WholeInv, StreamShapes
<1> HIDE DEF WholeInv, LifeInv, SourceBreaks
<1> QED BY <1>1, <1>2, InputBreaksWhole

LEMMA FileBreaksWhole ==
  ASSUME LifeInv, WholeInv, FileBreaks, UNCHANGED <<conf, load>>
  PROVE  WholeInv'
<1>0. low.pass \in 1..Passes /\ low.pass \in Nat
  BY DEF LifeInv, Shapes
<1>1. PICK q \in Inputs, k \in Nat :
        /\ q = File(low.pass) /\ k <= stream[q].n
        /\ stream' = [stream EXCEPT ![q] = [n |-> k, mark |-> FALSE]]
  <2>1. File(low.pass) \in Inputs /\ stream[File(low.pass)].n \in Nat
    BY <1>0, Distinct DEF WholeInv, StreamShapes
  <2>2. PICK k \in {0, stream[File(low.pass)].n} :
          stream' = [stream EXCEPT ![File(low.pass)] = [n |-> k, mark |-> FALSE]]
    BY DEF FileBreaks
  <2>3. k \in Nat /\ k <= stream[File(low.pass)].n
    BY <2>1
  <2> HIDE DEF WholeInv, LifeInv, FileBreaks
  <2> QED BY <2>1, <2>2, <2>3
<1>2. /\ UNCHANGED <<conf, feeder, cut, dropped, upload, object, completed, low, unz, load>>
      /\ faults' \in 0..MaxFaults /\ low.at # "off"
  BY SetupAssumption DEF FileBreaks, Fault, storageVars, decoratorVars, WholeInv, Wired, Tidy
<1>3. \A p \in 1..Passes : q = File(p) => p <= low.pass
  <2> SUFFICES ASSUME NEW p \in 1..Passes, q = File(p) PROVE p <= low.pass
    OBVIOUS
  <2>1. p = low.pass
    BY <1>0, <1>1, Distinct
  <2> QED BY <1>0, <2>1
<1> HIDE DEF WholeInv, LifeInv, FileBreaks
<1> QED BY <1>1, <1>2, <1>3, InputBreaksWhole

-----------------------------------------------------------------------------
(* The stages *)

\* A stage ends: no chunk moves and no upload changes.
LEMMA StageEnds ==
  ASSUME LifeInv, WholeInv, UNCHANGED <<conf, teeVars, upload, object>>,
         low'.pass = low.pass, low'.content = low.content, low'.at = "off" <=> low.at = "off",
         low'.at = "peek" => low.at = "peek",
         unz'.got = unz.got, unz'.at = "reading" => unz.at = "reading",
         unz'.at # "off" \/ load'.at = "adding" => low.at # "off", Tidy', Copied'
  PROVE  WholeInv'
<1>1. UNCHANGED <<stream, feeder, cut, dropped>>
  BY DEF teeVars
<1>2. \A t \in Tees, i \in {0, 1} : Reads(t, i)' => Reads(t, i) /\ Got(t, i)' = Got(t, i)
  BY DEF Reads, Got, Writing, Gunzipped
<1>3. \A t, i : Left(t, i)' = Left(t, i) /\ (Doomed(t)' <=> Doomed(t))
  BY <1>1 DEF Left, LeftOfInput, LeftOfFirst, Owed, Live, InputOf, Doomed
<1>4. \A t \in Tees, i \in {0, 1} : Reads(t, i)' => Flows(t, i, Got(t, i))'
  BY <1>1, <1>2, <1>3 DEF WholeInv, Flowing, Flows, Amount
<1>5. \A p \in 1..Passes : ReadsInput(p)' => InputFlows(p)'
  BY <1>1 DEF WholeInv, Flowing, ReadsInput, Writing, InputFlows, Amount, InputOf
<1>6. Flowing'
  BY <1>1, <1>4, <1>5 DEF WholeInv, Flowing, Expected, Gunzipped
<1>7. StreamShapes' /\ Wired' /\ Untouched'
  BY <1>1 DEF WholeInv, StreamShapes, Wired, Untouched, FreshStream, InputOf, FromOf, Writing, Gunzipped
<1>8. Lying'
  BY <1>1, LyingKept DEF WholeInv
<1> QED BY <1>6, <1>7, <1>8 DEF WholeInv

\* The stages of the decorators.
LEMMA LowStageEnds ==
  ASSUME LifeInv, WholeInv, NEW at \in {"spill", "wait", "ok", "raised"}, LowAt(at), low.at # "off",
         faults' \in 0..MaxFaults, UNCHANGED <<conf, teeVars, upload, object, completed, unz, load>>,
         low.at = "peek" /\ conf.targz /\ conf.content = "gzip" => cut \/ low.pass > 1
  PROVE  WholeInv'
<1>1. low' = [low EXCEPT !.at = at] /\ low \in [at : {"off", "direct", "peek", "gunzip", "spill", "wait", "ok", "raised"},
                                                  pass : 1..Passes, content : {"plain", "gzip", "zip"}]
  BY DEF LowAt, LifeInv, Shapes
<1>2. low'.at = at /\ low'.pass = low.pass /\ low'.content = low.content
  BY <1>1
<1>3. Tidy'
  BY DEF WholeInv, Tidy, teeVars
<1>4. Copied'
  BY <1>2 DEF WholeInv, Copied, teeVars, Gunzipped
<1>5. unz.at # "off" \/ load.at = "adding" => low.at # "off"
  BY DEF WholeInv, Wired
<1> HIDE DEF WholeInv, LifeInv
<1> QED BY <1>2, <1>3, <1>4, <1>5, StageEnds

LEMMA UnzStageEnds ==
  ASSUME LifeInv, WholeInv, NEW at \in {"waiting", "ok", "raised"}, UnzAt(at), unz.at # "off",
         faults' \in 0..MaxFaults, UNCHANGED <<conf, teeVars, upload, object, completed, low, load>>
  PROVE  WholeInv'
<1>1. unz' = [unz EXCEPT !.at = at] /\ unz \in [at : {"off", "reading", "waiting", "deriving", "ok", "raised"}, got : Nat]
  BY DEF UnzAt, LifeInv, Shapes
<1>2. unz'.at = at /\ unz'.got = unz.got
  BY <1>1
<1>3. Tidy' /\ Copied'
  BY DEF WholeInv, Tidy, Copied, teeVars, Gunzipped
<1>4. low.at # "off"
  BY DEF WholeInv, Wired
<1> HIDE DEF WholeInv, LifeInv
<1> QED BY <1>2, <1>3, <1>4, StageEnds

\* The steps of the load that begin nothing.
LEMMA LoadStageEnds ==
  ASSUME LifeInv, WholeInv, UNCHANGED <<conf, teeVars, upload, object, low, unz>>,
         faults' \in 0..MaxFaults, completed' \in BOOLEAN, load'.at # "adding",
         load'.file = 1 \/ load'.file <= conf.files, load'.finished <= load'.file
  PROVE  WholeInv'
<1>1. Tidy' /\ Copied'
  BY DEF WholeInv, Tidy, Copied, teeVars, Gunzipped
<1>2. unz.at # "off" => low.at # "off"
  BY DEF WholeInv, Wired
<1> HIDE DEF WholeInv, LifeInv
<1> QED BY <1>1, <1>2, StageEnds

LEMMA FaultBound ==
  ASSUME WholeInv, Fault \/ UNCHANGED faults
  PROVE  faults' \in 0..MaxFaults
BY SetupAssumption DEF WholeInv, Tidy, Fault

\* The first read of the copy finds its end: the body is empty, or was cut.
LEMMA EmptyBody ==
  ASSUME LifeInv, WholeInv, low.at = "peek", low.pass = 1, Ended(Side), conf.content = "gzip"
  PROVE  cut
<1>1. Ended(Consumer(1, 1)) /\ 1 \in Tees /\ 1 \in Uploads /\ Gunzipped(1) \in Uploads /\ 1 \in 1..Passes
  BY Numbers DEF Side
<1>2. Reads(1, 1) /\ Got(1, 1) = 0
  <2>1. ~Writing(Gunzipped(1))
    BY DEF LifeInv, Fresh, Writing
  <2> QED BY <2>1 DEF Reads, Got
<1>3. feeder[1].at = "done" /\ stream[Consumer(1, 1)].n = 0
  BY <1>1 DEF Ended, WholeInv, Untouched
<1>4. Left(1, 1) = 0 /\ ~Doomed(1)
  BY <1>3 DEF Left, Owed, Live, Doomed
<1>5. 0 = Chunks \/ cut
  BY <1>1, <1>2, <1>4 DEF WholeInv, Flowing, Flows, Amount
<1>6. Chunks # 0
  BY SetupAssumption DEF LifeInv, Shapes
<1> QED BY <1>5, <1>6

LEMMA TarGzStepWhole ==
  ASSUME LifeInv, WholeInv, TarGzStep, UNCHANGED <<conf, load>>
  PROVE  WholeInv'
<1>0. low \in [at : {"off", "direct", "peek", "gunzip", "spill", "wait", "ok", "raised"},
               pass : 1..Passes, content : {"plain", "gzip", "zip"}]
  BY DEF LifeInv, Shapes
<1>1. CASE PeekChunk
  <2>1. /\ low.at = "peek" /\ Take(Side) /\ UNCHANGED <<feeder, cut, dropped, completed, unz, faults>>
        /\ IF low.content = "gzip" THEN low' = [low EXCEPT !.at = "gunzip"] /\ Begin(Gunzipped(low.pass), Side, 1)
           ELSE low' = [low EXCEPT !.at = "spill"] /\ UNCHANGED <<upload, object>>
    BY <1>1 DEF PeekChunk, LowAt
  <2> HIDE DEF WholeInv, LifeInv
  <2>2. CASE low.content = "gzip"
    BY <2>1, <2>2, GunzipWhole
  <2>3. CASE low.content # "gzip"
    BY <2>1, <2>3, SideWhole
  <2> QED BY <2>2, <2>3
<1>2. CASE PeekEnd
  <2>1. LowAt("spill") /\ UNCHANGED <<teeVars, upload, object, completed, unz, faults>> /\ low.at = "peek" /\ Ended(Side)
    BY <1>2 DEF PeekEnd, OnlyLow, teeVars, storageVars
  <2>2. conf.content = "gzip" => cut \/ low.pass > 1
    BY <1>0, <2>1, EmptyBody
  <2>3. faults' \in 0..MaxFaults
    BY <2>1, FaultBound
  <2> QED BY <2>1, <2>2, <2>3, LowStageEnds
<1>3. CASE GunzipEnds
  <2>1. /\ LowAt("wait") \/ LowAt("spill")
        /\ UNCHANGED <<teeVars, upload, object, completed, unz, faults>> /\ low.at = "gunzip"
    BY <1>3 DEF GunzipEnds, OnlyLow, teeVars, storageVars
  <2>2. faults' \in 0..MaxFaults
    BY <2>1, FaultBound
  <2> QED BY <2>1, <2>2, LowStageEnds
<1>4. CASE SpillChunk
  <2>1. low' = [low EXCEPT !.at = "spill"]
    BY <1>0, <1>4 DEF SpillChunk
  <2>2. low.at = "spill" /\ Take(Side) /\ UNCHANGED <<feeder, cut, dropped, upload, object, completed, unz, faults>>
    BY <1>4 DEF SpillChunk, storageVars
  <2> QED BY <2>1, <2>2, SideWhole
<1>5. CASE SpillEnds
  <2>1. /\ LowAt("wait") \/ LowAt("raised")
        /\ UNCHANGED <<teeVars, upload, object, completed, unz>> /\ low.at = "spill" /\ (Fault \/ UNCHANGED faults)
    BY <1>5 DEF SpillEnds, storageVars
  <2>2. faults' \in 0..MaxFaults
    BY <2>1, FaultBound
  <2> QED BY <2>1, <2>2, LowStageEnds
<1>6. CASE BelowEnds
  <2>1. /\ LowAt("ok") \/ LowAt("raised")
        /\ UNCHANGED <<teeVars, upload, object, completed, unz, faults>> /\ low.at = "wait"
    BY <1>6 DEF BelowEnds, OnlyLow, teeVars, storageVars
  <2>2. faults' \in 0..MaxFaults
    BY <2>1, FaultBound
  <2> QED BY <2>1, <2>2, LowStageEnds
<1> QED BY <1>1, <1>2, <1>3, <1>4, <1>5, <1>6 DEF TarGzStep

LEMMA TempEndsWhole ==
  ASSUME LifeInv, WholeInv, TempEnds, UNCHANGED <<conf, load>>
  PROVE  WholeInv'
<1>1. /\ UnzAt("waiting") \/ UnzAt("raised")
      /\ UNCHANGED <<teeVars, upload, object, completed, low>> /\ unz.at = "reading" /\ (Fault \/ UNCHANGED faults)
  BY DEF TempEnds, storageVars
<1>2. faults' \in 0..MaxFaults
  BY <1>1, FaultBound
<1> QED BY <1>1, <1>2, UnzStageEnds

LEMMA UnzipOverWhole ==
  ASSUME LifeInv, WholeInv, NEW at \in {"ok", "raised"}, UnzipOver(at), unz.at # "off", UNCHANGED <<conf, load>>
  PROVE  WholeInv'
<1>1. UnzAt(at) /\ UNCHANGED <<teeVars, upload, object, completed, low, faults>>
  BY DEF UnzipOver, storageVars
<1>2. faults' \in 0..MaxFaults
  BY <1>1, FaultBound
<1> QED BY <1>1, <1>2, UnzStageEnds

\* The steps of the load that neither begin a bundle nor add to it.
LEMMA LoadStepWhole ==
  ASSUME LifeInv, WholeInv, Fetch \/ AddEnds \/ Complete \/ Finish \/ Callbacks \/ Raise, UNCHANGED conf
  PROVE  WholeInv'
<1>1. /\ load \in [at : LoadStages, file : Nat \ {0}, finished : Nat]
      /\ load.file = 1 \/ load.file <= conf.files
      /\ load.finished <= load.file /\ completed \in BOOLEAN /\ conf.files \in Nat
  BY SetupAssumption DEF LifeInv, Shapes, WholeInv, Tidy, SetupTypes
<1>2. /\ UNCHANGED <<teeVars, upload, object, low, unz>> /\ completed' \in BOOLEAN
      /\ Fault \/ UNCHANGED faults
  BY <1>1 DEF Fetch, AddEnds, Complete, Finish, Callbacks, Raise, OnlyLoad, storageVars, decoratorVars
<1>3. faults' \in 0..MaxFaults
  BY <1>2, FaultBound
<1>4. \A at : LoadAt(at) => load'.at = at /\ load'.file = load.file /\ load'.finished = load.finished
  BY <1>1 DEF LoadAt
<1>5. ASSUME load.at \in {"callbacks", "finish"}, NEW finished \in Nat, finished <= load.file,
             NEW step \in {"callbacks", "finish"}, AfterHook(step, finished)
      PROVE  /\ load'.at # "adding" /\ (load'.file = 1 \/ load'.file <= conf.files)
             /\ load'.finished <= load'.file
  <2>1. load.file <= conf.files /\ load.file \in Nat \ {0}
    BY <1>1, <1>5 DEF LifeInv, Progressing
  <2>2. CASE load' = [load EXCEPT !.at = HookOrder[2], !.finished = finished]
    BY <1>1, <1>5, <2>1, <2>2, Hooks
  <2>3. CASE load' = NextFile(finished)
    <3>1. CASE load.file < conf.files
      BY <1>1, <1>5, <2>1, <2>3, <3>1 DEF NextFile
    <3>2. CASE ~(load.file < conf.files)
      BY <1>1, <1>5, <2>1, <2>3, <3>2 DEF NextFile
    <3> QED BY <3>1, <3>2
  <2> QED BY <1>5, <2>2, <2>3 DEF AfterHook
<1>6. /\ load'.at # "adding" /\ (load'.file = 1 \/ load'.file <= conf.files)
      /\ load'.finished <= load'.file
  <2>1. CASE Fetch
    BY <1>1, <1>4, <2>1 DEF Fetch
  <2>2. CASE AddEnds
    BY <1>1, <1>4, <2>2 DEF AddEnds, AfterAdd
  <2>3. CASE Complete
    BY <1>1, <1>4, <2>3, Hooks DEF Complete
  <2>4. CASE Finish
    <3>1. load.at = "finish" /\ load.finished + 1 \in Nat /\ load.finished + 1 <= load.file
      BY <1>1, <2>4 DEF Finish, LifeInv, Progressing
    <3>2. AfterHook("finish", load.finished + 1) \/ LoadAt("failed")
      BY <2>4 DEF Finish
    <3> QED BY <1>1, <1>4, <1>5, <3>1, <3>2
  <2>5. CASE Callbacks
    <3>1. load.at = "callbacks" /\ (AfterHook("callbacks", load.finished) \/ LoadAt("failed"))
      BY <2>5 DEF Callbacks
    <3> QED BY <1>1, <1>4, <1>5, <3>1
  <2>6. CASE Raise
    BY <1>1, <1>4, <2>6 DEF Raise
  <2> QED BY <2>1, <2>2, <2>3, <2>4, <2>5, <2>6
<1> HIDE DEF WholeInv, LifeInv
<1> QED BY <1>2, <1>3, <1>6, LoadStageEnds

\* A bundle begins: nothing has been read, and nothing written.
Beginning ==
  /\ stream = [s \in Streams |-> FreshStream(s)]
  /\ feeder = [t \in Tees |-> NoFeeder]
  /\ low = NoPass /\ unz = NoUnzip
  /\ upload = [u \in Uploads |-> NoUpload]
  /\ object = [u \in Uploads |-> Nothing]
  /\ Tidy /\ load.at # "adding"

LEMMA FreshStreams ==
  /\ \A t \in Tees, i \in {0, 1} : Consumer(t, i) \in Streams /\ FreshStream(Consumer(t, i)) = [n |-> 0, mark |-> FALSE]
  /\ Source \in Streams /\ FreshStream(Source) = [n |-> Chunks, mark |-> TRUE]
  /\ \A p \in 1..Passes : File(p) \in Streams /\ FreshStream(File(p)) = [n |-> 1, mark |-> TRUE]
BY Distinct DEF FreshStream

LEMMA BeginningWhole == Beginning => WholeInv
<1> SUFFICES ASSUME Beginning PROVE WholeInv
  OBVIOUS
<1>1. \A s \in Streams : stream[s] = FreshStream(s)
  BY DEF Beginning
<1>2. /\ \A t \in Tees, i \in {0, 1} : Consumer(t, i) \in Streams /\ FreshStream(Consumer(t, i)) = [n |-> 0, mark |-> FALSE]
      /\ Source \in Streams /\ FreshStream(Source) = [n |-> Chunks, mark |-> TRUE]
      /\ \A p \in 1..Passes : File(p) \in Streams /\ FreshStream(File(p)) = [n |-> 1, mark |-> TRUE]
      /\ \A p \in 1..Passes : p \in Tees
  BY Numbers, FreshStreams
<1>3. \A s \in Streams : FreshStream(s) \in [n : Nat, mark : BOOLEAN]
  BY TeeAssumption DEF FreshStream
<1>4. \A t \in Tees : feeder[t] = [at |-> "off", input |-> Source]
  BY DEF Beginning, NoFeeder
<1>5. low = [at |-> "off", pass |-> 1, content |-> "plain"] /\ unz = [at |-> "off", got |-> 0]
  BY DEF Beginning, NoPass, NoUnzip
<1>6. \A u \in Uploads : upload[u] = [at |-> "none", from |-> Source, got |-> 0]
  BY DEF Beginning, NoUpload
<1>7. StreamShapes
  <2>1. stream \in [Streams -> [n : Nat, mark : BOOLEAN]]
    BY <1>1, <1>3 DEF Beginning
  <2>2. feeder \in [Tees -> [at : {"off", "read", "first", "second", "done"}, input : Streams]]
    BY <1>2 DEF Beginning, NoFeeder
  <2>3. \A t \in Tees, i \in {0, 1} : stream[Consumer(t, i)].n <= Capacity
    BY <1>1, <1>2, TeeAssumption
  <2>4. stream[Source].n <= Chunks /\ \A p \in 1..Passes : stream[File(p)].n <= 1
    BY <1>1, <1>2, TeeAssumption
  <2> QED BY <2>1, <2>2, <2>3, <2>4 DEF StreamShapes
<1>8. Wired
  BY <1>4, <1>5, <1>6 DEF Wired, Writing, Beginning
<1>9. Untouched
  BY <1>1, <1>2, <1>5 DEF Untouched
<1>10. /\ \A u \in Uploads : ~Writing(u)
       /\ \A p \in 1..Passes : p \in Uploads /\ Gunzipped(p) \in Uploads
       /\ \A t \in Tees : t = 0 \/ t \in 1..Passes
       /\ 1 \in Uploads
  BY <1>6, Numbers DEF Writing, Tees
<1>11. Flowing
  <2>1. \A t \in Tees, i \in {0, 1} : ~Reads(t, i)
    BY <1>5, <1>10 DEF Reads
  <2>2. \A p \in 1..Passes : ~ReadsInput(p)
    BY <1>10 DEF ReadsInput
  <2>3. \A u \in Uploads : Expected(u) \in Nat
    BY TeeAssumption DEF Expected
  <2> QED BY <1>5, <1>6, <2>1, <2>2, <2>3, TeeAssumption DEF Flowing
<1>12. Copied
  BY <1>5 DEF Copied
<1>13. Lying
  <2>1. object \in [Uploads -> [by : SUBSET Uploads, got : Nat]]
    BY DEF Beginning, Nothing
  <2>2. KeptWhole
    BY <1>6 DEF KeptWhole
  <2>3. FileWhole
    BY <1>6, <1>10 DEF FileWhole, Beginning, NoPass
  <2> QED BY <1>5, <2>1, <2>2, <2>3 DEF Lying
<1> QED BY <1>7, <1>8, <1>9, <1>11, <1>12, <1>13 DEF WholeInv, Beginning

LEMMA NextBeginningWhole == Beginning' => WholeInv'
BY BeginningWhole, PTL

LEMMA InitWhole == Init => WholeInv
<1> SUFFICES ASSUME Init PROVE WholeInv
  OBVIOUS
<1>1. load = [at |-> "fetch", file |-> 1, finished |-> 0]
  BY DEF Init
<1>2. Tidy
  <2>1. load.file = 1 /\ load.finished = 0
    BY <1>1
  <2>2. cut \in BOOLEAN /\ dropped \subseteq Streams /\ completed \in BOOLEAN
    BY DEF Init, TeeInit, StorageInit
  <2>3. faults \in 0..MaxFaults
    BY SetupAssumption DEF Init, StorageInit
  <2> QED BY <2>1, <2>2, <2>3 DEF Tidy
<1>3. Beginning
  BY <1>1, <1>2 DEF Init, TeeInit, StorageInit, DecoratorInit, Beginning
<1> QED BY <1>3, BeginningWhole

LEMMA StartWhole ==
  ASSUME LifeInv, WholeInv, Start, UNCHANGED conf
  PROVE  WholeInv'
<1>1. load' = [load EXCEPT !.at = "add"] /\ load \in [at : LoadStages, file : Nat \ {0}, finished : Nat]
  BY DEF Start, LoadAt, LifeInv, Shapes
<1>2. load'.at = "add" /\ load'.file = load.file /\ load'.finished = load.finished
  BY <1>1
<1>3. Tidy'
  BY <1>2 DEF WholeInv, Tidy, Start, StartBundle
<1>4. Beginning'
  BY <1>2, <1>3 DEF Start, StartBundle, Beginning, NoFeeder, NoPass, NoUnzip, NoUpload, Nothing
<1> QED BY <1>4, NextBeginningWhole

-----------------------------------------------------------------------------
(* The resources the decorators are given *)

\* Every chunk of the body is still to come.
LEMMA AddWhole ==
  ASSUME LifeInv, WholeInv, Add, UNCHANGED conf
  PROVE  WholeInv'
<1>1. /\ load.at = "add" /\ low.at = "off" /\ unz.at = "off" /\ AddResource
      /\ load' = [load EXCEPT !.at = "adding"]
      /\ UNCHANGED <<conf, stream, cut, dropped, completed, active, faults>>
  BY DEF Add, LoadAt, LifeInv, Progressing
<1>2. /\ \A t, u \in Tees, i, k \in {0, 1} : Consumer(t, i) = Consumer(u, k) => t = u /\ i = k
      /\ \A t \in Tees, i \in {0, 1} : Consumer(t, i) \in Streams /\ Consumer(t, i) \notin Inputs
      /\ Source \in Inputs /\ Source \in Streams
      /\ \A p \in 1..Passes : File(p) \in Inputs /\ File(p) \in Streams /\ File(p) # Source
      /\ 0 \in Tees /\ 1 \in Tees /\ 1 \in 1..Passes /\ 1 \in Uploads /\ Gunzipped(1) \in Uploads /\ Gunzipped(1) # 1
      /\ \A p \in 1..Passes : p \in Tees /\ p \in Uploads /\ Gunzipped(p) \in Uploads /\ Gunzipped(p) # 1
      /\ \A t \in Tees : t = 0 \/ t \in 1..Passes
  <2>1. \A p \in 1..Passes : Gunzipped(p) # 1
    BY Numbers DEF Gunzipped
  <2>2. \A t \in Tees : t = 0 \/ t \in 1..Passes
    BY Numbers DEF Tees
  <2> QED BY <2>1, <2>2, Distinct, Numbers
<1>3. /\ stream[Source].n = Chunks
      /\ \A p \in 1..Passes : stream[File(p)].n = 1
      /\ \A t \in Tees, i \in {0, 1} : stream[Consumer(t, i)].n = 0 /\ ~stream[Consumer(t, i)].mark
  <2>1. \A s \in Streams : stream[s] = FreshStream(s)
    BY <1>1 DEF WholeInv, Untouched
  <2> QED BY <2>1, FreshStreams
<1>4. \A u \in Uploads : upload[u].at = "none"
  BY <1>1 DEF LifeInv, Fresh
<1>5. \A t \in Tees : feeder[t].at = "off"
  BY <1>1 DEF WholeInv, Wired
<1>6. PICK f : f = IF conf.unzip THEN Fed(feeder, 0, Source) ELSE feeder
  OBVIOUS
<1>7. PICK from : from = InputOf(1)
  OBVIOUS
<1>8. AddBelow(f, 1, from, conf.content) /\ unz' = [at |-> IF conf.unzip THEN "reading" ELSE "off", got |-> 0]
  BY <1>1, <1>6, <1>7, InputNames DEF AddResource, NoUnzip
<1>9. from \in Streams /\ FromOf(1) \in Streams /\ FromOf(1) = IF conf.targz THEN Consumer(1, 0) ELSE from
  BY <1>2, <1>7, InputNames DEF FromOf
<1>10. low' = [at |-> IF conf.targz THEN "peek" ELSE "direct", pass |-> 1, content |-> conf.content]
  BY <1>8 DEF AddBelow
<1>11. /\ upload'[1].from = FromOf(1) /\ upload'[1].got = 0 /\ upload'[1].at \in {"failed", "writing"}
       /\ \A v \in Uploads \ {1} : upload'[v].at = "none" /\ upload'[v].got = upload[v].got
       /\ object' \in [Uploads -> [by : SUBSET Uploads, got : Nat]] /\ KeptWhole'
  <2>1. Begin(1, FromOf(1), 0)
    BY <1>8, <1>9 DEF AddBelow
  <2> QED BY <1>1, <1>2, <1>4, <1>9, <2>1, BeginStored
<1>12. /\ feeder'[0] = IF conf.unzip THEN [at |-> "read", input |-> Source] ELSE feeder[0]
       /\ feeder'[1] = IF conf.targz THEN [at |-> "read", input |-> InputOf(1)] ELSE feeder[1]
       /\ \A t \in Tees : t # 0 /\ t # 1 => feeder'[t] = feeder[t]
       /\ feeder' \in [Tees -> [at : {"off", "read", "first", "second", "done"}, input : Streams]]
  <2>1. feeder \in [Tees -> [at : {"off", "read", "first", "second", "done"}, input : Streams]]
    BY DEF WholeInv, StreamShapes
  <2>2. /\ f \in [Tees -> [at : {"off", "read", "first", "second", "done"}, input : Streams]]
        /\ f[0] = (IF conf.unzip THEN [at |-> "read", input |-> Source] ELSE feeder[0])
        /\ \A t \in Tees : t # 0 => f[t] = feeder[t]
    BY <1>2, <1>6, <2>1 DEF Fed
  <2>3. feeder' = IF conf.targz THEN [f EXCEPT ![1] = [at |-> "read", input |-> from]] ELSE f
    BY <1>8 DEF AddBelow, Fed
  <2> QED BY <1>2, <1>7, <1>9, <2>2, <2>3
<1>13. /\ \A t \in Tees, i \in {0, 1} : Owed(t, i)' = 0
       /\ Live(0)' <=> conf.unzip
       /\ Live(1)' <=> conf.targz
       /\ InputOf(1)' = InputOf(1) /\ InputOf(0)' = Source
  BY <1>1, <1>2, <1>5, <1>12 DEF Owed, Live, InputOf
<1>14. LeftOfFirst(0)' = IF conf.unzip THEN Chunks ELSE 0
  BY <1>1, <1>2, <1>3, <1>13, TeeAssumption DEF LeftOfFirst
<1>15. LeftOfInput(0)' = Chunks /\ LeftOfInput(1)' = Chunks
  BY <1>1, <1>3, <1>13, <1>14, InputNames, TeeAssumption DEF LeftOfInput
<1>16. \A i \in {0, 1} : (conf.unzip => Left(0, i)' = Chunks) /\ (conf.targz => Left(1, i)' = Chunks)
  BY <1>1, <1>2, <1>3, <1>13, <1>15, TeeAssumption DEF Left
<1>17. \A u \in Uploads \ {1} : ~Writing(u)'
  BY <1>11 DEF Writing
<1>18. ASSUME NEW t \in Tees, NEW i \in {0, 1}, Reads(t, i)'
       PROVE  Flows(t, i, Got(t, i))'
  <2>1. t \in {0, 1} /\ IF t = 0 THEN conf.unzip ELSE conf.targz
    <3>1. CASE t = 0
      BY <1>1, <1>8, <1>18, <3>1 DEF Reads
    <3>2. CASE t # 0
      <4>1. t \in 1..Passes /\ ~Writing(Gunzipped(t))'
        BY <1>2, <1>17, <3>2 DEF Gunzipped
      <4>2. CASE i = 0
        BY <1>1, <1>2, <1>17, <1>18, <3>2, <4>1, <4>2 DEF Reads
      <4>3. CASE i = 1
        <5>1. low'.at = "peek" /\ low'.pass = t
          BY <1>18, <3>2, <4>1, <4>3 DEF Reads, Gunzipped
        <5> QED BY <1>10, <5>1
      <4> QED BY <4>2, <4>3
    <3> QED BY <3>1, <3>2
  <2>2. Got(t, i)' = 0
    BY <1>2, <1>8, <1>11, <1>17, <2>1 DEF Got, Gunzipped
  <2>3. Left(t, i)' = Chunks
    BY <1>16, <2>1
  <2> QED BY <2>1, <2>2, <2>3, TeeAssumption DEF Flows, Amount
<1>19. ASSUME NEW p \in 1..Passes, ReadsInput(p)'
       PROVE  InputFlows(p)'
  <2>1. p = 1 /\ ~conf.unzip
    BY <1>1, <1>2, <1>17, <1>19 DEF ReadsInput
  <2>2. InputOf(p)' = Source
    BY <1>13, <2>1, InputNames
  <2> QED BY <1>1, <1>3, <1>11, <2>1, <2>2, TeeAssumption DEF InputFlows, Amount
<1>20. Flowing'
  <2>1. unz'.got <= Chunks
    BY <1>8, TeeAssumption
  <2>2. \A u \in Uploads : upload'[u].got <= Expected(u)' /\ upload'[u].at # "stored"
    <3>1. Expected(1)' \in Nat /\ \A u : Expected(u)' = Expected(u)
      BY TeeAssumption DEF Expected
    <3>2. \A u \in Uploads : upload[u].got <= Expected(u)
      BY DEF WholeInv, Flowing
    <3> QED BY <1>11, <3>1, <3>2
  <2> QED BY <1>18, <1>19, <2>1, <2>2 DEF Flowing
<1>21. StreamShapes'
  BY <1>1, <1>12 DEF WholeInv, StreamShapes
<1>22. Tidy'
  <2>1. load'.file = load.file /\ load'.finished = load.finished
    BY <1>1 DEF LifeInv, Shapes
  <2> QED BY <1>1, <2>1 DEF WholeInv, Tidy
<1>23. Wired'
  <2>1. ASSUME NEW t \in Tees, feeder'[t].at # "off"
        PROVE  /\ feeder'[t].input = InputOf(t)' /\ low'.at # "off"
               /\ IF t = 0 THEN conf'.unzip ELSE conf'.targz /\ t <= low'.pass
    BY <1>1, <1>2, <1>5, <1>10, <1>12, <1>13, <2>1, InputNames
  <2>2. \A u \in Uploads : Writing(u)' => upload'[u].from = FromOf(u)' /\ (u < 0 => conf'.targz)
    <3>1. FromOf(1)' = FromOf(1)
      BY <1>1, <1>13 DEF FromOf
    <3> QED BY <1>11, <1>17, <3>1
  <2>3. low'.at # "off"
    BY <1>10
  <2> QED BY <2>1, <2>2, <2>3 DEF Wired
<1>24. Untouched'
  BY <1>1, <1>2, <1>3, <1>10 DEF Untouched
<1>25. Copied'
  BY <1>1, <1>10 DEF Copied
<1>26. Lying'
  <2>1. low'.at # "off" /\ low'.pass = 1 /\ upload'[1].at # "none"
    BY <1>10, <1>11
  <2>2. FileWhole'
    <3> SUFFICES ASSUME conf.storage = "file", upload'[1].at \in {"writing", "stored"}
                 PROVE  Wrote(1)'
      BY <1>1, <2>1 DEF FileWhole
    <3>1. Rivals(1) = {}
      BY <1>4 DEF Rivals, Writing
    <3>2. object' = [object EXCEPT ![NameOf(1)] = [by |-> {1}, got |-> 0]]
      BY <1>8, <3>1 DEF AddBelow, Begin, Opened
    <3>3. object'[NameOf(1)] = [by |-> {1}, got |-> 0] /\ NameOf(1)' = NameOf(1)
      <4>1. NameOf(1) \in Uploads /\ NameOf(1)' = NameOf(1)
        BY <1>1, <1>2 DEF NameOf
      <4> QED BY <3>2, <4>1 DEF WholeInv, Lying
    <3> QED BY <1>11, <3>3 DEF Wrote
  <2> QED BY <1>11, <2>1, <2>2 DEF Lying
<1> QED BY <1>20, <1>21, <1>22, <1>23, <1>24, <1>25, <1>26 DEF WholeInv

\* When the decorators derive the next resource, no upload in the file storage is under way to a
\* name it writes.
LEMMA NobodyWritesBelow ==
  ASSUME LifeInv, WholeInv, BelowOk \/ BelowRaised, conf.content # "plain", low.at # "off",
         conf.storage = "file", ~cut, ~TwoWriters, NEW p \in 1..Passes, p = low.pass + 1
  PROVE  /\ Rivals(p) = {}
         /\ conf.content # "zip" => \A u \in 1..low.pass : ~Writing(u)
<1>1. /\ low.pass \in 1..Passes /\ conf.content \in {"gzip", "zip"}
      /\ \A q \in 1..Passes : q \in Uploads /\ Gunzipped(q) \in Uploads
  BY SetupAssumption, Numbers DEF LifeInv, Shapes, SetupTypes
<1>2. \A q \in 1..Passes : upload[Gunzipped(q)].at = "none"
  BY DEF TwoWriters
<1>3. \A u \in Uploads : Writing(u) => u \in 1..low.pass
  <2> TAKE u \in Uploads
  <2> HAVE Writing(u)
  <2>1. u \in 1..low.pass \/ Gunzipped(u) \in 1..low.pass
    BY DEF LifeInv, Fresh, Writing
  <2>2. Gunzipped(u) \notin 1..low.pass
    <3>1. Gunzipped(u) \in 1..low.pass => Gunzipped(u) \in 1..Passes /\ Gunzipped(Gunzipped(u)) = u
      BY <1>1, Numbers
    <3> QED BY <1>2, <3>1 DEF Writing
  <2> QED BY <2>1, <2>2
<1>4. conf.content = "zip" => Rivals(p) = {}
  <2> SUFFICES ASSUME conf.content = "zip", NEW v \in Uploads, Writing(v), NameOf(v) = NameOf(p)
               PROVE  FALSE
    BY DEF Rivals
  <2>1. v \in 1..low.pass
    BY <1>3
  <2> QED BY <1>1, <2>1 DEF NameOf
<1>5. ASSUME conf.content = "gzip", NEW u \in 1..low.pass
      PROVE  ~Writing(u)
  <2>1. u # low.pass => ~Writing(u)
    BY <1>5 DEF WholeInv, Lying, FileWhole
  <2>2. ~Writing(low.pass)
    <3>1. low.at = "ok" => upload[low.pass].at = "stored"
      BY DEF LifeInv, Stages
    <3>2. conf.targz => low.at # "raised" \/ upload[Gunzipped(1)].at # "none"
      BY <1>5 DEF WholeInv, Copied
    <3>3. 1 \in 1..Passes
      BY Numbers
    <3>4. conf.targz => low.at = "ok"
      BY <1>2, <3>2, <3>3 DEF BelowOk, BelowRaised
    <3> QED BY <3>1, <3>4 DEF BelowOk, BelowRaised, Writing
  <2> QED BY <2>1, <2>2
<1>6. conf.content = "gzip" => Rivals(p) = {}
  BY <1>3, <1>5 DEF Rivals
<1> QED BY <1>1, <1>4, <1>5, <1>6

LEMMA DeriveWhole ==
  ASSUME LifeInv, WholeInv, NEW p \in 1..Passes, p = low.pass + 1, NEW content \in {"plain", "gzip"},
         unz.at \in {"waiting", "deriving"}, conf.content # "plain", BelowOk \/ BelowRaised,
         Derive(p, content), unz' \in [at : {"deriving"}, got : {unz.got}], UNCHANGED <<conf, load>>
  PROVE  WholeInv'
<1>1. /\ AddBelow(feeder, p, File(p), content)
      /\ UNCHANGED <<conf, load, cut, dropped, completed, active, faults>>
      /\ low.at # "off" /\ low.pass \in 1..Passes /\ p # 1 /\ p > low.pass
      /\ conf.targz => low.at \in {"ok", "raised"}
  BY DEF Derive, WholeInv, Wired, LifeInv, Shapes, BelowOk, BelowRaised
<1>2. /\ \A t, u \in Tees, i, k \in {0, 1} : Consumer(t, i) = Consumer(u, k) => t = u /\ i = k
      /\ \A t \in Tees, i \in {0, 1} : Consumer(t, i) \in Streams /\ Consumer(t, i) \notin Inputs
      /\ Source \in Inputs /\ Source \in Streams
      /\ \A q \in 1..Passes : File(q) \in Inputs /\ File(q) \in Streams /\ File(q) # Source
      /\ \A q, r \in 1..Passes : File(q) = File(r) => q = r
      /\ 0 \in Tees /\ 1 \in Tees /\ 1 \in 1..Passes /\ 1 \in Uploads
      /\ \A q \in 1..Passes : q \in Tees /\ q \in Uploads /\ Gunzipped(q) \in Uploads /\ Gunzipped(q) # p /\ q # 0
      /\ \A t \in Tees : t = 0 \/ t \in 1..Passes
  <2>1. \A q \in 1..Passes : Gunzipped(q) # p
    BY Numbers DEF Gunzipped
  <2>2. \A t \in Tees : t = 0 \/ t \in 1..Passes
    BY Numbers DEF Tees
  <2> QED BY <2>1, <2>2, Distinct, Numbers
<1>3. PICK mark \in BOOLEAN : stream' = [stream EXCEPT ![File(p)].mark = mark]
  BY DEF Derive
<1>4. /\ stream \in [Streams -> Stream] /\ stream' \in [Streams -> Stream]
      /\ \A r \in Streams : stream'[r].n = stream[r].n
      /\ \A r \in Streams : r # File(p) => stream'[r] = stream[r]
  <2>1. stream \in [Streams -> Stream]
    BY DEF WholeInv, StreamShapes, Stream
  <2> QED BY <1>2, <1>3, <2>1 DEF Stream
<1>5. stream[File(p)].n = 1 /\ \A i \in {0, 1} : stream[Consumer(p, i)].n = 0
  BY <1>1 DEF WholeInv, Untouched
<1>6. feeder[p].at = "off" /\ upload[p].at = "none" /\ upload[Gunzipped(p)].at = "none"
  BY <1>1, <1>2, NextPassFresh DEF WholeInv, Wired
<1>7. low' = [at |-> IF conf.targz THEN "peek" ELSE "direct", pass |-> p, content |-> content]
  BY <1>1 DEF AddBelow
<1>8. /\ InputOf(p) = File(p) /\ FromOf(p) \in Streams
      /\ FromOf(p) = IF conf.targz THEN Consumer(p, 0) ELSE File(p)
  <2>1. p > 0
    BY <1>1
  <2> QED BY <1>1, <1>2, <2>1, InputNames DEF FromOf
<1>9. Begin(p, FromOf(p), 0)
  BY <1>1, <1>8 DEF AddBelow
<1>10. /\ upload'[p].from = FromOf(p) /\ upload'[p].got = 0 /\ upload'[p].at \in {"failed", "writing"}
       /\ \A v \in Uploads \ {p} : upload'[v] = upload[v]
       /\ object' \in [Uploads -> [by : SUBSET Uploads, got : Nat]] /\ KeptWhole'
  <2>1. p \in Uploads /\ 0 \in Nat
    BY <1>2
  <2> QED BY <1>1, <1>6, <1>8, <1>9, <2>1, BeginStored
<1>11. /\ feeder'[p] = IF conf.targz THEN [at |-> "read", input |-> File(p)] ELSE feeder[p]
       /\ \A t \in Tees \ {p} : feeder'[t] = feeder[t]
       /\ feeder' \in [Tees -> [at : {"off", "read", "first", "second", "done"}, input : Streams]]
  <2>1. feeder \in [Tees -> [at : {"off", "read", "first", "second", "done"}, input : Streams]]
    BY DEF WholeInv, StreamShapes
  <2>2. feeder' = IF conf.targz THEN [feeder EXCEPT ![p] = [at |-> "read", input |-> File(p)]] ELSE feeder
    BY <1>1 DEF AddBelow, Fed
  <2> QED BY <1>2, <2>1, <2>2
<1>12. \A q \in Uploads \ {p} : Writing(q)' <=> Writing(q)
  BY <1>10 DEF Writing
<1>13. ASSUME NEW t \in Tees, t # p, NEW i \in {0, 1}
       PROVE  Left(t, i)' = Left(t, i) /\ (Doomed(t)' <=> Doomed(t))
  <2>1. InputOf(t)' = InputOf(t) /\ InputOf(t) \in Streams /\ feeder'[0] = feeder[0] /\ feeder'[t] = feeder[t]
    BY <1>1, <1>2, <1>11, <1>13, InputNames DEF InputOf
  <2>2. stream'[Source] = stream[Source]
    BY <1>2, <1>4
  <2>3. \A v : feeder'[v] = feeder[v] => (Live(v)' <=> Live(v)) /\ \A k : Owed(v, k)' = Owed(v, k)
    BY DEF Live, Owed
  <2>4. stream'[Consumer(t, i)].n = stream[Consumer(t, i)].n /\ stream'[InputOf(t)] = stream[InputOf(t)]
        /\ stream'[Consumer(0, 0)].n = stream[Consumer(0, 0)].n
    <3>1. InputOf(t) # File(p)
      BY <1>1, <1>2, <1>13, InputNames
    <3> QED BY <1>2, <1>4, <2>1, <3>1
  <2>5. LeftOfFirst(0)' = LeftOfFirst(0)
    BY <2>1, <2>2, <2>3, <2>4 DEF LeftOfFirst
  <2>6. LeftOfInput(t)' = LeftOfInput(t)
    BY <1>1, <2>1, <2>4, <2>5 DEF LeftOfInput
  <2> QED BY <1>1, <2>1, <2>2, <2>3, <2>4, <2>6 DEF Left, Doomed
<1>14. conf.targz => \A i \in {0, 1} : Left(p, i)' = 1
  <2> SUFFICES ASSUME conf.targz, NEW i \in {0, 1} PROVE Left(p, i)' = 1
    OBVIOUS
  <2>1. InputOf(p)' = File(p)
    BY <1>1, <1>2, InputNames DEF InputOf
  <2>2. LeftOfInput(p)' = 1
    BY <1>1, <1>2, <1>4, <1>5, <2>1 DEF LeftOfInput
  <2>3. stream'[Consumer(p, i)].n = 0 /\ Owed(p, i)' = 0 /\ Live(p)'
    BY <1>2, <1>4, <1>5, <1>11 DEF Owed, Live
  <2> QED BY <2>2, <2>3 DEF Left
<1>15. ASSUME NEW t \in Tees, NEW i \in {0, 1}, Reads(t, i)'
       PROVE  Flows(t, i, Got(t, i))'
  <2>1. CASE t = p
    <3>1. ~Writing(Gunzipped(p))' /\ p # 0
      BY <1>2, <1>6, <1>12 DEF Writing
    <3>2. conf.targz /\ Got(t, i)' = 0
      <4>1. CASE i = 0
        BY <1>1, <1>10, <1>15, <2>1, <3>1, <4>1 DEF Reads, Got
      <4>2. CASE i = 1
        <5>1. low'.at = "peek"
          BY <1>15, <2>1, <3>1, <4>2 DEF Reads, Gunzipped
        <5>2. Got(t, i)' = 0
          BY <2>1, <3>1, <4>2 DEF Got, Gunzipped
        <5> QED BY <1>7, <5>1, <5>2
      <4> QED BY <4>1, <4>2
    <3> QED BY <1>1, <1>14, <2>1, <3>2 DEF Flows, Amount
  <2>2. CASE t # p
    <3>1. t \in Uploads \/ t = 0
      BY <1>2
    <3>2. Reads(t, i) /\ Got(t, i)' = Got(t, i)
      <4>1. CASE t = 0
        <5>1. Writing(1)' <=> Writing(1)
          BY <1>1, <1>2, <1>12
        <5>2. upload'[1] = upload[1]
          BY <1>1, <1>2, <1>10
        <5> QED BY <1>1, <1>15, <4>1, <5>1, <5>2 DEF Reads, Got
      <4>2. CASE t # 0
        <5>1. t \in 1..Passes /\ Gunzipped(t) \in Uploads \ {p} /\ t \in Uploads \ {p}
          BY <1>2, <2>2, <4>2
        <5>2. (Writing(t)' <=> Writing(t)) /\ (Writing(Gunzipped(t))' <=> Writing(Gunzipped(t)))
          BY <1>12, <5>1 DEF Gunzipped
        <5>3. upload'[t] = upload[t] /\ upload'[Gunzipped(t)] = upload[Gunzipped(t)]
          BY <1>10, <5>1
        <5>4. Gunzipped(t)' = Gunzipped(t) /\ low'.pass = p
          BY <1>7 DEF Gunzipped
        <5>5. Reads(t, i)
          BY <1>1, <1>15, <2>2, <4>2, <5>2, <5>4 DEF Reads, Gunzipped
        <5> QED BY <4>2, <5>2, <5>3, <5>4, <5>5 DEF Got, Gunzipped
      <4> QED BY <4>1, <4>2
    <3>3. Flows(t, i, Got(t, i))
      BY <3>2 DEF WholeInv, Flowing
    <3> QED BY <1>1, <1>13, <2>2, <3>2, <3>3 DEF Flows, Amount
  <2> QED BY <2>1, <2>2
<1>16. ASSUME NEW q \in 1..Passes, ReadsInput(q)'
       PROVE  InputFlows(q)'
  <2>1. InputOf(q)' = InputOf(q) /\ InputOf(q) \in Streams /\ q \in Uploads
    BY <1>1, <1>2, InputNames DEF InputOf
  <2>2. CASE q = p
    <3>1. upload'[q].got = 0 /\ stream'[InputOf(q)].n = 1
      BY <1>4, <1>5, <1>8, <1>10, <2>1, <2>2
    <3> QED BY <1>1, <2>1, <2>2, <3>1 DEF InputFlows, Amount
  <2>3. CASE q # p
    <3>1. ReadsInput(q) /\ upload'[q] = upload[q]
      BY <1>1, <1>10, <1>12, <1>16, <2>1, <2>3 DEF ReadsInput
    <3>2. InputFlows(q) /\ stream'[InputOf(q)] = stream[InputOf(q)]
      <4>1. InputOf(q) # File(p)
        BY <1>1, <1>2, <2>3, InputNames
      <4> QED BY <1>4, <2>1, <3>1, <4>1 DEF WholeInv, Flowing
    <3> QED BY <2>1, <3>1, <3>2 DEF InputFlows, Amount
  <2> QED BY <2>2, <2>3
<1>17. Flowing'
  <2>1. unz'.got <= Chunks
    BY DEF WholeInv, Flowing
  <2>2. \A u \in Uploads : upload'[u].got <= Expected(u)' /\ (upload'[u].at = "stored" => upload'[u].got = Expected(u)' \/ cut')
    <3>1. \A u : Expected(u)' = Expected(u)
      BY DEF Expected
    <3>2. \A u \in Uploads : upload[u].got <= Expected(u) /\ (upload[u].at = "stored" => upload[u].got = Expected(u) \/ cut)
      BY DEF WholeInv, Flowing
    <3>3. 0 <= Expected(p)
      BY TeeAssumption DEF Expected
    <3> QED BY <1>1, <1>10, <3>1, <3>2, <3>3
  <2> QED BY <1>15, <1>16, <2>1, <2>2 DEF Flowing
<1>18. StreamShapes'
  BY <1>2, <1>4, <1>11 DEF WholeInv, StreamShapes, Stream
<1>19. Tidy'
  BY <1>1 DEF WholeInv, Tidy
<1>20. Wired'
  <2>1. \A t : InputOf(t)' = InputOf(t)
    BY <1>1 DEF InputOf
  <2>2. ASSUME NEW t \in Tees, feeder'[t].at # "off"
        PROVE  /\ feeder'[t].input = InputOf(t) /\ low'.at # "off"
               /\ IF t = 0 THEN conf.unzip ELSE conf.targz /\ t <= low'.pass
    <3>1. CASE t = p
      BY <1>2, <1>6, <1>7, <1>8, <1>11, <2>2, <3>1
    <3>2. CASE t # p
      <4>1. feeder[t].at # "off" /\ feeder'[t] = feeder[t] /\ low.pass <= low'.pass /\ low'.pass \in Nat /\ low.pass \in Nat
            /\ t \in Int
        BY <1>1, <1>2, <1>7, <1>11, <2>2, <3>2, Numbers
      <4>2. /\ feeder[t].input = InputOf(t)
            /\ IF t = 0 THEN conf.unzip ELSE conf.targz /\ t <= low.pass
        BY <4>1 DEF WholeInv, Wired
      <4> QED BY <1>7, <4>1, <4>2
    <3> QED BY <3>1, <3>2
  <2>3. ASSUME NEW u \in Uploads, Writing(u)'
        PROVE  upload'[u].from = FromOf(u)' /\ (u < 0 => conf.targz)
    <3>1. FromOf(u)' = FromOf(u)
      BY <1>1, <2>1 DEF FromOf, Gunzipped
    <3>2. CASE u = p
      BY <1>1, <1>10, <3>1, <3>2
    <3>3. CASE u # p
      BY <1>10, <1>12, <2>3, <3>1, <3>3 DEF WholeInv, Wired
    <3> QED BY <3>2, <3>3
  <2>4. low'.at # "off"
    BY <1>7
  <2> QED BY <1>1, <2>1, <2>2, <2>3, <2>4 DEF Wired
<1>21. Untouched'
  <2>1. ASSUME NEW q \in 1..Passes, q > p
        PROVE  stream'[File(q)].n = 1 /\ \A i \in {0, 1} : stream'[Consumer(q, i)].n = 0
    <3>1. q > low.pass
      BY <1>1, <2>1
    <3> QED BY <1>2, <1>4, <3>1 DEF WholeInv, Untouched
  <2>2. \A t \in Tees, i \in {0, 1} : stream'[Consumer(t, i)].mark => feeder'[t].at = "done"
    <3>1. \A t \in Tees, i \in {0, 1} : stream[Consumer(t, i)].mark => feeder[t].at = "done"
      BY DEF WholeInv, Untouched
    <3>2. \A t \in Tees, i \in {0, 1} : stream'[Consumer(t, i)] = stream[Consumer(t, i)]
      BY <1>2, <1>4
    <3> QED BY <1>6, <1>11, <3>1, <3>2
  <2> QED BY <1>7, <2>1, <2>2 DEF Untouched
<1>22. Copied'
  <2>1. upload'[Gunzipped(1)] = upload[Gunzipped(1)]
    BY <1>2, <1>10
  <2>2. conf.targz /\ conf.content = "gzip" => cut \/ upload[Gunzipped(1)].at # "none"
    BY <1>1 DEF WholeInv, Copied
  <2> QED BY <1>1, <1>7, <2>1, <2>2 DEF Copied, Gunzipped
<1>23. Lying'
  <2>1. low'.at # "off" /\ low'.pass = p /\ upload'[p].at # "none"
    BY <1>7, <1>10
  <2>2. FileWhole'
    <3> SUFFICES ASSUME conf.storage = "file", ~cut, ~TwoWriters', NEW u \in 1..p
                 PROVE  IF conf.content = "zip" \/ u = p THEN upload'[u].at \in {"writing", "stored"} => Wrote(u)'
                        ELSE ~Writing(u)'
      BY <1>1, <2>1 DEF FileWhole
    <3>1. ~TwoWriters
      BY <1>1, <1>2, <1>10 DEF TwoWriters, Gunzipped
    <3>2. Rivals(p) = {} /\ (conf.content # "zip" => \A v \in 1..low.pass : ~Writing(v))
      BY <1>1, <3>1, NobodyWritesBelow
    <3>3. object' = [object EXCEPT ![NameOf(p)] = [by |-> {p}, got |-> 0]]
      BY <1>9, <3>2 DEF Begin, Opened
    <3>4. /\ NameOf(p) \in Uploads /\ \A v : NameOf(v)' = NameOf(v)
          /\ object \in [Uploads -> [by : SUBSET Uploads, got : Nat]]
      BY <1>1, <1>2 DEF NameOf, WholeInv, Lying
    <3>5. CASE u = p
      BY <1>10, <3>3, <3>4, <3>5 DEF Wrote
    <3>6. CASE u # p
      <4>1. u \in 1..low.pass /\ u \in Uploads \ {p}
        <5>1. u \in 1..low.pass /\ u \in 1..Passes
          BY <1>1, <3>6, Numbers
        <5> QED BY <1>2, <3>6, <5>1
      <4>2. CASE conf.content # "zip"
        BY <1>12, <3>2, <3>6, <4>1, <4>2
      <4>3. CASE conf.content = "zip"
        <5>1. NameOf(u) # NameOf(p) /\ NameOf(u) \in Uploads
          BY <1>1, <1>2, <4>1, <4>3 DEF NameOf
        <5>2. object'[NameOf(u)] = object[NameOf(u)]
          BY <3>3, <3>4, <5>1
        <5>3. upload[u].at \in {"writing", "stored"} => Wrote(u)
          BY <1>1, <3>1, <4>1, <4>3 DEF WholeInv, Lying, FileWhole
        <5> QED BY <1>10, <3>4, <4>1, <4>3, <5>2, <5>3 DEF Wrote
      <4> QED BY <4>2, <4>3
    <3> QED BY <3>5, <3>6
  <2> QED BY <1>10, <2>1, <2>2 DEF Lying
<1> QED BY <1>17, <1>18, <1>19, <1>20, <1>21, <1>22, <1>23 DEF WholeInv

LEMMA UnzipStepWhole ==
  ASSUME LifeInv, WholeInv, UnzipStep, UNCHANGED <<conf, load>>
  PROVE  WholeInv'
<1>0. /\ unz \in [at : {"off", "reading", "waiting", "deriving", "ok", "raised"}, got : Nat]
      /\ low.pass \in 1..Passes
      /\ unz.at = "waiting" => low.pass = 1
      /\ unz.at = "deriving" => conf.content # "plain"
  BY DEF LifeInv, Shapes, Stages
<1>1. ASSUME NEW content \in {"plain", "gzip"}, low.pass + 1 \in 1..Passes, unz.at \in {"waiting", "deriving"},
             conf.content # "plain", BelowOk \/ BelowRaised, Derive(low.pass + 1, content),
             UnzAt("deriving") \/ (unz.at = "deriving" /\ UNCHANGED unz)
      PROVE  WholeInv'
  <2>1. unz' \in [at : {"deriving"}, got : {unz.got}]
    BY <1>0, <1>1 DEF UnzAt
  <2>2. PICK p \in 1..Passes : p = low.pass + 1
    BY <1>1
  <2>3. Derive(p, content)
    BY <1>1, <2>2
  <2> HIDE DEF WholeInv, LifeInv
  <2> QED BY <1>1, <2>1, <2>2, <2>3, DeriveWhole
<1>2. CASE ReadTemp
  BY <1>2, ReadTempWhole
<1>3. CASE TempEnds
  BY <1>3, TempEndsWhole
<1>4. CASE WrappedEnds
  <2>1. unz.at = "waiting" /\ low.pass + 1 = 2 /\ 2 \in 1..Passes
    BY <1>0, <1>4, Numbers DEF WrappedEnds
  <2>2. CASE UnzipOver("raised") \/ UnzipOver("ok")
    BY <2>1, <2>2, UnzipOverWhole
  <2>3. CASE BelowOk /\ Recognized /\ UnzAt("deriving") /\ Derive(2, "plain")
    <3>1. Derive(low.pass + 1, "plain")
      BY <2>1, <2>3
    <3>2. conf.content # "plain"
      BY <2>3 DEF Recognized
    <3> QED BY <1>1, <2>1, <2>3, <3>1, <3>2
  <2> QED BY <1>4, <2>2, <2>3 DEF WrappedEnds
<1>5. CASE MemberEnds
  <2>1. CASE BelowOk /\ low.pass <= Members /\ UNCHANGED unz /\ Derive(low.pass + 1, "plain")
    <3>1. low.pass + 1 \in 1..Passes
      BY <1>0, <2>1, Numbers
    <3> QED BY <1>0, <1>1, <1>5, <2>1, <3>1 DEF MemberEnds
  <2>2. CASE UnzipOver("ok")
    BY <1>5, <2>2, UnzipOverWhole DEF MemberEnds
  <2> QED BY <1>5, <2>1, <2>2 DEF MemberEnds
<1>6. CASE GunzippedEnds
  <2>1. CASE BelowRaised /\ low.pass = 2 /\ UNCHANGED unz /\ Derive(3, "gzip")
    <3>1. low.pass + 1 = 3 /\ low.pass + 1 \in 1..Passes
      BY <1>0, <2>1, Numbers
    <3>2. Derive(low.pass + 1, "gzip")
      BY <2>1, <3>1
    <3> QED BY <1>0, <1>1, <1>6, <2>1, <3>1, <3>2 DEF GunzippedEnds
  <2>2. CASE UnzipOver("ok") \/ UnzipOver("raised")
    BY <1>6, <2>2, UnzipOverWhole DEF GunzippedEnds
  <2> QED BY <1>6, <2>1, <2>2 DEF GunzippedEnds
<1> QED BY <1>2, <1>3, <1>4, <1>5, <1>6 DEF UnzipStep

LEMMA NextWhole == LifeInv /\ WholeInv /\ [Next]_vars => WholeInv'
<1> SUFFICES ASSUME LifeInv, WholeInv, [Next]_vars PROVE WholeInv'
  OBVIOUS
<1> HIDE DEF LifeInv, WholeInv
<1>1. CASE Progress
  <2>1. CASE LoadStep
    <3>1. CASE Start
      BY <1>1, <3>1, StartWhole DEF Progress
    <3>2. CASE Add
      BY <1>1, <3>2, AddWhole DEF Progress
    <3>3. CASE Fetch \/ AddEnds \/ Complete \/ Finish \/ Callbacks
      BY <1>1, <3>3, LoadStepWhole DEF Progress
    <3> QED BY <2>1, <3>1, <3>2, <3>3 DEF LoadStep
  <2>2. CASE (\E t \in Tees : FeedStep(t)) /\ UNCHANGED <<storageVars, faults, decoratorVars, load>>
    <3>1. PICK t \in Tees : FeedStep(t)
      BY <2>2
    <3>2. UNCHANGED <<conf, upload, object, completed, low, unz, load, faults>>
      BY <1>1, <2>2 DEF Progress, storageVars, decoratorVars
    <3> QED BY <3>1, <3>2, FeedStepWhole
  <2>3. CASE (\E u \in Uploads : UploadStep(u)) /\ UNCHANGED <<decoratorVars, load>>
    BY <1>1, <2>3, UploadStepWhole DEF Progress
  <2>4. CASE TarGzStep /\ UNCHANGED load
    BY <1>1, <2>4, TarGzStepWhole DEF Progress
  <2>5. CASE UnzipStep /\ UNCHANGED load
    BY <1>1, <2>5, UnzipStepWhole DEF Progress
  <2> QED BY <1>1, <2>1, <2>2, <2>3, <2>4, <2>5 DEF Progress, TaskStep
<1>2. CASE Raise /\ UNCHANGED conf
  BY <1>2, LoadStepWhole
<1>3. CASE SourceBreaks /\ UNCHANGED conf
  BY <1>3, SourceBreaksWhole
<1>4. CASE UNCHANGED vars
  <2>1. UNCHANGED <<conf, teeVars, upload, object, completed, low, unz, load, faults>>
    BY <1>4 DEF vars, storageVars, decoratorVars
  <2>2. Tidy' /\ Copied' /\ (unz.at # "off" \/ load.at = "adding" => low.at # "off")
    BY <2>1 DEF WholeInv, Tidy, Copied, Wired, teeVars, Gunzipped
  <2> QED BY <2>1, <2>2, StageEnds
<1>5. CASE FileBreaks /\ UNCHANGED load /\ UNCHANGED conf
  BY <1>5, FileBreaksWhole
<1> QED BY <1>1, <1>2, <1>3, <1>4, <1>5 DEF Next

LEMMA WholeInvariant == Spec => [](LifeInv /\ WholeInv)
<1>1. Init => LifeInv /\ WholeInv
  BY InitLife, InitWhole
<1>2. LifeInv /\ WholeInv /\ [Next]_vars => (LifeInv /\ WholeInv)'
  BY NextLife, NextWhole
<1> QED BY <1>1, <1>2, PTL DEF Spec

\* The counts of a load stay within their bounds for every body and every interleaving: no stream
\* yields, and no upload gets, more chunks than the resource has.
THEOREM LoadTypeCorrect == Spec => []TypeOK
<1>1. LifeInv /\ WholeInv => TypeOK
  <2> SUFFICES ASSUME LifeInv, WholeInv PROVE TypeOK
    OBVIOUS
  <2>1. TeeTypeOK
    <3>1. \A t \in Tees : \A s \in Consumers(t) : stream[s].n \in 0..Capacity
      <4> TAKE t \in Tees
      <4> TAKE s \in Consumers(t)
      <4>1. PICK i \in {0, 1} : s = Consumer(t, i)
        BY DEF Consumers
      <4>2. stream[s].n \in Nat /\ stream[s].n <= Capacity
        BY <4>1, Distinct DEF WholeInv, StreamShapes
      <4> QED BY <4>2, TeeAssumption
    <3>2. \A s \in Inputs : stream[s].n \in 0..Chunks + 1
      <4> TAKE s \in Inputs
      <4>1. stream[s].n \in Nat
        BY Distinct DEF WholeInv, StreamShapes
      <4>2. stream[s].n <= Chunks \/ stream[s].n <= 1
        BY DEF Inputs, WholeInv, StreamShapes
      <4> QED BY <4>1, <4>2, TeeAssumption
    <3>3. \A t \in Tees : feeder[t].at \in {"off", "read", "first", "second", "done"}
      BY DEF WholeInv, StreamShapes
    <3> QED BY <3>1, <3>2, <3>3 DEF TeeTypeOK, WholeInv, Tidy
  <2>2. StorageTypeOK
    <3>1. \A u \in Uploads : /\ upload[u].at \in {"none", "writing", "stored", "failed"}
                             /\ upload[u].from \in Streams /\ upload[u].got \in 0..Chunks + 1
      <4> TAKE u \in Uploads
      <4>1. upload[u].at \in {"none", "writing", "stored", "failed"} /\ upload[u].from \in Streams /\ upload[u].got \in Nat
        BY DEF LifeInv, Shapes
      <4>2. upload[u].got <= Chunks \/ upload[u].got <= 1
        BY DEF WholeInv, Flowing, Expected
      <4> QED BY <4>1, <4>2, TeeAssumption
    <3> QED BY <3>1 DEF StorageTypeOK, LifeInv, Shapes, Counted, WholeInv, Tidy, Lying
  <2>3. DecoratorTypeOK
    <3>1. unz.got \in 0..Chunks
      BY TeeAssumption DEF LifeInv, Shapes, WholeInv, Flowing
    <3> QED BY <3>1 DEF DecoratorTypeOK, LifeInv, Shapes
  <2>4. load.at \in LoadStages /\ (load.file = 1 \/ load.file \in 1..conf.files) /\ load.finished \in 0..load.file
    <3>1. load.at \in LoadStages /\ load.file \in Nat \ {0} /\ load.finished \in Nat /\ conf.files \in Nat
      BY SetupAssumption DEF LifeInv, Shapes, SetupTypes
    <3>2. (load.file = 1 \/ load.file <= conf.files) /\ load.finished <= load.file
      BY DEF WholeInv, Tidy
    <3> QED BY <3>1, <3>2
  <2> QED BY <2>1, <2>2, <2>3, <2>4 DEF TypeOK
<1> QED BY <1>1, WholeInvariant, PTL

\* What is stored under a name is the whole of one resource, for every body, every capacity of the
\* tees' queues and every interleaving: see StoredIsWhole for the exceptions.
THEOREM StoredWhole == Spec => []StoredIsWhole
<1>1. LifeInv /\ WholeInv => StoredIsWhole
  <2> SUFFICES ASSUME LifeInv, WholeInv, NEW u \in Uploads, upload[u].at = "stored", ~cut, ~TwoWriters,
                      ~(conf.storage = "file" /\ \E v \in Uploads :
                          NameOf(v) = NameOf(u) /\ upload[v].at \in {"writing", "failed"})
               PROVE  Kept(u)
    BY DEF StoredIsWhole, Kept
  <2>1. \A v \in Uploads : upload[v].at = "stored" => upload[v].got = Expected(v)
    BY DEF WholeInv, Flowing
  <2>2. CASE conf.storage # "file"
    BY <2>2 DEF WholeInv, Lying, KeptWhole
  <2>3. CASE conf.storage = "file"
    <3>1. low.at # "off" /\ (u \in 1..low.pass \/ Gunzipped(u) \in 1..low.pass) /\ low.pass \in 1..Passes
      BY DEF LifeInv, Fresh, Shapes
    <3>2. u \in 1..low.pass
      <4>1. Gunzipped(u) \in 1..low.pass => Gunzipped(u) \in 1..Passes /\ Gunzipped(Gunzipped(u)) = u
        BY <3>1, Numbers
      <4>2. Gunzipped(u) \notin 1..low.pass
        BY <2>3, <4>1 DEF TwoWriters
      <4> QED BY <3>1, <4>2
    <3>3. CASE conf.content = "zip"
      <4>1. Wrote(u)
        BY <2>3, <3>2, <3>3 DEF WholeInv, Lying, FileWhole
      <4> QED BY <2>1, <4>1 DEF Wrote, Kept
    <3>4. CASE conf.content # "zip"
      <4>1. low.pass \in Uploads /\ low.pass \in 1..low.pass
        BY <3>1, Numbers
      <4>2. NameOf(u) = NameOf(low.pass)
        BY <3>4 DEF NameOf
      <4>3. upload[low.pass].at \in {"none", "writing", "stored", "failed"} /\ upload[low.pass].at # "none"
        BY <3>1, <4>1 DEF LifeInv, Shapes, WholeInv, Lying
      <4>4. upload[low.pass].at = "stored"
        BY <2>3, <4>1, <4>2, <4>3
      <4>5. Wrote(low.pass)
        BY <2>3, <4>1, <4>4 DEF WholeInv, Lying, FileWhole
      <4> QED BY <2>1, <4>1, <4>2, <4>4, <4>5 DEF Wrote, Kept
    <3> QED BY <3>3, <3>4
  <2> QED BY <2>2, <2>3
<1> QED BY <1>1, WholeInvariant, PTL
=============================================================================
