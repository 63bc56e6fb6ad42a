-------------------------- MODULE ResourceDecorators --------------------------
(***************************************************************************)
(* The storage decorators.  Each tees a resource: one consumer goes to the *)
(* storage below, which stores it as it came; the other goes to the        *)
(* decorator, which looks whether it is compressed and adds what is        *)
(* inside.  By default the unzip decorator is outside, the tar/gz          *)
(* decorator inside; either may be off, and a suffix or content type that  *)
(* names an archive bypasses one.  A pass is one resource added to the     *)
(* tar/gz decorator: the body first, then what the unzip decorator finds.  *)
(***************************************************************************)
EXTENDS BundleStorage

CONSTANT Members  \* files in a ZIP body

ASSUME DecoratorAssumption == Members \in Nat /\ Passes >= Members + 1 /\ Passes >= 3

VARIABLES
  low,  \* the tar/gz decorator's add_resource: the pass, where it stands, what the content is
  unz   \* the unzip decorator's add_resource: where it stands, chunks in its temporary file

decoratorVars == <<low, unz>>

NoPass == [at |-> "off", pass |-> 1, content |-> "plain"]
NoUnzip == [at |-> "off", got |-> 0]

DecoratorInit == low = NoPass /\ unz = NoUnzip

-----------------------------------------------------------------------------
(* The tar/gz decorator, or the base context when it is off or bypassed *)

\* The wrapped task has begun its upload before the decorator sees a chunk.
AddBelow(f, p, from, content) ==
  /\ low' = [at |-> IF conf.targz THEN "peek" ELSE "direct", pass |-> p, content |-> content]
  /\ feeder' = IF conf.targz THEN Fed(f, p, from) ELSE f
  /\ Begin(p, IF conf.targz THEN Consumer(p, 0) ELSE from, 0)

Settled(u) == upload[u].at \in {"stored", "failed"}
BelowOk == IF conf.targz THEN low.at = "ok" ELSE low.at = "direct" /\ upload[low.pass].at = "stored"
BelowRaised ==
  IF conf.targz THEN low.at = "raised" ELSE low.at = "direct" /\ upload[low.pass].at = "failed"

Side == Consumer(low.pass, 1)
LowAt(at) == low' = [low EXCEPT !.at = at]
OnlyLow == UNCHANGED <<stream, storageVars, faults>>

\* The first chunk tells whether the body is compressed; if so its decompressed copy is uploaded
\* beside the original, as it arrives.
PeekChunk ==
  /\ low.at = "peek"
  /\ Take(Side)
  /\ IF low.content = "gzip"
     THEN LowAt("gunzip") /\ Begin(Gunzipped(low.pass), Side, 1)
     ELSE LowAt("spill") /\ UNCHANGED <<upload, pending, event, object>>
  /\ UNCHANGED <<feeder, cut, dropped, completed, active, unz, faults>>

PeekEnd ==
  low.at = "peek" /\ Ended(Side) /\ LowAt("spill") /\ OnlyLow /\ UNCHANGED <<feeder, cut, dropped, unz>>

\* A failed decompression is swallowed, and the rest of the body examined.
GunzipEnds ==
  /\ low.at = "gunzip" /\ Settled(Gunzipped(low.pass))
  /\ LowAt(IF upload[Gunzipped(low.pass)].at = "stored" THEN "wait" ELSE "spill")
  /\ OnlyLow /\ UNCHANGED <<feeder, cut, dropped, unz>>

\* The rest goes to a temporary file, in which no archive is ever recognized: the two bytes read
\* are compared with longer signatures.
SpillChunk ==
  low.at = "spill" /\ Take(Side) /\ UNCHANGED <<feeder, cut, dropped, storageVars, low, unz, faults>>

SpillEnds ==
  /\ low.at = "spill"
  /\ \/ Ended(Side) /\ LowAt("wait") /\ UNCHANGED faults
     \/ Fault /\ LowAt("raised")
  /\ UNCHANGED <<teeVars, storageVars, unz>>

BelowEnds ==
  /\ low.at = "wait" /\ Settled(low.pass)
  /\ LowAt(IF upload[low.pass].at = "stored" THEN "ok" ELSE "raised")
  /\ OnlyLow /\ UNCHANGED <<feeder, cut, dropped, unz>>

TarGzStep == PeekChunk \/ PeekEnd \/ GunzipEnds \/ SpillChunk \/ SpillEnds \/ BelowEnds

-----------------------------------------------------------------------------
(* The unzip decorator *)

UnzAt(at) == unz' = [unz EXCEPT !.at = at]

\* add_resource, as the loader calls it.
AddResource ==
  IF conf.unzip
  THEN /\ unz' = [at |-> "reading", got |-> 0]
       /\ AddBelow(Fed(feeder, 0, Source), 1, Consumer(0, 0), conf.content)
  ELSE unz' = NoUnzip /\ AddBelow(feeder, 1, Source, conf.content)

AddedOk == IF conf.unzip THEN unz.at = "ok" ELSE BelowOk
AddRaised == IF conf.unzip THEN unz.at = "raised" ELSE BelowRaised

Copy == Consumer(0, 1)

ReadTemp ==
  /\ unz.at = "reading"
  /\ Take(Copy)
  /\ unz' = [unz EXCEPT !.got = @ + 1]
  /\ UNCHANGED <<feeder, cut, dropped, storageVars, low, faults>>

\* When the temporary file cannot be written, the call raises and the wrapped task goes on alone.
TempEnds ==
  /\ unz.at = "reading"
  /\ \/ Ended(Copy) /\ UnzAt("waiting") /\ UNCHANGED faults
     \/ Fault /\ UnzAt("raised")
  /\ UNCHANGED <<teeVars, storageVars, low>>

Truncated == unz.got < Chunks

\* The next resource found in the temporary file; decompressing a truncated one raises at its end.
Derive(p, content) ==
  /\ AddBelow(feeder, p, File(p), content)
  /\ stream' = [stream EXCEPT ![File(p)].mark = content # "plain" \/ ~Truncated]
  /\ UNCHANGED <<cut, dropped, completed, active, faults>>

UnzipOver(at) == UnzAt(at) /\ UNCHANGED <<teeVars, storageVars, low, faults>>

\* Both kinds are told by their first two bytes; of a ZIP file nothing is read without the
\* directory at its end.
Recognized ==
  \/ conf.content = "gzip" /\ unz.got > 0
  \/ conf.content = "zip" /\ ~Truncated /\ Members > 0

\* The original is stored: a gzip file is decompressed under the same name, a ZIP file's members
\* are added under their own.
WrappedEnds ==
  /\ unz.at = "waiting"
  /\ \/ BelowRaised /\ UnzipOver("raised")
     \/ BelowOk /\ ~Recognized /\ UnzipOver("ok")
     \/ BelowOk /\ Recognized /\ UnzAt("deriving") /\ Derive(2, "plain")

\* The next member; when one fails the rest are left out and nobody is told.
MemberEnds ==
  /\ unz.at = "deriving" /\ conf.content = "zip"
  /\ \/ BelowOk /\ low.pass <= Members /\ UNCHANGED unz /\ Derive(low.pass + 1, "plain")
     \/ (BelowRaised \/ (BelowOk /\ low.pass > Members)) /\ UnzipOver("ok")

\* When the decompressed copy fails the original is stored again, over it.
GunzippedEnds ==
  /\ unz.at = "deriving" /\ conf.content = "gzip"
  /\ \/ BelowOk /\ UnzipOver("ok")
     \/ BelowRaised /\ low.pass = 2 /\ UNCHANGED unz /\ Derive(3, "gzip")
     \/ BelowRaised /\ low.pass = 3 /\ UnzipOver("raised")

\* Reading the temporary file raises: it cannot be opened, or what was compressed is corrupt.
FileBreaks ==
  /\ unz.at = "deriving" /\ stream[File(low.pass)].mark
  /\ Fault
  /\ \E n \in {0, stream[File(low.pass)].n} :
       stream' = [stream EXCEPT ![File(low.pass)] = [n |-> n, mark |-> FALSE]]
  /\ UNCHANGED <<feeder, cut, dropped, storageVars, decoratorVars>>

UnzipStep == ReadTemp \/ TempEnds \/ WrappedEnds \/ MemberEnds \/ GunzippedEnds

-----------------------------------------------------------------------------
DecoratorTypeOK ==
  /\ low.at \in {"off", "direct", "peek", "gunzip", "spill", "wait", "ok", "raised"}
  /\ low.pass \in 1..Passes /\ low.content \in {"plain", "gzip", "zip"}
  /\ unz.at \in {"off", "reading", "waiting", "deriving", "ok", "raised"}
  /\ unz.got \in 0..Chunks
=============================================================================
