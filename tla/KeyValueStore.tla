---------------------------- MODULE KeyValueStore ----------------------------
(***************************************************************************)
(* The key-value stores (data_fetcher_core/kv_store): the in-memory store, *)
(* two dictionaries in the process, and the Redis store, which outlives    *)
(* it.  Both are reached through the same operations; what differs is when *)
(* an entry expires, what a put without a time to live means, and what a   *)
(* restart leaves.  Each operation is one step: the in-memory store holds  *)
(* its lock, Redis serves one command at a time.  Clients of the store     *)
(* take the operations from here and write their own actions.              *)
(***************************************************************************)
EXTENDS Integers, FiniteSets, SequencesExt

CONSTANTS
  Backends,   \* subset of {"memory", "redis"}
  DefaultTtl, \* the store's default_ttl, NoTtl when not configured
  MaxTime     \* bound on the clock

NoTtl == 0

ASSUME StoreAssumption ==
  /\ Backends \subseteq {"memory", "redis"}
  /\ DefaultTtl \in Nat /\ MaxTime \in Nat

VARIABLES
  backend, \* which store the program was configured with
  data,    \* _store: key -> value
  expiry,  \* _expiry_times: key -> time; for Redis, what SETEX keeps
  now,     \* time.time()
  promise  \* history: key -> what its last put was promised, and until when

storeVars == <<backend, data, expiry, now, promise>>

StoreInit ==
  /\ backend \in Backends
  /\ data = <<>> /\ expiry = <<>> /\ promise = <<>>
  /\ now = 0

With(f, k, v) == [j \in DOMAIN f \cup {k} |-> IF j = k THEN v ELSE f[j]]
Without(f, ks) == [k \in DOMAIN f \ ks |-> f[k]]

-----------------------------------------------------------------------------
(* The operations *)

\* The in-memory store gives up an entry after its time, Redis at it.
Late(k) ==
  k \in DOMAIN expiry /\ IF backend = "memory" THEN now > expiry[k] ELSE now >= expiry[k]

Exists(k) == k \in DOMAIN data /\ ~Late(k)
Get(k, default) == IF Exists(k) THEN data[k] ELSE default

\* The keys a read has found late are gone: the in-memory store deletes what it touches.
Touched(keys) == {k \in keys : Late(k)}
Read(keys) ==
  /\ data' = Without(data, Touched(keys))
  /\ expiry' = Without(expiry, Touched(keys))
  /\ UNCHANGED <<backend, now, promise>>

\* No time to live: the in-memory store falls back on the default one, Redis does not.
TtlOf_NoFallback(ttl) == ttl
TtlOf(ttl) == IF ttl = NoTtl /\ backend = "memory" THEN DefaultTtl ELSE ttl

\* An entry put without a time to live loses the one it had.
ExpiryAfter(k, t) == IF t = NoTtl THEN Without(expiry, {k}) ELSE With(expiry, k, now + t)

\* What the store's interface says of a put, whichever the store: the value for the time to live
\* that was given, else for the default one, else for ever.
DocumentedTtl(ttl) == IF ttl = NoTtl THEN DefaultTtl ELSE ttl

Promised(v, ttl) ==
  [value |-> v, forever |-> DocumentedTtl(ttl) = NoTtl, until |-> now + DocumentedTtl(ttl),
   byDefault |-> ttl = NoTtl]

Put(k, v, ttl) ==
  /\ data' = With(data, k, v)
  /\ expiry' = ExpiryAfter(k, TtlOf(ttl))
  /\ promise' = With(promise, k, Promised(v, ttl))
  /\ UNCHANGED <<backend, now>>

Delete(k) ==
  /\ data' = Without(data, {k})
  /\ expiry' = Without(expiry, {k})
  /\ promise' = Without(promise, {k})
  /\ UNCHANGED <<backend, now>>

\* range_get without an end key: every live key from the start on, whoever put it.
RangeFrom(from, sorted) == {k \in DOMAIN data : from <= sorted[k[1]] /\ ~Late(k)}

\* The in-memory store's clean-up task; only a store with a default time to live starts it.
Sweep ==
  /\ backend = "memory" /\ DefaultTtl # NoTtl
  /\ Touched(DOMAIN expiry) # {}
  /\ Read(DOMAIN expiry)

Tick ==
  /\ now < MaxTime
  /\ now' = now + 1
  /\ UNCHANGED <<backend, data, expiry, promise>>

\* The process ends, or is lost: with the in-memory store everything is.
Reopen ==
  /\ IF backend = "memory" THEN data' = <<>> /\ expiry' = <<>> /\ promise' = <<>>
     ELSE UNCHANGED <<data, expiry, promise>>
  /\ UNCHANGED <<backend, now>>

-----------------------------------------------------------------------------
(* Properties *)

Holds(p) == p.forever \/ now < p.until
Over(p) == ~p.forever /\ now > p.until

StoreTypeOK ==
  /\ backend \in Backends
  /\ DOMAIN expiry \subseteq DOMAIN data
  /\ \A k \in DOMAIN expiry : expiry[k] \in Nat
  /\ now \in 0..MaxTime

\* Redis keeps an entry that was put without a time to live, whatever the default.
KeptByRedis(p) == backend = "redis" /\ p.byDefault

\* An entry is read as it was last put for the whole of its documented time to live and is gone
\* at most one tick after it, whatever was put, deleted, read or swept in between: the two
\* dictionaries never disagree about a key.  Only Redis keeps what should have gone by default.
KeepsPromises ==
  /\ \A k \in DOMAIN promise :
       /\ Holds(promise[k]) => Exists(k) /\ data[k] = promise[k].value
       /\ Over(promise[k]) /\ ~KeptByRedis(promise[k]) => ~Exists(k)
  /\ DOMAIN data \subseteq DOMAIN promise
=============================================================================
