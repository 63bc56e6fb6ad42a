-------------------------- MODULE ApiBundleLocators --------------------------
(***************************************************************************)
(* The bundle locators for HTTP APIs (data_fetcher_http_api): three that   *)
(* walk a range of dates, one URL per date (Pagination and                 *)
(* ComplexPagination from date_start on, ReversePagination from date_end   *)
(* back), and one for a fixed list of URLs (Single).  The three repeat the *)
(* same methods: what they share is written once, each class's own actions *)
(* and dates below it.                                                     *)
(*                                                                         *)
(* The locator keeps the pending URLs in memory and the processed URLs and *)
(* its position in the store.  A caller asks for requests until it gets    *)
(* none, as the fetcher's locator thread does, and reports each request as *)
(* processed, as failed, or not at all.  A handler is one step per store   *)
(* operation: asks and several handlers interleave between them, the       *)
(* process may be lost between them, and each may raise.                   *)
(***************************************************************************)
EXTENDS KeyValueStore

CONSTANTS
  LastDate,  \* the range is 1..LastDate; for Single, the URLs
  MaxRuns,   \* runs of the program over one store
  MaxFaults, \* store operations that raise
  StateTtl,  \* seven days: the processed URLs and the position
  ResultTtl, \* thirty days
  ErrorTtl   \* one day

Urls == 1..LastDate
NoDate == 0

ASSUME LocatorAssumption ==
  /\ {LastDate, MaxRuns, StateTtl, ResultTtl, ErrorTtl} \subseteq Nat \ {0}
  /\ MaxFaults \in Nat

VARIABLES
  conf,   \* the class, the form of the requests reported back, date_end given, date_filter
  mem,    \* _processed_urls, _url_queue, _current_date, _initialized
  ask,    \* get_next_bundle_refs: where it stands, and the URLs it will return
  stage,  \* what has become of each URL in this run
  given,  \* history: how often each URL was handed out
  popped, \* history: the URLs ever taken from the queue of pending ones
  run     \* the number of the run, retired (the caller got an empty answer), faults so far,
          \* how many restarts found no processed URLs, and whether work was cut short

locatorVars == <<conf, mem, ask, stage, given, popped, run>>

Fresh == [processed |-> {}, queue |-> <<>>, current |-> NoDate, initialized |-> FALSE]
NoAsk == [at |-> "idle", refs |-> {}]

Configurations ==
  [class : {"pagination", "complex", "reverse", "single"}, form : {"mapping", "object"},
   ends : BOOLEAN, filter : SUBSET Urls \ {{}}]

\* Single's queue is its list of URLs from the start.
Started(class) == IF class = "single" THEN [Fresh EXCEPT !.queue = [u \in Urls |-> u]] ELSE Fresh

LocatorInit ==
  /\ conf \in {c \in Configurations :
                /\ c.class \in {"pagination", "complex"} => c.form = "mapping"
                /\ c.class \in {"reverse", "single"} => c.ends
                /\ c.class = "single" => c.filter = Urls}
  /\ mem = Started(conf.class)
  /\ ask = NoAsk
  /\ stage = [u \in Urls |-> "none"]
  /\ given = [u \in Urls |-> 0]
  /\ popped = {}
  /\ run = [number |-> 1, retired |-> FALSE, faults |-> 0, blanks |-> 0, cut |-> FALSE]

ProcessedKey == <<"processed_urls", 0>>
StateKey == <<"state", 0>>
ResultKey(u) == <<"results", u>>
ErrorKey(u) == <<"errors", u>>

Raises == run.faults < MaxFaults /\ run' = [run EXCEPT !.faults = @ + 1, !.cut = TRUE]
StoreUntouched == UNCHANGED storeVars

-----------------------------------------------------------------------------
(* What the date locators share: the position in the range *)

\* The URL of the current date, unless date_filter rejects the date.
Generated(m) == IF m.current \in conf.filter THEN [m EXCEPT !.queue = Append(@, m.current)] ELSE m

PaginationFirst == 1
ComplexFirst == 1
ReverseFirst == LastDate

\* Without date_end the forward classes never leave the first date.
PaginationNext_Unbounded(d) == IF conf.ends THEN d + 1 ELSE NoDate
PaginationNext(d) == IF conf.ends /\ d < LastDate THEN d + 1 ELSE NoDate
ComplexNext(d) == IF conf.ends /\ d < LastDate THEN d + 1 ELSE NoDate
ReverseNext(d) == IF d > 1 THEN d - 1 ELSE NoDate

FirstDate ==
  CASE conf.class = "pagination" -> PaginationFirst
    [] conf.class = "complex" -> ComplexFirst
    [] OTHER -> ReverseFirst

NextDate(d) ==
  CASE conf.class = "pagination" -> PaginationNext(d)
    [] conf.class = "complex" -> ComplexNext(d)
    [] OTHER -> ReverseNext(d)

\* One date further, if there is one.
Stepped_Silent(m) ==
  IF m.current = NoDate \/ NextDate(m.current) = NoDate THEN m
  ELSE [m EXCEPT !.current = NextDate(m.current)]
Stepped(m) ==
  IF m.current = NoDate \/ NextDate(m.current) = NoDate THEN m
  ELSE Generated([m EXCEPT !.current = NextDate(m.current)])

\* After a report: a step for the bundles the caller names, and another when nothing is pending.
Advanced(m, refs) ==
  LET m1 == IF refs THEN Stepped(m) ELSE m
  IN IF m1.queue = <<>> THEN Stepped(m1) ELSE m1

-----------------------------------------------------------------------------
(* get_next_bundle_refs *)

\* What a new locator finds in the store, and the URL it starts with: that of the position, even
\* when it has been handed out.
Loaded_NotGenerated ==
  IF mem.initialized THEN mem
  ELSE [mem EXCEPT !.processed = Get(ProcessedKey, {}), !.current = Get(StateKey, FirstDate),
                   !.initialized = TRUE]
Loaded ==
  IF mem.initialized THEN mem
  ELSE LET m == [mem EXCEPT !.processed = Get(ProcessedKey, {}),
                            !.current = Get(StateKey, NoDate)]
       IN Generated([m EXCEPT !.current = IF @ = NoDate THEN FirstDate ELSE @,
                              !.initialized = TRUE])

\* The pending URLs that are not among those processed, in their order.
Unprocessed(queue, done) ==
  LET kept[i \in 0..Len(queue)] ==
        IF i = 0 THEN <<>>
        ELSE IF queue[i] \in done THEN kept[i - 1] ELSE Append(kept[i - 1], queue[i])
  IN kept[Len(queue)]

\* Single reloads for as long as it knows of no processed URL.
SingleLoaded ==
  IF mem.processed # {} THEN mem
  ELSE LET done == Get(ProcessedKey, {})
       IN [mem EXCEPT !.processed = done, !.queue = Unprocessed(@, done)]

\* Pending URLs are taken off until n of them are found that are not processed; these count as
\* processed from here on.
Chosen(m, n) ==
  LET new(k) == {m.queue[j] : j \in 1..k} \ m.processed
      enough == {k \in 1..Len(m.queue) : Cardinality(new(k)) = n}
      upto == IF enough = {} THEN Len(m.queue) ELSE Min(enough)
  IN [refs |-> new(upto), left |-> SubSeq(m.queue, upto + 1, Len(m.queue))]

MarkedProcessed_Not(m, refs) == m.processed
MarkedProcessed(m, refs) == m.processed \cup refs

\* The requests are chosen and the processed URLs saved, or that save raises and with it the call:
\* the URLs chosen stay processed and are not returned.
Ask(m, n) ==
  LET choice == Chosen(m, n)
      m1 == [m EXCEPT !.queue = choice.left, !.processed = MarkedProcessed(m, choice.refs)]
      blank == ~mem.initialized /\ run.number > 1 /\ ~Exists(ProcessedKey)
  IN /\ ask.at = "idle" /\ ~run.retired
     /\ mem' = m1
     /\ popped' = popped \cup choice.refs
     /\ \/ /\ Put(ProcessedKey, m1.processed, StateTtl)
           /\ ask' = [at |-> IF conf.class = "single" THEN "return" ELSE "save_state",
                      refs |-> choice.refs]
           /\ stage' = [u \in Urls |-> IF u \in choice.refs THEN "chosen" ELSE stage[u]]
           /\ run' = [run EXCEPT !.blanks = IF blank THEN @ + 1 ELSE @]
        \/ /\ run.faults < MaxFaults
           /\ run' = [run EXCEPT !.faults = @ + 1, !.cut = TRUE,
                                 !.blanks = IF blank THEN @ + 1 ELSE @]
           /\ stage' = [u \in Urls |-> IF u \in choice.refs THEN "lost" ELSE stage[u]]
           /\ ask' = NoAsk
           /\ StoreUntouched
     /\ UNCHANGED <<conf, given>>

\* The position is saved after the processed URLs.
SaveState ==
  /\ ask.at = "save_state"
  /\ \/ /\ Put(StateKey, mem.current, StateTtl)
        /\ ask' = [ask EXCEPT !.at = "return"]
        /\ UNCHANGED <<run, stage>>
     \/ /\ Raises
        /\ ask' = NoAsk
        /\ stage' = [u \in Urls |-> IF u \in ask.refs THEN "lost" ELSE stage[u]]
        /\ StoreUntouched
  /\ UNCHANGED <<conf, mem, given, popped>>

Return ==
  /\ ask.at = "return"
  /\ ask' = NoAsk
  /\ stage' = [u \in Urls |-> IF u \in ask.refs THEN "handed" ELSE stage[u]]
  /\ given' = [u \in Urls |-> IF u \in ask.refs THEN given[u] + 1 ELSE given[u]]
  /\ run' = [run EXCEPT !.retired = (ask.refs = {})]
  /\ StoreUntouched
  /\ UNCHANGED <<conf, mem, popped>>

PaginationAsk(n) == conf.class = "pagination" /\ Ask(Loaded, n)
ComplexAsk(n) == conf.class = "complex" /\ Ask(Loaded, n)
ReverseAsk(n) == conf.class = "reverse" /\ Ask(Loaded, n)
SingleAsk(n) == conf.class = "single" /\ Ask(SingleLoaded, n)

-----------------------------------------------------------------------------
(* handle_bundle_processed and handle_bundle_error *)

\* Pagination and Complex read request["url"], Reverse and Single request.url.  The locators
\* hand out dicts.
Readable(classes) == conf.class \in classes /\ conf.form = "mapping"
ReadableAttribute(classes) == conf.class \in classes /\ conf.form = "object"

To(u, s) == stage' = [stage EXCEPT ![u] = s]

Failing == {"reported", "failed"}

\* One store operation of a handler, which may raise instead: then the caller counts the
\* request as failed.
Step(u, from, to, key, value, ttl) ==
  /\ stage[u] = from
  /\ \/ Put(key, value, ttl) /\ To(u, to) /\ run' = [run EXCEPT !.cut = @ \/ to \in Failing]
     \/ Raises /\ To(u, "failed") /\ StoreUntouched
  /\ UNCHANGED <<conf, ask, given, popped>>

Record(u) ==
  /\ mem' = [mem EXCEPT !.processed = @ \cup {u}]
  /\ Step(u, "handed", "recorded", ResultKey(u), TRUE, ResultTtl)

Advance(u, refs) ==
  /\ mem' = Advanced(mem, refs)
  /\ Step(u, "recorded", "saving", ProcessedKey, mem.processed, StateTtl)

SavePosition(u) ==
  /\ mem' = mem
  /\ Step(u, "saving", "done", StateKey, mem.current, StateTtl)

\* An error is noted; nothing is generated and nothing is put back among the pending URLs.
ReportError(u) ==
  /\ mem' = mem
  /\ Step(u, "handed", "reported", ErrorKey(u), 0, ErrorTtl)

SaveAfterError(u) ==
  /\ mem' = mem
  /\ \/ Step(u, "reported", "saving_error", ProcessedKey, mem.processed, StateTtl)
     \/ Step(u, "saving_error", "failed", StateKey, mem.current, StateTtl)

PaginationRecord(u) == Readable({"pagination"}) /\ Record(u)
PaginationAdvance(u, refs) == conf.class = "pagination" /\ Advance(u, refs)
PaginationSave(u) == conf.class = "pagination" /\ (SavePosition(u) \/ SaveAfterError(u))
PaginationError(u) == Readable({"pagination"}) /\ ReportError(u)

ComplexRecord(u) == Readable({"complex"}) /\ Record(u)
ComplexAdvance(u, refs) == conf.class = "complex" /\ Advance(u, refs)
ComplexSave(u) == conf.class = "complex" /\ (SavePosition(u) \/ SaveAfterError(u))
ComplexError(u) == Readable({"complex"}) /\ ReportError(u)

ReverseRecord(u) == ReadableAttribute({"reverse"}) /\ Record(u)
ReverseAdvance(u, refs) == conf.class = "reverse" /\ Advance(u, refs)
ReverseSave(u) == conf.class = "reverse" /\ (SavePosition(u) \/ SaveAfterError(u))
ReverseError(u) == ReadableAttribute({"reverse"}) /\ ReportError(u)

SingleRecord(u) == ReadableAttribute({"single"}) /\ Record(u)
SingleSave(u) ==
  /\ conf.class = "single"
  /\ mem' = mem
  /\ Step(u, "recorded", "done", ProcessedKey, mem.processed, StateTtl)
SingleError(u) ==
  /\ ReadableAttribute({"single"})
  /\ mem' = mem
  /\ Step(u, "handed", "failed", ErrorKey(u), 0, ErrorTtl)

\* The handler cannot read the URL of the request and raises before it has changed anything, or
\* the caller reports nothing.
Unreported(u) ==
  /\ stage[u] = "handed"
  /\ To(u, "failed")
  /\ run' = [run EXCEPT !.cut = TRUE]
  /\ StoreUntouched
  /\ UNCHANGED <<conf, mem, ask, given, popped>>

-----------------------------------------------------------------------------
Busy == {"chosen", "handed", "recorded", "saving", "reported", "saving_error"}

\* The next run: a new locator over the store.
NewRun(cut) ==
  /\ run.number < MaxRuns
  /\ Reopen
  /\ run' = [run EXCEPT !.number = @ + 1, !.retired = FALSE, !.cut = @ \/ cut]
  /\ mem' = Started(conf.class) /\ ask' = NoAsk
  /\ stage' = [u \in Urls |-> IF stage[u] \in Busy THEN "lost" ELSE stage[u]]
  /\ UNCHANGED <<conf, given, popped>>

EndRun == run.retired /\ (\A u \in Urls : stage[u] \notin Busy) /\ NewRun(FALSE)
Crash == NewRun(TRUE)

AskStep ==
  \/ \E n \in 1..LastDate : PaginationAsk(n) \/ ComplexAsk(n) \/ ReverseAsk(n) \/ SingleAsk(n)
  \/ SaveState \/ Return

HandlerStep(u) ==
  \/ PaginationRecord(u) \/ ComplexRecord(u) \/ ReverseRecord(u) \/ SingleRecord(u)
  \/ \E refs \in BOOLEAN :
       PaginationAdvance(u, refs) \/ ComplexAdvance(u, refs) \/ ReverseAdvance(u, refs)
  \/ PaginationSave(u) \/ ComplexSave(u) \/ ReverseSave(u) \/ SingleSave(u)
  \/ PaginationError(u) \/ ComplexError(u) \/ ReverseError(u) \/ SingleError(u)
  \/ Unreported(u)

LocatorNext == AskStep \/ (\E u \in Urls : HandlerStep(u)) \/ EndRun \/ Crash

-----------------------------------------------------------------------------
(* Properties *)

Stages == Busy \cup {"none", "done", "failed", "lost"}
AskStages == {"idle", "save_state", "return"}

LocatorTypeOK ==
  /\ conf \in Configurations
  /\ mem.processed \subseteq Urls /\ mem.queue \in Seq(Urls)
  /\ mem.current \in Urls \cup {NoDate} /\ mem.initialized \in BOOLEAN
  /\ ask.at \in AskStages /\ ask.refs \subseteq Urls
  /\ stage \in [Urls -> Stages]
  /\ given \in [Urls -> 0..MaxRuns]
  /\ run.number \in 1..MaxRuns /\ run.faults \in 0..MaxFaults

\* A URL is handed out once, over all runs and wherever the process is lost or the store
\* raises, unless a restart found that the record of processed URLs had expired.
HandedOutOnce == \A u \in Urls : given[u] <= 1 + run.blanks

\* The dates the locator has behind it: before its position, in its direction.
Behind(d) ==
  {u \in Urls : IF conf.class = "reverse" THEN u > d ELSE u < d}

\* The position never runs ahead of the work, over crashes, failures and restarts: each date up
\* to the one in memory, and each one behind that in the store, was rejected by the filter, taken
\* to be handed out, or is pending.
NothingSkipped ==
  conf.class # "single" =>
    /\ mem.current # NoDate =>
         (Behind(mem.current) \cup {mem.current}) \cap conf.filter \subseteq popped \cup ToSet(mem.queue)
    /\ Exists(StateKey) /\ data[StateKey] # NoDate =>
         Behind(data[StateKey]) \cap conf.filter \subseteq popped

-----------------------------------------------------------------------------
(* The inductive invariant *)

\* In this run the locator has read the record of processed URLs, or has made one.
Informed == IF conf.class = "single" THEN mem.processed # {} ELSE mem.initialized

Recorded == ProcessedKey \in DOMAIN data

\* Whoever goes by this record hands out nothing twice.
Trusted(record) == \A u \in Urls \ record : given[u] <= run.blanks

Working == {u \in Urls : stage[u] \in Busy}

Records ==
  /\ conf \in Configurations
  /\ mem = [processed |-> mem.processed, queue |-> mem.queue, current |-> mem.current,
            initialized |-> mem.initialized]
  /\ ask = [at |-> ask.at, refs |-> ask.refs]
  /\ run = [number |-> run.number, retired |-> run.retired, faults |-> run.faults,
            blanks |-> run.blanks, cut |-> run.cut]
  /\ given \in [Urls -> Nat] /\ stage = [u \in Urls |-> stage[u]]
  /\ run.number \in Nat \ {0} /\ run.blanks \in Nat
  /\ ask.at = "idle" => ask.refs = {}
  /\ conf.class = "single" => mem.initialized = FALSE

\* What was chosen is on record, in memory and in the store, before it is handed out.
OnRecord ==
  /\ HandedOutOnce
  /\ \A u \in Urls \cap ask.refs : given[u] <= run.blanks
  /\ ask.refs \subseteq mem.processed
  /\ Working \cup ask.refs # {} => Informed
  /\ Informed => Trusted(mem.processed)
  /\ ~Informed /\ run.number = 1 => Trusted({})
  /\ Recorded => Trusted(data[ProcessedKey]) /\ ask.refs \subseteq data[ProcessedKey]

\* The URLs that are still to bring the locator one date further.
Pending == {u \in Urls : stage[u] \in {"chosen", "handed", "recorded"}}

\* The locator has come this far: what lies behind is taken or waits in the queue.
Reached(m) ==
  /\ m.current \in Urls
  /\ m.queue # <<>> => m.queue = <<m.current>>
  /\ (Behind(m.current) \cup {m.current}) \cap conf.filter \subseteq popped \cup ToSet(m.queue)

\* A date locator has one URL under way at a time: pending, or with the caller.  So the date it
\* has reached is the only one up to which something waits.
InStep ==
  /\ mem.processed \cup ask.refs \cup Working \subseteq popped
  /\ Recorded => data[ProcessedKey] \subseteq popped
  /\ conf.class # "single" =>
       /\ IF mem.initialized THEN Reached(mem) ELSE mem = Fresh /\ ask.at = "idle"
       /\ ask.refs = {u \in Urls : stage[u] = "chosen"}
       /\ mem.queue # <<>> => Pending = {}
       /\ \A u, v \in Pending : u = v
       /\ StateKey \in DOMAIN data =>
            /\ data[StateKey] \in Urls
            /\ Behind(data[StateKey]) \cap conf.filter \subseteq popped

LocatorInv == Records /\ OnRecord /\ InStep

\* Within a run the memory makes sure of it, whatever becomes of the record in the store.
OncePerRun ==
  /\ \A u \in Urls : given[u] <= run.number
  /\ \A u \in ask.refs : given[u] < run.number
  /\ \A u \in Urls \ mem.processed : given[u] < run.number
  /\ ~Informed => \A u \in Urls : given[u] < run.number

LocatorBounds ==
  /\ popped \subseteq Urls /\ mem.initialized \in BOOLEAN
  /\ conf.class = "single" => mem.queue \in Seq(Urls) /\ mem.current = NoDate
  /\ ask.at \in AskStages /\ stage \in [Urls -> Stages]
  /\ run.number \in 1..MaxRuns /\ run.faults \in 0..MaxFaults
  /\ OncePerRun
=============================================================================
