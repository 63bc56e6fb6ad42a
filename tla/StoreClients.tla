---------------------------- MODULE StoreClients ----------------------------
(***************************************************************************)
(* One key-value store and the program that uses it: an API bundle locator *)
(* in its runs, or tasks with the state manager beside a persistent queue. *)
(* The store's own clock and clean-up go on beside either.                 *)
(***************************************************************************)
EXTENDS ApiBundleLocators, StateManager

VARIABLE client \* "locator" or "manager"

vars == <<storeVars, locatorVars, managerVars, client>>

\* The locator that stands still in the manager's behaviours.
Idle == [class |-> "single", form |-> "mapping", ends |-> TRUE, filter |-> Urls]

Init ==
  /\ client \in {"locator", "manager"}
  /\ StoreInit /\ LocatorInit /\ ManagerInit
  /\ client = "manager" => conf = Idle

\* A persistent queue puts its items and counters without a time to live.
QueuePut(t) ==
  Begin(t) /\ Put(<<"queue", 0>>, TRUE, NoTtl) /\ UNCHANGED <<task, updates, mixed>>

LocatorStep == client = "locator" /\ LocatorNext /\ UNCHANGED <<managerVars, client>>

ManagerStep ==
  /\ client = "manager"
  /\ ManagerNext \/ ManagerRestart \/ (\E t \in Tasks : QueuePut(t))
  /\ UNCHANGED <<locatorVars, client>>

StoreStep == (Tick \/ Sweep) /\ UNCHANGED <<locatorVars, managerVars, client>>

Next == LocatorStep \/ ManagerStep \/ StoreStep

\* The locator's caller and its handlers go on, and when they are done the program is started
\* again; nothing makes the process be lost or time pass.
Progress ==
  /\ client = "locator" /\ (AskStep \/ (\E u \in Urls : HandlerStep(u)) \/ EndRun)
  /\ UNCHANGED <<managerVars, client>>

Spec == Init /\ [][Next]_vars /\ WF_vars(Progress)

-----------------------------------------------------------------------------
(* Properties *)

\* Every variable has its type.
TypeOK == StoreTypeOK /\ LocatorTypeOK /\ ManagerTypeOK /\ client \in {"locator", "manager"}

\* A range with an end and no rejected date is handed out whole, if not in one run then in as
\* many as it has dates, as long as nothing was lost, failed, unreported or expired.
RangeServed ==
  (client = "locator" /\ conf.filter = Urls /\ (conf.ends \/ conf.class = "reverse"))
    ~> ((\A u \in Urls : given[u] > 0) \/ run.cut \/ run.blanks > 0)

\* Each client's invariant, which the other's steps do not disturb: the manager's locator is
\* one for a fixed list, and an error that a locator notes counts no retries.
ClientsInv ==
  /\ client = "manager" => conf.class = "single"
  /\ client = "locator" => \A k \in Shared : updates[k] = 0
  /\ LocatorInv /\ ManagerInv

\* What makes the types inductive, beside the above.
TypesInv ==
  /\ StoreTypeOK /\ LocatorBounds /\ ManagerBounds
  /\ client \in {"locator", "manager"}
  /\ IF client = "manager" THEN NoKey \notin DOMAIN data
     ELSE calls = 0 /\ mixed = {} /\ task = [t \in Tasks |-> NoUpdate]
=============================================================================
