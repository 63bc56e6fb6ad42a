------------------------------ MODULE FetchRun ------------------------------
(***************************************************************************)
(* What a fetch run promises, without queue, tasks or flags: it accepts    *)
(* items while it is open, gives each accepted bundle one final verdict,   *)
(* and reports only when no accepted item is still waiting for one.  It    *)
(* may abort at any time; what was accepted before may then stay without   *)
(* a verdict.                                                              *)
(***************************************************************************)
EXTENDS Naturals, FiniteSets

CONSTANTS BundleRefs, OtherItems

VARIABLES
  offered,    \* items nobody handed out yet
  waiting,    \* accepted, no verdict yet
  ok, failed, \* the verdicts
  status      \* "open", "reported", "reported_failure", "aborted" or "stopped"

absVars == <<offered, waiting, ok, failed, status>>

RunInit ==
  /\ offered = BundleRefs \cup OtherItems
  /\ waiting = {}
  /\ ok = {}
  /\ failed = {}
  /\ status = "open"

Accept ==
  /\ status = "open"
  /\ \E S \in SUBSET offered :
        offered' = offered \ S /\ waiting' = waiting \cup S
  /\ UNCHANGED <<ok, failed, status>>

\* Handed out, but refused on the spot.
Refuse ==
  /\ status = "open"
  /\ \E S \in SUBSET offered : offered' = offered \ S
  /\ UNCHANGED <<waiting, ok, failed, status>>

\* A verdict, also for what is still in progress after an abort.
Decide ==
  /\ status \in {"open", "aborted"}
  /\ \E i \in waiting :
        /\ waiting' = waiting \ {i}
        /\ \/ i \in BundleRefs /\ ok' = ok \cup {i} /\ UNCHANGED failed
           \/ i \in BundleRefs /\ failed' = failed \cup {i} /\ UNCHANGED ok
           \/ i \in OtherItems /\ UNCHANGED <<ok, failed>>
  /\ UNCHANGED <<offered, status>>

Report ==
  /\ status = "open"
  /\ waiting = {}
  /\ \/ status' = "reported" /\ (ok # {} \/ failed = {})
     \/ status' = "reported_failure" /\ ok = {} /\ failed # {}
  /\ UNCHANGED <<offered, waiting, ok, failed>>

Abort ==
  /\ \/ status = "open" /\ status' = "aborted"
     \/ status = "aborted" /\ status' = "stopped"
  /\ UNCHANGED <<offered, waiting, ok, failed>>

RunNext == Accept \/ Refuse \/ Decide \/ Report \/ Abort

RunSpec == RunInit /\ [][RunNext]_absVars
=============================================================================
