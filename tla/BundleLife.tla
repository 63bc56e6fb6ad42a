------------------------------ MODULE BundleLife ------------------------------
(***************************************************************************)
(* What a bundle storage promises: a bundle is open or not; resources are  *)
(* uploaded while it is open, whatever becomes of them; it is finished     *)
(* when no upload is under way; and what a finished bundle holds never     *)
(* changes again.                                                          *)
(***************************************************************************)
CONSTANT Uploads

VARIABLES
  open,    \* the storage has the bundle
  writing, \* uploads under way
  kept     \* uploads that ended well

vars == <<open, writing, kept>>

Init == open = FALSE /\ writing = {} /\ kept = {}

\* The bundle is begun, or the next one of the same reference.
Open == ~open /\ writing = {} /\ open' = TRUE /\ kept' = {} /\ UNCHANGED writing

Begin(u) ==
  /\ open /\ u \notin writing
  /\ writing' = writing \cup {u} /\ kept' = kept \ {u}
  /\ UNCHANGED open

End(u) ==
  /\ u \in writing
  /\ writing' = writing \ {u} /\ kept' \in {kept, kept \cup {u}}
  /\ UNCHANGED open

Finish == open /\ writing = {} /\ open' = FALSE /\ UNCHANGED <<writing, kept>>

Next == Open \/ (\E u \in Uploads : Begin(u) \/ End(u)) \/ Finish

Spec == Init /\ [][Next]_vars
=============================================================================
