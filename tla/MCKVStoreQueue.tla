--------------------------- MODULE MCKVStoreQueue ---------------------------
(* The persistent queue on small instances; the cfg files give the bounds. *)
EXTENDS KVStoreQueue
=============================================================================
