--------------------------- MODULE MCStoreClients ---------------------------
(* The store and its clients on small instances; the cfg file gives the bounds. *)
EXTENDS StoreClients
=============================================================================
