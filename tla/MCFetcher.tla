----------------------------- MODULE MCFetcher -----------------------------
(* The fetcher on a small instance; MCFetcher.cfg gives the constants. *)
EXTENDS Fetcher
=============================================================================
