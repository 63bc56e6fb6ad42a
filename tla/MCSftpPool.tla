----------------------------- MODULE MCSftpPool -----------------------------
(* The pool with a few tasks; the cfg files give the bounds. *)
EXTENDS SftpPool
=============================================================================
