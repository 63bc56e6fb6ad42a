----------------------- MODULE MCSftpDirectoryLocator -----------------------
(* The directory locator on small instances; the cfg files give the bounds. *)
EXTENDS SftpDirectoryLocator

\* A hash is positive or negative, and never near the ids of the queue.
Hashes == {-9, 9}
=============================================================================
