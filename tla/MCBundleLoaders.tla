--------------------------- MODULE MCBundleLoaders ---------------------------
(* One load on small instances: each loader without decorators, and each setting of the       *)
(* decorators with each kind of content, over the storages that tell them apart.              *)
EXTENDS BundleLoaders

Setup(storage, loader, files, unzip, targz, content) ==
  [storage |-> storage, loader |-> loader, files |-> files,
   unzip |-> unzip, targz |-> targz, content |-> content]

MCSetups ==
  {Setup(s, l, 1, FALSE, FALSE, "plain") : s \in {"bus", "file", "s3"}, l \in {"http", "api", "sftp_file"}}
  \cup {Setup("none", "http", 1, FALSE, FALSE, "plain")}
  \cup {Setup(s, "sftp_dir", n, FALSE, FALSE, "plain") : s \in {"bus", "file", "s3"}, n \in 0..2}
  \cup {Setup(s, "api", 1, u, ~u, c) : s \in {"file", "s3"}, u \in BOOLEAN, c \in {"plain", "gzip", "zip"}}
  \cup {Setup("bus", l, 1, TRUE, TRUE, c) : l \in {"http", "sftp_file"}, c \in {"plain", "gzip", "zip"}}
=============================================================================
