-------------------------- MODULE MCContentRelease --------------------------
(***************************************************************************)
(* ContentRelease on small instances.                                      *)
(***************************************************************************)
EXTENDS ContentRelease

CONSTANTS
    plain, enc, tar,     \* the names of a file, of the same file encrypted, of a backup
    media, docs, kept,   \* two folders of large files, and one of backups
    stem, long           \* plain and tar have one stem: x.tar.pdf and x.tar.gz

Backups  == {<<kept, tar>>}
Places   == {<<media, plain>>, <<media, enc>>, <<docs, plain>>} \cup Backups
Partners == [n \in {plain, enc, tar} |-> IF n = plain THEN enc ELSE plain]
Stems    == [n \in {plain, enc, tar} |-> IF n = enc THEN long ELSE stem]
=============================================================================
