------------------------------ MODULE MCBackup ------------------------------
(* Three resources; three documents that compile, one whose dumps share an   *)
(* artifact and one whose dump would overwrite its source.                   *)
EXTENDS Backup

CONSTANTS p, q, z, s, t      \* paths

Direct(x) == [how |-> "direct", path |-> x, artifact |-> Nowhere, jobs |-> 0]
Snapshot(x) == [how |-> "zfs-snapshot", path |-> x, artifact |-> Nowhere, jobs |-> 0]
Native(x, a) == [how |-> "native-dump", path |-> x, artifact |-> a, jobs |-> 1]

MCDocuments ==
    { <<Snapshot(p), Native(q, s), Direct(z)>>,
      <<Native(p, s), Native(q, t)>>,
      <<Direct(p), Snapshot(q), Snapshot(z)>>,
      <<Native(p, s), Native(q, s)>>,
      <<Native(p, p), Direct(q)>> }
=============================================================================
