------------------------ MODULE MCThumbnailGenerator ------------------------
(***************************************************************************)
(* Small instances of ThumbnailGenerator: the files k1 and k2 of one vault *)
(* and the file k3 of another.                                             *)
(***************************************************************************)
EXTENDS ThumbnailGenerator

CONSTANTS k1, k2, k3, v1, v2

MCVaultOf == [k \in Keys |-> IF k = k3 THEN v2 ELSE v1]

Untouched(k) == used.versions[k] = 0
NoDeletion == used.deletions = 0
NoRebuild == used.rebuilds = 0

(* Each run explores the union of several casts.  Files and deletions: two *)
(* files that may fail or be empty, or one file and two deletions.         *)
FilesOrDeletions ==
    NoDeletion \/ (Untouched(k2) /\ used.failures = 0 /\ used.empty = 0)

(* Rebuilds and liveness: a rebuild and Stop over two files of a vault, two *)
(* rebuilds of a vault with a file, two deletions of it, or a deletion     *)
(* beside the file of another vault.  Requests, failures and Stop are      *)
(* never owed.                                                             *)
RebuildOrDeletions ==
    \/ NoDeletion /\ Untouched(k3) /\ used.rebuilds < 2
    \/ NoDeletion /\ Untouched(k3) /\ Untouched(k2) /\ stop = "running"
    \/ /\ NoRebuild /\ Untouched(k2) /\ stop = "running"
       /\ used.failures = 0 /\ used.lost = 0
       /\ Untouched(k3) \/ used.deletions < 2
=============================================================================
