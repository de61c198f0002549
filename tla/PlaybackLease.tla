---------------------------- MODULE PlaybackLease ----------------------------
(***************************************************************************)
(* What HLS streaming promises about the files of a vault, without how: a  *)
(* listed stream shows one version of its file, the current one, and holds *)
(* a lease on it: the file is not replaced before the stream is off the    *)
(* list.                                                                   *)
(***************************************************************************)
EXTENDS Naturals

CONSTANTS Paths, Streams

VARIABLES
    version,    \* the version of each file
    listed      \* the streams on offer, with their file and what they show

lease == <<version, listed>>

LeaseInit == version = [p \in Paths |-> 1] /\ listed = {}

Publish(s, p) ==
    /\ \A e \in listed : e.stream # s
    /\ listed' = listed \cup
                     {[stream |-> s, path |-> p, shows |-> {version[p]}]}
    /\ UNCHANGED version

Withdraw(s) ==
    /\ listed' = {e \in listed : e.stream # s}
    /\ UNCHANGED version

\* Files are replaced or deleted together, and none of them is on offer.
Replace(files) ==
    /\ \A e \in listed : e.path \notin files
    /\ version' = [p \in Paths |->
                       IF p \in files THEN version[p] + 1 ELSE version[p]]
    /\ UNCHANGED listed

LeaseNext ==
    \/ \E s \in Streams : Withdraw(s) \/ \E p \in Paths : Publish(s, p)
    \/ \E files \in SUBSET Paths : Replace(files)

LeaseSpec == LeaseInit /\ [][LeaseNext]_lease
=============================================================================
