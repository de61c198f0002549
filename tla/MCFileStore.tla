---------------------------- MODULE MCFileStore ----------------------------
(* A small vault for TLC: a file in the root and two in one directory.     *)
EXTENDS FileStore

CONSTANTS root, d1, f1, g1, g2

MCParentOf == [f \in Files |-> IF f = f1 THEN root ELSE d1]

\* The imports find one file in the directory, or two.
MCSource == [f \in Files |-> IF f = g1 THEN 1 ELSE 0]
MCSources == [f \in Files |-> IF f = g1 THEN 1 ELSE IF f = g2 THEN 2 ELSE 0]

Limit(what) == [request |-> MaxRequests, import |-> MaxImports, rebuild |-> MaxRebuilds,
                crash |-> MaxCrashes, fault |-> MaxFaults][what]
Used(what) == Limit(what) - budget[what]

\* Three casts of the actors: requests and a rebuild, requests and imports, or
\* all of them with a single request; each with at most one fault or restart.
Casts ==
    /\ Used("crash") + Used("fault") <= 1
    /\ \/ Used("import") = 0
       \/ Used("rebuild") = 0 /\ Used("request") + Used("import") <= 3
       \/ Used("request") + Used("import") <= 1
=============================================================================
