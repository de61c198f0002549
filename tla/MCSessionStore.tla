--------------------------- MODULE MCSessionStore ---------------------------
(***************************************************************************)
(* A small instance of SessionStore: a login to the vault v1, the creation *)
(* of the vault v2, background work on v1, and two requests.               *)
(***************************************************************************)
EXTENDS SessionStore

CONSTANTS v1, v2, c1, c2, c3, r1, r2

MCPurposeOf == [c \in Creators |-> CASE c = c1 -> "login"
                                     [] c = c2 -> "newVault"
                                     [] c = c3 -> "background"]
MCVaultFor == [c \in Creators |-> IF c = c2 THEN v2 ELSE v1]

\* Two of the five are at work at a time, and only v1 is deleted.
BusyClients == {r \in Clients : client[r].pc # "idle"}
BusyCreators == {c \in Creators : creator[c].pc \notin {"idle", "done"}}
MCBound ==
    /\ Cardinality(BusyClients) + Cardinality(BusyCreators) <= 2
    /\ v2 \notin dropping
=============================================================================
