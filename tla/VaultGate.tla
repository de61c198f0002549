------------------------------ MODULE VaultGate ------------------------------
(***************************************************************************)
(* What the background subsystems of cryp promise to the deletion of a     *)
(* vault, without how they do it.  An owner (a task, a thumbnail job) is   *)
(* inside its vault while it may read or write it.  A vault can be sealed; *)
(* a sealed vault admits no owner, and it is opened again only when the    *)
(* last owner has left, so what ran before the seal never meets what is    *)
(* admitted after it.                                                      *)
(***************************************************************************)
EXTENDS TLAPS

CONSTANTS Owners, Vaults, VaultOf

VARIABLES
    inside,     \* owners that may touch their vault
    sealed      \* vaults that admit nobody

gate == <<inside, sealed>>

InsideOf(v, set) == {o \in set : VaultOf[o] = v}

GateTypeOK == inside \subseteq Owners /\ sealed \subseteq Vaults

GateInit == inside = {} /\ sealed = {}

Enter(o) ==
    /\ VaultOf[o] \notin sealed
    /\ inside' = inside \cup {o}
    /\ UNCHANGED sealed

Leave(o) == inside' = inside \ {o} /\ UNCHANGED sealed

\* The owner that leaves last may open the vault behind it.
LeaveLast(o) ==
    /\ InsideOf(VaultOf[o], inside) \subseteq {o}
    /\ inside' = inside \ {o}
    /\ sealed' = sealed \ {VaultOf[o]}

Seal(v) == sealed' = sealed \cup {v} /\ UNCHANGED inside

Unseal(v) ==
    /\ InsideOf(v, inside) = {}
    /\ sealed' = sealed \ {v}
    /\ UNCHANGED inside

\* The process ends: nothing of the gate is persistent.
Crash == inside' = {} /\ sealed' = {}

GateNext ==
    \/ \E o \in Owners : Enter(o) \/ Leave(o) \/ LeaveLast(o)
    \/ \E v \in Vaults : Seal(v) \/ Unseal(v)
    \/ Crash

GateSpec == GateInit /\ [][GateNext]_gate

\* A sealed vault only gets emptier: while the seal stands nobody enters, and
\* the seal is never broken over the head of an owner that stays.
SealStep ==
    \A v \in sealed :
        /\ v \in sealed' => InsideOf(v, inside') \subseteq InsideOf(v, inside)
        /\ v \notin sealed' => InsideOf(v, inside') = {}

SealHolds == [][SealStep]_gate

\* The gate keeps that promise, whatever the owners, the vaults and their
\* assignment are.
THEOREM SealsHold == GateSpec => SealHolds
<1>1. ASSUME [GateNext]_gate, NEW v \in sealed
      PROVE  /\ v \in sealed' => InsideOf(v, inside') \subseteq InsideOf(v, inside)
             /\ v \notin sealed' => InsideOf(v, inside') = {}
  <2>1. CASE \E o \in Owners : Enter(o)
    BY <1>1, <2>1 DEF Enter, InsideOf
  <2>2. CASE \E o \in Owners : Leave(o)
    BY <1>1, <2>2 DEF Leave, InsideOf
  <2>3. CASE \E o \in Owners : LeaveLast(o)
    BY <1>1, <2>3 DEF LeaveLast, InsideOf
  <2>4. CASE \E u \in Vaults : Seal(u) \/ Unseal(u)
    BY <1>1, <2>4 DEF Seal, Unseal, InsideOf
  <2>5. CASE Crash \/ UNCHANGED gate
    BY <1>1, <2>5 DEF Crash, gate, InsideOf
  <2>. QED
    BY <1>1, <2>1, <2>2, <2>3, <2>4, <2>5 DEF GateNext
<1>2. [GateNext]_gate => [SealStep]_gate
  BY <1>1 DEF SealStep
<1>. QED
  BY <1>2, PTL DEF GateSpec, SealHolds
=============================================================================
