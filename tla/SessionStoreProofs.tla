------------------------- MODULE SessionStoreProofs -------------------------
(***************************************************************************)
(* Proofs about SessionStore for any number of vaults, creators, requests, *)
(* sessions and slots: keys are wiped exactly when nobody holds them, the  *)
(* limit on key derivations holds, and a closed store is empty.            *)
(***************************************************************************)
EXTENDS SessionStore, FiniteSetTheorems, TLAPS

\* A creator that has taken a slot and not given it back.
OnSlot(c) ==
    /\ PurposeOf[c] # "background"
    /\ creator[c].pc \in {"deriving", "unlocked", "saved", "created", "failed"}

\* scryptSem counts them, and background work takes no slot.
SlotsAreExact ==
    /\ slots = Cardinality({c \in Creators : OnSlot(c)})
    /\ \A c \in Creators : PurposeOf[c] = "background" => ~Is(c, "deriving")

\* Nothing is stored in a closed store.
ClosedIsEmpty == closed => Stored = {}

\* KeysAreExact, copy by copy.
Holds(c) == creator[c].pc \in {"unlocked", "saved", "created", "failed"}
Uses(r) == At(r, "got") \/ At(r, "working")
Copies ==
    /\ \A i \in Ids : StoreKeys(i) \in unwiped <=> i \in Stored
    /\ \A r \in Clients : ClientKeys(r) \in unwiped <=> Uses(r)
    /\ \A c \in Creators : CreatorKeys(c) \in unwiped <=> Holds(c)

IInv == TypeOK /\ SlotsAreExact /\ Copies /\ ClosedIsEmpty

-----------------------------------------------------------------------------
(* Copies of keys.                                                         *)

\* Two copies of keys are the same only if they have the same holder.
LEMMA CopiesDiffer ==
    /\ \A i, j : StoreKeys(i) = StoreKeys(j) => i = j
    /\ \A i, j : ClientKeys(i) = ClientKeys(j) => i = j
    /\ \A i, j : CreatorKeys(i) = CreatorKeys(j) => i = j
    /\ \A i, j : /\ StoreKeys(i) # ClientKeys(j)
                 /\ StoreKeys(i) # CreatorKeys(j)
                 /\ ClientKeys(i) # CreatorKeys(j)
    /\ \A i : /\ StoreKeys(i) # LeftKeys /\ ClientKeys(i) # LeftKeys
              /\ CreatorKeys(i) # LeftKeys
BY DEF StoreKeys, ClientKeys, CreatorKeys, LeftKeys

\* Copy by copy and as a set, the statement is the same.
LEMMA CopiesAreKeys ==
    ASSUME TypeOK, Copies PROVE KeysAreExact
<1>1. ASSUME NEW k, k \in unwiped \ {LeftKeys} PROVE k \in Held
  <2>1. CASE \E i \in Ids : k = StoreKeys(i)
    BY <1>1, <2>1 DEF Copies, Held
  <2>2. CASE \E r \in Clients : k = ClientKeys(r)
    BY <1>1, <2>2 DEF Copies, Held, Uses
  <2>3. CASE \E c \in Creators : k = CreatorKeys(c)
    BY <1>1, <2>3 DEF Copies, Held, Holds
  <2>. QED
    BY <1>1, <2>1, <2>2, <2>3 DEF TypeOK
<1>2. ASSUME NEW k, k \in Held PROVE k \in unwiped \ {LeftKeys}
  <2>1. CASE \E i \in Stored : k = StoreKeys(i)
    BY <2>1, CopiesDiffer DEF Copies, Stored
  <2>2. CASE \E r \in Clients : k = ClientKeys(r) /\ Uses(r)
    BY <2>2, CopiesDiffer DEF Copies
  <2>3. CASE \E c \in Creators : k = CreatorKeys(c) /\ Holds(c)
    BY <2>3, CopiesDiffer DEF Copies
  <2>. QED
    BY <1>2, <2>1, <2>2, <2>3 DEF Held, Uses, Holds
<1>. QED
  BY <1>1, <1>2 DEF KeysAreExact

\* Taking sessions out of the store wipes their copies, and no others but
\* those that their holders give up.
LEMMA RemoveKeepsCopies ==
    ASSUME TypeOK, Copies, NEW ids \in SUBSET Stored, NEW copies,
           Remove(ids, copies), \A i \in Ids : StoreKeys(i) \notin copies,
           \A r \in Clients :
               Uses(r)' <=> Uses(r) /\ ClientKeys(r) \notin copies,
           \A c \in Creators :
               Holds(c)' <=> Holds(c) /\ CreatorKeys(c) \notin copies
    PROVE  Copies'
<1>1. \A i \in Ids : i \in Stored' <=> i \in Stored /\ i \notin ids
  BY DEF Remove, NotStored, Stored, TypeOK
<1>2. \A k : k \in unwiped' <=> /\ k \in unwiped /\ k \notin copies
                               /\ \A i \in ids : k # StoreKeys(i)
  BY DEF Remove
<1>. QED
  BY <1>1, <1>2, CopiesDiffer DEF Copies, Stored

\* Every step makes and wipes the copies that it should.
LEMMA CopiesStep ==
    ASSUME TypeOK, Copies, [Next]_vars
    PROVE  Copies'
<1>. USE CopiesDiffer DEF TypeOK, store
<1>1. ASSUME UNCHANGED <<entry, unwiped>>,
             \A c \in Creators : Holds(c)' <=> Holds(c),
             \A r \in Clients : Uses(r)' <=> Uses(r)
      PROVE  Copies'
  BY <1>1 DEF Copies, Stored
<1>2. ASSUME NEW c \in Creators, CreatorStep(c)
      PROVE  Copies'
  <2>1. CASE FindVault(c)
    BY <2>1 DEF FindVault, Is, Becomes, Copies, Stored, Holds,
       Uses, At
  <2>2. CASE TakeSlot(c)
    BY <2>2 DEF TakeSlot, Is, Becomes, WantsSlot, Copies, Stored, Holds,
       Uses, At
  <2>3. CASE TurnAway(c)
    BY <2>3 DEF TurnAway, Is, Becomes, Copies, Stored, Holds,
       Uses, At
  <2>4. CASE DeriveKeys(c)
    BY <2>4 DEF DeriveKeys, Is, Becomes, Copies, Stored, Holds,
       Uses, At
  <2>5. CASE SaveVault(c)
    BY <2>5 DEF SaveVault, Is, Becomes, Copies, Stored, Holds,
       Uses, At
  <2>6. CASE BeginWork(c)
    BY <2>6 DEF BeginWork, Is, Becomes, Copies, Stored, Holds,
       Uses, At
  <2>7. CASE CreateRefused(c)
    BY <2>7 DEF CreateRefused, Is, Becomes, MayCreate, Copies, Stored, Holds,
       Uses, At
  <2>8. CASE EndHandler(c)
    BY <2>8 DEF EndHandler, Is, Becomes, Copies, Stored, Holds,
       Uses, At
  <2>9. CASE WipeCopy(c)
    BY <2>9 DEF WipeCopy, Is, Becomes, Copies, Stored, Holds,
       Uses, At
  <2>10. CASE CreateSession(c)
    BY <2>10 DEF CreateSession, MayCreate, Is, Becomes, Issued, Copies,
       Stored, Holds, Uses, At
  <2>11. CASE EndWork(c)
    <3>1. /\ Remove({creator[c].id} \cap Stored, {})
          /\ \A d \in Creators : Holds(d)' <=> Holds(d)
          /\ \A r \in Clients : Uses(r)' <=> Uses(r)
      BY <2>11 DEF EndWork, Is, Becomes, Holds, Uses, At
    <3>. QED
      BY <3>1, RemoveKeepsCopies
  <2>. QED
    BY <1>2, <2>1, <2>2, <2>3, <2>4, <2>5, <2>6, <2>7, <2>8, <2>9, <2>10,
       <2>11 DEF CreatorStep
<1>3. ASSUME NEW r \in Clients, ClientStep(r)
      PROVE  Copies'
  <2>1. CASE GetSession(r)
    BY <2>1 DEF GetSession, At, Snapshot, Copies, Stored, Holds, Uses
  <2>2. CASE SeeExpired(r)
    BY <2>2 DEF SeeExpired, At, Copies, Stored, Holds, Uses
  <2>3. CASE Unknown(r)
    BY <2>3 DEF Unknown, At, Leaves, Away, Copies, Stored, Holds, Uses
  <2>4. CASE WrongVault(r)
    BY <2>4 DEF WrongVault, At, Leaves, Away, Copies, Stored, Holds, Uses
  <2>5. CASE EndRequest(r)
    BY <2>5 DEF EndRequest, At, Leaves, Away, Copies, Stored, Holds, Uses
  <2>6. CASE Authorise(r)
    BY <2>6 DEF Authorise, At, Copies, Stored, Holds, Uses
  <2>7. CASE DropExpired(r)
    <3>1. PICK ids \in SUBSET Stored : Remove(ids, {})
      BY <2>7 DEF DropExpired
    <3>2. /\ \A d \in Creators : Holds(d)' <=> Holds(d)
          /\ \A s \in Clients : Uses(s)' <=> Uses(s)
      BY <2>7 DEF DropExpired, At, Leaves, Away, Holds, Uses
    <3>. QED
      BY <3>1, <3>2, RemoveKeepsCopies
  <2>8. CASE Logout(r)
    <3>1. /\ Remove({client[r].id} \cap Stored, {ClientKeys(r)})
          /\ \A d \in Creators : Holds(d)' <=> Holds(d)
          /\ \A s \in Clients : Uses(s)' <=> Uses(s) /\ s # r
      BY <2>8 DEF Logout, At, Leaves, Away, Holds, Uses
    <3>2. /\ \A i \in Ids : StoreKeys(i) \notin {ClientKeys(r)}
          /\ \A s \in Clients : s # r <=> ClientKeys(s) \notin {ClientKeys(r)}
          /\ \A d \in Creators : CreatorKeys(d) \notin {ClientKeys(r)}
      OBVIOUS
    <3>3. {client[r].id} \cap Stored \in SUBSET Stored
      OBVIOUS
    <3>. HIDE CopiesDiffer DEF TypeOK, store
    <3>. QED
      BY <3>1, <3>2, <3>3, RemoveKeepsCopies
  <2>. QED
    BY <1>3, <2>1, <2>2, <2>3, <2>4, <2>5, <2>6, <2>7, <2>8 DEF ClientStep
<1>4. ASSUME NEW r \in Clients, NEW i \in Ids, Arrive(r, i)
      PROVE  Copies'
  BY <1>1, <1>4 DEF Arrive, At, Holds, Uses
<1>5. ASSUME NEW v \in Vaults, DeleteVault(v) \/ DeleteByVault(v)
      PROVE  Copies'
  <2>1. CASE DeleteVault(v)
    BY <1>1, <2>1 DEF DeleteVault, Holds, Uses, At
  <2>2. CASE DeleteByVault(v)
    <3>1. /\ OfVault(v) \in SUBSET Stored /\ Remove(OfVault(v), {})
          /\ \A d \in Creators : Holds(d)' <=> Holds(d)
          /\ \A r \in Clients : Uses(r)' <=> Uses(r)
      BY <2>2 DEF DeleteByVault, OfVault, Holds, Uses, At
    <3>. QED
      BY <3>1, RemoveKeepsCopies
  <2>. QED
    BY <1>5, <2>1, <2>2
<1>6. CASE Janitor \/ Close
  <2>1. PICK ids \in SUBSET Stored : Remove(ids, {})
    BY <1>6 DEF Janitor, Close
  <2>2. /\ \A d \in Creators : Holds(d)' <=> Holds(d)
        /\ \A r \in Clients : Uses(r)' <=> Uses(r)
    BY <1>6 DEF Janitor, Close, Holds, Uses, At
  <2>. QED
    BY <2>1, <2>2, RemoveKeepsCopies
<1>7. CASE Tick \/ UNCHANGED vars
  BY <1>1, <1>7 DEF Tick, vars, Holds, Uses, At
<1>. QED
  BY <1>2, <1>3, <1>4, <1>5, <1>6, <1>7 DEF Next

-----------------------------------------------------------------------------
(* The limit on key derivations.                                           *)

\* Whoever has a slot is counted, so a slot that is given back was taken.
LEMMA SlotTaken ==
    ASSUME TypeOK, SlotsAreExact, NEW c \in Creators, OnSlot(c)
    PROVE  slots > 0
<1>. DEFINE on == {d \in Creators : OnSlot(d)}
<1>1. IsFiniteSet(on) /\ c \in on
  BY SessionsAssumption, FS_Subset
<1>2. Cardinality(on) # 0 /\ Cardinality(on) \in Nat
  BY <1>1, FS_EmptySet, FS_CardinalityType
<1>. QED
  BY <1>2 DEF SlotsAreExact

\* A creator that steps onto a slot takes one, and one that steps off gives
\* one back.
LEMMA CountStep ==
    ASSUME TypeOK, SlotsAreExact, NEW c \in Creators,
           \A d \in Creators \ {c} : OnSlot(d)' <=> OnSlot(d),
           \/ UNCHANGED slots /\ (OnSlot(c)' <=> OnSlot(c))
           \/ slots' = slots + 1 /\ ~OnSlot(c) /\ OnSlot(c)'
           \/ slots' = slots - 1 /\ OnSlot(c) /\ ~OnSlot(c)'
    PROVE  slots' = Cardinality({d \in Creators : OnSlot(d)})'
<1>. DEFINE on == {d \in Creators : OnSlot(d)}
<1>1. IsFiniteSet(on) /\ slots = Cardinality(on)
  BY SessionsAssumption, FS_Subset DEF SlotsAreExact
<1>2. CASE UNCHANGED slots /\ (OnSlot(c)' <=> OnSlot(c))
  <2>1. on' = on
    BY <1>2
  <2>. QED
    BY <1>1, <1>2, <2>1
<1>3. CASE slots' = slots + 1 /\ ~OnSlot(c) /\ OnSlot(c)'
  <2>1. on' = on \cup {c} /\ c \notin on
    BY <1>3
  <2>2. Cardinality(on \cup {c}) = Cardinality(on) + 1
    BY <1>1, <2>1, FS_AddElement
  <2>. QED
    BY <1>1, <1>3, <2>1, <2>2
<1>4. CASE slots' = slots - 1 /\ OnSlot(c) /\ ~OnSlot(c)'
  <2>1. on' = on \ {c} /\ c \in on
    BY <1>4
  <2>2. Cardinality(on \ {c}) = Cardinality(on) - 1
    BY <1>1, <2>1, FS_RemoveElement
  <2>. QED
    BY <1>1, <1>4, <2>1, <2>2
<1>. QED
  BY <1>2, <1>3, <1>4

\* Every step keeps the count of the slots.
LEMMA SlotsStep ==
    ASSUME TypeOK, SlotsAreExact, [Next]_vars
    PROVE  SlotsAreExact'
<1>1. ASSUME UNCHANGED <<slots, creator>>
      PROVE  SlotsAreExact'
  BY <1>1 DEF SlotsAreExact, OnSlot, Is
<1>2. ASSUME NEW c \in Creators, CreatorStep(c)
      PROVE  SlotsAreExact'
  <2>. USE SessionsAssumption DEF TypeOK, SlotsAreExact, OnSlot, Is, Becomes
  <2>. DEFINE Counted ==
         /\ \A d \in Creators \ {c} : OnSlot(d)' <=> OnSlot(d)
         /\ \/ UNCHANGED slots /\ (OnSlot(c)' <=> OnSlot(c))
            \/ slots' = slots + 1 /\ ~OnSlot(c) /\ OnSlot(c)'
            \/ slots' = slots - 1 /\ OnSlot(c) /\ ~OnSlot(c)'
         /\ \A d \in Creators : PurposeOf[d] = "background" =>
                creator'[d].pc # "deriving"
  <2>1. ASSUME FindVault(c) PROVE Counted
    BY <2>1 DEF FindVault
  <2>2. ASSUME TakeSlot(c) PROVE Counted
    BY <2>2 DEF TakeSlot, WantsSlot
  <2>3. ASSUME TurnAway(c) PROVE Counted
    BY <2>3 DEF TurnAway
  <2>4. ASSUME DeriveKeys(c) PROVE Counted
    BY <2>4 DEF DeriveKeys
  <2>5. ASSUME SaveVault(c) PROVE Counted
    BY <2>5 DEF SaveVault
  <2>6. ASSUME BeginWork(c) PROVE Counted
    BY <2>6 DEF BeginWork
  <2>7. ASSUME CreateSession(c) PROVE Counted
    BY <2>7 DEF CreateSession, MayCreate
  <2>8. ASSUME CreateRefused(c) PROVE Counted
    BY <2>8 DEF CreateRefused, MayCreate
  <2>9. ASSUME EndHandler(c) PROVE Counted
    BY <2>9 DEF EndHandler
  <2>10. ASSUME WipeCopy(c) PROVE Counted
    BY <2>10 DEF WipeCopy
  <2>11. ASSUME EndWork(c) PROVE Counted
    BY <2>11 DEF EndWork
  <2>12. Counted
    BY <1>2, <2>1, <2>2, <2>3, <2>4, <2>5, <2>6, <2>7, <2>8, <2>9, <2>10,
       <2>11 DEF CreatorStep
  <2>13. slots' = Cardinality({d \in Creators : OnSlot(d)})'
    BY <2>12, CountStep
  <2>. QED
    BY <2>12, <2>13
<1>3. ASSUME NEW r \in Clients, ClientStep(r) \/ \E i \in Ids : Arrive(r, i)
      PROVE  SlotsAreExact'
  BY <1>1, <1>3 DEF ClientStep, GetSession, SeeExpired, Unknown, DropExpired,
     WrongVault, Authorise, EndRequest, Logout, Arrive
<1>4. ASSUME NEW v \in Vaults, DeleteVault(v) \/ DeleteByVault(v)
      PROVE  SlotsAreExact'
  BY <1>1, <1>4 DEF DeleteVault, DeleteByVault
<1>5. CASE Janitor \/ Close \/ Tick \/ UNCHANGED vars
  BY <1>1, <1>5 DEF Janitor, Close, Tick, vars
<1>. QED
  BY <1>2, <1>3, <1>4, <1>5 DEF Next

-----------------------------------------------------------------------------
(* Types, and the closed store.                                            *)

\* What is left in the store and in memory keeps its type.
LEMMA RemoveType ==
    ASSUME TypeOK, NEW ids, NEW copies, Remove(ids, copies)
    PROVE  /\ entry' \in [Ids -> [state : {"unused", "stored", "gone"},
                                  vault : Vaults, expires : Nat]]
           /\ unwiped' \subseteq unwiped
<1>1. NotStored("gone") \in [state : {"unused", "stored", "gone"},
                            vault : Vaults, expires : Nat]
  BY SessionsAssumption DEF NotStored, AnyVault
<1>. QED
  BY <1>1 DEF Remove, TypeOK

\* The part of TypeOK about creators.
CreatorType ==
    creator \in [Creators ->
        [pc : {"idle", "found", "deriving", "unlocked", "saved", "created",
               "failed", "serving", "done"}, id : Ids \cup {NoId}]]

\* A creator goes from one known state to another.
LEMMA BecomesType ==
    ASSUME TypeOK, NEW c \in Creators, NEW i \in Ids \cup {NoId},
           NEW pc \in {"idle", "found", "deriving", "unlocked", "saved",
                       "created", "failed", "serving", "done"},
           Becomes(c, pc, i)
    PROVE  CreatorType'
BY DEF CreatorType, TypeOK, Becomes

\* Every step keeps the types.
LEMMA TypeStep ==
    ASSUME TypeOK, SlotsAreExact, [Next]_vars
    PROVE  TypeOK'
<1>. USE DEF TypeOK, store
<1>1. ASSUME NEW c \in Creators, CreatorStep(c)
      PROVE  TypeOK'
  <2>. USE SessionsAssumption, SlotTaken DEF Is, Becomes, NoId
  <2>1. CASE FindVault(c)
    BY <2>1 DEF FindVault
  <2>2. CASE TakeSlot(c)
    BY <2>2 DEF TakeSlot, SlotFree
  <2>3. CASE TurnAway(c)
    BY <2>3 DEF TurnAway
  <2>4. CASE DeriveKeys(c)
    <3>1. slots > 0
      BY <2>4, SlotTaken DEF DeriveKeys, OnSlot, SlotsAreExact
    <3>2. slots' \in 0 .. ScryptSlots
      BY <2>4, <3>1 DEF DeriveKeys
    <3>3. Becomes(c, "idle", NoId) \/ Becomes(c, "unlocked", NoId)
      BY <2>4 DEF DeriveKeys
    <3>4. CreatorType'
      BY <3>3, BecomesType
    <3>5. unwiped' \subseteq unwiped \cup {CreatorKeys(c)}
      BY <2>4 DEF DeriveKeys
    <3>. QED
      BY <2>4, <3>2, <3>4, <3>5 DEF DeriveKeys, CreatorType
  <2>5. CASE SaveVault(c)
    BY <2>5 DEF SaveVault
  <2>6. CASE BeginWork(c)
    BY <2>6 DEF BeginWork
  <2>7. CASE CreateSession(c)
    <3>1. now + Lifetime \in Nat /\ VaultFor[c] \in Vaults
      OBVIOUS
    <3>2. PICK i \in Ids :
              /\ entry' = [entry EXCEPT ![i] =
                     [state |-> "stored", vault |-> VaultFor[c],
                      expires |-> now + Lifetime]]
              /\ unwiped' = unwiped \cup {StoreKeys(i)}
              /\ creator' = [creator EXCEPT ![c] = [pc |-> "created", id |-> i]]
      BY <2>7 DEF CreateSession
    <3>3. entry' \in [Ids -> [state : {"unused", "stored", "gone"},
                             vault : Vaults, expires : Nat]]
      BY <3>1, <3>2
    <3>4. /\ creator' \in [Creators ->
                 [pc : {"idle", "found", "deriving", "unlocked", "saved",
                        "created", "failed", "serving", "done"},
                  id : Ids \cup {0}]]
          /\ unwiped' \subseteq {StoreKeys(j) : j \in Ids}
                 \cup {ClientKeys(r) : r \in Clients} \cup {LeftKeys}
                 \cup {CreatorKeys(d) : d \in Creators}
      BY <3>2
    <3>. QED
      BY <2>7, <3>3, <3>4 DEF CreateSession
  <2>8. CASE CreateRefused(c)
    BY <2>8 DEF CreateRefused
  <2>9. CASE EndHandler(c)
    <3>1. OnSlot(c)
      BY <2>9 DEF EndHandler, OnSlot, SlotsAreExact
    <3>. QED
      BY <2>9, <3>1 DEF EndHandler
  <2>10. CASE WipeCopy(c)
    <3>1. creator[c].id \in Ids \cup {NoId} /\ NoId \in Ids \cup {NoId}
      OBVIOUS
    <3>2. \/ Becomes(c, "serving", creator[c].id)
          \/ Becomes(c, "idle", NoId)
      BY <2>10 DEF WipeCopy
    <3>3. CreatorType'
      BY <3>1, <3>2, BecomesType
    <3>. QED
      BY <2>10, <3>3 DEF WipeCopy, CreatorType
  <2>11. CASE EndWork(c)
    BY <2>11, RemoveType DEF EndWork
  <2>. QED
    BY <1>1, <2>1, <2>2, <2>3, <2>4, <2>5, <2>6, <2>7, <2>8, <2>9, <2>10,
       <2>11 DEF CreatorStep
<1>2. ASSUME NEW r \in Clients, ClientStep(r) \/ \E i \in Ids : Arrive(r, i)
      PROVE  TypeOK'
  <2>. USE SessionsAssumption DEF At, NoId
  <2>1. CASE GetSession(r)
    BY <2>1 DEF GetSession, Snapshot
  <2>2. CASE SeeExpired(r)
    BY <2>2 DEF SeeExpired
  <2>3. CASE Unknown(r)
    BY <2>3 DEF Unknown, Leaves, Away
  <2>4. CASE DropExpired(r)
    BY <2>4, RemoveType DEF DropExpired, Leaves, Away
  <2>5. CASE WrongVault(r)
    BY <2>5 DEF WrongVault, Leaves, Away
  <2>6. CASE Authorise(r)
    <3>1. /\ now + Lifetime \in Nat
          /\ \A i \in Ids : entry'[i] \in
                 [state : {"unused", "stored", "gone"}, vault : Vaults,
                  expires : Nat]
      BY <2>6 DEF Authorise
    <3>2. entry' \in [Ids -> [state : {"unused", "stored", "gone"},
                             vault : Vaults, expires : Nat]]
      BY <2>6, <3>1 DEF Authorise
    <3>. QED
      BY <2>6, <3>2 DEF Authorise
  <2>7. CASE EndRequest(r)
    BY <2>7 DEF EndRequest, Leaves, Away
  <2>8. CASE Logout(r)
    BY <2>8, RemoveType DEF Logout, Leaves, Away
  <2>9. CASE \E i \in Ids : Arrive(r, i)
    BY <2>9 DEF Arrive, Issued
  <2>. QED
    BY <1>2, <2>1, <2>2, <2>3, <2>4, <2>5, <2>6, <2>7, <2>8, <2>9 DEF
       ClientStep
<1>3. ASSUME NEW v \in Vaults, DeleteVault(v) \/ DeleteByVault(v)
      PROVE  TypeOK'
  BY <1>3, RemoveType DEF DeleteVault, DeleteByVault
<1>4. CASE Janitor \/ Close
  BY <1>4, RemoveType DEF Janitor, Close
<1>5. CASE Tick \/ UNCHANGED vars
  BY <1>5, SessionsAssumption DEF Tick, vars
<1>. QED
  BY <1>1, <1>2, <1>3, <1>4, <1>5 DEF Next

\* Only Create stores a session, and only in an open store.
LEMMA ClosedStep ==
    ASSUME TypeOK, ClosedIsEmpty, [Next]_vars
    PROVE  ClosedIsEmpty'
<1>. USE DEF ClosedIsEmpty, store
<1>1. ASSUME UNCHANGED closed, Stored' \subseteq Stored
      PROVE  ClosedIsEmpty'
  BY <1>1
<1>2. ASSUME NEW ids, NEW copies, Remove(ids, copies)
      PROVE  Stored' = Stored \ ids
  BY <1>2 DEF Remove, NotStored, Stored, TypeOK
<1>3. ASSUME NEW c \in Creators, CreatorStep(c)
      PROVE  ClosedIsEmpty'
  <2>1. CASE CreateSession(c)
    BY <2>1 DEF CreateSession
  <2>2. CASE EndWork(c)
    BY <1>1, <1>2, <2>2 DEF EndWork
  <2>3. CASE UNCHANGED store
    BY <1>1, <2>3 DEF Stored
  <2>. QED
    BY <1>3, <2>1, <2>2, <2>3 DEF CreatorStep, FindVault, TakeSlot, TurnAway,
       DeriveKeys, SaveVault, BeginWork, CreateRefused, EndHandler, WipeCopy
<1>4. ASSUME NEW r \in Clients, ClientStep(r) \/ \E i \in Ids : Arrive(r, i)
      PROVE  ClosedIsEmpty'
  <2>1. CASE DropExpired(r) \/ Logout(r)
    BY <1>1, <1>2, <2>1 DEF DropExpired, Logout
  <2>2. CASE Authorise(r)
    BY <1>1, <2>2 DEF Authorise, Stored, TypeOK
  <2>3. CASE UNCHANGED store
    BY <1>1, <2>3 DEF Stored
  <2>. QED
    BY <1>4, <2>1, <2>2, <2>3 DEF ClientStep, GetSession, SeeExpired, Unknown,
       WrongVault, EndRequest, Arrive
<1>5. ASSUME NEW v \in Vaults, DeleteVault(v) \/ DeleteByVault(v)
      PROVE  ClosedIsEmpty'
  BY <1>1, <1>2, <1>5 DEF DeleteVault, DeleteByVault, Stored
<1>6. CASE Janitor
  BY <1>1, <1>2, <1>6 DEF Janitor
<1>7. CASE Close
  BY <1>2, <1>7 DEF Close
<1>8. CASE Tick \/ UNCHANGED vars
  BY <1>1, <1>8 DEF Tick, vars, Stored
<1>. QED
  BY <1>3, <1>4, <1>5, <1>6, <1>7, <1>8 DEF Next

-----------------------------------------------------------------------------
(* The theorems.                                                           *)

\* At the start nothing is stored, derived or held.
LEMMA InitEstablishesInv == Init => IInv
<1>. SUFFICES ASSUME Init PROVE IInv
  OBVIOUS
<1>1. TypeOK
  <2>1. NotStored("unused") \in [state : {"unused", "stored", "gone"},
                                vault : Vaults, expires : Nat]
    BY SessionsAssumption DEF NotStored, AnyVault
  <2>2. entry \in [Ids -> [state : {"unused", "stored", "gone"},
                           vault : Vaults, expires : Nat]]
    BY <2>1 DEF Init
  <2>3. now \in 0 .. MaxTime /\ slots \in 0 .. ScryptSlots
    BY SessionsAssumption DEF Init
  <2>. QED
    BY <2>2, <2>3 DEF Init, TypeOK, Away, NoId
<1>2. SlotsAreExact
  <2>1. {c \in Creators : OnSlot(c)} = {}
    BY DEF Init, OnSlot
  <2>. QED
    BY <2>1, FS_EmptySet DEF Init, SlotsAreExact, Is
<1>3. Copies /\ ClosedIsEmpty
  BY DEF Init, Copies, ClosedIsEmpty, Stored, NotStored, Uses, Holds, At, Away
<1>. QED
  BY <1>1, <1>2, <1>3 DEF IInv

\* The invariant holds in every reachable state.
THEOREM SessionInvariance == Spec => []IInv
<1>1. IInv /\ [Next]_vars => IInv'
  BY TypeStep, SlotsStep, CopiesStep, ClosedStep DEF IInv
<1>. QED
  BY <1>1, InitEstablishesInv, PTL DEF Spec

\* Types, and with them the limit on key derivations: however many logins and
\* creations of vaults there are, no more than ScryptSlots have taken a slot.
THEOREM DerivationsAreLimited == Spec => []TypeOK
<1>1. IInv => TypeOK
  BY DEF IInv
<1>. QED
  BY <1>1, SessionInvariance, PTL

\* Get, Delete, expiry, DeleteByVault and Close never wipe keys that a request
\* works with, and they leave none behind that nobody holds.
THEOREM KeysAreWiped == Spec => []KeysAreExact
<1>1. IInv => KeysAreExact
  BY CopiesAreKeys DEF IInv
<1>. QED
  BY <1>1, SessionInvariance, PTL

\* After Close, Create has no effect: the store stays empty, though handlers
\* and background work may outlive it.
THEOREM ClosedStaysEmpty == Spec => []ClosedIsEmpty
<1>1. IInv => ClosedIsEmpty
  BY DEF IInv
<1>. QED
  BY <1>1, SessionInvariance, PTL
=============================================================================
