---------------------------- MODULE SessionStore ----------------------------
(***************************************************************************)
(* The session store (internal/session/store.go) and who uses it: login    *)
(* and vault creation with their limit on key derivations, authMiddleware, *)
(* logout, the status request, the deletion of a vault, and background     *)
(* work that lends FFmpeg a session of its own.                            *)
(*                                                                         *)
(* A copy of the keys of a vault is followed from the moment it is made to *)
(* the moment it is wiped.  A section under the mutex of the store is one  *)
(* action; the clock is read before it, as the code does.                  *)
(***************************************************************************)
EXTENDS Naturals, FiniteSets

CONSTANTS
    Vaults,
    Creators,       \* whoever creates sessions, one at a time
    PurposeOf,      \* "login", "newVault" or "background"
    VaultFor,       \* the vault a creator is about
    Clients,        \* concurrent requests that come with a session
    MaxSessions,    \* bound on the sessions ever created
    ScryptSlots,    \* capacity of scryptSem
    Lifetime,       \* SessionExpiry
    MaxTime         \* bound on the clock

Ids == 1 .. MaxSessions
NoId == 0

ASSUME SessionsAssumption ==
    /\ Vaults # {} /\ IsFiniteSet(Creators)
    /\ PurposeOf \in [Creators -> {"login", "newVault", "background"}]
    /\ VaultFor \in [Creators -> Vaults]
    /\ MaxSessions \in Nat /\ MaxTime \in Nat
    /\ ScryptSlots \in Nat /\ Lifetime \in Nat

VARIABLES
    now,        \* the clock
    closed,     \* the store is closed
    entry,      \* the entry of each session in the store
    slots,      \* scryptSem, slots taken
    creator,    \* progress of each creator
    client,     \* progress of each request
    vaultRows,  \* vaults in the database
    dropping,   \* vaults whose row is deleted and whose sessions are not
    unwiped     \* copies of keys that are in memory

store == <<closed, entry>>
vars == <<now, store, slots, creator, client, vaultRows, dropping, unwiped>>

StoreKeys(i) == [holder |-> "store", of |-> i]
ClientKeys(r) == [holder |-> "client", of |-> r]
CreatorKeys(c) == [holder |-> "creator", of |-> c]
LeftKeys == [holder |-> "nobody"]

Stored == {i \in Ids : entry[i].state = "stored"}
Issued == {i \in Ids : entry[i].state # "unused"}
OfVault(v) == {i \in Stored : entry[i].vault = v}
Expired(i, t) == t > entry[i].expires
At(r, pc) == client[r].pc = pc
Away == [pc |-> "idle", id |-> NoId, time |-> 0]
Leaves(r) == client' = [client EXCEPT ![r] = Away]
Is(c, pc) == creator[c].pc = pc
Becomes(c, pc, i) == creator' = [creator EXCEPT ![c] = [pc |-> pc, id |-> i]]

AnyVault == CHOOSE v \in Vaults : TRUE
NotStored(state) == [state |-> state, vault |-> AnyVault, expires |-> 0]

\* The sessions of ids are zeroed and taken out of the store, and so are the
\* copies that their holders give up at the same time.
Remove(ids, copies) ==
    /\ entry' = [i \in Ids |-> IF i \in ids THEN NotStored("gone") ELSE entry[i]]
    /\ unwiped' = unwiped \ ({StoreKeys(i) : i \in ids} \cup copies)

-----------------------------------------------------------------------------
(* Creators: handleLogin, handleCreateVault, and deriveMediaMetadata and   *)
(* generate for the background work.                                       *)

FindVault(c) ==
    /\ PurposeOf[c] = "login" /\ Is(c, "idle") /\ VaultFor[c] \in vaultRows
    /\ Becomes(c, "found", NoId)
    /\ UNCHANGED <<now, store, slots, client, vaultRows, dropping, unwiped>>

\* Mutant: whoever comes may derive a key.
BugSlotFree == TRUE

SlotFree == slots < ScryptSlots

WantsSlot(c) ==
    \/ PurposeOf[c] = "login" /\ Is(c, "found")
    \/ PurposeOf[c] = "newVault" /\ Is(c, "idle")

TakeSlot(c) ==
    /\ WantsSlot(c) /\ SlotFree
    /\ slots' = slots + 1
    /\ Becomes(c, "deriving", NoId)
    /\ UNCHANGED <<now, store, client, vaultRows, dropping, unwiped>>

\* "server busy, try again", or there is no config to load.
TurnAway(c) ==
    /\ Is(c, "found")
    /\ Becomes(c, "idle", NoId)
    /\ UNCHANGED <<now, store, slots, client, vaultRows, dropping, unwiped>>

\* UnlockVault or InitVault: a wrong password, an I/O error, or the keys.
DeriveKeys(c) ==
    /\ Is(c, "deriving")
    /\ \/ /\ Becomes(c, "idle", NoId) /\ slots' = slots - 1
          /\ UNCHANGED unwiped
       \/ /\ Becomes(c, "unlocked", NoId)
          /\ unwiped' = unwiped \cup {CreatorKeys(c)}
          /\ UNCHANGED slots
    /\ UNCHANGED <<now, store, client, vaultRows, dropping>>

\* A vault is created once; its row may stay without an index entry.
SaveVault(c) ==
    /\ PurposeOf[c] = "newVault" /\ Is(c, "unlocked")
    /\ \E saved \in SUBSET {VaultFor[c]} :
           /\ vaultRows' = vaultRows \cup saved
           /\ \E pc \in {"saved", "failed"} :
                  /\ pc = "saved" => saved # {}
                  /\ Becomes(c, pc, NoId)
    /\ UNCHANGED <<now, store, slots, client, dropping, unwiped>>

\* A job brings its own copy of the keys.
BeginWork(c) ==
    /\ PurposeOf[c] = "background" /\ Is(c, "idle")
    /\ Becomes(c, "unlocked", NoId)
    /\ unwiped' = unwiped \cup {CreatorKeys(c)}
    /\ UNCHANGED <<now, store, slots, client, vaultRows, dropping>>

MayCreate(c) ==
    \/ Is(c, "saved")
    \/ Is(c, "unlocked") /\ PurposeOf[c] # "newVault"

\* Create: a closed store takes no session.  (The lifetime counts from just
\* before the lock is taken.)
CreateSession(c) ==
    /\ MayCreate(c) /\ ~closed
    /\ \E i \in Ids \ Issued :
           /\ \A j \in Ids \ Issued : i <= j
           /\ entry' = [entry EXCEPT ![i] =
                            [state |-> "stored", vault |-> VaultFor[c],
                             expires |-> now + Lifetime]]
           /\ unwiped' = unwiped \cup {StoreKeys(i)}
           /\ Becomes(c, "created", i)
    /\ UNCHANGED <<now, closed, slots, client, vaultRows, dropping>>

CreateRefused(c) ==
    /\ MayCreate(c)
    /\ closed \/ Ids = Issued
    /\ Becomes(c, "failed", NoId)
    /\ UNCHANGED <<now, store, slots, client, vaultRows, dropping, unwiped>>

\* The deferred calls of a handler: the keys are wiped, the slot is given back.
EndHandler(c) ==
    /\ PurposeOf[c] # "background" /\ (Is(c, "created") \/ Is(c, "failed"))
    /\ unwiped' = unwiped \ {CreatorKeys(c)}
    /\ slots' = slots - 1
    /\ Becomes(c, IF PurposeOf[c] = "newVault" THEN "done" ELSE "idle", NoId)
    /\ UNCHANGED <<now, store, client, vaultRows, dropping>>

\* Background work wipes its copy at once; FFmpeg works with the session.
WipeCopy(c) ==
    /\ PurposeOf[c] = "background"
    /\ \/ Is(c, "created") /\ Becomes(c, "serving", creator[c].id)
       \/ Is(c, "failed") /\ Becomes(c, "idle", NoId)
    /\ unwiped' = unwiped \ {CreatorKeys(c)}
    /\ UNCHANGED <<now, store, slots, client, vaultRows, dropping>>

\* The deferred Delete of the session.
EndWork(c) ==
    /\ Is(c, "serving")
    /\ Remove({creator[c].id} \cap Stored, {})
    /\ Becomes(c, "idle", NoId)
    /\ UNCHANGED <<now, closed, slots, client, vaultRows, dropping>>

-----------------------------------------------------------------------------
(* Requests: Get, and what authMiddleware, handleLogout and                *)
(* handleAuthStatus do with its answer.                                    *)

\* The clock is read before the lock is taken.
Arrive(r, i) ==
    /\ At(r, "idle") /\ i \in Issued
    /\ client' = [client EXCEPT ![r] =
                      [pc |-> "arrived", id |-> i, time |-> now]]
    /\ UNCHANGED <<now, store, slots, creator, vaultRows, dropping, unwiped>>

\* Mutant: the request works with the keys of the store.
BugSnapshot(r) == UNCHANGED unwiped

\* The request gets a copy of the keys of its own.
Snapshot(r) == unwiped' = unwiped \cup {ClientKeys(r)}

GetSession(r) ==
    /\ At(r, "arrived") /\ client[r].id \in Stored
    /\ ~Expired(client[r].id, client[r].time)
    /\ Snapshot(r)
    /\ client' = [client EXCEPT ![r] = [@ EXCEPT !.pc = "got", !.time = 0]]
    /\ UNCHANGED <<now, store, slots, creator, vaultRows, dropping>>

SeeExpired(r) ==
    /\ At(r, "arrived") /\ client[r].id \in Stored
    /\ Expired(client[r].id, client[r].time)
    /\ client' = [client EXCEPT ![r].pc = "late"]
    /\ UNCHANGED <<now, store, slots, creator, vaultRows, dropping, unwiped>>

Unknown(r) ==
    /\ At(r, "arrived") /\ client[r].id \notin Stored
    /\ Leaves(r)
    /\ UNCHANGED <<now, store, slots, creator, vaultRows, dropping, unwiped>>

\* The write lock: another request may have refreshed or deleted the session
\* meanwhile.  A logout deletes it in any case.
DropExpired(r) ==
    /\ At(r, "late")
    /\ \E ids \in {{i \in Stored : i = client[r].id},
                   {i \in Stored : i = client[r].id /\ Expired(i, client[r].time)}} :
           Remove(ids, {})
    /\ Leaves(r)
    /\ UNCHANGED <<now, closed, slots, creator, vaultRows, dropping>>

\* The request names another vault: its snapshot is left as it is.
WrongVault(r) ==
    /\ At(r, "got")
    /\ unwiped' = (unwiped \ {ClientKeys(r)}) \cup {LeftKeys}
    /\ Leaves(r)
    /\ UNCHANGED <<now, store, slots, creator, vaultRows, dropping>>

\* Refresh, then the handler.
Authorise(r) ==
    /\ At(r, "got")
    /\ entry' = [i \in Ids |->
                     IF i = client[r].id /\ i \in Stored
                     THEN [entry[i] EXCEPT !.expires = now + Lifetime]
                     ELSE entry[i]]
    /\ client' = [client EXCEPT ![r].pc = "working"]
    /\ UNCHANGED <<now, closed, slots, creator, vaultRows, dropping, unwiped>>

\* The handler returns: its snapshot is wiped.  The status request does not
\* refresh the session.
EndRequest(r) ==
    /\ At(r, "working") \/ At(r, "got")
    /\ unwiped' = unwiped \ {ClientKeys(r)}
    /\ Leaves(r)
    /\ UNCHANGED <<now, store, slots, creator, vaultRows, dropping>>

\* handleLogout, past the streams of the session
Logout(r) ==
    /\ At(r, "got")
    /\ Remove({client[r].id} \cap Stored, {ClientKeys(r)})
    /\ Leaves(r)
    /\ UNCHANGED <<now, closed, slots, creator, vaultRows, dropping>>

-----------------------------------------------------------------------------
(* The deletion of a vault, the janitor, and the end of the process.       *)

DeleteVault(v) ==
    /\ v \in vaultRows
    /\ vaultRows' = vaultRows \ {v} /\ dropping' = dropping \cup {v}
    /\ UNCHANGED <<now, store, slots, creator, client, unwiped>>

DeleteByVault(v) ==
    /\ v \in dropping
    /\ dropping' = dropping \ {v}
    /\ Remove(OfVault(v), {})
    /\ UNCHANGED <<now, closed, slots, creator, client, vaultRows>>

\* Mutant: the keys are zeroed but the entries stay.
BugJanitor ==
    /\ ~closed
    /\ unwiped' = unwiped \ {StoreKeys(i) : i \in {j \in Stored : Expired(j, now)}}
    /\ UNCHANGED <<now, store, slots, creator, client, vaultRows, dropping>>

\* cleanup, every five minutes until the store is closed
Janitor ==
    /\ ~closed /\ \E i \in Stored : Expired(i, now)
    /\ Remove({i \in Stored : Expired(i, now)}, {})
    /\ UNCHANGED <<now, closed, slots, creator, client, vaultRows, dropping>>

\* main returns; handlers whose connections were closed may still run.
Close ==
    /\ ~closed /\ closed' = TRUE
    /\ Remove(Stored, {})
    /\ UNCHANGED <<now, slots, creator, client, vaultRows, dropping>>

Tick ==
    /\ now < MaxTime /\ now' = now + 1
    /\ UNCHANGED <<store, slots, creator, client, vaultRows, dropping, unwiped>>

-----------------------------------------------------------------------------
Init ==
    /\ now = 0 /\ closed = FALSE /\ slots = 0 /\ dropping = {} /\ unwiped = {}
    /\ entry = [i \in Ids |-> NotStored("unused")]
    /\ vaultRows = Vaults \ {VaultFor[c] : c \in {d \in Creators :
                                                    PurposeOf[d] = "newVault"}}
    /\ creator = [c \in Creators |-> [pc |-> "idle", id |-> NoId]]
    /\ client = [r \in Clients |-> Away]

CreatorStep(c) ==
    \/ FindVault(c) \/ TakeSlot(c) \/ TurnAway(c) \/ DeriveKeys(c)
    \/ SaveVault(c) \/ BeginWork(c) \/ CreateSession(c) \/ CreateRefused(c)
    \/ EndHandler(c) \/ WipeCopy(c) \/ EndWork(c)

ClientStep(r) ==
    \/ GetSession(r) \/ SeeExpired(r) \/ Unknown(r) \/ DropExpired(r)
    \/ WrongVault(r) \/ Authorise(r) \/ EndRequest(r) \/ Logout(r)

Next ==
    \/ \E c \in Creators : CreatorStep(c)
    \/ \E r \in Clients : ClientStep(r) \/ \E i \in Ids : Arrive(r, i)
    \/ \E v \in Vaults : DeleteVault(v) \/ DeleteByVault(v)
    \/ Janitor \/ Close \/ Tick

Spec == Init /\ [][Next]_vars

(* The janitor's ticker fires as long as the store is open.                *)
FairSpec == Spec /\ WF_vars(Janitor)

-----------------------------------------------------------------------------
(* Properties.                                                             *)

\* Every variable keeps its type; no more keys are derived at a time than
\* scryptSem allows, and no slot is given back twice.
TypeOK ==
    /\ now \in 0 .. MaxTime /\ closed \in BOOLEAN
    /\ entry \in [Ids -> [state : {"unused", "stored", "gone"},
                          vault : Vaults, expires : Nat]]
    /\ slots \in 0 .. ScryptSlots
    /\ creator \in [Creators ->
           [pc : {"idle", "found", "deriving", "unlocked", "saved", "created",
                  "failed", "serving", "done"}, id : Ids \cup {NoId}]]
    /\ client \in [Clients ->
           [pc : {"idle", "arrived", "late", "got", "working"},
            id : Ids \cup {NoId}, time : Nat]]
    /\ vaultRows \subseteq Vaults /\ dropping \subseteq Vaults
    /\ unwiped \subseteq {StoreKeys(i) : i \in Ids}
           \cup {ClientKeys(r) : r \in Clients} \cup {LeftKeys}
           \cup {CreatorKeys(c) : c \in Creators}

Held ==
    {StoreKeys(i) : i \in Stored}
    \cup {ClientKeys(r) : r \in {s \in Clients : At(s, "got") \/ At(s, "working")}}
    \cup {CreatorKeys(c) : c \in {d \in Creators :
              creator[d].pc \in {"unlocked", "saved", "created", "failed"}}}

\* Whoever holds keys can use them, whatever logout, expiry, deletion or the
\* end of the process do to the session meanwhile; and keys that nobody holds
\* are wiped, those a request of the wrong vault has left aside.
KeysAreExact == unwiped \ {LeftKeys} = Held

\* The keys of a session that has expired do not stay in memory: not behind
\* the janitor, and not in a store that was closed while Create ran.
ExpiredKeysGo ==
    \A i \in Ids :
        i \in Stored /\ Expired(i, now) ~> i \notin Stored \/ ~Expired(i, now)
=============================================================================
