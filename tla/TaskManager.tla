----------------------------- MODULE TaskManager -----------------------------
(***************************************************************************)
(* The background task manager of internal/task/manager.go together with   *)
(* the two things that drive its lifecycle: the deletion of a vault        *)
(* (internal/api/auth.go, handleDeleteVault) and the shutdown of the       *)
(* server (cmd/server/main.go).                                            *)
(*                                                                         *)
(* A task is an import or an index rebuild.  Its Start* call runs in an    *)
(* HTTP handler (start[t]); once admitted, its worker runs in a goroutine  *)
(* of its own (work[t]).  Every critical section of Manager.mu is one      *)
(* action, so all interleavings of starters, workers, deletions and the    *)
(* shutdown are behaviours of the model.                                   *)
(***************************************************************************)
EXTENDS Naturals, FiniteSets

CONSTANTS
    Tasks,          \* task ids; each is used by at most one Start* call
    Vaults,
    Deleters,       \* concurrent requests to delete a vault
    VaultOf,        \* the vault a task belongs to
    KindOf,         \* "import" or "index"
    NoTask,         \* the absent entry of runningByVaultType
    NoVault,
    MaxAttempts,    \* bound on the deletion requests each deleter makes
    MaxLostWrites,  \* bound on the status writes the database loses
    MaxRestarts     \* bound on crashes and restarts of the process

Kinds == {"import", "index"}

ASSUME TasksAssumption ==
    /\ VaultOf \in [Tasks -> Vaults]
    /\ KindOf \in [Tasks -> Kinds]
    /\ NoTask \notin Tasks
    /\ NoVault \notin Vaults

ASSUME BoundsAssumption ==
    MaxAttempts \in Nat /\ MaxLostWrites \in Nat /\ MaxRestarts \in Nat

VARIABLES
    \* Manager
    closed,              \* no new work: Shutdown has begun
    quiescingVaults,     \* vaults that carry a deletion tombstone
    resumeVaults,        \* vaults whose ResumeVault was deferred
    pendingStarts,       \* Start* calls between begin and finish
    running,             \* registered workers
    runningByVaultType,  \* the exclusive slot of each vault and kind
    taskRunKeys,         \* tasks that own a slot
    \* goroutines
    start,               \* progress of the Start* call of a task
    work,                \* progress of the worker of a task
    cancelled,           \* tasks whose context is cancelled
    \* what a restart keeps, and the sessions it does not keep
    row,                 \* the task's row in the tasks table, or "none"
    vaultRows,           \* vaults that have a row in the vaults table
    sessions,            \* vaults a request can still be authorised for
    \* the requests that delete vaults
    delPc, delVault, delRuns, delStarts, attempts,
    \* the shutdown sequence of main and the restart count
    main, restarts,
    \* history
    standing,            \* deleters whose tombstone was never lifted
    lost                 \* rows whose last status write was lost

mgrVars == <<closed, quiescingVaults, resumeVaults, pendingStarts, running,
             runningByVaultType, taskRunKeys>>
gateVars == <<quiescingVaults, resumeVaults, standing>>
slotVars == <<runningByVaultType, taskRunKeys>>
dbVars == <<row, vaultRows, sessions, lost>>
delVars == <<delPc, delVault, delRuns, delStarts, attempts>>
mainVars == <<main, restarts>>
vars == <<mgrVars, start, work, cancelled, dbVars, delVars, mainVars, standing>>

Terminal == {"done", "error", "cancelled"}
StartStates == {"idle", "authed", "begun", "reserved", "returning", "returned"}
WorkStates == {"none", "working", "settled", "unregistered", "exited", "gone"}
DelStates == {"idle", "found", "cancelling", "draining", "quiesced", "failed",
              "rowsGone", "forgetting"}
MainStates == {"serving", "waitStarts", "waitWorkers", "drained"}

KeyOf(t) == <<VaultOf[t], KindOf[t]>>
TasksOf(v) == {t \in Tasks : VaultOf[t] = v}

\* The goroutine of t, starter or worker, may still touch the vault.
Busy(t) ==
    \/ start[t] \in {"begun", "reserved", "returning"}
    \/ work[t] \in {"working", "settled"}

-----------------------------------------------------------------------------
(* The exclusive slot of a vault and kind.                                 *)

\* Mutant: the slot is not looked at.
BugSlotFree(t) == TRUE

SlotFree(t) == runningByVaultType[KeyOf(t)] = NoTask

TakeSlot(t) ==
    /\ runningByVaultType' = [runningByVaultType EXCEPT ![KeyOf(t)] = t]
    /\ taskRunKeys' = taskRunKeys \cup {t}

ReleaseSlot(t) ==
    IF t \in taskRunKeys
    THEN /\ runningByVaultType' =
                [runningByVaultType EXCEPT ![KeyOf(t)] = NoTask]
         /\ taskRunKeys' = taskRunKeys \ {t}
    ELSE UNCHANGED slotVars

-----------------------------------------------------------------------------
(* The tombstone of a vault.                                               *)

LiftTombstone(v) ==
    /\ quiescingVaults' = quiescingVaults \ {v}
    /\ resumeVaults' = resumeVaults \ {v}
    /\ standing' = {d \in standing : delVault[d] # v}

KeepTombstone == UNCHANGED gateVars

\* Some worker of runs or some Start* call of starts belongs to v.
HasOwner(v, runs, starts) == \E t \in runs \cup starts : VaultOf[t] = v

\* Mutant: the owner that leaves is counted as one that is left.
BugMaybeResumeVault(v, runs, starts) ==
    IF v \in resumeVaults /\ ~closed /\ ~HasOwner(v, running, starts)
    THEN LiftTombstone(v)
    ELSE KeepTombstone

\* maybeResumeVaultLocked: a deferred resume is honoured by the last owner.
MaybeResumeVault(v, runs, starts) ==
    IF v \in resumeVaults /\ ~closed /\ ~HasOwner(v, runs, starts)
    THEN LiftTombstone(v)
    ELSE KeepTombstone

\* Mutant: the tombstone is not looked at.
BugOpen(t) == ~closed

\* The admission test that the starter repeats in each critical section.
Open(t) == ~closed /\ VaultOf[t] \notin quiescingVaults

-----------------------------------------------------------------------------
(* The Start* call of a task.                                              *)

\* authMiddleware accepts the request and copies the session's keys.
Authorize(t) ==
    /\ start[t] = "idle"
    /\ VaultOf[t] \in sessions
    /\ main = "serving"
    /\ start' = [start EXCEPT ![t] = "authed"]
    /\ UNCHANGED <<mgrVars, work, cancelled, dbVars, delVars, mainVars, standing>>

BeginTaskStart(t) ==
    /\ start[t] = "authed"
    /\ IF Open(t)
       THEN /\ pendingStarts' = pendingStarts \cup {t}
            /\ start' = [start EXCEPT ![t] = "begun"]
       ELSE /\ start' = [start EXCEPT ![t] = "returned"]
            /\ UNCHANGED pendingStarts
    /\ UNCHANGED <<closed, gateVars, running, slotVars, work, cancelled,
                   dbVars, delVars, mainVars>>

\* Only an import validates its source before it reserves.
RejectSource(t) ==
    /\ start[t] = "begun"
    /\ KindOf[t] = "import"
    /\ start' = [start EXCEPT ![t] = "returning"]
    /\ UNCHANGED <<mgrVars, work, cancelled, dbVars, delVars, mainVars, standing>>

ReserveExclusiveTask(t) ==
    /\ start[t] = "begun"
    /\ IF Open(t) /\ SlotFree(t)
       THEN TakeSlot(t) /\ start' = [start EXCEPT ![t] = "reserved"]
       ELSE start' = [start EXCEPT ![t] = "returning"] /\ UNCHANGED slotVars
    /\ UNCHANGED <<closed, gateVars, pendingStarts, running, work, cancelled,
                   dbVars, delVars, mainVars>>

\* Counting the files, the admission test or CreateTask failed: the deferred
\* call gives the slot back.
AbandonStart(t) ==
    /\ start[t] = "reserved"
    /\ ReleaseSlot(t)
    /\ start' = [start EXCEPT ![t] = "returning"]
    /\ UNCHANGED <<closed, gateVars, pendingStarts, running, work, cancelled,
                   dbVars, delVars, mainVars>>

\* CreateTask also prunes old terminal rows of the vault.
CreateTask(t, old) ==
    /\ old \subseteq {u \in TasksOf(VaultOf[t]) : row[u] \in Terminal}
    /\ row' = [u \in Tasks |-> CASE u = t -> "running"
                                 [] u \in old -> "none"
                                 [] OTHER -> row[u]]
    /\ UNCHANGED <<vaultRows, sessions, lost>>

\* The test under which admitBackgroundTask inserts the row.
AdmitTest(t) == Open(t)

AdmitBackgroundTask(t) ==
    /\ start[t] = "reserved"
    /\ AdmitTest(t)
    /\ \E old \in SUBSET Tasks : CreateTask(t, old)
    /\ running' = running \cup {t}
    /\ work' = [work EXCEPT ![t] = "working"]
    /\ start' = [start EXCEPT ![t] = "returning"]
    /\ UNCHANGED <<closed, gateVars, pendingStarts, slotVars, cancelled,
                   delVars, mainVars>>

\* Mutant: a closed manager forgets to take the start off.
BugFinishTaskStart(t) ==
    /\ start[t] = "returning"
    /\ IF closed THEN UNCHANGED <<pendingStarts, gateVars>>
       ELSE /\ pendingStarts' = pendingStarts \ {t}
            /\ MaybeResumeVault(VaultOf[t], running, pendingStarts \ {t})
    /\ start' = [start EXCEPT ![t] = "returned"]
    /\ UNCHANGED <<closed, running, slotVars, work, cancelled, dbVars, delVars,
                   mainVars>>

FinishTaskStart(t) ==
    /\ start[t] = "returning"
    /\ pendingStarts' = pendingStarts \ {t}
    /\ MaybeResumeVault(VaultOf[t], running, pendingStarts \ {t})
    /\ start' = [start EXCEPT ![t] = "returned"]
    /\ UNCHANGED <<closed, running, slotVars, work, cancelled, dbVars, delVars,
                   mainVars>>

-----------------------------------------------------------------------------
(* The worker of a task: runImport or runRebuildIndex.                     *)

\* A failure wins over nothing, a cancellation is reported only when the
\* context was cancelled, and one that comes after the last test is not seen.
Outcomes(t) ==
    {"done", "error"} \cup (IF t \in cancelled THEN {"cancelled"} ELSE {})

\* updateTask: UPDATE touches no row that was deleted; an error is only logged.
UpdateTask(t, status) ==
    \/ /\ row' = [row EXCEPT ![t] = IF @ = "none" THEN @ ELSE status]
       /\ lost' = lost \ {t}
    \/ /\ Cardinality(lost \cup {t}) <= MaxLostWrites
       /\ lost' = lost \cup {t}
       /\ UNCHANGED row

\* The walk has ended; the terminal state is persisted.
Settle(t) ==
    /\ work[t] = "working"
    /\ \E status \in Outcomes(t) : UpdateTask(t, status)
    /\ work' = [work EXCEPT ![t] = "settled"]
    /\ UNCHANGED <<mgrVars, start, cancelled, vaultRows, sessions, delVars,
                   mainVars, standing>>

FinishRun(t) ==
    /\ work[t] = "settled"
    /\ running' = running \ {t}
    /\ ReleaseSlot(t)
    /\ MaybeResumeVault(VaultOf[t], running \ {t}, pendingStarts)
    /\ work' = [work EXCEPT ![t] = "unregistered"]
    /\ UNCHANGED <<closed, pendingStarts, start, cancelled, dbVars, delVars,
                   mainVars>>

\* close(run.done), then wg.Done().
CloseDone(t) ==
    /\ work[t] = "unregistered"
    /\ work' = [work EXCEPT ![t] = "exited"]
    /\ UNCHANGED <<mgrVars, start, cancelled, dbVars, delVars, mainVars, standing>>

LeaveWaitGroup(t) ==
    /\ work[t] = "exited"
    /\ work' = [work EXCEPT ![t] = "gone"]
    /\ UNCHANGED <<mgrVars, start, cancelled, dbVars, delVars, mainVars, standing>>

-----------------------------------------------------------------------------
(* Requests about existing tasks.                                          *)

CancelTask(t) ==
    /\ t \in running
    /\ cancelled' = cancelled \cup {t}
    /\ UNCHANGED <<mgrVars, start, work, dbVars, delVars, mainVars, standing>>

\* handleDeleteTask refuses a row that is still running.
DeleteTask(t) ==
    /\ main # "drained"
    /\ row[t] \in Terminal
    /\ row' = [row EXCEPT ![t] = "none"]
    /\ UNCHANGED <<mgrVars, start, work, cancelled, vaultRows, sessions, lost,
                   delVars, mainVars, standing>>

DeleteCompletedTasks(v) ==
    /\ main # "drained"
    /\ row' = [t \in Tasks |-> IF VaultOf[t] = v /\ row[t] \in Terminal
                               THEN "none" ELSE row[t]]
    /\ UNCHANGED <<mgrVars, start, work, cancelled, vaultRows, sessions, lost,
                   delVars, mainVars, standing>>

-----------------------------------------------------------------------------
(* handleDeleteVault.                                                      *)

DelStep(d, from, to) == delPc[d] = from /\ delPc' = [delPc EXCEPT ![d] = to]

FindVault(d, v) ==
    /\ DelStep(d, "idle", "found")
    /\ v \in vaultRows
    /\ main = "serving"
    /\ attempts[d] < MaxAttempts
    /\ attempts' = [attempts EXCEPT ![d] = @ + 1]
    /\ delVault' = [delVault EXCEPT ![d] = v]
    /\ UNCHANGED <<mgrVars, start, work, cancelled, dbVars, delRuns, delStarts,
                   mainVars, standing>>

\* The workers that QuiesceVault cancels and waits for.
QuiesceTargets(v) == {t \in running : VaultOf[t] = v}

\* QuiesceVault, the critical section.
PublishTombstone(d) ==
    LET v == delVault[d] IN
    /\ ~closed
    /\ DelStep(d, "found", "cancelling")
    /\ quiescingVaults' = quiescingVaults \cup {v}
    /\ delRuns' = [delRuns EXCEPT ![d] = QuiesceTargets(v)]
    /\ delStarts' = [delStarts EXCEPT ![d] =
                        {t \in pendingStarts : VaultOf[t] = v}]
    /\ standing' = standing \cup {d}
    /\ UNCHANGED <<closed, resumeVaults, pendingStarts, running, slotVars,
                   start, work, cancelled, dbVars, delVault, attempts,
                   mainVars>>

RefuseQuiesce(d) ==
    /\ closed
    /\ DelStep(d, "found", "failed")
    /\ UNCHANGED <<mgrVars, start, work, cancelled, dbVars, delVault, delRuns,
                   delStarts, attempts, mainVars, standing>>

CancelTargets(d) ==
    /\ DelStep(d, "cancelling", "draining")
    /\ cancelled' = cancelled \cup delRuns[d]
    /\ UNCHANGED <<mgrVars, start, work, dbVars, delVault, delRuns, delStarts,
                   attempts, mainVars, standing>>

\* Mutant: only the starters are waited for, not the workers.
BugTargetsExited(d) == \A t \in delStarts[d] : start[t] = "returned"

\* Every done channel QuiesceVault waits on is closed.
TargetsExited(d) ==
    /\ \A t \in delRuns[d] : work[t] \in {"exited", "gone"}
    /\ \A t \in delStarts[d] : start[t] = "returned"

\* QuiesceVault returns nil.
Quiesced(d) ==
    /\ DelStep(d, "draining", "quiesced")
    /\ TargetsExited(d)
    /\ UNCHANGED <<mgrVars, start, work, cancelled, dbVars, delVault, delRuns,
                   delStarts, attempts, mainVars, standing>>

\* The five-second deadline passes in one of QuiesceVault's selects.
QuiesceTimeout(d) ==
    /\ delRuns[d] \cup delStarts[d] # {}
    /\ DelStep(d, "draining", "failed")
    /\ UNCHANGED <<mgrVars, start, work, cancelled, dbVars, delVault, delRuns,
                   delStarts, attempts, mainVars, standing>>

\* A later step fails before any file is removed: thumbnails or streams do not
\* stop in time, or the rows alone were to go and the database refused.
LaterStepFails(d) ==
    /\ DelStep(d, "quiesced", "failed")
    /\ UNCHANGED <<mgrVars, start, work, cancelled, dbVars, delVault, delRuns,
                   delStarts, attempts, mainVars, standing>>

\* Files could not be isolated, were removed in part, or were removed and then
\* the database refused: the handler returns and leaves the tombstone.
StayQuiesced(d) ==
    /\ DelStep(d, "quiesced", "idle")
    /\ standing' = standing \ {d}
    /\ UNCHANGED <<mgrVars, start, work, cancelled, dbVars, delVault, delRuns,
                   delStarts, attempts, mainVars>>

\* Mutant: a resume is never deferred.
BugResumeVault(d) ==
    /\ DelStep(d, "failed", "idle")
    /\ LiftTombstone(delVault[d])
    /\ UNCHANGED <<closed, pendingStarts, running, slotVars, start, work,
                   cancelled, dbVars, delVault, delRuns, delStarts, attempts,
                   mainVars>>

\* ResumeVault: deferred while a worker or a Start* call of the vault remains.
ResumeVault(d) ==
    LET v == delVault[d] IN
    /\ DelStep(d, "failed", "idle")
    /\ IF HasOwner(v, running, pendingStarts)
       THEN /\ resumeVaults' = resumeVaults \cup {v}
            /\ standing' = standing \ {d}
            /\ UNCHANGED quiescingVaults
       ELSE LiftTombstone(v)
    /\ UNCHANGED <<closed, pendingStarts, running, slotVars, start, work,
                   cancelled, dbVars, delVault, delRuns, delStarts, attempts,
                   mainVars>>

\* db.DeleteVault: one transaction.
DeleteVault(d) ==
    LET v == delVault[d] IN
    /\ main # "drained"
    /\ DelStep(d, "quiesced", "rowsGone")
    /\ vaultRows' = vaultRows \ {v}
    /\ row' = [t \in Tasks |-> IF VaultOf[t] = v THEN "none" ELSE row[t]]
    /\ UNCHANGED <<mgrVars, start, work, cancelled, sessions, lost, delVault,
                   delRuns, delStarts, attempts, mainVars, standing>>

DropSessions(d) ==
    /\ DelStep(d, "rowsGone", "forgetting")
    /\ sessions' = sessions \ {delVault[d]}
    /\ UNCHANGED <<mgrVars, start, work, cancelled, row, vaultRows, lost,
                   delVault, delRuns, delStarts, attempts, mainVars,
                   standing>>

\* ForgetVault refuses while an owner remains.
ForgetVault(d) ==
    LET v == delVault[d] IN
    /\ DelStep(d, "forgetting", "idle")
    /\ IF HasOwner(v, running, pendingStarts)
       THEN standing' = standing \ {d} /\ UNCHANGED <<quiescingVaults, resumeVaults>>
       ELSE LiftTombstone(v)
    /\ UNCHANGED <<closed, pendingStarts, running, slotVars, start, work,
                   cancelled, dbVars, delVault, delRuns, delStarts, attempts,
                   mainVars>>

-----------------------------------------------------------------------------
(* Shutdown of the server, and restart after it or after a crash.          *)

Shutdown ==
    /\ main = "serving"
    /\ main' = "waitStarts"
    /\ closed' = TRUE
    /\ cancelled' = cancelled \cup running
    /\ UNCHANGED <<gateVars, pendingStarts, running, slotVars, start, work,
                   dbVars, delVars, restarts>>

\* startWg.Wait(): one count per pending start.
StartsDrained ==
    /\ main = "waitStarts"
    /\ pendingStarts = {}
    /\ main' = "waitWorkers"
    /\ UNCHANGED <<mgrVars, start, work, cancelled, dbVars, delVars, restarts,
                   standing>>

\* wg.Wait(): one count per worker goroutine.  main then closes the database.
WorkersDrained ==
    /\ main = "waitWorkers"
    /\ \A t \in Tasks : work[t] \in {"none", "gone"}
    /\ main' = "drained"
    /\ UNCHANGED <<mgrVars, start, work, cancelled, dbVars, delVars, restarts,
                   standing>>

\* Mutant: nothing is recovered.
BugRecoverTasks(failed) == UNCHANGED row /\ lost' = failed
\* Mutant: settled rows are recovered too.
Bug2RecoverTasks(failed) ==
    /\ row' = [t \in Tasks |-> IF row[t] = "none" THEN "none" ELSE "error"]
    /\ lost' = failed
\* Mutant: a status that nobody knows.
Bug3RecoverTasks(failed) ==
    /\ row' = [t \in Tasks |-> IF row[t] = "running" THEN "interrupted"
                            ELSE row[t]]
    /\ lost' = failed

\* recoverTasks: rows still running become errors; an update that fails is
\* only logged.
RecoverTasks(failed) ==
    /\ failed \subseteq {t \in Tasks : row[t] = "running"}
    /\ Cardinality(failed) <= MaxLostWrites
    /\ row' = [t \in Tasks |-> IF row[t] = "running" /\ t \notin failed
                               THEN "error" ELSE row[t]]
    /\ lost' = failed

\* The process ends at any point; NewManager starts from the tables alone and
\* clients log in again.
Restart ==
    /\ restarts < MaxRestarts
    /\ restarts' = restarts + 1
    /\ main' = "serving"
    /\ \E failed \in SUBSET Tasks : RecoverTasks(failed)
    /\ closed' = FALSE
    /\ quiescingVaults' = {} /\ resumeVaults' = {}
    /\ pendingStarts' = {} /\ running' = {} /\ taskRunKeys' = {}
    /\ runningByVaultType' = [k \in Vaults \X Kinds |-> NoTask]
    /\ start' = [t \in Tasks |-> IF start[t] = "idle" THEN "idle" ELSE "returned"]
    /\ work' = [t \in Tasks |-> IF work[t] = "none" THEN "none" ELSE "gone"]
    /\ cancelled' = {}
    /\ sessions' = vaultRows
    /\ delPc' = [d \in Deleters |-> "idle"]
    /\ delVault' = [d \in Deleters |-> NoVault]
    /\ delRuns' = [d \in Deleters |-> {}]
    /\ delStarts' = [d \in Deleters |-> {}]
    /\ standing' = {}
    /\ UNCHANGED <<vaultRows, attempts>>

-----------------------------------------------------------------------------
Init ==
    /\ closed = FALSE
    /\ quiescingVaults = {} /\ resumeVaults = {}
    /\ pendingStarts = {} /\ running = {} /\ taskRunKeys = {}
    /\ runningByVaultType = [k \in Vaults \X Kinds |-> NoTask]
    /\ start = [t \in Tasks |-> "idle"]
    /\ work = [t \in Tasks |-> "none"]
    /\ cancelled = {}
    /\ row = [t \in Tasks |-> "none"]
    /\ vaultRows = Vaults /\ sessions = Vaults
    /\ delPc = [d \in Deleters |-> "idle"]
    /\ delVault = [d \in Deleters |-> NoVault]
    /\ delRuns = [d \in Deleters |-> {}]
    /\ delStarts = [d \in Deleters |-> {}]
    /\ attempts = [d \in Deleters |-> 0]
    /\ main = "serving" /\ restarts = 0
    /\ standing = {} /\ lost = {}

StarterStep(t) ==
    \/ BeginTaskStart(t) \/ RejectSource(t) \/ ReserveExclusiveTask(t)
    \/ AbandonStart(t) \/ AdmitBackgroundTask(t) \/ FinishTaskStart(t)

WorkerStep(t) == Settle(t) \/ FinishRun(t) \/ CloseDone(t) \/ LeaveWaitGroup(t)

DeleterStep(d) ==
    \/ PublishTombstone(d) \/ RefuseQuiesce(d) \/ CancelTargets(d)
    \/ Quiesced(d) \/ QuiesceTimeout(d) \/ LaterStepFails(d) \/ StayQuiesced(d)
    \/ ResumeVault(d) \/ DeleteVault(d) \/ DropSessions(d) \/ ForgetVault(d)

\* The process has ended; only a restart follows.
Exited == main = "drained" /\ UNCHANGED vars

MainStep == StartsDrained \/ WorkersDrained

Next ==
    \/ \E t \in Tasks : \/ Authorize(t) \/ StarterStep(t) \/ WorkerStep(t)
                        \/ CancelTask(t) \/ DeleteTask(t)
    \/ \E v \in Vaults : DeleteCompletedTasks(v)
    \/ \E d \in Deleters : DeleterStep(d) \/ \E v \in Vaults : FindVault(d, v)
    \/ Shutdown \/ MainStep \/ Exited \/ Restart

Spec == Init /\ [][Next]_vars

(* Goroutines that can take a step are scheduled: file walks end, because a *)
(* tree is finite and a cancelled context stops it, and a handler's waits   *)
(* have deadlines.  Clients, crashes and the shutdown signal owe nothing.   *)
Fairness ==
    /\ \A t \in Tasks : WF_vars(StarterStep(t)) /\ WF_vars(WorkerStep(t))
    /\ \A d \in Deleters : WF_vars(DeleterStep(d))
    /\ WF_vars(MainStep)

FairSpec == Spec /\ Fairness
-----------------------------------------------------------------------------
(* Properties.                                                             *)

\* The values the variables take.
TypeOK ==
    /\ closed \in BOOLEAN
    /\ quiescingVaults \subseteq Vaults /\ resumeVaults \subseteq Vaults
    /\ pendingStarts \subseteq Tasks /\ running \subseteq Tasks
    /\ taskRunKeys \subseteq Tasks /\ cancelled \subseteq Tasks
    /\ runningByVaultType \in [Vaults \X Kinds -> Tasks \cup {NoTask}]
    /\ start \in [Tasks -> StartStates]
    /\ work \in [Tasks -> WorkStates]
    /\ row \in [Tasks -> Terminal \cup {"none", "running"}]
    /\ vaultRows \subseteq Vaults /\ sessions \subseteq Vaults
    /\ delPc \in [Deleters -> DelStates]
    /\ delVault \in [Deleters -> Vaults \cup {NoVault}]
    /\ delRuns \in [Deleters -> SUBSET Tasks]
    /\ delStarts \in [Deleters -> SUBSET Tasks]
    /\ attempts \in [Deleters -> Nat]
    /\ main \in MainStates /\ restarts \in Nat
    /\ standing \subseteq Deleters
    /\ lost \subseteq Tasks

\* Between reserveExclusiveTask and finishRun a task excludes every other task
\* of its vault and kind, a cancelled one that is still unwinding included.
HoldsSlot(t) == start[t] = "reserved" \/ work[t] \in {"working", "settled"}
ExclusiveTasks ==
    \A t, u \in Tasks :
        HoldsSlot(t) /\ HoldsSlot(u) /\ KeyOf(t) = KeyOf(u) => t = u

\* A slot is never leaked: whoever is recorded in it still holds it, so every
\* failed start and every ended worker has given its slot back.
SlotsAreHeld ==
    \A k \in Vaults \X Kinds :
        runningByVaultType[k] # NoTask => HoldsSlot(runningByVaultType[k])

\* Both: a slot has one holder, from its reservation to its release.
ExclusiveSlots == ExclusiveTasks /\ SlotsAreHeld

\* QuiesceVault as a barrier: once it has returned nil, and for as long as the
\* tombstone it published stands, no starter and no worker of the vault is
\* under way.
BarrierDrained ==
    \A d \in standing : delPc[d] \in {"quiesced", "rowsGone", "forgetting"} =>
        \A t \in TasksOf(delVault[d]) : ~Busy(t)

\* Behind a standing tombstone no task row comes back after db.DeleteVault.
DeletedRowsStayDeleted ==
    \A d \in standing : delPc[d] \in {"rowsGone", "forgetting"} =>
        \A t \in TasksOf(delVault[d]) : row[t] = "none"

\* A row that says running has a worker that will settle it, unless the write
\* of its last status was lost; a restart leaves none behind.
RunningRowsHaveWorker ==
    \A t \in Tasks : row[t] = "running" => t \in lost \/ work[t] = "working"

\* A deferred ResumeVault is not forgotten: some worker or Start* call of the
\* vault is left that will honour it (unless the manager is closed).
DeferredResumeHasOwner ==
    closed \/ \A v \in resumeVaults : HasOwner(v, running, pendingStarts)

\* main closes the database only when no Start* call and no worker is left.
DrainedIsQuiet ==
    main = "drained" => \A t \in Tasks :
        /\ start[t] \notin {"begun", "reserved", "returning"}
        /\ work[t] \in {"none", "gone"}

\* Both barriers, that of a deletion and that of the shutdown, stand only over
\* work that has ended.
BarriersDrain == BarrierDrained /\ DrainedIsQuiet

\* The manager is a gate in front of its vaults: an owner is a pending Start*
\* call or a registered worker, a seal is a tombstone.
Gate == INSTANCE VaultGate WITH
    Owners <- Tasks, inside <- pendingStarts \cup running,
    sealed <- quiescingVaults

\* The manager implements that gate.
ImplementsGate == Gate!GateSpec

\* A terminal status is final: a row changes it for nothing but its deletion,
\* over crashes and late workers too.
TerminalIsFinal ==
    [][\A t \in Tasks : row[t] \in Terminal => row'[t] \in {row[t], "none"}]_vars

\* Shutdown then Wait end: the manager drains without new work sneaking in.
ShutdownDrains == closed ~> (main = "drained" \/ ~closed)

\* Every deferred ResumeVault is eventually honoured, unless shutdown begins.
DeferredResumeHonoured ==
    \A v \in Vaults : v \in resumeVaults ~> (v \notin resumeVaults \/ closed)

\* manager.go says of ForgetVault that the tombstone stays while a starter could
\* still create a task after the deletion: no row outlives its vault.
NoTaskAfterDeletion ==
    \A t \in Tasks : row[t] # "none" => VaultOf[t] \in vaultRows
=============================================================================
