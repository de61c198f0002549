-------------------------- MODULE TaskManagerProofs --------------------------
(***************************************************************************)
(* Proofs about TaskManager for any number of tasks, vaults and deletion   *)
(* requests.                                                               *)
(*                                                                         *)
(* The properties talk about what the goroutines do (start, work), the     *)
(* code decides by what the manager has registered (pendingStarts, running *)
(* and the slot maps).  The inductive invariant IInv ties the two together *)
(* and says what a tombstone that still stands guarantees.                 *)
(***************************************************************************)
EXTENDS TaskManager, TLAPS

\* A task has no worker and no row before its admission.
Unadmitted ==
    \A t \in Tasks : start[t] \in {"idle", "authed", "begun", "reserved"} =>
        work[t] = "none" /\ row[t] = "none"

\* The registration maps mirror the progress of the goroutines.
Registered ==
    \A t \in Tasks :
        /\ t \in pendingStarts <=> start[t] \in {"begun", "reserved", "returning"}
        /\ t \in running <=> work[t] \in {"working", "settled"}

\* taskRunKeys and runningByVaultType are inverse to one another and record
\* exactly the tasks that hold a slot.
Slots ==
    /\ \A t \in Tasks :
        /\ t \in taskRunKeys <=> HoldsSlot(t)
        /\ t \in taskRunKeys => runningByVaultType[KeyOf(t)] = t
    /\ \A k \in Vaults \X Kinds : runningByVaultType[k] # NoTask =>
        /\ runningByVaultType[k] \in taskRunKeys
        /\ KeyOf(runningByVaultType[k]) = k

\* What the row of a task says while its worker runs and afterwards.
Rows ==
    \A t \in Tasks :
        /\ work[t] = "working" => row[t] \in {"none", "running"}
        /\ row[t] = "running" => t \in lost \/ work[t] = "working"

Targets == \A d \in Deleters : delPc[d] # "idle" => delVault[d] \in Vaults

\* A tombstone that was never lifted is there, and the owners left are the ones
\* its deleter waits for.
Standing ==
    \A d \in standing :
        /\ delPc[d] \notin {"idle", "found"}
        /\ delVault[d] \in quiescingVaults
        /\ \A t \in TasksOf(delVault[d]) :
            /\ t \in running => t \in delRuns[d]
            /\ t \in pendingStarts => t \in delStarts[d]
        /\ delPc[d] \in {"quiesced", "rowsGone", "forgetting"} =>
            \A t \in TasksOf(delVault[d]) : t \notin running \cup pendingStarts

Closing ==
    /\ closed <=> main # "serving"
    /\ main \in {"waitWorkers", "drained"} => pendingStarts = {}
    /\ main = "drained" => \A t \in Tasks : work[t] \in {"none", "gone"}

IInv ==
    /\ TypeOK /\ Unadmitted /\ Registered /\ Slots /\ Rows /\ Targets
    /\ Standing /\ DeletedRowsStayDeleted /\ DeferredResumeHasOwner /\ Closing

-----------------------------------------------------------------------------
(* The exclusive slots.                                                    *)

\* A task's key is in the domain of runningByVaultType.
LEMMA KeyOfType ==
    ASSUME NEW t \in Tasks PROVE KeyOf(t) \in Vaults \X Kinds
BY TasksAssumption DEF KeyOf

\* Releasing a slot that is held keeps the two maps inverse to one another.
LEMMA ReleaseSlotKeepsInverse ==
    ASSUME TypeOK, Slots, NEW t \in Tasks, HoldsSlot(t), ReleaseSlot(t)
    PROVE  /\ taskRunKeys' = taskRunKeys \ {t}
           /\ \A u \in taskRunKeys' : runningByVaultType'[KeyOf(u)] = u
           /\ \A k \in Vaults \X Kinds : runningByVaultType'[k] # NoTask =>
                /\ runningByVaultType'[k] \in taskRunKeys'
                /\ KeyOf(runningByVaultType'[k]) = k
<1>1. t \in taskRunKeys /\ runningByVaultType[KeyOf(t)] = t
  BY DEF Slots
<1>2. /\ taskRunKeys' = taskRunKeys \ {t}
      /\ runningByVaultType' = [runningByVaultType EXCEPT ![KeyOf(t)] = NoTask]
  BY <1>1 DEF ReleaseSlot
<1>3. ASSUME NEW u \in taskRunKeys'
      PROVE  runningByVaultType'[KeyOf(u)] = u
  <2>1. u \in Tasks /\ u # t /\ runningByVaultType[KeyOf(u)] = u
    BY <1>2, <1>3 DEF Slots, TypeOK
  <2>2. KeyOf(u) \in Vaults \X Kinds /\ KeyOf(u) # KeyOf(t)
    BY <1>1, <2>1, KeyOfType
  <2>. QED
    BY <1>2, <2>1, <2>2 DEF TypeOK
<1>4. ASSUME NEW k \in Vaults \X Kinds, runningByVaultType'[k] # NoTask
      PROVE  /\ runningByVaultType'[k] \in taskRunKeys'
             /\ KeyOf(runningByVaultType'[k]) = k
  <2>1. k # KeyOf(t) /\ runningByVaultType'[k] = runningByVaultType[k]
    BY <1>2, <1>4, KeyOfType DEF TypeOK
  <2>2. runningByVaultType[k] \in taskRunKeys /\ KeyOf(runningByVaultType[k]) = k
    BY <1>4, <2>1 DEF Slots
  <2>. QED
    BY <1>2, <2>1, <2>2
<1>. QED
  BY <1>2, <1>3, <1>4

LEMMA SlotsStep ==
    ASSUME TypeOK, Unadmitted, Slots, [Next]_vars
    PROVE  Slots'
<1>. USE DEF mgrVars, gateVars, slotVars, dbVars, delVars, mainVars
<1>1. ASSUME UNCHANGED slotVars, \A t \in Tasks : HoldsSlot(t)' <=> HoldsSlot(t)
      PROVE  Slots'
  BY <1>1 DEF Slots
<1>2. ASSUME NEW t \in Tasks,
             \/ Authorize(t) \/ BeginTaskStart(t) \/ RejectSource(t)
             \/ AdmitBackgroundTask(t) \/ FinishTaskStart(t)
             \/ Settle(t) \/ CloseDone(t) \/ LeaveWaitGroup(t)
      PROVE  Slots'
  <2>1. UNCHANGED slotVars
    BY <1>2 DEF Authorize, BeginTaskStart, RejectSource, AdmitBackgroundTask,
       FinishTaskStart, Settle, CloseDone, LeaveWaitGroup
  <2>2. \A u \in Tasks : HoldsSlot(u)' <=> HoldsSlot(u)
    BY <1>2 DEF HoldsSlot, TypeOK, Authorize, BeginTaskStart, RejectSource,
       AdmitBackgroundTask, FinishTaskStart, Settle, CloseDone, LeaveWaitGroup
  <2>. QED
    BY <1>1, <2>1, <2>2
<1>3. ASSUME NEW t \in Tasks, ReserveExclusiveTask(t)
      PROVE  Slots'
  <2>1. CASE Open(t) /\ SlotFree(t)
    <3>1. /\ taskRunKeys' = taskRunKeys \cup {t}
          /\ runningByVaultType' = [runningByVaultType EXCEPT ![KeyOf(t)] = t]
          /\ start' = [start EXCEPT ![t] = "reserved"] /\ UNCHANGED work
          /\ runningByVaultType[KeyOf(t)] = NoTask
      BY <1>3, <2>1 DEF ReserveExclusiveTask, TakeSlot, SlotFree
    <3>2. \A u \in Tasks : HoldsSlot(u)' <=> HoldsSlot(u) \/ u = t
      BY <3>1 DEF HoldsSlot, TypeOK
    <3>3. ASSUME NEW u \in Tasks
          PROVE  /\ u \in taskRunKeys' <=> HoldsSlot(u)'
                 /\ u \in taskRunKeys' => runningByVaultType'[KeyOf(u)] = u
      BY <3>1, <3>2, KeyOfType, TasksAssumption DEF Slots, TypeOK
    <3>4. ASSUME NEW k \in Vaults \X Kinds, runningByVaultType'[k] # NoTask
          PROVE  /\ runningByVaultType'[k] \in taskRunKeys'
                 /\ KeyOf(runningByVaultType'[k]) = k
      BY <3>1, <3>4, KeyOfType DEF Slots, TypeOK
    <3>. QED
      BY <3>3, <3>4 DEF Slots
  <2>2. CASE ~(Open(t) /\ SlotFree(t))
    <3>1. UNCHANGED slotVars /\ UNCHANGED work
          /\ start' = [start EXCEPT ![t] = "returning"] /\ start[t] = "begun"
      BY <1>3, <2>2 DEF ReserveExclusiveTask
    <3>2. \A u \in Tasks : HoldsSlot(u)' <=> HoldsSlot(u)
      BY <3>1 DEF HoldsSlot, TypeOK
    <3>. QED
      BY <1>1, <3>1, <3>2
  <2>. QED
    BY <2>1, <2>2
<1>4. ASSUME NEW t \in Tasks, AbandonStart(t) \/ FinishRun(t)
      PROVE  Slots'
  <2>1. HoldsSlot(t) /\ ReleaseSlot(t)
    BY <1>4 DEF AbandonStart, FinishRun, HoldsSlot
  <2>2. \A u \in Tasks : HoldsSlot(u)' <=> HoldsSlot(u) /\ u # t
    BY <1>4 DEF AbandonStart, FinishRun, HoldsSlot, TypeOK, Unadmitted
  <2>3. \A u \in Tasks : u \in taskRunKeys <=> HoldsSlot(u)
    BY DEF Slots
  <2>. QED
    BY <2>1, <2>2, <2>3, ReleaseSlotKeepsInverse DEF Slots
<1>5. CASE Restart
  BY <1>5 DEF Restart, Slots, HoldsSlot
<1>6. CASE \/ \E t \in Tasks : CancelTask(t) \/ DeleteTask(t)
           \/ \E v \in Vaults : DeleteCompletedTasks(v)
           \/ \E d \in Deleters : DeleterStep(d) \/ \E v \in Vaults : FindVault(d, v)
           \/ Shutdown \/ MainStep \/ Exited \/ UNCHANGED vars
  <2>1. UNCHANGED <<start, work, slotVars>>
    BY <1>6 DEF CancelTask, DeleteTask, DeleteCompletedTasks, DeleterStep,
       PublishTombstone, RefuseQuiesce, CancelTargets, Quiesced, QuiesceTimeout,
       LaterStepFails, StayQuiesced, ResumeVault, DeleteVault, DropSessions,
       ForgetVault, FindVault, Shutdown, MainStep, StartsDrained,
       WorkersDrained, Exited, vars
  <2>. QED
    BY <1>1, <2>1 DEF HoldsSlot
<1>. QED
  BY <1>2, <1>3, <1>4, <1>5, <1>6 DEF Next, StarterStep, WorkerStep

-----------------------------------------------------------------------------
(* The inductive steps, one lemma per other conjunct.                       *)

\* Every action keeps the types; a deletion past its first step knows its
\* vault.
LEMMA TypeOKStep ==
    ASSUME TypeOK, Targets, Standing, [Next]_vars
    PROVE  TypeOK'
<1>. USE DEF mgrVars, gateVars, slotVars, dbVars, delVars, mainVars, Terminal,
           StartStates, WorkStates, DelStates, MainStates, Targets, Standing
<1>1. ASSUME UNCHANGED vars
      PROVE  TypeOK'
  BY <1>1 DEF TypeOK, vars
<1>2. ASSUME NEW t \in Tasks,
             Authorize(t) \/ StarterStep(t) \/ WorkerStep(t)
             \/ CancelTask(t) \/ DeleteTask(t)
      PROVE  TypeOK'
  <2>1. CASE Authorize(t)
    BY <2>1 DEF TypeOK, Authorize
  <2>2. CASE BeginTaskStart(t)
    BY <2>2 DEF TypeOK, BeginTaskStart, Open
  <2>3. CASE RejectSource(t)
    BY <2>3 DEF TypeOK, RejectSource
  <2>4. CASE ReserveExclusiveTask(t)
    <3>1. start' \in [Tasks -> StartStates]
      BY <2>4 DEF TypeOK, ReserveExclusiveTask
    <3>2. CASE Open(t) /\ SlotFree(t)
      <4>1. /\ runningByVaultType' = [runningByVaultType EXCEPT ![KeyOf(t)] = t]
            /\ taskRunKeys' = taskRunKeys \cup {t}
        BY <2>4, <3>2 DEF ReserveExclusiveTask, TakeSlot
      <4>2. runningByVaultType' \in [Vaults \X Kinds -> Tasks \cup {NoTask}]
        BY <4>1, KeyOfType DEF TypeOK
      <4>. QED
        BY <2>4, <3>1, <4>1, <4>2 DEF TypeOK, ReserveExclusiveTask
    <3>3. CASE ~(Open(t) /\ SlotFree(t))
      BY <2>4, <3>1, <3>3 DEF TypeOK, ReserveExclusiveTask
    <3>. QED
      BY <3>2, <3>3
  <2>5. CASE AbandonStart(t)
    BY <2>5 DEF TypeOK, AbandonStart, ReleaseSlot
  <2>6. CASE AdmitBackgroundTask(t)
    BY <2>6 DEF TypeOK, AdmitBackgroundTask, AdmitTest, Open, CreateTask
  <2>7. CASE FinishTaskStart(t)
    BY <2>7 DEF TypeOK, FinishTaskStart, MaybeResumeVault, LiftTombstone,
       KeepTombstone
  <2>8. CASE Settle(t)
    BY <2>8 DEF TypeOK, Settle, Outcomes, UpdateTask
  <2>9. CASE FinishRun(t)
    BY <2>9 DEF TypeOK, FinishRun, ReleaseSlot, MaybeResumeVault,
       LiftTombstone, KeepTombstone
  <2>10. CASE CloseDone(t)
    BY <2>10 DEF TypeOK, CloseDone
  <2>11. CASE LeaveWaitGroup(t)
    BY <2>11 DEF TypeOK, LeaveWaitGroup
  <2>12. CASE CancelTask(t)
    BY <2>12 DEF TypeOK, CancelTask
  <2>13. CASE DeleteTask(t)
    BY <2>13 DEF TypeOK, DeleteTask
  <2>. QED
    BY <1>2, <2>1, <2>2, <2>3, <2>4, <2>5, <2>6, <2>7, <2>8, <2>9, <2>10,
       <2>11, <2>12, <2>13 DEF StarterStep, WorkerStep
<1>3. ASSUME NEW d \in Deleters, DeleterStep(d)
      PROVE  TypeOK'
  <2>1. CASE PublishTombstone(d)
    BY <2>1 DEF TypeOK, PublishTombstone, DelStep, QuiesceTargets
  <2>2. CASE RefuseQuiesce(d)
    BY <2>2 DEF TypeOK, RefuseQuiesce, DelStep
  <2>3. CASE CancelTargets(d)
    BY <2>3 DEF TypeOK, CancelTargets, DelStep
  <2>4. CASE Quiesced(d)
    BY <2>4 DEF TypeOK, Quiesced, DelStep, TargetsExited
  <2>5. CASE QuiesceTimeout(d)
    BY <2>5 DEF TypeOK, QuiesceTimeout, DelStep
  <2>6. CASE LaterStepFails(d)
    BY <2>6 DEF TypeOK, LaterStepFails, DelStep
  <2>7. CASE StayQuiesced(d)
    BY <2>7 DEF TypeOK, StayQuiesced, DelStep
  <2>8. CASE ResumeVault(d)
    BY <2>8 DEF TypeOK, ResumeVault, DelStep, LiftTombstone
  <2>9. CASE DeleteVault(d)
    BY <2>9 DEF TypeOK, DeleteVault, DelStep
  <2>10. CASE DropSessions(d)
    BY <2>10 DEF TypeOK, DropSessions, DelStep
  <2>11. CASE ForgetVault(d)
    BY <2>11 DEF TypeOK, ForgetVault, DelStep, LiftTombstone
  <2>. QED
    BY <1>3, <2>1, <2>2, <2>3, <2>4, <2>5, <2>6, <2>7, <2>8, <2>9, <2>10,
       <2>11 DEF DeleterStep
<1>4. ASSUME NEW d \in Deleters, NEW v \in Vaults, FindVault(d, v)
      PROVE  TypeOK'
  BY <1>4 DEF TypeOK, FindVault, DelStep
<1>5. ASSUME NEW v \in Vaults, DeleteCompletedTasks(v)
      PROVE  TypeOK'
  BY <1>5 DEF TypeOK, DeleteCompletedTasks
<1>6. CASE Shutdown
  BY <1>6 DEF TypeOK, Shutdown
<1>7. CASE StartsDrained
  BY <1>7 DEF TypeOK, StartsDrained
<1>8. CASE WorkersDrained
  BY <1>8 DEF TypeOK, WorkersDrained
<1>9. CASE Restart
  <2>1. PICK failed \in SUBSET Tasks : RecoverTasks(failed)
    BY <1>9 DEF Restart
  <2>2. row' \in [Tasks -> Terminal \cup {"none", "running"}] /\ lost' \subseteq Tasks
    BY <2>1 DEF RecoverTasks, TypeOK, Terminal
  <2>3. start' \in [Tasks -> StartStates] /\ work' \in [Tasks -> WorkStates]
    BY <1>9 DEF Restart, TypeOK, StartStates, WorkStates
  <2>4. /\ delPc' \in [Deleters -> DelStates]
        /\ delVault' \in [Deleters -> Vaults \cup {NoVault}]
        /\ delRuns' \in [Deleters -> SUBSET Tasks]
        /\ delStarts' \in [Deleters -> SUBSET Tasks]
    BY <1>9 DEF Restart, DelStates
  <2>5. runningByVaultType' \in [Vaults \X Kinds -> Tasks \cup {NoTask}]
    BY <1>9 DEF Restart
  <2>6. restarts' \in Nat
    BY <1>9 DEF Restart, TypeOK
  <2>7. closed' \in BOOLEAN /\ main' \in MainStates
    BY <1>9 DEF Restart, MainStates
  <2>8. /\ quiescingVaults' = {} /\ resumeVaults' = {} /\ pendingStarts' = {}
        /\ running' = {} /\ taskRunKeys' = {} /\ cancelled' = {}
        /\ standing' = {} /\ sessions' = vaultRows
        /\ UNCHANGED <<vaultRows, attempts>>
    BY <1>9 DEF Restart
  <2>. QED
    BY <2>2, <2>3, <2>4, <2>5, <2>6, <2>7, <2>8 DEF TypeOK
<1>10. CASE Exited \/ UNCHANGED vars
  BY <1>1, <1>10 DEF Exited, vars
<1>. QED
  BY <1>2, <1>3, <1>4, <1>5, <1>6, <1>7, <1>8, <1>9, <1>10
     DEF Next, MainStep

\* Only admission gives a task a worker and a row, and it ends the phase.
LEMMA UnadmittedStep ==
    ASSUME TypeOK, Unadmitted, [Next]_vars
    PROVE  Unadmitted'
<1>. USE DEF mgrVars, gateVars, slotVars, dbVars, delVars, mainVars, TypeOK
<1>1. ASSUME UNCHANGED <<start, work, row>>
      PROVE  Unadmitted'
  BY <1>1 DEF Unadmitted
<1>2. ASSUME NEW t \in Tasks,
             Authorize(t) \/ StarterStep(t) \/ WorkerStep(t)
             \/ CancelTask(t) \/ DeleteTask(t)
      PROVE  Unadmitted'
  <2>1. CASE Authorize(t)
    BY <2>1 DEF Unadmitted, Authorize
  <2>2. CASE BeginTaskStart(t)
    BY <2>2 DEF Unadmitted, BeginTaskStart, Open
  <2>3. CASE RejectSource(t)
    BY <2>3 DEF Unadmitted, RejectSource
  <2>4. CASE ReserveExclusiveTask(t)
    BY <2>4 DEF Unadmitted, ReserveExclusiveTask, TakeSlot
  <2>5. CASE AbandonStart(t)
    BY <2>5 DEF Unadmitted, AbandonStart, ReleaseSlot
  <2>6. CASE AdmitBackgroundTask(t)
    BY <2>6 DEF Unadmitted, AdmitBackgroundTask, AdmitTest, Open, CreateTask
  <2>7. CASE FinishTaskStart(t)
    BY <2>7 DEF Unadmitted, FinishTaskStart, MaybeResumeVault, LiftTombstone,
       KeepTombstone
  <2>8. CASE Settle(t)
    BY <2>8 DEF Unadmitted, Settle, Outcomes, UpdateTask
  <2>9. CASE FinishRun(t)
    BY <2>9 DEF Unadmitted, FinishRun, ReleaseSlot, MaybeResumeVault,
       LiftTombstone, KeepTombstone
  <2>10. CASE CloseDone(t)
    BY <2>10 DEF Unadmitted, CloseDone
  <2>11. CASE LeaveWaitGroup(t)
    BY <2>11 DEF Unadmitted, LeaveWaitGroup
  <2>12. CASE DeleteTask(t)
    BY <2>12 DEF Unadmitted, DeleteTask
  <2>13. CASE \/ CancelTask(t)
    BY <1>1, <2>13 DEF CancelTask
  <2>. QED
    BY <1>2, <2>1, <2>2, <2>3, <2>4, <2>5, <2>6, <2>7, <2>8, <2>9, <2>10,
       <2>11, <2>12, <2>13 DEF StarterStep, WorkerStep
<1>3. ASSUME NEW d \in Deleters, DeleterStep(d)
      PROVE  Unadmitted'
  <2>1. CASE DeleteVault(d)
    BY <2>1 DEF Unadmitted, DeleteVault, DelStep
  <2>2. CASE \/ PublishTombstone(d) \/ RefuseQuiesce(d) \/ CancelTargets(d)
             \/ Quiesced(d) \/ QuiesceTimeout(d) \/ LaterStepFails(d)
             \/ StayQuiesced(d) \/ ResumeVault(d) \/ DropSessions(d)
             \/ ForgetVault(d)
    BY <1>1, <2>2 DEF PublishTombstone, RefuseQuiesce, CancelTargets,
       Quiesced, QuiesceTimeout, LaterStepFails, StayQuiesced, ResumeVault,
       DropSessions, ForgetVault, DelStep
  <2>. QED
    BY <1>3, <2>1, <2>2 DEF DeleterStep
<1>4. ASSUME NEW d \in Deleters, NEW v \in Vaults, FindVault(d, v)
      PROVE  Unadmitted'
  BY <1>1, <1>4 DEF FindVault, DelStep
<1>5. ASSUME NEW v \in Vaults, DeleteCompletedTasks(v)
      PROVE  Unadmitted'
  BY <1>5 DEF Unadmitted, DeleteCompletedTasks
<1>6. CASE Shutdown
  BY <1>1, <1>6 DEF Shutdown
<1>7. CASE StartsDrained
  BY <1>1, <1>7 DEF StartsDrained
<1>8. CASE WorkersDrained
  BY <1>1, <1>8 DEF WorkersDrained
<1>9. CASE Restart
  BY <1>9 DEF Unadmitted, Restart, RecoverTasks
<1>10. CASE Exited \/ UNCHANGED vars
  BY <1>1, <1>10 DEF Exited, vars
<1>. QED
  BY <1>2, <1>3, <1>4, <1>5, <1>6, <1>7, <1>8, <1>9, <1>10
     DEF Next, MainStep

\* Each step that moves a goroutine into or out of its busy phase updates the
\* registration map in the same critical section.
LEMMA RegisteredStep ==
    ASSUME TypeOK, Unadmitted, Registered,
           [Next]_vars
    PROVE  Registered'
<1>. USE DEF mgrVars, gateVars, slotVars, dbVars, delVars, mainVars, TypeOK,
           Unadmitted
<1>1. ASSUME UNCHANGED <<pendingStarts, running, start, work>>
      PROVE  Registered'
  BY <1>1 DEF Registered
<1>2. ASSUME NEW t \in Tasks,
             Authorize(t) \/ StarterStep(t) \/ WorkerStep(t)
             \/ CancelTask(t) \/ DeleteTask(t)
      PROVE  Registered'
  <2>1. CASE Authorize(t)
    BY <2>1 DEF Registered, Authorize
  <2>2. CASE BeginTaskStart(t)
    BY <2>2 DEF Registered, BeginTaskStart, Open
  <2>3. CASE RejectSource(t)
    BY <2>3 DEF Registered, RejectSource
  <2>4. CASE ReserveExclusiveTask(t)
    BY <2>4 DEF Registered, ReserveExclusiveTask, TakeSlot
  <2>5. CASE AbandonStart(t)
    BY <2>5 DEF Registered, AbandonStart, ReleaseSlot
  <2>6. CASE AdmitBackgroundTask(t)
    BY <2>6 DEF Registered, AdmitBackgroundTask, AdmitTest, Open, CreateTask
  <2>7. CASE FinishTaskStart(t)
    BY <2>7 DEF Registered, FinishTaskStart, MaybeResumeVault, LiftTombstone,
       KeepTombstone
  <2>8. CASE Settle(t)
    BY <2>8 DEF Registered, Settle, Outcomes, UpdateTask
  <2>9. CASE FinishRun(t)
    BY <2>9 DEF Registered, FinishRun, ReleaseSlot, MaybeResumeVault,
       LiftTombstone, KeepTombstone
  <2>10. CASE CloseDone(t)
    BY <2>10 DEF Registered, CloseDone
  <2>11. CASE LeaveWaitGroup(t)
    BY <2>11 DEF Registered, LeaveWaitGroup
  <2>12. CASE \/ CancelTask(t) \/ DeleteTask(t)
    BY <1>1, <2>12 DEF CancelTask, DeleteTask
  <2>. QED
    BY <1>2, <2>1, <2>2, <2>3, <2>4, <2>5, <2>6, <2>7, <2>8, <2>9, <2>10,
       <2>11, <2>12 DEF StarterStep, WorkerStep
<1>3. ASSUME NEW d \in Deleters, DeleterStep(d)
      PROVE  Registered'
  BY <1>1, <1>3 DEF DeleterStep, PublishTombstone, RefuseQuiesce,
     CancelTargets, Quiesced, QuiesceTimeout, LaterStepFails, StayQuiesced,
     ResumeVault, DeleteVault, DropSessions, ForgetVault, DelStep
<1>4. ASSUME NEW d \in Deleters, NEW v \in Vaults, FindVault(d, v)
      PROVE  Registered'
  BY <1>1, <1>4 DEF FindVault, DelStep
<1>5. ASSUME NEW v \in Vaults, DeleteCompletedTasks(v)
      PROVE  Registered'
  BY <1>1, <1>5 DEF DeleteCompletedTasks
<1>6. CASE Shutdown
  BY <1>1, <1>6 DEF Shutdown
<1>7. CASE StartsDrained
  BY <1>1, <1>7 DEF StartsDrained
<1>8. CASE WorkersDrained
  BY <1>1, <1>8 DEF WorkersDrained
<1>9. CASE Restart
  BY <1>9 DEF Registered, Restart, RecoverTasks
<1>10. CASE Exited \/ UNCHANGED vars
  BY <1>1, <1>10 DEF Exited, vars
<1>. QED
  BY <1>2, <1>3, <1>4, <1>5, <1>6, <1>7, <1>8, <1>9, <1>10
     DEF Next, MainStep

\* A row leaves the running state with its worker, or its last write is lost.
LEMMA RowsStep ==
    ASSUME TypeOK, Unadmitted, Rows, [Next]_vars
    PROVE  Rows'
<1>. USE DEF mgrVars, gateVars, slotVars, dbVars, delVars, mainVars, TypeOK,
           Unadmitted, Terminal
<1>1. ASSUME UNCHANGED <<row, lost, work>>
      PROVE  Rows'
  BY <1>1 DEF Rows
<1>2. ASSUME NEW t \in Tasks,
             Authorize(t) \/ StarterStep(t) \/ WorkerStep(t)
             \/ CancelTask(t) \/ DeleteTask(t)
      PROVE  Rows'
  <2>1. CASE AdmitBackgroundTask(t)
    BY <2>1 DEF Rows, AdmitBackgroundTask, AdmitTest, Open, CreateTask
  <2>2. CASE Settle(t)
    BY <2>2 DEF Rows, Settle, Outcomes, UpdateTask
  <2>3. CASE FinishRun(t)
    BY <2>3 DEF Rows, FinishRun, ReleaseSlot, MaybeResumeVault, LiftTombstone,
       KeepTombstone
  <2>4. CASE CloseDone(t)
    BY <2>4 DEF Rows, CloseDone
  <2>5. CASE LeaveWaitGroup(t)
    BY <2>5 DEF Rows, LeaveWaitGroup
  <2>6. CASE DeleteTask(t)
    BY <2>6 DEF Rows, DeleteTask
  <2>7. CASE \/ Authorize(t) \/ BeginTaskStart(t) \/ RejectSource(t)
             \/ ReserveExclusiveTask(t) \/ AbandonStart(t)
             \/ FinishTaskStart(t) \/ CancelTask(t)
    BY <1>1, <2>7 DEF Authorize, BeginTaskStart, RejectSource,
       ReserveExclusiveTask, AbandonStart, FinishTaskStart, CancelTask
  <2>. QED
    BY <1>2, <2>1, <2>2, <2>3, <2>4, <2>5, <2>6, <2>7 DEF StarterStep, WorkerStep
<1>3. ASSUME NEW d \in Deleters, DeleterStep(d)
      PROVE  Rows'
  <2>1. CASE DeleteVault(d)
    BY <2>1 DEF Rows, DeleteVault, DelStep
  <2>2. CASE \/ PublishTombstone(d) \/ RefuseQuiesce(d) \/ CancelTargets(d)
             \/ Quiesced(d) \/ QuiesceTimeout(d) \/ LaterStepFails(d)
             \/ StayQuiesced(d) \/ ResumeVault(d) \/ DropSessions(d)
             \/ ForgetVault(d)
    BY <1>1, <2>2 DEF PublishTombstone, RefuseQuiesce, CancelTargets,
       Quiesced, QuiesceTimeout, LaterStepFails, StayQuiesced, ResumeVault,
       DropSessions, ForgetVault, DelStep
  <2>. QED
    BY <1>3, <2>1, <2>2 DEF DeleterStep
<1>4. ASSUME NEW d \in Deleters, NEW v \in Vaults, FindVault(d, v)
      PROVE  Rows'
  BY <1>1, <1>4 DEF FindVault, DelStep
<1>5. ASSUME NEW v \in Vaults, DeleteCompletedTasks(v)
      PROVE  Rows'
  BY <1>5 DEF Rows, DeleteCompletedTasks
<1>6. CASE Shutdown
  BY <1>1, <1>6 DEF Shutdown
<1>7. CASE StartsDrained
  BY <1>1, <1>7 DEF StartsDrained
<1>8. CASE WorkersDrained
  BY <1>1, <1>8 DEF WorkersDrained
<1>9. CASE Restart
  BY <1>9 DEF Rows, Restart, RecoverTasks
<1>10. CASE Exited \/ UNCHANGED vars
  BY <1>1, <1>10 DEF Exited, vars
<1>. QED
  BY <1>2, <1>3, <1>4, <1>5, <1>6, <1>7, <1>8, <1>9, <1>10
     DEF Next, MainStep

\* A deletion names its vault in its first step and keeps it.
LEMMA TargetsStep ==
    ASSUME TypeOK, Targets, [Next]_vars
    PROVE  Targets'
<1>. USE DEF mgrVars, gateVars, slotVars, dbVars, delVars, mainVars, TypeOK
<1>1. ASSUME UNCHANGED <<delPc, delVault>>
      PROVE  Targets'
  BY <1>1 DEF Targets
<1>2. ASSUME NEW t \in Tasks,
             Authorize(t) \/ StarterStep(t) \/ WorkerStep(t)
             \/ CancelTask(t) \/ DeleteTask(t)
      PROVE  Targets'
  BY <1>1, <1>2 DEF StarterStep, WorkerStep, Authorize, BeginTaskStart,
     RejectSource, ReserveExclusiveTask, AbandonStart, AdmitBackgroundTask,
     FinishTaskStart, Settle, FinishRun, CloseDone, LeaveWaitGroup,
     CancelTask, DeleteTask
<1>3. ASSUME NEW d \in Deleters, DeleterStep(d)
      PROVE  Targets'
  <2>1. CASE PublishTombstone(d)
    BY <2>1 DEF Targets, PublishTombstone, DelStep, QuiesceTargets
  <2>2. CASE RefuseQuiesce(d)
    BY <2>2 DEF Targets, RefuseQuiesce, DelStep
  <2>3. CASE CancelTargets(d)
    BY <2>3 DEF Targets, CancelTargets, DelStep
  <2>4. CASE Quiesced(d)
    BY <2>4 DEF Targets, Quiesced, DelStep, TargetsExited
  <2>5. CASE QuiesceTimeout(d)
    BY <2>5 DEF Targets, QuiesceTimeout, DelStep
  <2>6. CASE LaterStepFails(d)
    BY <2>6 DEF Targets, LaterStepFails, DelStep
  <2>7. CASE StayQuiesced(d)
    BY <2>7 DEF Targets, StayQuiesced, DelStep
  <2>8. CASE ResumeVault(d)
    BY <2>8 DEF Targets, ResumeVault, DelStep, LiftTombstone
  <2>9. CASE DeleteVault(d)
    BY <2>9 DEF Targets, DeleteVault, DelStep
  <2>10. CASE DropSessions(d)
    BY <2>10 DEF Targets, DropSessions, DelStep
  <2>11. CASE ForgetVault(d)
    BY <2>11 DEF Targets, ForgetVault, DelStep, LiftTombstone
  <2>. QED
    BY <1>3, <2>1, <2>2, <2>3, <2>4, <2>5, <2>6, <2>7, <2>8, <2>9, <2>10,
       <2>11 DEF DeleterStep
<1>4. ASSUME NEW d \in Deleters, NEW v \in Vaults, FindVault(d, v)
      PROVE  Targets'
  BY <1>4 DEF Targets, FindVault, DelStep
<1>5. ASSUME NEW v \in Vaults, DeleteCompletedTasks(v)
      PROVE  Targets'
  BY <1>1, <1>5 DEF DeleteCompletedTasks
<1>6. CASE Shutdown
  BY <1>1, <1>6 DEF Shutdown
<1>7. CASE StartsDrained
  BY <1>1, <1>7 DEF StartsDrained
<1>8. CASE WorkersDrained
  BY <1>1, <1>8 DEF WorkersDrained
<1>9. CASE Restart
  BY <1>9 DEF Targets, Restart, RecoverTasks
<1>10. CASE Exited \/ UNCHANGED vars
  BY <1>1, <1>10 DEF Exited, vars
<1>. QED
  BY <1>2, <1>3, <1>4, <1>5, <1>6, <1>7, <1>8, <1>9, <1>10
     DEF Next, MainStep

\* Admission is refused behind a tombstone, so a standing tombstone only sees
\* its owners leave.
LEMMA StandingStep ==
    ASSUME TypeOK, Registered, Targets, Standing,
           [Next]_vars
    PROVE  Standing'
<1>. USE DEF mgrVars, gateVars, slotVars, dbVars, delVars, mainVars, TypeOK,
           Targets, Registered, TasksOf
<1>1. ASSUME UNCHANGED <<standing, delPc, delVault, delRuns, delStarts,
        quiescingVaults, running, pendingStarts>>
      PROVE  Standing'
  BY <1>1 DEF Standing
<1>2. ASSUME NEW t \in Tasks,
             Authorize(t) \/ StarterStep(t) \/ WorkerStep(t)
             \/ CancelTask(t) \/ DeleteTask(t)
      PROVE  Standing'
  <2>1. CASE BeginTaskStart(t)
    BY <2>1 DEF Standing, BeginTaskStart, Open
  <2>2. CASE AdmitBackgroundTask(t)
    BY <2>2 DEF Standing, AdmitBackgroundTask, AdmitTest, Open, CreateTask
  <2>3. CASE FinishTaskStart(t)
    BY <2>3 DEF Standing, FinishTaskStart, MaybeResumeVault, LiftTombstone,
       KeepTombstone
  <2>4. CASE FinishRun(t)
    BY <2>4 DEF Standing, FinishRun, ReleaseSlot, MaybeResumeVault,
       LiftTombstone, KeepTombstone
  <2>5. CASE \/ Authorize(t) \/ RejectSource(t) \/ ReserveExclusiveTask(t)
             \/ AbandonStart(t) \/ Settle(t) \/ CloseDone(t)
             \/ LeaveWaitGroup(t) \/ CancelTask(t) \/ DeleteTask(t)
    BY <1>1, <2>5 DEF Authorize, RejectSource, ReserveExclusiveTask,
       AbandonStart, Settle, CloseDone, LeaveWaitGroup, CancelTask, DeleteTask
  <2>. QED
    BY <1>2, <2>1, <2>2, <2>3, <2>4, <2>5 DEF StarterStep, WorkerStep
<1>3. ASSUME NEW d \in Deleters, DeleterStep(d)
      PROVE  Standing'
  <2>1. CASE PublishTombstone(d)
    BY <2>1 DEF Standing, PublishTombstone, DelStep, QuiesceTargets
  <2>2. CASE RefuseQuiesce(d)
    BY <2>2 DEF Standing, RefuseQuiesce, DelStep
  <2>3. CASE CancelTargets(d)
    BY <2>3 DEF Standing, CancelTargets, DelStep
  <2>4. CASE Quiesced(d)
    BY <2>4 DEF Standing, Quiesced, DelStep, TargetsExited
  <2>5. CASE QuiesceTimeout(d)
    BY <2>5 DEF Standing, QuiesceTimeout, DelStep
  <2>6. CASE LaterStepFails(d)
    BY <2>6 DEF Standing, LaterStepFails, DelStep
  <2>7. CASE StayQuiesced(d)
    BY <2>7 DEF Standing, StayQuiesced, DelStep
  <2>8. CASE ResumeVault(d)
    BY <2>8 DEF Standing, ResumeVault, DelStep, LiftTombstone
  <2>9. CASE DeleteVault(d)
    BY <2>9 DEF Standing, DeleteVault, DelStep
  <2>10. CASE DropSessions(d)
    BY <2>10 DEF Standing, DropSessions, DelStep
  <2>11. CASE ForgetVault(d)
    BY <2>11 DEF Standing, ForgetVault, DelStep, LiftTombstone
  <2>. QED
    BY <1>3, <2>1, <2>2, <2>3, <2>4, <2>5, <2>6, <2>7, <2>8, <2>9, <2>10,
       <2>11 DEF DeleterStep
<1>4. ASSUME NEW d \in Deleters, NEW v \in Vaults, FindVault(d, v)
      PROVE  Standing'
  BY <1>4 DEF Standing, FindVault, DelStep
<1>5. ASSUME NEW v \in Vaults, DeleteCompletedTasks(v)
      PROVE  Standing'
  BY <1>1, <1>5 DEF DeleteCompletedTasks
<1>6. CASE Shutdown
  BY <1>1, <1>6 DEF Shutdown
<1>7. CASE StartsDrained
  BY <1>1, <1>7 DEF StartsDrained
<1>8. CASE WorkersDrained
  BY <1>1, <1>8 DEF WorkersDrained
<1>9. CASE Restart
  BY <1>9 DEF Standing, Restart, RecoverTasks
<1>10. CASE Exited \/ UNCHANGED vars
  BY <1>1, <1>10 DEF Exited, vars
<1>. QED
  BY <1>2, <1>3, <1>4, <1>5, <1>6, <1>7, <1>8, <1>9, <1>10
     DEF Next, MainStep

\* Only admission inserts a row, and the tombstone refuses it.
LEMMA DeletedRowsStep ==
    ASSUME TypeOK, Targets, Standing,
           DeletedRowsStayDeleted, [Next]_vars
    PROVE  DeletedRowsStayDeleted'
<1>. USE DEF mgrVars, gateVars, slotVars, dbVars, delVars, mainVars, TypeOK,
           Targets, Standing, TasksOf
<1>1. ASSUME UNCHANGED <<standing, delPc, delVault, row>>
      PROVE  DeletedRowsStayDeleted'
  BY <1>1 DEF DeletedRowsStayDeleted
<1>2. ASSUME NEW t \in Tasks,
             Authorize(t) \/ StarterStep(t) \/ WorkerStep(t)
             \/ CancelTask(t) \/ DeleteTask(t)
      PROVE  DeletedRowsStayDeleted'
  <2>1. CASE AdmitBackgroundTask(t)
    BY <2>1 DEF DeletedRowsStayDeleted, AdmitBackgroundTask, AdmitTest, Open,
       CreateTask
  <2>2. CASE FinishTaskStart(t)
    BY <2>2 DEF DeletedRowsStayDeleted, FinishTaskStart, MaybeResumeVault,
       LiftTombstone, KeepTombstone
  <2>3. CASE Settle(t)
    BY <2>3 DEF DeletedRowsStayDeleted, Settle, Outcomes, UpdateTask
  <2>4. CASE FinishRun(t)
    BY <2>4 DEF DeletedRowsStayDeleted, FinishRun, ReleaseSlot,
       MaybeResumeVault, LiftTombstone, KeepTombstone
  <2>5. CASE DeleteTask(t)
    BY <2>5 DEF DeletedRowsStayDeleted, DeleteTask
  <2>6. CASE \/ Authorize(t) \/ BeginTaskStart(t) \/ RejectSource(t)
             \/ ReserveExclusiveTask(t) \/ AbandonStart(t) \/ CloseDone(t)
             \/ LeaveWaitGroup(t) \/ CancelTask(t)
    BY <1>1, <2>6 DEF Authorize, BeginTaskStart, RejectSource,
       ReserveExclusiveTask, AbandonStart, CloseDone, LeaveWaitGroup,
       CancelTask
  <2>. QED
    BY <1>2, <2>1, <2>2, <2>3, <2>4, <2>5, <2>6 DEF StarterStep, WorkerStep
<1>3. ASSUME NEW d \in Deleters, DeleterStep(d)
      PROVE  DeletedRowsStayDeleted'
  <2>1. CASE PublishTombstone(d)
    BY <2>1 DEF DeletedRowsStayDeleted, PublishTombstone, DelStep,
       QuiesceTargets
  <2>2. CASE RefuseQuiesce(d)
    BY <2>2 DEF DeletedRowsStayDeleted, RefuseQuiesce, DelStep
  <2>3. CASE CancelTargets(d)
    BY <2>3 DEF DeletedRowsStayDeleted, CancelTargets, DelStep
  <2>4. CASE Quiesced(d)
    BY <2>4 DEF DeletedRowsStayDeleted, Quiesced, DelStep, TargetsExited
  <2>5. CASE QuiesceTimeout(d)
    BY <2>5 DEF DeletedRowsStayDeleted, QuiesceTimeout, DelStep
  <2>6. CASE LaterStepFails(d)
    BY <2>6 DEF DeletedRowsStayDeleted, LaterStepFails, DelStep
  <2>7. CASE StayQuiesced(d)
    BY <2>7 DEF DeletedRowsStayDeleted, StayQuiesced, DelStep
  <2>8. CASE ResumeVault(d)
    BY <2>8 DEF DeletedRowsStayDeleted, ResumeVault, DelStep, LiftTombstone
  <2>9. CASE DeleteVault(d)
    BY <2>9 DEF DeletedRowsStayDeleted, DeleteVault, DelStep
  <2>10. CASE DropSessions(d)
    BY <2>10 DEF DeletedRowsStayDeleted, DropSessions, DelStep
  <2>11. CASE ForgetVault(d)
    BY <2>11 DEF DeletedRowsStayDeleted, ForgetVault, DelStep, LiftTombstone
  <2>. QED
    BY <1>3, <2>1, <2>2, <2>3, <2>4, <2>5, <2>6, <2>7, <2>8, <2>9, <2>10,
       <2>11 DEF DeleterStep
<1>4. ASSUME NEW d \in Deleters, NEW v \in Vaults, FindVault(d, v)
      PROVE  DeletedRowsStayDeleted'
  BY <1>4 DEF DeletedRowsStayDeleted, FindVault, DelStep
<1>5. ASSUME NEW v \in Vaults, DeleteCompletedTasks(v)
      PROVE  DeletedRowsStayDeleted'
  BY <1>5 DEF DeletedRowsStayDeleted, DeleteCompletedTasks
<1>6. CASE Shutdown
  BY <1>1, <1>6 DEF Shutdown
<1>7. CASE StartsDrained
  BY <1>1, <1>7 DEF StartsDrained
<1>8. CASE WorkersDrained
  BY <1>1, <1>8 DEF WorkersDrained
<1>9. CASE Restart
  BY <1>9 DEF DeletedRowsStayDeleted, Restart, RecoverTasks
<1>10. CASE Exited \/ UNCHANGED vars
  BY <1>1, <1>10 DEF Exited, vars
<1>. QED
  BY <1>2, <1>3, <1>4, <1>5, <1>6, <1>7, <1>8, <1>9, <1>10
     DEF Next, MainStep

\* The owner that leaves last honours the deferred resume as it leaves.
LEMMA DeferredResumeStep ==
    ASSUME TypeOK, Targets,
           DeferredResumeHasOwner, [Next]_vars
    PROVE  DeferredResumeHasOwner'
<1>. USE DEF mgrVars, gateVars, slotVars, dbVars, delVars, mainVars, TypeOK,
           HasOwner, Targets
<1>1. ASSUME UNCHANGED <<closed, resumeVaults, running, pendingStarts>>
      PROVE  DeferredResumeHasOwner'
  BY <1>1 DEF DeferredResumeHasOwner
<1>2. ASSUME NEW t \in Tasks,
             Authorize(t) \/ StarterStep(t) \/ WorkerStep(t)
             \/ CancelTask(t) \/ DeleteTask(t)
      PROVE  DeferredResumeHasOwner'
  <2>1. CASE BeginTaskStart(t)
    BY <2>1 DEF DeferredResumeHasOwner, BeginTaskStart, Open
  <2>2. CASE AdmitBackgroundTask(t)
    BY <2>2 DEF DeferredResumeHasOwner, AdmitBackgroundTask, AdmitTest, Open,
       CreateTask
  <2>3. CASE FinishTaskStart(t)
    BY <2>3 DEF DeferredResumeHasOwner, FinishTaskStart, MaybeResumeVault,
       LiftTombstone, KeepTombstone
  <2>4. CASE FinishRun(t)
    BY <2>4 DEF DeferredResumeHasOwner, FinishRun, ReleaseSlot,
       MaybeResumeVault, LiftTombstone, KeepTombstone
  <2>5. CASE \/ Authorize(t) \/ RejectSource(t) \/ ReserveExclusiveTask(t)
             \/ AbandonStart(t) \/ Settle(t) \/ CloseDone(t)
             \/ LeaveWaitGroup(t) \/ CancelTask(t) \/ DeleteTask(t)
    BY <1>1, <2>5 DEF Authorize, RejectSource, ReserveExclusiveTask,
       AbandonStart, Settle, CloseDone, LeaveWaitGroup, CancelTask, DeleteTask
  <2>. QED
    BY <1>2, <2>1, <2>2, <2>3, <2>4, <2>5 DEF StarterStep, WorkerStep
<1>3. ASSUME NEW d \in Deleters, DeleterStep(d)
      PROVE  DeferredResumeHasOwner'
  <2>1. CASE ResumeVault(d)
    BY <2>1 DEF DeferredResumeHasOwner, ResumeVault, DelStep, LiftTombstone
  <2>2. CASE ForgetVault(d)
    BY <2>2 DEF DeferredResumeHasOwner, ForgetVault, DelStep, LiftTombstone
  <2>3. CASE \/ PublishTombstone(d) \/ RefuseQuiesce(d) \/ CancelTargets(d)
             \/ Quiesced(d) \/ QuiesceTimeout(d) \/ LaterStepFails(d)
             \/ StayQuiesced(d) \/ DeleteVault(d) \/ DropSessions(d)
    BY <1>1, <2>3 DEF PublishTombstone, RefuseQuiesce, CancelTargets,
       Quiesced, QuiesceTimeout, LaterStepFails, StayQuiesced, DeleteVault,
       DropSessions, DelStep
  <2>. QED
    BY <1>3, <2>1, <2>2, <2>3 DEF DeleterStep
<1>4. ASSUME NEW d \in Deleters, NEW v \in Vaults, FindVault(d, v)
      PROVE  DeferredResumeHasOwner'
  BY <1>1, <1>4 DEF FindVault, DelStep
<1>5. ASSUME NEW v \in Vaults, DeleteCompletedTasks(v)
      PROVE  DeferredResumeHasOwner'
  BY <1>1, <1>5 DEF DeleteCompletedTasks
<1>6. CASE Shutdown
  BY <1>6 DEF DeferredResumeHasOwner, Shutdown
<1>7. CASE StartsDrained
  BY <1>1, <1>7 DEF StartsDrained
<1>8. CASE WorkersDrained
  BY <1>1, <1>8 DEF WorkersDrained
<1>9. CASE Restart
  BY <1>9 DEF DeferredResumeHasOwner, Restart, RecoverTasks
<1>10. CASE Exited \/ UNCHANGED vars
  BY <1>1, <1>10 DEF Exited, vars
<1>. QED
  BY <1>2, <1>3, <1>4, <1>5, <1>6, <1>7, <1>8, <1>9, <1>10
     DEF Next, MainStep

\* After Shutdown no Start* call begins, so first the starts and then the
\* workers run out.
LEMMA ClosingStep ==
    ASSUME TypeOK, Unadmitted, Registered, Closing,
           [Next]_vars
    PROVE  Closing'
<1>. USE DEF mgrVars, gateVars, slotVars, dbVars, delVars, mainVars, TypeOK,
           Unadmitted, Registered
<1>1. ASSUME UNCHANGED <<closed, main, pendingStarts, work>>
      PROVE  Closing'
  BY <1>1 DEF Closing
<1>2. ASSUME NEW t \in Tasks,
             Authorize(t) \/ StarterStep(t) \/ WorkerStep(t)
             \/ CancelTask(t) \/ DeleteTask(t)
      PROVE  Closing'
  <2>1. CASE BeginTaskStart(t)
    BY <2>1 DEF Closing, BeginTaskStart, Open
  <2>2. CASE AdmitBackgroundTask(t)
    BY <2>2 DEF Closing, AdmitBackgroundTask, AdmitTest, Open, CreateTask
  <2>3. CASE FinishTaskStart(t)
    BY <2>3 DEF Closing, FinishTaskStart, MaybeResumeVault, LiftTombstone,
       KeepTombstone
  <2>4. CASE Settle(t)
    BY <2>4 DEF Closing, Settle, Outcomes, UpdateTask
  <2>5. CASE FinishRun(t)
    BY <2>5 DEF Closing, FinishRun, ReleaseSlot, MaybeResumeVault,
       LiftTombstone, KeepTombstone
  <2>6. CASE CloseDone(t)
    BY <2>6 DEF Closing, CloseDone
  <2>7. CASE LeaveWaitGroup(t)
    BY <2>7 DEF Closing, LeaveWaitGroup
  <2>8. CASE \/ Authorize(t) \/ RejectSource(t) \/ ReserveExclusiveTask(t)
             \/ AbandonStart(t) \/ CancelTask(t) \/ DeleteTask(t)
    BY <1>1, <2>8 DEF Authorize, RejectSource, ReserveExclusiveTask,
       AbandonStart, CancelTask, DeleteTask
  <2>. QED
    BY <1>2, <2>1, <2>2, <2>3, <2>4, <2>5, <2>6, <2>7, <2>8 DEF StarterStep, WorkerStep
<1>3. ASSUME NEW d \in Deleters, DeleterStep(d)
      PROVE  Closing'
  BY <1>1, <1>3 DEF DeleterStep, PublishTombstone, RefuseQuiesce,
     CancelTargets, Quiesced, QuiesceTimeout, LaterStepFails, StayQuiesced,
     ResumeVault, DeleteVault, DropSessions, ForgetVault, DelStep
<1>4. ASSUME NEW d \in Deleters, NEW v \in Vaults, FindVault(d, v)
      PROVE  Closing'
  BY <1>1, <1>4 DEF FindVault, DelStep
<1>5. ASSUME NEW v \in Vaults, DeleteCompletedTasks(v)
      PROVE  Closing'
  BY <1>1, <1>5 DEF DeleteCompletedTasks
<1>6. CASE Shutdown
  BY <1>6 DEF Closing, Shutdown
<1>7. CASE StartsDrained
  BY <1>7 DEF Closing, StartsDrained
<1>8. CASE WorkersDrained
  BY <1>8 DEF Closing, WorkersDrained
<1>9. CASE Restart
  BY <1>9 DEF Closing, Restart, RecoverTasks
<1>10. CASE Exited \/ UNCHANGED vars
  BY <1>1, <1>10 DEF Exited, vars
<1>. QED
  BY <1>2, <1>3, <1>4, <1>5, <1>6, <1>7, <1>8, <1>9, <1>10
     DEF Next, MainStep

-----------------------------------------------------------------------------
(* The theorems.                                                           *)

\* A fresh process with an empty database satisfies the invariant.
LEMMA InitEstablishesInv == Init => IInv
<1>. SUFFICES ASSUME Init PROVE IInv
  OBVIOUS
<1>1. TypeOK
  BY BoundsAssumption DEF Init, TypeOK, StartStates, WorkStates, DelStates,
     MainStates
<1>2. Unadmitted /\ Registered /\ Slots /\ Rows /\ Targets
  BY DEF Init, Unadmitted, Registered, Slots, Rows, Targets, HoldsSlot
<1>3. Standing /\ DeletedRowsStayDeleted /\ DeferredResumeHasOwner /\ Closing
  BY DEF Init, Standing, DeletedRowsStayDeleted, DeferredResumeHasOwner, Closing
<1>. QED
  BY <1>1, <1>2, <1>3 DEF IInv

\* Every step of the manager, of a deletion, of the shutdown and of a restart
\* preserves the invariant.
LEMMA NextKeepsInv == IInv /\ [Next]_vars => IInv'
BY TypeOKStep, UnadmittedStep, RegisteredStep, SlotsStep, RowsStep,
   TargetsStep, StandingStep, DeletedRowsStep, DeferredResumeStep, ClosingStep
   DEF IInv

\* The strengthened invariant holds in every reachable state, for any number
\* of tasks, vaults, deletion requests, lost writes and restarts.
THEOREM Invariance == Spec => []IInv
BY InitEstablishesInv, NextKeepsInv, PTL DEF Spec

\* The variables keep their types in every behaviour of the manager.
THEOREM TypeCorrect == Spec => []TypeOK
<1>1. IInv => TypeOK
  BY DEF IInv
<1>. QED
  BY <1>1, Invariance, PTL

\* reserveExclusiveTask excludes: at most one task of a vault and kind is
\* between its reservation and its finishRun.
THEOREM AtMostOneTaskPerSlot == Spec => []ExclusiveTasks
<1>1. IInv => ExclusiveTasks
  BY DEF IInv, Slots, ExclusiveTasks
<1>. QED
  BY <1>1, Invariance, PTL

\* No failed start, ended worker or restart leaves its slot taken.
THEOREM NoSlotLeaks == Spec => []SlotsAreHeld
<1>1. IInv => SlotsAreHeld
  BY DEF IInv, Slots, SlotsAreHeld, TypeOK
<1>. QED
  BY <1>1, Invariance, PTL

\* So a slot has one holder, which still has it.
THEOREM SlotsAreExclusive == Spec => []ExclusiveSlots
  BY AtMostOneTaskPerSlot, NoSlotLeaks, PTL DEF ExclusiveSlots

\* QuiesceVault is a barrier for as long as its own tombstone stands: the
\* vault has no starter and no worker under way once it has returned nil.
THEOREM QuiesceIsABarrier == Spec => []BarrierDrained
<1>1. ASSUME IInv PROVE BarrierDrained
  <2>1. SUFFICES ASSUME NEW d \in standing,
                        delPc[d] \in {"quiesced", "rowsGone", "forgetting"},
                        NEW t \in TasksOf(delVault[d])
                 PROVE  ~Busy(t)
    BY DEF BarrierDrained
  <2>2. t \in Tasks /\ t \notin running /\ t \notin pendingStarts
    BY <1>1, <2>1 DEF IInv, Standing, TasksOf
  <2>. QED
    BY <1>1, <2>2 DEF IInv, Registered, Busy
<1>. QED
  BY <1>1, Invariance, PTL

\* While a deletion's tombstone stands, no task row of the vault reappears
\* after db.DeleteVault.
THEOREM DeletionIsFinal == Spec => []DeletedRowsStayDeleted
<1>1. IInv => DeletedRowsStayDeleted
  BY DEF IInv
<1>. QED
  BY <1>1, Invariance, PTL

\* A row is left running only by its worker, or by a lost status write.
THEOREM NoOrphanedRow == Spec => []RunningRowsHaveWorker
<1>1. IInv => RunningRowsHaveWorker
  BY DEF IInv, Rows, RunningRowsHaveWorker
<1>. QED
  BY <1>1, Invariance, PTL

\* A deferred ResumeVault always has an owner left to honour it.
THEOREM NoForgottenResume == Spec => []DeferredResumeHasOwner
<1>1. IInv => DeferredResumeHasOwner
  BY DEF IInv
<1>. QED
  BY <1>1, Invariance, PTL

\* Shutdown and Wait are a barrier too: the database is closed behind the last
\* starter and the last worker.
THEOREM ShutdownIsABarrier == Spec => []DrainedIsQuiet
<1>1. ASSUME IInv PROVE DrainedIsQuiet
  BY <1>1 DEF IInv, Closing, Registered, DrainedIsQuiet
<1>. QED
  BY <1>1, Invariance, PTL

\* So both barriers of the manager stand over work that has ended.
THEOREM BarriersAreDrained == Spec => []BarriersDrain
  BY QuiesceIsABarrier, ShutdownIsABarrier, PTL DEF BarriersDrain

\* No action but admission and Settle writes a status over another, and they
\* only meet rows that are not terminal.
LEMMA TerminalStep ==
    ASSUME IInv, [Next]_vars, NEW u \in Tasks, row[u] \in Terminal
    PROVE  row'[u] \in {row[u], "none"}
<1>. USE DEF mgrVars, gateVars, slotVars, dbVars, delVars, mainVars, IInv,
           TypeOK, Unadmitted, Rows, Terminal
<1>1. ASSUME UNCHANGED row
      PROVE  row'[u] \in {row[u], "none"}
  BY <1>1
<1>2. ASSUME NEW t \in Tasks,
             Authorize(t) \/ StarterStep(t) \/ WorkerStep(t)
             \/ CancelTask(t) \/ DeleteTask(t)
      PROVE  row'[u] \in {row[u], "none"}
  <2>1. CASE AdmitBackgroundTask(t)
    BY <2>1 DEF AdmitBackgroundTask, AdmitTest, Open, CreateTask
  <2>2. CASE Settle(t)
    BY <2>2 DEF Settle, Outcomes, UpdateTask
  <2>3. CASE DeleteTask(t)
    BY <2>3 DEF DeleteTask
  <2>4. CASE \/ Authorize(t) \/ BeginTaskStart(t) \/ RejectSource(t)
             \/ ReserveExclusiveTask(t) \/ AbandonStart(t)
             \/ FinishTaskStart(t) \/ FinishRun(t) \/ CloseDone(t)
             \/ LeaveWaitGroup(t) \/ CancelTask(t)
    BY <1>1, <2>4 DEF Authorize, BeginTaskStart, RejectSource,
       ReserveExclusiveTask, AbandonStart, FinishTaskStart, FinishRun,
       CloseDone, LeaveWaitGroup, CancelTask
  <2>. QED
    BY <1>2, <2>1, <2>2, <2>3, <2>4 DEF StarterStep, WorkerStep
<1>3. ASSUME NEW d \in Deleters, DeleterStep(d)
      PROVE  row'[u] \in {row[u], "none"}
  <2>1. CASE DeleteVault(d)
    BY <2>1 DEF DeleteVault, DelStep
  <2>2. CASE \/ PublishTombstone(d) \/ RefuseQuiesce(d) \/ CancelTargets(d)
             \/ Quiesced(d) \/ QuiesceTimeout(d) \/ LaterStepFails(d)
             \/ StayQuiesced(d) \/ ResumeVault(d) \/ DropSessions(d)
             \/ ForgetVault(d)
    BY <1>1, <2>2 DEF PublishTombstone, RefuseQuiesce, CancelTargets,
       Quiesced, QuiesceTimeout, LaterStepFails, StayQuiesced, ResumeVault,
       DropSessions, ForgetVault, DelStep
  <2>. QED
    BY <1>3, <2>1, <2>2 DEF DeleterStep
<1>4. ASSUME NEW d \in Deleters, NEW v \in Vaults, FindVault(d, v)
      PROVE  row'[u] \in {row[u], "none"}
  BY <1>1, <1>4 DEF FindVault, DelStep
<1>5. ASSUME NEW v \in Vaults, DeleteCompletedTasks(v)
      PROVE  row'[u] \in {row[u], "none"}
  BY <1>5 DEF DeleteCompletedTasks
<1>6. CASE Shutdown
  BY <1>1, <1>6 DEF Shutdown
<1>7. CASE StartsDrained
  BY <1>1, <1>7 DEF StartsDrained
<1>8. CASE WorkersDrained
  BY <1>1, <1>8 DEF WorkersDrained
<1>9. CASE Restart
  BY <1>9 DEF Restart, RecoverTasks
<1>10. CASE Exited \/ UNCHANGED vars
  BY <1>1, <1>10 DEF Exited, vars
<1>. QED
  BY <1>2, <1>3, <1>4, <1>5, <1>6, <1>7, <1>8, <1>9, <1>10
     DEF Next, MainStep

\* Once a task is done, failed or cancelled, its row never says anything else
\* until it is deleted: late workers and restarts included.
THEOREM TerminalRowsAreFinal == Spec => TerminalIsFinal
<1>1. IInv /\ [Next]_vars =>
        [\A t \in Tasks : row[t] \in Terminal => row'[t] \in {row[t], "none"}]_vars
  BY TerminalStep
<1>. QED
  BY <1>1, Invariance, PTL DEF Spec, TerminalIsFinal

-----------------------------------------------------------------------------
(* The refinement of VaultGate.                                            *)

\* A vault without an owner in the two maps has nobody inside.
LEMMA NoOwnerInside ==
    ASSUME NEW v, NEW runs, NEW starts, runs \cup starts \subseteq Tasks
    PROVE  ~HasOwner(v, runs, starts) <=> Gate!InsideOf(v, starts \cup runs) = {}
BY DEF HasOwner, Gate!InsideOf

\* Leaving one of the two maps is, for the gate, to stay inside (the other map
\* still holds the task), to leave, or to leave last and lift the tombstone.
LEMMA LeaveStep ==
    ASSUME TypeOK, NEW t \in Tasks, NEW runs, NEW starts,
           t \in pendingStarts \cup running,
           starts \cup runs \subseteq pendingStarts \cup running,
           pendingStarts \cup running \subseteq (starts \cup runs) \cup {t},
           pendingStarts' = starts, running' = runs,
           MaybeResumeVault(VaultOf[t], runs, starts)
    PROVE  \/ Gate!Leave(t) \/ Gate!LeaveLast(t) \/ UNCHANGED Gate!gate
<1>. DEFINE v == VaultOf[t]
<1>1. CASE t \in starts \cup runs
  <2>1. HasOwner(v, runs, starts)
    BY <1>1 DEF HasOwner
  <2>2. UNCHANGED quiescingVaults
    BY <2>1 DEF MaybeResumeVault, KeepTombstone, gateVars
  <2>. QED
    BY <1>1, <2>2 DEF Gate!gate
<1>2. CASE t \notin starts \cup runs
  <2>1. pendingStarts' \cup running' = (pendingStarts \cup running) \ {t}
    BY <1>2
  <2>2. CASE v \in resumeVaults /\ ~closed /\ ~HasOwner(v, runs, starts)
    <3>1. quiescingVaults' = quiescingVaults \ {v}
      BY <2>2 DEF MaybeResumeVault, LiftTombstone
    <3>2. Gate!InsideOf(v, pendingStarts \cup running) \subseteq {t}
      BY <2>2 DEF HasOwner, Gate!InsideOf
    <3>. QED
      BY <2>1, <3>1, <3>2 DEF Gate!LeaveLast
  <2>3. CASE ~(v \in resumeVaults /\ ~closed /\ ~HasOwner(v, runs, starts))
    <3>1. UNCHANGED quiescingVaults
      BY <2>3 DEF MaybeResumeVault, KeepTombstone, gateVars
    <3>. QED
      BY <2>1, <3>1 DEF Gate!Leave
  <2>. QED
    BY <2>2, <2>3
<1>. QED
  BY <1>1, <1>2

\* Every step of the manager is a step of the gate or leaves it alone.
LEMMA GateStep ==
    ASSUME IInv, [Next]_vars
    PROVE  [Gate!GateNext]_(Gate!gate)
<1>. USE DEF mgrVars, gateVars, slotVars, dbVars, delVars, mainVars, Gate!gate
<1>1. ASSUME UNCHANGED <<pendingStarts, running, quiescingVaults>>
      PROVE  [Gate!GateNext]_(Gate!gate)
  BY <1>1
<1>2. ASSUME NEW t \in Tasks,
             Authorize(t) \/ StarterStep(t) \/ WorkerStep(t)
             \/ CancelTask(t) \/ DeleteTask(t)
      PROVE  [Gate!GateNext]_(Gate!gate)
  <2>1. CASE BeginTaskStart(t)
    <3>1. CASE Open(t)
      BY <2>1, <3>1 DEF BeginTaskStart, Open, Gate!GateNext, Gate!Enter
    <3>2. CASE ~Open(t)
      BY <1>1, <2>1, <3>2 DEF BeginTaskStart
    <3>. QED
      BY <3>1, <3>2
  <2>2. CASE AdmitBackgroundTask(t)
    <3>1. t \in pendingStarts /\ running' = running \cup {t}
      BY <2>2 DEF IInv, Registered, AdmitBackgroundTask
    <3>. QED
      BY <2>2, <3>1 DEF AdmitBackgroundTask
  <2>3. CASE FinishTaskStart(t)
    <3>1. t \in pendingStarts /\ pendingStarts' = pendingStarts \ {t}
          /\ running' = running
          /\ MaybeResumeVault(VaultOf[t], running, pendingStarts \ {t})
      BY <2>3 DEF IInv, Registered, FinishTaskStart
    <3>. QED
      BY <3>1, LeaveStep DEF IInv, Gate!GateNext
  <2>4. CASE FinishRun(t)
    <3>1. t \in running /\ running' = running \ {t}
          /\ pendingStarts' = pendingStarts
          /\ MaybeResumeVault(VaultOf[t], running \ {t}, pendingStarts)
      BY <2>4 DEF IInv, Registered, FinishRun
    <3>. QED
      BY <3>1, LeaveStep DEF IInv, Gate!GateNext
  <2>5. CASE \/ Authorize(t) \/ RejectSource(t) \/ ReserveExclusiveTask(t)
             \/ AbandonStart(t) \/ Settle(t) \/ CloseDone(t)
             \/ LeaveWaitGroup(t) \/ CancelTask(t) \/ DeleteTask(t)
    BY <1>1, <2>5 DEF Authorize, RejectSource, ReserveExclusiveTask,
       AbandonStart, Settle, CloseDone, LeaveWaitGroup, CancelTask, DeleteTask
  <2>. QED
    BY <1>2, <2>1, <2>2, <2>3, <2>4, <2>5 DEF StarterStep, WorkerStep
<1>3. ASSUME NEW d \in Deleters, DeleterStep(d)
      PROVE  [Gate!GateNext]_(Gate!gate)
  <2>1. CASE PublishTombstone(d)
    <3>1. delVault[d] \in Vaults
      BY <2>1 DEF IInv, Targets, PublishTombstone, DelStep
    <3>. QED
      BY <2>1, <3>1 DEF PublishTombstone, Gate!GateNext, Gate!Seal
  <2>2. CASE ResumeVault(d)
    <3>. DEFINE v == delVault[d]
    <3>1. v \in Vaults /\ UNCHANGED <<running, pendingStarts>>
      BY <2>2 DEF IInv, Targets, ResumeVault, DelStep
    <3>2. CASE HasOwner(v, running, pendingStarts)
      BY <1>1, <2>2, <3>1, <3>2 DEF ResumeVault
    <3>3. CASE ~HasOwner(v, running, pendingStarts)
      <4>1. quiescingVaults' = quiescingVaults \ {v}
        BY <2>2, <3>3 DEF ResumeVault, LiftTombstone
      <4>2. Gate!InsideOf(v, pendingStarts \cup running) = {}
        BY <3>3, NoOwnerInside DEF IInv, TypeOK
      <4>. QED
        BY <3>1, <4>1, <4>2 DEF Gate!GateNext, Gate!Unseal
    <3>. QED
      BY <3>2, <3>3
  <2>3. CASE ForgetVault(d)
    <3>. DEFINE v == delVault[d]
    <3>1. v \in Vaults /\ UNCHANGED <<running, pendingStarts>>
      BY <2>3 DEF IInv, Targets, ForgetVault, DelStep
    <3>2. CASE HasOwner(v, running, pendingStarts)
      BY <1>1, <2>3, <3>1, <3>2 DEF ForgetVault
    <3>3. CASE ~HasOwner(v, running, pendingStarts)
      <4>1. quiescingVaults' = quiescingVaults \ {v}
        BY <2>3, <3>3 DEF ForgetVault, LiftTombstone
      <4>2. Gate!InsideOf(v, pendingStarts \cup running) = {}
        BY <3>3, NoOwnerInside DEF IInv, TypeOK
      <4>. QED
        BY <3>1, <4>1, <4>2 DEF Gate!GateNext, Gate!Unseal
    <3>. QED
      BY <3>2, <3>3
  <2>4. CASE \/ RefuseQuiesce(d) \/ CancelTargets(d) \/ Quiesced(d)
             \/ QuiesceTimeout(d) \/ LaterStepFails(d) \/ StayQuiesced(d)
             \/ DeleteVault(d) \/ DropSessions(d)
    BY <1>1, <2>4 DEF RefuseQuiesce, CancelTargets, Quiesced, QuiesceTimeout,
       LaterStepFails, StayQuiesced, DeleteVault, DropSessions, DelStep
  <2>. QED
    BY <1>3, <2>1, <2>2, <2>3, <2>4 DEF DeleterStep
<1>4. ASSUME NEW d \in Deleters, NEW v \in Vaults, FindVault(d, v)
      PROVE  [Gate!GateNext]_(Gate!gate)
  BY <1>1, <1>4 DEF FindVault, DelStep
<1>5. ASSUME NEW v \in Vaults, DeleteCompletedTasks(v)
      PROVE  [Gate!GateNext]_(Gate!gate)
  BY <1>1, <1>5 DEF DeleteCompletedTasks
<1>6. CASE Shutdown
  BY <1>1, <1>6 DEF Shutdown
<1>7. CASE StartsDrained
  BY <1>1, <1>7 DEF StartsDrained
<1>8. CASE WorkersDrained
  BY <1>1, <1>8 DEF WorkersDrained
<1>9. CASE Restart
  BY <1>9 DEF Restart, Gate!GateNext, Gate!Crash
<1>10. CASE Exited \/ UNCHANGED vars
  BY <1>1, <1>10 DEF Exited, vars
<1>. QED
  BY <1>2, <1>3, <1>4, <1>5, <1>6, <1>7, <1>8, <1>9, <1>10
     DEF Next, MainStep

\* The manager implements the gate: no task enters a vault behind a tombstone,
\* and a tombstone is lifted only when the vault has no owner.
THEOREM ManagerImplementsGate == Spec => ImplementsGate
<1>1. Init => Gate!GateInit
  BY DEF Init, Gate!GateInit
<1>2. IInv /\ [Next]_vars => [Gate!GateNext]_(Gate!gate)
  BY GateStep
<1>. QED
  BY <1>1, <1>2, Invariance, PTL DEF Spec, ImplementsGate, Gate!GateSpec

\* So a vault behind a tombstone only empties, and is empty when the tombstone
\* is lifted.
THEOREM TombstonesHold == Spec => Gate!SealHolds
BY ManagerImplementsGate, Gate!SealsHold DEF ImplementsGate
==============================================================================
