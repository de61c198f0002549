----------------------- MODULE ThumbnailGeneratorProofs -----------------------
(***************************************************************************)
(* Proofs about ThumbnailGenerator for any number of keys, vaults,         *)
(* requests, imports and deletions, any queue and any number of rebuilds:  *)
(* jobs are counted exactly, a quiesced vault has no job, a removed cache  *)
(* stays empty, and the generator is the gate of VaultGate.  References    *)
(* are exact until a rebuild begins, and thumbnails are fresh until then   *)
(* while no commit loses its index entry.                                  *)
(***************************************************************************)
EXTENDS ThumbnailGenerator, FiniteSetTheorems, SequenceTheorems, TLAPS

\* The steps of a writer, of the rebuild, of a deletion and of Stop.
WriterAct(w) ==
    \/ WriterStep(w)
    \/ \E k \in Keys : CommitFile(w, k) \/ LoseIndex(w, k) \/ RemoveFile(w, k)
RebuildAct == RebuildStep \/ RebuildAborts \/ \E v \in Vaults : StartRebuild(v)
DeleterAct(d) == DeleterStep(d) \/ \E v \in Vaults : FindVault(d, v)
StopAct == BeginStop \/ StopStep

LEMMA Steps ==
    ASSUME [Next]_vars
    PROVE  \/ WorkerStep
           \/ \E k \in Keys : ForgetFailure(k)
           \/ \E w \in Writers : WriterAct(w)
           \/ RebuildAct
           \/ \E d \in Deleters : DeleterAct(d)
           \/ StopAct
           \/ UNCHANGED vars
BY DEF Next, WriterAct, RebuildAct, DeleterAct, StopAct, Terminated

-----------------------------------------------------------------------------
(* What each actor leaves alone.                                           *)

LEMMA WorkerFrame ==
    ASSUME WorkerStep
    PROVE  UNCHANGED <<stop, file, empty, deleted, noTasks, writer, rebuild, deleter>>
<1>. USE DEF diskVars, callerVars, ghostVars, Finish
<1>1. CASE Receive \/ BeginJob \/ RefuseJob \/ DiscardJob
  BY <1>1 DEF Receive, BeginJob, RefuseJob, DiscardJob
<1>2. CASE StartGenerate \/ FetchFrame \/ FetchFails
  BY <1>2 DEF StartGenerate, FetchFrame, FetchFails
<1>3. CASE LockCommit \/ Commit \/ FinishJob \/ EndJob \/ WorkerExits
  BY <1>3 DEF LockCommit, Commit, FinishJob, EndJob, WorkerExits
<1>. QED
  BY <1>1, <1>2, <1>3 DEF WorkerStep

LEMMA WriterFrame ==
    ASSUME NEW w \in Writers, WriterAct(w)
    PROVE  UNCHANGED <<work, commitMu, stop, waiting, dirs, deleted, noTasks,
                       rebuild, deleter, standing>>
<1>. USE DEF genVars, diskVars, callerVars, ghostVars
<1>1. CASE WriterStep(w)
  BY <1>1 DEF WriterStep, Invalidate, LookForThumbnail, EnqueueThumbnail
<1>2. ASSUME NEW k \in Keys, CommitFile(w, k) \/ LoseIndex(w, k) \/ RemoveFile(w, k)
      PROVE  UNCHANGED <<work, commitMu, stop, waiting, dirs, deleted, noTasks,
                         rebuild, deleter, standing>>
  BY <1>2 DEF CommitFile, LoseIndex, RemoveFile
<1>. QED
  BY <1>1, <1>2 DEF WriterAct

LEMMA RebuildFrame ==
    ASSUME RebuildAct
    PROVE  UNCHANGED <<stop, file, empty, deleted, noTasks, writer, deleter>>
<1>. USE DEF genVars, diskVars, callerVars, ghostVars
<1>1. CASE RebuildStep
  BY <1>1 DEF RebuildStep, RemoveCache, PurgeCaches, ReopenForRebuild, WalkFile, LookForRebuild,
     AdmitForRebuild, VaultIdle, LeaveRebuild
<1>2. CASE RebuildAborts \/ \E v \in Vaults : StartRebuild(v)
  BY <1>2 DEF RebuildAborts, StartRebuild
<1>. QED
  BY <1>1, <1>2 DEF RebuildAct

LEMMA DeleterFrame ==
    ASSUME NEW d \in Deleters, DeleterAct(d)
    PROVE  UNCHANGED <<queue, commitMu, stop, writer, rebuild>>
<1>. USE DEF genVars, diskVars, callerVars, ghostVars
<1>1. CASE QuiesceThumbnails(d) \/ Drained(d) \/ DrainTimeout(d) \/ LockLifeMu(d)
  BY <1>1 DEF QuiesceThumbnails, Drained, DrainTimeout, LockLifeMu
<1>2. CASE DeletionFails(d) \/ ResumeWorkers(d) \/ RemoveStorage(d)
  BY <1>2 DEF DeletionFails, ResumeWorkers, RemoveStorage
<1>3. CASE StayQuiesced(d) \/ DeleteRow(d) \/ ForgetThumbnails(d)
  BY <1>3 DEF StayQuiesced, DeleteRow, ForgetThumbnails
<1>4. CASE \E v \in Vaults : FindVault(d, v)
  BY <1>4 DEF FindVault
<1>. QED
  BY <1>1, <1>2, <1>3, <1>4 DEF DeleterAct, DeleterStep

LEMMA StopFrame ==
    ASSUME StopAct
    PROVE  UNCHANGED <<queue, life, cache, commitMu, waiting, diskVars, callerVars, ghostVars>>
BY DEF StopAct, StopStep, BeginStop, CloseJobs, StopReturns

-----------------------------------------------------------------------------
(* Types.                                                                  *)

LifeRecord == [quiescing : BOOLEAN, retiring : BOOLEAN, resume : BOOLEAN, pending : Nat]
LifeType == [Vaults -> LifeRecord]
CacheType == [queued : SUBSET Keys, failed : SUBSET Keys, gens : [Keys -> Nat],
              refs : [Keys -> Nat]]
WorkType ==
    [pc : {"idle", "exited"}]
    \cup [pc : {"received", "discarding", "ended"}, key : Keys, gen : Nat]
    \cup [pc : {"claimed", "fetching"}, key : Keys, gen : Nat, cut : BOOLEAN]
    \cup [pc : {"encoded", "committing"}, key : Keys, gen : Nat, saw : Nat]
    \cup [pc : {"finished"}, key : Keys, gen : Nat,
          result : {"ok", "error", "stale", "skipped"}]
RebuildType ==
    [pc : {"idle"}]
    \cup [pc : {"draining", "emptied", "purged", "leaving"}, vault : Vaults]
    \cup [pc : {"walking", "leaving"}, vault : Vaults, todo : SUBSET Keys]
    \cup [pc : {"looking", "admitting", "leaving"}, vault : Vaults, todo : SUBSET Keys,
          key : Keys]
WriterType ==
    [pc : {"idle"}]
    \cup [pc : {"committed", "removed", "invalidated", "enqueuing"}, key : Keys]
DeleterType ==
    [pc : {"idle"}]
    \cup [pc : {"found", "draining", "quiesced", "locked", "emptied", "rowGone", "failed"},
          vault : Vaults]

QueueOK == queue \in Seq(JobType) /\ Len(queue) <= QueueSize
WorkOK == work \in WorkType
LocksOK ==
    /\ commitMu \in {"free", "worker", Rebuild}
    /\ waiting \subseteq Quiescers /\ standing \subseteq Quiescers \X Vaults
FilesOK ==
    /\ file \in [Keys -> Nat] /\ thumb \in [Keys -> Nat] /\ empty \subseteq Keys
    /\ dirs \subseteq Vaults /\ deleted \subseteq Vaults /\ noTasks \subseteq Vaults
CallersOK ==
    /\ writer \in [Writers -> WriterType] /\ rebuild \in RebuildType
    /\ deleter \in [Deleters -> DeleterType]
UsedOK ==
    used \in [versions : [Keys -> Nat], empty : Nat, rebuilds : Nat, deletions : Nat,
              failures : Nat, lost : Nat]

StateOK ==
    /\ QueueOK /\ life \in LifeType /\ cache \in CacheType /\ WorkOK /\ LocksOK /\ FilesOK
    /\ CallersOK /\ UsedOK

LEMMA StateTypes == StateOK => TypeOK
<1>1. WorkOK /\ HasJob => work.key \in Keys /\ work.gen \in Nat
  BY DEF WorkOK, WorkType, HasJob
<1>. QED
  BY <1>1 DEF StateOK, TypeOK, QueueOK, LifeType, LifeRecord, CacheType, LocksOK, FilesOK

\* What the worker holds.
LEMMA InHandTypes ==
    ASSUME WorkOK
    PROVE  /\ HasJob => work.key \in Keys /\ work.gen \in Nat /\ VaultOf[work.key] \in Vaults
           /\ work.pc \in {"idle", "received", "claimed", "fetching", "encoded", "committing",
                           "finished", "ended", "discarding", "exited"}
           /\ work.pc \in {"encoded", "committing"} => work.saw \in Nat
BY KeysAssumption DEF WorkOK, WorkType, HasJob

(* The helpers that run under Generator.mu keep the types of its state. *)

LEMMA LifeRetiredType ==
    ASSUME NEW l \in LifeType, NEW v \in Vaults, NEW a
    PROVE  LifeRetired(l, v, a) \in LifeType
BY DEF LifeRetired, NewLife, LifeType, LifeRecord

LEMMA WithoutVaultType ==
    ASSUME NEW f \in [Keys -> Nat], NEW v
    PROVE  WithoutVault(f, v) \in [Keys -> Nat]
BY DEF WithoutVault

LEMMA PurgedType ==
    ASSUME NEW c \in CacheType, NEW v
    PROVE  Purged(c, v) \in CacheType
BY WithoutVaultType DEF Purged, CacheType

LEMMA CacheRetiredType ==
    ASSUME NEW c \in CacheType, NEW l, NEW v, NEW a
    PROVE  CacheRetired(c, l, v, a) \in CacheType
BY PurgedType DEF CacheRetired

LEMMA MaybePurgeType ==
    ASSUME NEW c \in CacheType, NEW k \in Keys
    PROVE  MaybePurgeGeneration(c, k) \in CacheType
BY DEF MaybePurgeGeneration, CacheType

LEMMA ReleasedType ==
    ASSUME NEW c \in CacheType, NEW k \in Keys
    PROVE  Released(c, k) \in CacheType
<1>1. CASE c.refs[k] > 1
  <2>1. c.refs[k] - 1 \in Nat
    BY <1>1 DEF CacheType
  <2>. QED
    BY <1>1, <2>1 DEF Released, CacheType
<1>2. CASE ~(c.refs[k] > 1)
  <2>1. [c EXCEPT !.refs[k] = 0] \in CacheType
    BY DEF CacheType
  <2>. QED
    BY <1>2, <2>1, MaybePurgeType DEF Released
<1>. QED
  BY <1>1, <1>2

LEMMA CountedOffType ==
    ASSUME life \in LifeType, NEW v \in Vaults
    PROVE  CountedOff(v) \in LifeType
<1>1. life[v].pending > 0 => life[v].pending - 1 \in Nat
  BY DEF LifeType, LifeRecord
<1>. QED
  BY <1>1 DEF CountedOff, LifeType, LifeRecord

LEMMA SealTypes ==
    ASSUME NEW l \in LifeType, NEW v \in Vaults
    PROVE  Seal(l, v) \in LifeType /\ Unseal(l, v) \in LifeType
BY DEF Seal, Unseal, LifeType, LifeRecord

LEMMA ResumeType ==
    ASSUME life \in LifeType, NEW v \in Vaults, ResumeVault(v)
    PROVE  life' \in LifeType
BY SealTypes DEF ResumeVault, LifeType, LifeRecord

LEMMA ForgetType ==
    ASSUME life \in LifeType, cache \in CacheType, NEW v \in Vaults, ForgetVault(v)
    PROVE  life' \in LifeType /\ cache' \in CacheType
<1>1. [life EXCEPT ![v].retiring = TRUE, ![v].quiescing = TRUE] \in LifeType
  BY DEF LifeType, LifeRecord
<1>. QED
  BY <1>1, LifeRetiredType, CacheRetiredType DEF ForgetVault

LEMMA EnqueueType ==
    ASSUME QueueOK, life \in LifeType, cache \in CacheType, NEW k \in Keys, Enqueue(k)
    PROVE  QueueOK' /\ life' \in LifeType /\ cache' \in CacheType
<1>1. [key |-> k, gen |-> cache.gens[k]] \in JobType
  BY DEF JobType, CacheType
<1>2. Len(queue) \in Nat /\ Len(queue) < QueueSize
  <2>1. Len(queue) \in Nat /\ Len(queue) <= QueueSize /\ Len(queue) # QueueSize
    BY DEF QueueOK, Enqueue, QueueFull
  <2>. QED
    BY <2>1, QueueAssumption
<1>3. QueueOK'
  <2>1. queue' \in Seq(JobType) /\ Len(queue') = Len(queue) + 1
    BY <1>1 DEF QueueOK, Enqueue
  <2>. QED
    BY <1>2, <2>1, QueueAssumption DEF QueueOK
<1>4. life' \in LifeType
  BY KeysAssumption DEF Enqueue, LifeType, LifeRecord
<1>5. cache' \in CacheType
  <2>1. cache.refs[k] + 1 \in Nat
    BY DEF CacheType
  <2>2. cache' = [cache EXCEPT !.queued = cache.queued \cup {k},
                               !.refs = [cache.refs EXCEPT ![k] = cache.refs[k] + 1]]
    BY DEF Enqueue, CacheType
  <2>3. [cache.refs EXCEPT ![k] = cache.refs[k] + 1] \in [Keys -> Nat]
    BY <2>1 DEF CacheType
  <2>. QED
    BY <2>2, <2>3 DEF CacheType
<1>. QED
  BY <1>3, <1>4, <1>5

LEMMA DeleteThumbnailType ==
    ASSUME cache \in CacheType, thumb \in [Keys -> Nat], NEW k \in Keys, DeleteThumbnail(k)
    PROVE  cache' \in CacheType /\ thumb' \in [Keys -> Nat]
<1>1. [cache EXCEPT !.gens[k] = @ + 1, !.queued = @ \ {k}, !.failed = @ \ {k}] \in CacheType
  <2>1. cache.gens[k] + 1 \in Nat
    BY DEF CacheType
  <2>2. [cache.gens EXCEPT ![k] = cache.gens[k] + 1] \in [Keys -> Nat]
    BY <2>1 DEF CacheType
  <2>3. [cache EXCEPT !.gens[k] = @ + 1, !.queued = @ \ {k}, !.failed = @ \ {k}]
          = [cache EXCEPT !.gens = [cache.gens EXCEPT ![k] = cache.gens[k] + 1],
                          !.queued = cache.queued \ {k}, !.failed = cache.failed \ {k}]
    BY DEF CacheType
  <2>. QED
    BY <2>2, <2>3 DEF CacheType
<1>. QED
  BY <1>1, MaybePurgeType DEF DeleteThumbnail

LEMMA CutRunType ==
    ASSUME WorkOK
    PROVE  /\ CutRun \in WorkType /\ CutRun.pc = work.pc
           /\ HasJob => CutRun.key = work.key /\ CutRun.gen = work.gen
           /\ work.pc \in {"encoded", "committing"} => CutRun.saw = work.saw
<1>1. CASE work \in [pc : {"claimed", "fetching"}, key : Keys, gen : Nat, cut : BOOLEAN]
  BY <1>1 DEF CutRun, WorkType
<1>2. CASE work \notin [pc : {"claimed", "fetching"}, key : Keys, gen : Nat, cut : BOOLEAN]
  <2>1. "cut" \notin DOMAIN work
    BY <1>2 DEF WorkOK, WorkType
  <2>. QED
    BY <2>1 DEF CutRun, WorkOK
<1>. QED
  BY <1>1, <1>2

-----------------------------------------------------------------------------
(* Every step keeps the types.                                             *)

LEMMA WorkerTypes ==
    ASSUME StateOK, WorkerStep
    PROVE  StateOK'
<1>. USE DEF StateOK, diskVars, callerVars, ghostVars
<1>f. UNCHANGED <<stop, file, empty, deleted, noTasks, writer, rebuild, deleter>>
  BY WorkerFrame
<1>c. CallersOK'
  BY <1>f DEF CallersOK
<1>k. /\ HasJob => work.key \in Keys /\ work.gen \in Nat /\ VaultOf[work.key] \in Vaults
      /\ work.pc \in {"encoded", "committing"} => work.saw \in Nat
  BY InHandTypes
<1>s. ASSUME NEW v, Lifted(v)
      PROVE  standing' \subseteq Quiescers \X Vaults
  BY <1>s DEF Lifted, LocksOK
<1>1. CASE Receive
  <2>1. Head(queue) \in JobType /\ Tail(queue) \in Seq(JobType)
        /\ Len(Tail(queue)) <= QueueSize
    <3>1. Len(queue) \in Nat /\ Len(queue) <= QueueSize /\ QueueSize \in Nat
      BY QueueAssumption DEF QueueOK
    <3>2. queue \in Seq(JobType) /\ queue # <<>>
      BY <1>1 DEF QueueOK, Receive
    <3>3. /\ Head(queue) \in JobType /\ Tail(queue) \in Seq(JobType)
          /\ Len(Tail(queue)) = Len(queue) - 1
      BY <3>2, HeadTailProperties
    <3>. QED
      BY <3>1, <3>3
  <2>2. WorkOK'
    BY <1>1, <2>1 DEF Receive, WorkOK, WorkType, JobType
  <2>. QED
    BY <1>1, <1>c, <2>1, <2>2 DEF Receive, QueueOK, LocksOK, FilesOK, UsedOK
<1>2. CASE BeginJob
  <2>1. WorkOK' /\ life' \in LifeType
    BY <1>2, <1>k, CountedOffType DEF BeginJob, WorkOK, WorkType, HasJob
  <2>. QED
    BY <1>2, <1>c, <2>1 DEF BeginJob, QueueOK, LocksOK, FilesOK, UsedOK
<1>3. CASE RefuseJob \/ DiscardJob
  <2>1. VaultOf[work.key] \in Vaults /\ work.key \in Keys
    BY <1>3, <1>k DEF RefuseJob, DiscardJob, HasJob
  <2>2. life' \in LifeType /\ cache' \in CacheType
    <3>1. CASE RefuseJob
      BY <2>1, <3>1, CountedOffType, LifeRetiredType, CacheRetiredType DEF RefuseJob
    <3>2. CASE DiscardJob
      <4>1. [cache EXCEPT !.queued = @ \ {work.key}] \in CacheType
        BY DEF CacheType
      <4>2. Released(IF Current(work) THEN [cache EXCEPT !.queued = @ \ {work.key}]
                     ELSE cache, work.key) \in CacheType
        BY <2>1, <4>1, ReleasedType
      <4>. QED
        BY <2>1, <3>2, <4>2, LifeRetiredType, CacheRetiredType DEF DiscardJob
    <3>. QED
      BY <1>3, <3>1, <3>2
  <2>3. WorkOK' /\ standing' \subseteq Quiescers \X Vaults
    <3>1. standing' \subseteq Quiescers \X Vaults
      BY <1>3, <1>s DEF RefuseJob, DiscardJob
    <3>2. CASE RefuseJob
      <4>1. work \in [pc : {"received", "discarding", "ended"}, key : Keys, gen : Nat]
        BY <3>2 DEF RefuseJob, WorkOK, WorkType
      <4>. QED
        BY <3>1, <3>2, <4>1 DEF RefuseJob, WorkOK, WorkType
    <3>3. CASE DiscardJob
      BY <3>1, <3>3 DEF DiscardJob, WorkOK, WorkType, NoWork
    <3>. QED
      BY <1>3, <3>2, <3>3
  <2>. QED
    BY <1>3, <1>c, <2>2, <2>3 DEF RefuseJob, DiscardJob, QueueOK, LocksOK, FilesOK, UsedOK
<1>4. CASE StartGenerate
  <2>1. VaultOf[work.key] \in Vaults
    BY <1>4, <1>k DEF StartGenerate, HasJob
  <2>2. dirs' \subseteq Vaults
    BY <1>4, <2>1 DEF StartGenerate, FilesOK
  <2>3. WorkOK'
    <3>1. work \in [pc : {"claimed", "fetching"}, key : Keys, gen : Nat, cut : BOOLEAN]
      BY <1>4 DEF StartGenerate, WorkOK, WorkType
    <3>. QED
      BY <1>4, <3>1 DEF StartGenerate, Finish, WorkOK, WorkType
  <2>. QED
    BY <1>4, <1>c, <2>2, <2>3 DEF StartGenerate, QueueOK, LocksOK, FilesOK, UsedOK
<1>5. CASE FetchFrame
  <2>1. file[work.key] \in Nat
    BY <1>5, <1>k DEF FetchFrame, HasJob, FilesOK
  <2>2. WorkOK'
    BY <1>5, <1>k, <2>1 DEF FetchFrame, HasJob, WorkOK, WorkType
  <2>. QED
    BY <1>5, <1>c, <2>2 DEF FetchFrame, QueueOK, LocksOK, FilesOK, UsedOK
<1>6. CASE FetchFails
  <2>1. WorkOK'
    BY <1>6, <1>k DEF FetchFails, Finish, HasJob, WorkOK, WorkType
  <2>2. UsedOK'
    BY <1>6 DEF FetchFails, UsedOK
  <2>. QED
    BY <1>6, <1>c, <2>1, <2>2 DEF FetchFails, QueueOK, LocksOK, FilesOK
<1>7. CASE LockCommit
  <2>1. work \in [pc : {"encoded", "committing"}, key : Keys, gen : Nat, saw : Nat]
    BY <1>7 DEF LockCommit, WorkOK, WorkType
  <2>2. WorkOK' /\ commitMu' \in {"free", "worker", Rebuild}
    BY <1>7, <2>1 DEF LockCommit, Finish, WorkOK, WorkType, LocksOK
  <2>. QED
    BY <1>7, <1>c, <2>2 DEF LockCommit, QueueOK, LocksOK, FilesOK, UsedOK
<1>8. CASE Commit
  <2>1. work.key \in Keys /\ work.gen \in Nat /\ work.saw \in Nat
    BY <1>8, <1>k DEF Commit, HasJob
  <2>2. WorkOK' /\ thumb' \in [Keys -> Nat]
    BY <1>8, <2>1 DEF Commit, Finish, WorkOK, WorkType, FilesOK
  <2>. QED
    BY <1>8, <1>c, <2>2 DEF Commit, QueueOK, LocksOK, FilesOK, UsedOK
<1>9. CASE FinishJob
  <2>1. work.key \in Keys /\ work.gen \in Nat
    BY <1>9, <1>k DEF FinishJob, HasJob
  <2>2. cache' \in CacheType
    <3>. DEFINE cools == work.result \in {"error", "skipped"}
                c == IF Current(work)
                     THEN [cache EXCEPT
                               !.queued = @ \ {work.key},
                               !.failed = IF cools THEN @ \cup {work.key}
                                          ELSE @ \ {work.key}]
                     ELSE cache
    <3>1. c \in CacheType
      BY <2>1 DEF CacheType
    <3>2. cache' = Released(c, work.key)
      BY <1>9 DEF FinishJob
    <3>. QED
      BY <2>1, <3>1, <3>2, ReleasedType
  <2>3. WorkOK'
    BY <1>9, <2>1 DEF FinishJob, WorkOK, WorkType
  <2>. QED
    BY <1>9, <1>c, <2>2, <2>3 DEF FinishJob, QueueOK, LocksOK, FilesOK, UsedOK
<1>10. CASE EndJob
  <2>1. VaultOf[work.key] \in Vaults
    BY <1>10, <1>k DEF EndJob, HasJob
  <2>2. life' \in LifeType /\ cache' \in CacheType
    <3>. DEFINE v == VaultOf[work.key]
                l == IF (life[v].resume /\ ~life[v].retiring) /\ life[v].pending = 0
                     THEN Unseal(life, v) ELSE life
    <3>1. l \in LifeType
      BY <2>1, SealTypes
    <3>2. life' = LifeRetired(l, v, FALSE) /\ cache' = CacheRetired(cache, l, v, FALSE)
      BY <1>10 DEF EndJob
    <3>. QED
      BY <2>1, <3>1, <3>2, LifeRetiredType, CacheRetiredType
  <2>3. WorkOK' /\ standing' \subseteq Quiescers \X Vaults /\ waiting' = {}
    BY <1>10, <1>s DEF EndJob, WorkOK, WorkType, NoWork
  <2>. QED
    BY <1>10, <1>c, <2>2, <2>3 DEF EndJob, QueueOK, LocksOK, FilesOK, UsedOK
<1>11. CASE WorkerExits
  BY <1>11, <1>c DEF WorkerExits, QueueOK, LocksOK, FilesOK, UsedOK, WorkOK, WorkType
<1>. QED
  BY <1>1, <1>2, <1>3, <1>4, <1>5, <1>6, <1>7, <1>8, <1>9, <1>10, <1>11 DEF WorkerStep

LEMMA WriterTypes ==
    ASSUME StateOK, NEW w \in Writers, WriterAct(w)
    PROVE  StateOK'
<1>. USE DEF StateOK, genVars, diskVars, callerVars, ghostVars
<1>f. /\ WorkOK' /\ LocksOK'
      /\ UNCHANGED <<dirs, deleted, noTasks, rebuild, deleter>>
  BY WriterFrame DEF WorkOK, LocksOK
<1>t. writer[w] \in WriterType /\ w \in Writers
  BY DEF CallersOK
<1>1. CASE WriterStep(w)
  <2>1. CASE Invalidate(w)
    <3>1. writer[w].key \in Keys
      BY <1>t, <2>1 DEF Invalidate, WriterType
    <3>2. cache' \in CacheType /\ thumb' \in [Keys -> Nat]
      BY <2>1, <3>1, DeleteThumbnailType DEF Invalidate, FilesOK
    <3>3. writer' \in [Writers -> WriterType]
      BY <2>1, <3>1 DEF Invalidate, WriterGoes, WriterDone, WriterType, CallersOK
    <3>. QED
      BY <1>f, <2>1, <3>2, <3>3 DEF Invalidate, QueueOK, FilesOK, CallersOK, UsedOK
  <2>2. CASE LookForThumbnail(w)
    <3>1. writer[w].key \in Keys
      BY <1>t, <2>2 DEF LookForThumbnail, WriterAt, WriterType
    <3>2. writer' \in [Writers -> WriterType]
      BY <2>2, <3>1 DEF LookForThumbnail, WriterGoes, WriterDone, WriterType, CallersOK
    <3>. QED
      BY <1>f, <2>2, <3>2 DEF LookForThumbnail, QueueOK, FilesOK, CallersOK, UsedOK
  <2>3. CASE EnqueueThumbnail(w)
    <3>1. writer[w].key \in Keys
      BY <1>t, <2>3 DEF EnqueueThumbnail, WriterAt, WriterType
    <3>2. writer' \in [Writers -> WriterType]
      BY <2>3 DEF EnqueueThumbnail, WriterDone, WriterType, CallersOK
    <3>3. QueueOK' /\ life' \in LifeType /\ cache' \in CacheType
      <4>1. CASE Enqueue(writer[w].key)
        BY <3>1, <4>1, EnqueueType
      <4>2. CASE Ignore(writer[w].key)
        BY <4>2 DEF Ignore, QueueOK
      <4>. QED
        BY <2>3, <4>1, <4>2 DEF EnqueueThumbnail
    <3>. QED
      BY <1>f, <2>3, <3>2, <3>3 DEF EnqueueThumbnail, FilesOK, CallersOK, UsedOK
  <2>. QED
    BY <1>1, <2>1, <2>2, <2>3 DEF WriterStep
<1>2. ASSUME NEW k \in Keys, CommitFile(w, k) \/ LoseIndex(w, k) \/ RemoveFile(w, k)
      PROVE  StateOK'
  <2>1. used.versions[k] + 1 \in Nat /\ used.empty + 1 \in Nat /\ used.lost + 1 \in Nat
    BY DEF UsedOK
  <2>2. writer' \in [Writers -> WriterType]
    BY <1>2 DEF CommitFile, LoseIndex, RemoveFile, WriterGoes, WriterType, CallersOK
  <2>3. file' \in [Keys -> Nat] /\ empty' \subseteq Keys
    BY <1>2, <2>1 DEF CommitFile, LoseIndex, RemoveFile, FilesOK
  <2>4. UsedOK'
    <3>1. [used.versions EXCEPT ![k] = used.versions[k] + 1] \in [Keys -> Nat]
      BY <2>1 DEF UsedOK
    <3>. DEFINE up == [used.versions EXCEPT ![k] = used.versions[k] + 1]
    <3>2. \/ used' = used
          \/ used' = [used EXCEPT !.versions = up]
          \/ used' = [used EXCEPT !.versions = up, !.empty = used.empty + 1]
          \/ used' = [used EXCEPT !.versions = up, !.lost = used.lost + 1]
      BY <1>2 DEF CommitFile, LoseIndex, RemoveFile, UsedOK
    <3>. QED
      BY <2>1, <3>1, <3>2 DEF UsedOK
  <2>. QED
    BY <1>2, <1>f, <2>2, <2>3, <2>4
    DEF CommitFile, LoseIndex, RemoveFile, QueueOK, FilesOK, CallersOK
<1>. QED
  BY <1>1, <1>2 DEF WriterAct

LEMMA QuiesceTypes ==
    ASSUME StateOK, NEW q \in Quiescers, NEW v \in Vaults, QuiesceVault(q, v)
    PROVE  /\ life' \in LifeType /\ WorkOK' /\ waiting' \subseteq Quiescers
           /\ standing' \subseteq Quiescers \X Vaults
BY SealTypes, CutRunType DEF QuiesceVault, StateOK, WorkOK, LocksOK

LEMMA RebuildTypes ==
    ASSUME StateOK, RebuildAct
    PROVE  StateOK'
<1>. USE DEF StateOK, genVars, diskVars, callerVars, ghostVars
<1>f. UNCHANGED <<stop, file, empty, deleted, noTasks, writer, deleter>>
  BY RebuildFrame
<1>v. rebuild.pc # "idle" => rebuild.vault \in Vaults
  BY DEF CallersOK, RebuildType
<1>s. ASSUME NEW v, Lifted(v)
      PROVE  standing' \subseteq Quiescers \X Vaults
  BY <1>s DEF Lifted, LocksOK
<1>0. ASSUME NEW v \in Vaults, StartRebuild(v)
      PROVE  StateOK'
  <2>1. life' \in LifeType /\ WorkOK' /\ waiting' \subseteq Quiescers
        /\ standing' \subseteq Quiescers \X Vaults
    BY <1>0, QuiesceTypes DEF StartRebuild, Quiescers
  <2>2. CallersOK'
    BY <1>0 DEF StartRebuild, CallersOK, RebuildType
  <2>3. UsedOK'
    BY <1>0 DEF StartRebuild, UsedOK
  <2>. QED
    BY <1>0, <2>1, <2>2, <2>3 DEF StartRebuild, QueueOK, LocksOK, FilesOK
<1>1. CASE RemoveCache
  <2>1. rebuild' \in RebuildType
    BY <1>1 DEF RemoveCache, RebuildGoes, CallersOK, RebuildType
  <2>2. thumb' \in [Keys -> Nat]
    BY <1>1, WithoutVaultType DEF RemoveCache, FilesOK
  <2>. QED
    BY <1>1, <2>1, <2>2 DEF RemoveCache, QueueOK, LocksOK, FilesOK, CallersOK, UsedOK, WorkOK
<1>2. CASE PurgeCaches
  <2>1. rebuild' \in RebuildType
    BY <1>2 DEF PurgeCaches, RebuildGoes, CallersOK, RebuildType
  <2>2. cache' \in CacheType
    BY <1>2, PurgedType DEF PurgeCaches
  <2>. QED
    BY <1>2, <2>1, <2>2 DEF PurgeCaches, QueueOK, LocksOK, FilesOK, CallersOK, UsedOK, WorkOK
<1>3. CASE ReopenForRebuild
  <2>1. rebuild.vault \in Vaults
    BY <1>3, <1>v DEF ReopenForRebuild
  <2>2. rebuild' \in RebuildType
    BY <1>3, <2>1 DEF ReopenForRebuild, RebuildType, KeysOf
  <2>3. life' \in LifeType /\ standing' \subseteq Quiescers \X Vaults
    BY <1>3, <2>1, <1>s, ResumeType DEF ReopenForRebuild, ResumeVault
  <2>. QED
    BY <1>3, <2>2, <2>3 DEF ReopenForRebuild, QueueOK, LocksOK, FilesOK, CallersOK, UsedOK, WorkOK
<1>4. ASSUME NEW k \in Keys, WalkFile(k)
      PROVE  StateOK'
  <2>1. rebuild' \in RebuildType
    BY <1>4 DEF WalkFile, CallersOK, RebuildType
  <2>2. cache' \in CacheType /\ thumb' \in [Keys -> Nat]
    BY <1>4, DeleteThumbnailType DEF WalkFile, FilesOK
  <2>. QED
    BY <1>4, <2>1, <2>2 DEF WalkFile, QueueOK, LocksOK, FilesOK, CallersOK, UsedOK, WorkOK
<1>5. CASE LookForRebuild
  <2>1. rebuild' \in RebuildType
    BY <1>5 DEF LookForRebuild, NextFile, RebuildGoes, CallersOK, RebuildType
  <2>. QED
    BY <1>5, <2>1 DEF LookForRebuild, QueueOK, LocksOK, FilesOK, CallersOK, UsedOK, WorkOK
<1>6. CASE AdmitForRebuild
  <2>1. rebuild' \in RebuildType
    BY <1>6 DEF AdmitForRebuild, NextFile, RebuildGoes, CallersOK, RebuildType
  <2>2. rebuild.key \in Keys
    BY <1>6 DEF AdmitForRebuild, CallersOK, RebuildType
  <2>3. QueueOK' /\ life' \in LifeType /\ cache' \in CacheType
    <3>1. CASE Enqueue(rebuild.key)
      BY <2>2, <3>1, EnqueueType
    <3>2. CASE Ignore(rebuild.key)
      BY <3>2 DEF Ignore, QueueOK
    <3>. QED
      BY <1>6, <3>1, <3>2 DEF AdmitForRebuild
  <2>. QED
    BY <1>6, <2>1, <2>3 DEF AdmitForRebuild, LocksOK, FilesOK, CallersOK, UsedOK, WorkOK
<1>7. CASE VaultIdle \/ RebuildAborts
  <2>1. rebuild' \in RebuildType
    BY <1>7 DEF VaultIdle, RebuildAborts, RebuildGoes, CallersOK, RebuildType
  <2>. QED
    BY <1>7, <2>1 DEF VaultIdle, RebuildAborts, QueueOK, LocksOK, FilesOK, CallersOK, UsedOK, WorkOK
<1>8. CASE LeaveRebuild
  <2>1. rebuild.vault \in Vaults
    BY <1>8, <1>v DEF LeaveRebuild
  <2>2. rebuild' \in RebuildType
    BY <1>8 DEF LeaveRebuild, RebuildType
  <2>3. life' \in LifeType /\ standing' \subseteq Quiescers \X Vaults
    BY <1>8, <2>1, <1>s, ResumeType DEF LeaveRebuild, ResumeVault
  <2>. QED
    BY <1>8, <2>2, <2>3 DEF LeaveRebuild, QueueOK, LocksOK, FilesOK, CallersOK, UsedOK, WorkOK
<1>. QED
  BY <1>0, <1>1, <1>2, <1>3, <1>4, <1>5, <1>6, <1>7, <1>8 DEF RebuildAct, RebuildStep

LEMMA DeleterTypes ==
    ASSUME StateOK, NEW d \in Deleters, DeleterAct(d)
    PROVE  StateOK'
<1>. USE DEF StateOK, genVars, diskVars, callerVars, ghostVars
<1>f. UNCHANGED <<queue, commitMu, stop, writer, rebuild>>
  BY DeleterFrame
<1>t. deleter[d] \in DeleterType /\ (deleter[d].pc # "idle" => deleter[d].vault \in Vaults)
  BY DEF CallersOK, DeleterType
<1>s. ASSUME NEW v, Lifted(v)
      PROVE  standing' \subseteq Quiescers \X Vaults
  BY <1>s DEF Lifted, LocksOK
<1>d. ASSUME NEW r \in DeleterType, deleter' = [deleter EXCEPT ![d] = r]
      PROVE  CallersOK'
  BY <1>d, <1>f DEF CallersOK
<1>e. ASSUME deleter[d].pc # "idle",
             NEW pc \in {"found", "draining", "quiesced", "locked", "emptied", "rowGone", "failed"},
             DeleterGoes(d, pc)
      PROVE  CallersOK'
  <2>1. [deleter[d] EXCEPT !.pc = pc] \in DeleterType
    BY <1>t, <1>e DEF DeleterType
  <2>2. deleter' = [deleter EXCEPT ![d] = [deleter[d] EXCEPT !.pc = pc]]
    BY <1>e DEF DeleterGoes, CallersOK
  <2>. QED
    BY <1>d, <2>1, <2>2
<1>i. ASSUME DeleterDone(d)
      PROVE  CallersOK'
  BY <1>d, <1>i DEF DeleterDone, DeleterType
<1>1. CASE QuiesceThumbnails(d)
  <2>1. deleter[d].vault \in Vaults
    BY <1>1, <1>t DEF QuiesceThumbnails, DeleterAt
  <2>2. /\ life' \in LifeType /\ WorkOK' /\ waiting' \subseteq Quiescers
        /\ standing' \subseteq Quiescers \X Vaults
    BY <1>1, <2>1, QuiesceTypes DEF QuiesceThumbnails, Quiescers
  <2>3. CallersOK'
    BY <1>1, <1>e DEF QuiesceThumbnails, DeleterAt
  <2>. QED
    BY <1>1, <2>1, <2>2, <2>3 DEF QuiesceThumbnails, QueueOK, LocksOK, FilesOK, UsedOK
<1>2. CASE Drained(d) \/ DrainTimeout(d) \/ LockLifeMu(d) \/ DeletionFails(d)
  <2>1. CallersOK'
    BY <1>2, <1>e DEF Drained, DrainTimeout, LockLifeMu, DeletionFails, DeleterAt
  <2>. QED
    BY <1>2, <2>1 DEF Drained, DrainTimeout, LockLifeMu, DeletionFails, QueueOK, LocksOK, FilesOK,
       UsedOK, WorkOK
<1>3. CASE ResumeWorkers(d)
  <2>1. deleter[d].vault \in Vaults
    BY <1>3, <1>t DEF ResumeWorkers, DeleterAt
  <2>2. life' \in LifeType /\ standing' \subseteq Quiescers \X Vaults
    BY <1>3, <2>1, <1>s, ResumeType DEF ResumeWorkers, ResumeVault
  <2>3. CallersOK'
    BY <1>3, <1>i DEF ResumeWorkers
  <2>. QED
    BY <1>3, <2>2, <2>3 DEF ResumeWorkers, QueueOK, LocksOK, FilesOK, UsedOK, WorkOK
<1>4. CASE RemoveStorage(d)
  <2>1. CallersOK'
    BY <1>4, <1>e DEF RemoveStorage, DeleterAt
  <2>2. file' \in [Keys -> Nat] /\ thumb' \in [Keys -> Nat]
    BY <1>4, WithoutVaultType DEF RemoveStorage, FilesOK
  <2>. QED
    BY <1>4, <2>1, <2>2 DEF RemoveStorage, QueueOK, LocksOK, FilesOK, UsedOK, WorkOK
<1>5. CASE StayQuiesced(d)
  <2>1. CallersOK'
    BY <1>5, <1>i DEF StayQuiesced
  <2>. QED
    BY <1>5, <2>1 DEF StayQuiesced, QueueOK, LocksOK, FilesOK, UsedOK, WorkOK
<1>6. CASE DeleteRow(d)
  <2>1. CallersOK'
    BY <1>6, <1>e DEF DeleteRow
  <2>2. deleter[d].vault \in Vaults
    BY <1>6, <1>t DEF DeleteRow
  <2>. QED
    BY <1>6, <2>1, <2>2 DEF DeleteRow, QueueOK, LocksOK, FilesOK, UsedOK, WorkOK
<1>7. CASE ForgetThumbnails(d)
  <2>1. deleter[d].vault \in Vaults
    BY <1>7, <1>t DEF ForgetThumbnails, DeleterAt
  <2>2. life' \in LifeType /\ cache' \in CacheType /\ standing' \subseteq Quiescers \X Vaults
    BY <1>7, <2>1, <1>s, ForgetType DEF ForgetThumbnails, ForgetVault
  <2>3. CallersOK'
    BY <1>7, <1>i DEF ForgetThumbnails
  <2>. QED
    BY <1>7, <2>2, <2>3 DEF ForgetThumbnails, QueueOK, LocksOK, FilesOK, UsedOK, WorkOK
<1>8. ASSUME NEW v \in Vaults, FindVault(d, v)
      PROVE  StateOK'
  <2>1. CallersOK'
    BY <1>8, <1>d DEF FindVault, DeleterType
  <2>2. UsedOK'
    BY <1>8 DEF FindVault, UsedOK
  <2>. QED
    BY <1>8, <2>1, <2>2 DEF FindVault, QueueOK, LocksOK, FilesOK, WorkOK
<1>. QED
  BY <1>1, <1>2, <1>3, <1>4, <1>5, <1>6, <1>7, <1>8 DEF DeleterAct, DeleterStep

LEMMA OtherTypes ==
    ASSUME StateOK, StopAct \/ (\E k \in Keys : ForgetFailure(k)) \/ UNCHANGED vars
    PROVE  StateOK'
<1>. USE DEF StateOK, genVars, diskVars, callerVars, ghostVars
<1>1. CASE StopAct
  <2>1. WorkOK'
    <3>1. WorkOK \/ CutRun \in WorkType
      BY DEF WorkOK
    <3>2. CutRun \in WorkType
      BY CutRunType
    <3>. QED
      BY <1>1, <3>2 DEF StopAct, StopStep, BeginStop, CloseJobs, StopReturns, WorkOK
  <2>. QED
    BY <1>1, <2>1, StopFrame DEF QueueOK, LocksOK, FilesOK, CallersOK, UsedOK
<1>2. CASE \E k \in Keys : ForgetFailure(k)
  BY <1>2 DEF ForgetFailure, CacheType, QueueOK, LocksOK, FilesOK, CallersOK, UsedOK, WorkOK
<1>3. CASE UNCHANGED vars
  BY <1>3 DEF vars, QueueOK, LocksOK, FilesOK, CallersOK, UsedOK, WorkOK
<1>. QED
  BY <1>1, <1>2, <1>3

LEMMA InitTypes == Init => StateOK
<1>. SUFFICES ASSUME Init
              PROVE  StateOK
  OBVIOUS
<1>1. QueueOK
  BY QueueAssumption DEF Init, QueueOK
<1>2. life \in LifeType /\ cache \in CacheType
  BY DEF Init, LifeType, LifeRecord, NewLife, CacheType
<1>3. WorkOK /\ LocksOK /\ FilesOK
  BY DEF Init, WorkOK, WorkType, NoWork, LocksOK, FilesOK
<1>4. CallersOK /\ UsedOK
  BY DEF Init, CallersOK, RebuildType, WriterType, DeleterType, UsedOK
<1>. QED
  BY <1>1, <1>2, <1>3, <1>4 DEF StateOK

LEMMA StateStep ==
    ASSUME StateOK, [Next]_vars
    PROVE  StateOK'
BY Steps, WorkerTypes, WriterTypes, RebuildTypes, DeleterTypes, OtherTypes

-----------------------------------------------------------------------------
(* The generator is the gate of VaultGate: its steps are steps of the gate *)
(* or leave the gate alone.                                                *)

Inside == IF Active THEN {work.key} ELSE {}
Sealed == {v \in Vaults : life[v].quiescing}

\* What a change of the lifecycle can do to the tombstones.
LEMMA LifeRetiredSeals ==
    ASSUME NEW l \in LifeType, NEW v \in Vaults, NEW a \in BOOLEAN
    PROVE  /\ \/ LifeRetired(l, v, a) = l
              \/ ~a /\ LifeRetired(l, v, a) = [l EXCEPT ![v] = NewLife]
           /\ \/ ~LifeRetired(l, v, a)[v].quiescing
              \/ LifeRetired(l, v, a)[v].quiescing = l[v].quiescing
           /\ \A u \in Vaults \ {v} : LifeRetired(l, v, a)[u] = l[u]
<1>1. CASE Retires(l, v, a)
  <2>1. ~a /\ LifeRetired(l, v, a) = [l EXCEPT ![v] = NewLife]
    BY <1>1 DEF LifeRetired, Retires
  <2>2. LifeRetired(l, v, a)[v] = NewLife
        /\ (\A u \in Vaults \ {v} : LifeRetired(l, v, a)[u] = l[u])
    BY <2>1 DEF LifeType
  <2>3. ~NewLife.quiescing
    BY DEF NewLife
  <2>. QED
    BY <2>1, <2>2, <2>3
<1>2. CASE ~Retires(l, v, a)
  BY <1>2 DEF LifeRetired
<1>. QED
  BY <1>1, <1>2

\* A vault is opened, closed or left by a change that concerns it alone.
LEMMA SealsOfOneVault ==
    ASSUME life \in LifeType, life' \in LifeType, NEW v \in Vaults,
           \A u \in Vaults \ {v} : life'[u] = life[u]
    PROVE  \/ Sealed' = Sealed
           \/ life'[v].quiescing /\ Sealed' = Sealed \cup {v}
           \/ ~life'[v].quiescing /\ Sealed' = Sealed \ {v}
<1>1. \A u \in Vaults \ {v} : u \in Sealed' <=> u \in Sealed
  BY DEF Sealed
<1>2. v \in Sealed' <=> life'[v].quiescing
  BY DEF Sealed
<1>3. Sealed \subseteq Vaults /\ Sealed' \subseteq Vaults
  BY DEF Sealed
<1>4. CASE life'[v].quiescing
  BY <1>1, <1>2, <1>3, <1>4
<1>5. CASE ~life'[v].quiescing
  BY <1>1, <1>2, <1>3, <1>5
<1>. QED
  BY <1>4, <1>5

LEMMA OthersKeepLife ==
    ASSUME life \in LifeType, NEW v \in Vaults
    PROVE  /\ \A u \in Vaults \ {v} : CountedOff(v)[u] = life[u]
           /\ \A u \in Vaults \ {v} : Seal(life, v)[u] = life[u] /\ Unseal(life, v)[u] = life[u]
           /\ CountedOff(v)[v].quiescing = life[v].quiescing
           /\ CountedOff(v)[v].retiring = life[v].retiring
           /\ Seal(life, v)[v].quiescing /\ ~Unseal(life, v)[v].quiescing
BY DEF CountedOff, Seal, Unseal, LifeType, LifeRecord

LEMMA ResumeSeals ==
    ASSUME StateOK, NEW v \in Vaults, ResumeVault(v)
    PROVE  /\ \A u \in Vaults \ {v} : life'[u] = life[u]
           /\ life'[v].quiescing = life[v].quiescing \/ (~ActiveIn(v) /\ ~life'[v].quiescing)
<1>1. life \in LifeType
  BY DEF StateOK
<1>2. CASE life[v].retiring
  BY <1>2 DEF ResumeVault
<1>3. CASE ~life[v].retiring /\ ~ActiveIn(v) /\ life[v].pending = 0
  BY <1>1, <1>3, OthersKeepLife DEF ResumeVault
<1>4. CASE ~life[v].retiring /\ ~(~ActiveIn(v) /\ life[v].pending = 0)
  <2>1. life' = [life EXCEPT ![v].resume = TRUE]
    BY <1>4 DEF ResumeVault
  <2>. QED
    BY <1>1, <2>1 DEF LifeType, LifeRecord
<1>. QED
  BY <1>2, <1>3, <1>4

LEMMA ForgetSeals ==
    ASSUME StateOK, NEW v \in Vaults, ForgetVault(v)
    PROVE  /\ \A u \in Vaults \ {v} : life'[u] = life[u]
           /\ life'[v].quiescing \/ (~ActiveIn(v) /\ ~life'[v].quiescing)
<1>. DEFINE l == [life EXCEPT ![v].retiring = TRUE, ![v].quiescing = TRUE]
<1>1. l \in LifeType /\ l[v].quiescing /\ (\A u \in Vaults \ {v} : l[u] = life[u])
  BY DEF StateOK, LifeType, LifeRecord
<1>2. life' = LifeRetired(l, v, ActiveIn(v))
  BY DEF ForgetVault
<1>a. ActiveIn(v) \in BOOLEAN
  BY DEF ActiveIn
<1>. HIDE DEF l
<1>3. life' = l \/ (~ActiveIn(v) /\ life' = [l EXCEPT ![v] = NewLife])
  BY <1>1, <1>2, <1>a, LifeRetiredSeals
<1>4. CASE life' = l
  BY <1>1, <1>4
<1>5. CASE ~ActiveIn(v) /\ life' = [l EXCEPT ![v] = NewLife]
  <2>1. life'[v] = NewLife /\ (\A u \in Vaults \ {v} : life'[u] = l[u])
    BY <1>1, <1>5 DEF LifeType
  <2>. QED
    BY <1>1, <1>5, <2>1 DEF NewLife
<1>. QED
  BY <1>3, <1>4, <1>5

\* Where the worker can go without entering or leaving a vault.
LEMMA InsideKept ==
    ASSUME (Active /\ Active' /\ work'.key = work.key) \/ (~Active /\ ~Active')
    PROVE  Inside' = Inside
BY DEF Inside

LEMMA CutKeepsInside ==
    ASSUME WorkOK, work' = CutRun
    PROVE  Inside' = Inside /\ (Active' <=> Active) /\ (HasJob' <=> HasJob)
           /\ (HasJob => work'.key = work.key)
BY CutRunType DEF Inside, Active, HasJob

GateStep ==
    \/ \E o \in Keys : Gate!Enter(o) \/ Gate!Leave(o) \/ Gate!LeaveLast(o)
    \/ \E v \in Vaults : Gate!Seal(v) \/ Gate!Unseal(v)
    \/ Inside' = Inside /\ Sealed' = Sealed

\* A change to the lifecycle of one vault that opens it only when no job is
\* inside is a step of the gate.
LEMMA SealSteps ==
    ASSUME StateOK, life' \in LifeType, NEW v \in Vaults, Inside' = Inside,
           \A u \in Vaults \ {v} : life'[u] = life[u],
           ActiveIn(v) => life'[v].quiescing \/ ~life[v].quiescing
    PROVE  GateStep
<1>1. \/ Sealed' = Sealed
      \/ life'[v].quiescing /\ Sealed' = Sealed \cup {v}
      \/ ~life'[v].quiescing /\ Sealed' = Sealed \ {v}
  BY SealsOfOneVault DEF StateOK
<1>2. CASE Sealed' = Sealed
  BY <1>2 DEF GateStep
<1>3. CASE Sealed' = Sealed \cup {v}
  <2>1. Gate!Seal(v)
    BY <1>3 DEF Gate!Seal, Inside, Sealed
  <2>. QED
    BY <2>1 DEF GateStep
<1>4. CASE ~life'[v].quiescing /\ Sealed' = Sealed \ {v} /\ Sealed' # Sealed
  <2>1. life[v].quiescing
    BY <1>4 DEF Sealed
  <2>2. ~ActiveIn(v)
    BY <1>4, <2>1
  <2>3. {o \in Inside : VaultOf[o] = v} = {}
    BY <2>2 DEF Inside, ActiveIn
  <2>4. Gate!Unseal(v)
    BY <1>4, <2>3 DEF Gate!Unseal, Gate!InsideOf, Inside, Sealed
  <2>. QED
    BY <2>4 DEF GateStep
<1>. QED
  BY <1>1, <1>2, <1>3, <1>4

LEMMA GateWorker ==
    ASSUME StateOK, WorkerStep
    PROVE  GateStep
<1>0. StateOK' /\ life \in LifeType /\ life' \in LifeType
  BY WorkerTypes DEF StateOK
<1>k. HasJob => work.key \in Keys /\ VaultOf[work.key] \in Vaults
  BY InHandTypes DEF StateOK
<1>1. CASE Receive \/ WorkerExits
  <2>1. ~Active /\ ~Active' /\ life' = life
    BY <1>1 DEF Receive, WorkerExits, Active, HasJob
  <2>. QED
    BY <2>1, InsideKept DEF GateStep, Sealed
<1>2. CASE BeginJob
  <2>1. work.key \in Keys /\ VaultOf[work.key] \in Vaults
    BY <1>2, <1>k DEF BeginJob, HasJob
  <2>2. ~Active /\ Active' /\ work'.key = work.key
    BY <1>2 DEF BeginJob, Active, HasJob
  <2>3. ~life[VaultOf[work.key]].quiescing
    BY <1>2 DEF BeginJob, Admits
  <2>4. \A u \in Vaults : life'[u].quiescing = life[u].quiescing
    BY <1>0, <1>2, <2>1, OthersKeepLife DEF BeginJob
  <2>5. Gate!Enter(work.key)
    BY <2>1, <2>2, <2>3, <2>4 DEF Gate!Enter
  <2>. QED
    BY <2>1, <2>5 DEF GateStep
<1>3. CASE RefuseJob \/ DiscardJob
  <2>. DEFINE v == VaultOf[work.key]
  <2>1. v \in Vaults
    BY <1>3, <1>k DEF RefuseJob, DiscardJob, HasJob
  <2>2. ~Active /\ ~Active'
    <3>1. CASE RefuseJob
      <4>1. work \in [pc : {"received", "discarding", "ended"}, key : Keys, gen : Nat]
        BY <3>1 DEF RefuseJob, StateOK, WorkOK, WorkType
      <4>2. work'.pc = "discarding"
        BY <3>1, <4>1 DEF RefuseJob
      <4>. QED
        BY <3>1, <4>2 DEF RefuseJob, Active, HasJob
    <3>2. CASE DiscardJob
      BY <3>2 DEF DiscardJob, Active, HasJob, NoWork
    <3>. QED
      BY <1>3, <3>1, <3>2
  <2>3. CountedOff(v) \in LifeType
    BY <1>0, <2>1, CountedOffType
  <2>4. life' = LifeRetired(CountedOff(v), v, FALSE) \/ life' = LifeRetired(life, v, FALSE)
    BY <1>3 DEF RefuseJob, DiscardJob
  <2>5. \A u \in Vaults \ {v} : life'[u] = life[u]
    <3>1. CASE life' = LifeRetired(CountedOff(v), v, FALSE)
      <4>1. \A u \in Vaults \ {v} : life'[u] = CountedOff(v)[u]
        BY <2>1, <2>3, <3>1, LifeRetiredSeals
      <4>. QED
        BY <1>0, <2>1, <4>1, OthersKeepLife
    <3>2. CASE life' = LifeRetired(life, v, FALSE)
      BY <1>0, <2>1, <3>2, LifeRetiredSeals
    <3>. QED
      BY <2>4, <3>1, <3>2
  <2>6. Inside' = Inside /\ ~ActiveIn(v)
    BY <2>2, InsideKept DEF ActiveIn
  <2>. QED
    BY <1>0, <2>1, <2>5, <2>6, SealSteps
<1>4. CASE StartGenerate \/ FetchFrame \/ FetchFails
  <2>1. Active /\ Active' /\ work'.key = work.key /\ life' = life
    <3>1. CASE StartGenerate
      BY <3>1 DEF StartGenerate, Finish, Active, HasJob, StateOK, WorkOK, WorkType
    <3>2. CASE FetchFrame \/ FetchFails
      BY <3>2 DEF FetchFrame, FetchFails, Finish, Active, HasJob
    <3>. QED
      BY <1>4, <3>1, <3>2
  <2>. QED
    BY <2>1, InsideKept DEF GateStep, Sealed
<1>5. CASE LockCommit \/ Commit \/ FinishJob
  <2>1. Active /\ Active' /\ work'.key = work.key /\ life' = life
    <3>1. CASE LockCommit
      BY <3>1 DEF LockCommit, Finish, Active, HasJob, StateOK, WorkOK, WorkType
    <3>2. CASE Commit \/ FinishJob
      BY <3>2 DEF Commit, FinishJob, Finish, Active, HasJob
    <3>. QED
      BY <1>5, <3>1, <3>2
  <2>. QED
    BY <2>1, InsideKept DEF GateStep, Sealed
<1>6. CASE EndJob
  <2>. DEFINE v == VaultOf[work.key]
              l == IF (life[v].resume /\ ~life[v].retiring) /\ life[v].pending = 0
                   THEN Unseal(life, v) ELSE life
  <2>1. v \in Vaults /\ work.key \in Keys
    BY <1>6, <1>k DEF EndJob, HasJob
  <2>2. Active /\ ~Active'
    BY <1>6 DEF EndJob, Active, HasJob, NoWork
  <2>3. life' = LifeRetired(l, v, FALSE)
    BY <1>6 DEF EndJob
  <2>4. l \in LifeType /\ (\A u \in Vaults \ {v} : l[u] = life[u])
    BY <1>0, <2>1, SealTypes, OthersKeepLife
  <2>5. \A u \in Vaults \ {v} : life'[u] = life[u]
    <3>. HIDE DEF l
    <3>. QED
      BY <2>1, <2>3, <2>4, LifeRetiredSeals
  <2>6. life'[v].quiescing = life[v].quiescing \/ ~life'[v].quiescing
    <3>1. l[v].quiescing = life[v].quiescing \/ ~l[v].quiescing
      BY <1>0, <2>1, OthersKeepLife
    <3>. HIDE DEF l
    <3>2. ~life'[v].quiescing \/ life'[v].quiescing = l[v].quiescing
      BY <2>1, <2>3, <2>4, LifeRetiredSeals
    <3>. QED
      BY <3>1, <3>2
  <2>7. Inside = {work.key} /\ Inside' = {}
    BY <2>2 DEF Inside
  <2>8. Sealed' = Sealed \/ Sealed' = Sealed \ {v}
    BY <1>0, <2>1, <2>5, <2>6, SealsOfOneVault DEF Sealed
  <2>9. Gate!Leave(work.key) \/ Gate!LeaveLast(work.key)
    <3>1. CASE Sealed' = Sealed
      BY <2>7, <3>1 DEF Gate!Leave, Inside, Sealed
    <3>2. CASE Sealed' = Sealed \ {v}
      BY <2>7, <3>2 DEF Gate!LeaveLast, Gate!InsideOf, Inside, Sealed
    <3>. QED
      BY <2>8, <3>1, <3>2
  <2>10. PICK k \in Keys : k = work.key
    BY <2>1
  <2>11. \E o \in Keys : Gate!Enter(o) \/ Gate!Leave(o) \/ Gate!LeaveLast(o)
    BY <2>9, <2>10 DEF Gate!Leave, Gate!LeaveLast
  <2>. QED
    BY <2>11 DEF GateStep
<1>. QED
  BY <1>1, <1>2, <1>3, <1>4, <1>5, <1>6 DEF WorkerStep

\* What publishes and lifts tombstones besides the worker.
LEMMA GateQuiesce ==
    ASSUME StateOK, NEW q \in Quiescers, NEW v \in Vaults, QuiesceVault(q, v)
    PROVE  GateStep
<1>1. life' \in LifeType /\ life \in LifeType
  BY QuiesceTypes DEF StateOK
<1>2. Inside' = Inside
  BY CutKeepsInside DEF QuiesceVault, StateOK, Inside, Active, HasJob
<1>3. life' = life \/ life' = Seal(life, v)
  BY DEF QuiesceVault
<1>4. \A u \in Vaults \ {v} : life'[u] = life[u]
  BY <1>1, <1>3, OthersKeepLife
<1>5. life'[v].quiescing \/ life' = life
  BY <1>1, <1>3, OthersKeepLife
<1>. QED
  BY <1>1, <1>2, <1>4, <1>5, SealSteps

LEMMA GateResume ==
    ASSUME StateOK, NEW v \in Vaults, ResumeVault(v) \/ ForgetVault(v), work' = work
    PROVE  GateStep
<1>1. Inside' = Inside
  BY DEF Inside, Active, HasJob
<1>2. life' \in LifeType
  BY ResumeType, ForgetType DEF StateOK
<1>3. /\ \A u \in Vaults \ {v} : life'[u] = life[u]
      /\ ActiveIn(v) => life'[v].quiescing \/ ~life[v].quiescing
  BY ResumeSeals, ForgetSeals
<1>. QED
  BY <1>1, <1>2, <1>3, SealSteps

LEMMA GateEnqueue ==
    ASSUME StateOK, NEW k \in Keys, Enqueue(k) \/ Ignore(k), work' = work
    PROVE  GateStep
<1>1. \A u \in Vaults : life'[u].quiescing = life[u].quiescing
  <2>1. CASE Enqueue(k)
    <3>1. VaultOf[k] \in Vaults /\ life \in LifeType
      BY KeysAssumption DEF StateOK
    <3>2. life' = [life EXCEPT ![VaultOf[k]].pending = @ + 1]
      BY <2>1 DEF Enqueue
    <3>. QED
      BY <3>1, <3>2 DEF LifeType, LifeRecord
  <2>2. CASE Ignore(k)
    BY <2>2 DEF Ignore
  <2>. QED
    BY <2>1, <2>2
<1>. QED
  BY <1>1 DEF GateStep, Sealed, Inside, Active, HasJob

LEMMA GateStutter ==
    ASSUME work' = work, life' = life
    PROVE  GateStep
BY DEF GateStep, Sealed, Inside, Active, HasJob

LEMMA GateSteps ==
    ASSUME StateOK, [Next]_vars
    PROVE  GateStep
<1>. USE DEF genVars, diskVars, callerVars, ghostVars
<1>1. CASE WorkerStep
  BY <1>1, GateWorker
<1>2. CASE (\E k \in Keys : ForgetFailure(k)) \/ UNCHANGED vars
  BY <1>2, GateStutter DEF ForgetFailure, vars
<1>3. ASSUME NEW w \in Writers, WriterAct(w)
      PROVE  GateStep
  <2>1. CASE Invalidate(w) \/ LookForThumbnail(w)
    BY <2>1, GateStutter DEF Invalidate, LookForThumbnail
  <2>2. CASE EnqueueThumbnail(w)
    <3>1. writer[w].key \in Keys
      BY <2>2 DEF EnqueueThumbnail, WriterAt, StateOK, CallersOK, WriterType
    <3>. QED
      BY <2>2, <3>1, GateEnqueue DEF EnqueueThumbnail
  <2>3. ASSUME NEW k \in Keys, CommitFile(w, k) \/ LoseIndex(w, k) \/ RemoveFile(w, k)
        PROVE  GateStep
    BY <2>3, GateStutter DEF CommitFile, LoseIndex, RemoveFile
  <2>. QED
    BY <1>3, <2>1, <2>2, <2>3 DEF WriterAct, WriterStep
<1>4. CASE RebuildAct
  <2>1. rebuild.pc # "idle" => rebuild.vault \in Vaults
    BY DEF StateOK, CallersOK, RebuildType
  <2>2. CASE RemoveCache \/ PurgeCaches \/ LookForRebuild \/ VaultIdle \/ RebuildAborts
    BY <2>2, GateStutter DEF RemoveCache, PurgeCaches, LookForRebuild, VaultIdle, RebuildAborts
  <2>3. CASE \E k \in Keys : WalkFile(k)
    BY <2>3, GateStutter DEF WalkFile
  <2>4. CASE ReopenForRebuild \/ LeaveRebuild
    BY <2>1, <2>4, GateResume DEF ReopenForRebuild, LeaveRebuild
  <2>5. CASE AdmitForRebuild
    <3>1. rebuild.key \in Keys
      BY <2>5 DEF AdmitForRebuild, StateOK, CallersOK, RebuildType
    <3>. QED
      BY <2>5, <3>1, GateEnqueue DEF AdmitForRebuild
  <2>6. CASE \E v \in Vaults : StartRebuild(v)
    BY <2>6, GateQuiesce DEF StartRebuild, Quiescers
  <2>. QED
    BY <1>4, <2>2, <2>3, <2>4, <2>5, <2>6 DEF RebuildAct, RebuildStep
<1>5. ASSUME NEW d \in Deleters, DeleterAct(d)
      PROVE  GateStep
  <2>1. deleter[d].pc # "idle" => deleter[d].vault \in Vaults
    BY DEF StateOK, CallersOK, DeleterType
  <2>2. CASE QuiesceThumbnails(d)
    BY <2>1, <2>2, GateQuiesce DEF QuiesceThumbnails, DeleterAt, Quiescers
  <2>3. CASE Drained(d) \/ DrainTimeout(d) \/ LockLifeMu(d) \/ DeletionFails(d)
    BY <2>3, GateStutter DEF Drained, DrainTimeout, LockLifeMu, DeletionFails
  <2>4. CASE RemoveStorage(d) \/ StayQuiesced(d) \/ DeleteRow(d)
    BY <2>4, GateStutter DEF RemoveStorage, StayQuiesced, DeleteRow
  <2>5. CASE ResumeWorkers(d) \/ ForgetThumbnails(d)
    BY <2>1, <2>5, GateResume DEF ResumeWorkers, ForgetThumbnails, DeleterAt
  <2>6. CASE \E v \in Vaults : FindVault(d, v)
    BY <2>6, GateStutter DEF FindVault
  <2>. QED
    BY <1>5, <2>2, <2>3, <2>4, <2>5, <2>6 DEF DeleterAct, DeleterStep
<1>6. CASE StopAct
  <2>1. life' = life
    BY <1>6, StopFrame
  <2>2. Inside' = Inside
    <3>1. WorkOK /\ (work' = work \/ work' = CutRun)
      BY <1>6 DEF StopAct, StopStep, BeginStop, CloseJobs, StopReturns, StateOK
    <3>. QED
      BY <3>1, CutKeepsInside DEF Inside, Active, HasJob
  <2>. QED
    BY <2>1, <2>2 DEF GateStep, Sealed
<1>. QED
  BY Steps, <1>1, <1>2, <1>3, <1>4, <1>5, <1>6

-----------------------------------------------------------------------------
(* Who holds the commit lock, and what it protects.                        *)

Removing == rebuild.pc \in {"emptied", "purged"}

LockOK ==
    /\ commitMu = "worker" <=> work.pc = "committing"
    /\ commitMu = Rebuild <=> Removing
    /\ Removing => \A k \in KeysOf(rebuild.vault) : thumb[k] = 0

LEMMA LockKept ==
    ASSUME LockOK, work'.pc = work.pc, UNCHANGED <<commitMu, rebuild, thumb>>
    PROVE  LockOK'
BY DEF LockOK, Removing

LEMMA LockStep ==
    ASSUME StateOK, LockOK, [Next]_vars
    PROVE  LockOK'
<1>. USE DEF genVars, diskVars, callerVars, ghostVars
<1>1. CASE WorkerStep
  <2>f. rebuild' = rebuild /\ (Removing' <=> Removing)
    BY <1>1, WorkerFrame DEF Removing
  <2>1. CASE Receive \/ BeginJob \/ RefuseJob \/ DiscardJob
    <3>1. work.pc # "committing" /\ work'.pc # "committing" /\ UNCHANGED <<commitMu, thumb>>
      <4>1. CASE RefuseJob
        <5>1. work \in [pc : {"received", "discarding", "ended"}, key : Keys, gen : Nat]
          BY <4>1 DEF RefuseJob, StateOK, WorkOK, WorkType
        <5>. QED
          BY <4>1, <5>1 DEF RefuseJob
      <4>2. CASE Receive \/ BeginJob
        BY <4>2 DEF Receive, BeginJob
      <4>3. CASE DiscardJob
        BY <4>3 DEF DiscardJob, NoWork
      <4>. QED
        BY <2>1, <4>1, <4>2, <4>3
    <3>. QED
      BY <2>f, <3>1 DEF LockOK
  <2>2. CASE StartGenerate \/ FetchFrame \/ FetchFails
    <3>1. work.pc # "committing" /\ work'.pc # "committing" /\ UNCHANGED <<commitMu, thumb>>
      <4>1. CASE StartGenerate
        <5>1. work \in [pc : {"claimed", "fetching"}, key : Keys, gen : Nat, cut : BOOLEAN]
          BY <4>1 DEF StartGenerate, StateOK, WorkOK, WorkType
        <5>. QED
          BY <4>1, <5>1 DEF StartGenerate, Finish
      <4>2. CASE FetchFrame \/ FetchFails
        BY <4>2 DEF FetchFrame, FetchFails, Finish
      <4>. QED
        BY <2>2, <4>1, <4>2
    <3>. QED
      BY <2>f, <3>1 DEF LockOK
  <2>3. CASE LockCommit
    <3>1. work \in [pc : {"encoded", "committing"}, key : Keys, gen : Nat, saw : Nat]
      BY <2>3 DEF LockCommit, StateOK, WorkOK, WorkType
    <3>2. /\ thumb' = thumb /\ commitMu = "free"
          /\ \/ work'.pc = "committing" /\ commitMu' = "worker"
             \/ work'.pc = "finished" /\ commitMu' = "free"
      BY <2>3, <3>1 DEF LockCommit, Finish
    <3>3. ~Removing
      BY <3>2 DEF LockOK, Rebuild
    <3>. QED
      BY <2>f, <3>2, <3>3 DEF LockOK, Rebuild
  <2>4. CASE Commit
    <3>1. commitMu' = "free" /\ work'.pc = "finished" /\ ~Removing
      BY <2>4 DEF Commit, Finish, LockOK, Rebuild
    <3>. QED
      BY <2>f, <3>1 DEF LockOK, Rebuild
  <2>5. CASE FinishJob \/ EndJob \/ WorkerExits
    <3>1. work.pc # "committing" /\ work'.pc # "committing" /\ UNCHANGED <<commitMu, thumb>>
      <4>1. CASE FinishJob
        BY <4>1 DEF FinishJob
      <4>2. CASE EndJob
        BY <4>2 DEF EndJob, NoWork
      <4>3. CASE WorkerExits
        BY <4>3 DEF WorkerExits
      <4>. QED
        BY <2>5, <4>1, <4>2, <4>3
    <3>. QED
      BY <2>f, <3>1 DEF LockOK
  <2>. QED
    BY <1>1, <2>1, <2>2, <2>3, <2>4, <2>5 DEF WorkerStep
<1>2. CASE (\E k \in Keys : ForgetFailure(k)) \/ UNCHANGED vars
  BY <1>2, LockKept DEF ForgetFailure, vars
<1>3. ASSUME NEW w \in Writers, WriterAct(w)
      PROVE  LockOK'
  <2>f. UNCHANGED <<work, commitMu, rebuild>>
    BY <1>3, WriterFrame
  <2>1. CASE Invalidate(w)
    <3>1. commitMu = "free"
      BY <2>1 DEF Invalidate, DeleteThumbnail
    <3>. QED
      BY <2>f, <3>1 DEF LockOK, Removing, Rebuild
  <2>2. CASE LookForThumbnail(w) \/ EnqueueThumbnail(w)
    BY <2>2, <2>f, LockKept DEF LookForThumbnail, EnqueueThumbnail
  <2>3. ASSUME NEW k \in Keys, CommitFile(w, k) \/ LoseIndex(w, k) \/ RemoveFile(w, k)
        PROVE  LockOK'
    BY <2>3, <2>f, LockKept DEF CommitFile, LoseIndex, RemoveFile
  <2>. QED
    BY <1>3, <2>1, <2>2, <2>3 DEF WriterAct, WriterStep
<1>4. CASE RebuildAct
  <2>t. rebuild \in RebuildType
    BY DEF StateOK, CallersOK
  <2>1. CASE RemoveCache
    <3>1. rebuild'.pc = "emptied" /\ rebuild'.vault = rebuild.vault
      BY <2>1, <2>t DEF RemoveCache, RebuildGoes, RebuildType
    <3>2. work' = work /\ work.pc # "committing"
      BY <2>1 DEF RemoveCache, LockOK
    <3>3. \A k \in KeysOf(rebuild.vault) : thumb'[k] = 0
      BY <2>1 DEF RemoveCache, WithoutVault, KeysOf
    <3>. QED
      BY <2>1, <3>1, <3>2, <3>3 DEF RemoveCache, LockOK, Removing, Rebuild
  <2>2. CASE PurgeCaches
    <3>1. rebuild'.pc = "purged" /\ rebuild'.vault = rebuild.vault
      BY <2>2, <2>t DEF PurgeCaches, RebuildGoes, RebuildType
    <3>. QED
      BY <2>2, <3>1 DEF PurgeCaches, LockOK, Removing
  <2>3. CASE ReopenForRebuild
    <3>1. rebuild'.pc = "walking" /\ commitMu = Rebuild
      BY <2>3 DEF ReopenForRebuild, LockOK, Removing
    <3>. QED
      BY <2>3, <3>1 DEF ReopenForRebuild, LockOK, Removing, Rebuild
  <2>4. ASSUME NEW k \in Keys, WalkFile(k)
        PROVE  LockOK'
    <3>1. rebuild'.pc = "looking" /\ commitMu = "free" /\ commitMu' = commitMu /\ work' = work
      BY <2>4 DEF WalkFile, DeleteThumbnail
    <3>. QED
      BY <3>1 DEF LockOK, Removing, Rebuild
  <2>5. CASE LookForRebuild \/ AdmitForRebuild
    <3>1. rebuild'.pc \in {"walking", "admitting", "leaving"}
      BY <2>5, <2>t DEF LookForRebuild, AdmitForRebuild, NextFile, RebuildGoes, RebuildType
    <3>2. ~Removing /\ UNCHANGED <<work, commitMu>>
      BY <2>5 DEF LookForRebuild, AdmitForRebuild, Removing
    <3>. QED
      BY <3>1, <3>2 DEF LockOK, Removing
  <2>6. CASE VaultIdle \/ RebuildAborts \/ LeaveRebuild
    <3>1. rebuild'.pc \in {"idle", "leaving"}
      BY <2>6, <2>t DEF VaultIdle, RebuildAborts, LeaveRebuild, RebuildGoes, RebuildType
    <3>2. ~Removing /\ UNCHANGED <<work, commitMu>>
      BY <2>6 DEF VaultIdle, RebuildAborts, LeaveRebuild, Removing
    <3>. QED
      BY <3>1, <3>2 DEF LockOK, Removing
  <2>7. ASSUME NEW v \in Vaults, StartRebuild(v)
        PROVE  LockOK'
    <3>1. ~Removing /\ ~Removing' /\ commitMu' = commitMu
      BY <2>7 DEF StartRebuild, Removing
    <3>2. work'.pc = work.pc
      BY <2>7, CutRunType DEF StartRebuild, QuiesceVault, StateOK
    <3>. QED
      BY <3>1, <3>2 DEF LockOK
  <2>. QED
    BY <1>4, <2>1, <2>2, <2>3, <2>4, <2>5, <2>6, <2>7 DEF RebuildAct, RebuildStep
<1>5. ASSUME NEW d \in Deleters, DeleterAct(d)
      PROVE  LockOK'
  <2>f. UNCHANGED <<commitMu, rebuild>>
    BY <1>5, DeleterFrame
  <2>1. CASE QuiesceThumbnails(d)
    <3>1. work'.pc = work.pc
      BY <2>1, CutRunType DEF QuiesceThumbnails, QuiesceVault, StateOK
    <3>. QED
      BY <2>f, <2>1, <3>1, LockKept DEF QuiesceThumbnails
  <2>2. CASE RemoveStorage(d)
    <3>1. \A k \in Keys : thumb[k] = 0 => thumb'[k] = 0
      BY <2>2 DEF RemoveStorage, WithoutVault
    <3>. QED
      BY <2>f, <2>2, <3>1 DEF RemoveStorage, LockOK, Removing, KeysOf
  <2>3. CASE Drained(d) \/ DrainTimeout(d) \/ LockLifeMu(d) \/ DeletionFails(d)
    BY <2>f, <2>3, LockKept DEF Drained, DrainTimeout, LockLifeMu, DeletionFails
  <2>4. CASE ResumeWorkers(d) \/ StayQuiesced(d) \/ DeleteRow(d) \/ ForgetThumbnails(d)
    BY <2>f, <2>4, LockKept DEF ResumeWorkers, StayQuiesced, DeleteRow, ForgetThumbnails
  <2>5. CASE \E v \in Vaults : FindVault(d, v)
    BY <2>f, <2>5, LockKept DEF FindVault
  <2>. QED
    BY <1>5, <2>1, <2>2, <2>3, <2>4, <2>5 DEF DeleterAct, DeleterStep
<1>6. CASE StopAct
  <2>1. work'.pc = work.pc
    BY <1>6, CutRunType DEF StopAct, StopStep, BeginStop, CloseJobs, StopReturns, StateOK
  <2>. QED
    BY <1>6, <2>1, StopFrame, LockKept
<1>. QED
  BY Steps, <1>1, <1>2, <1>3, <1>4, <1>5, <1>6

LEMMA EmptyStep ==
    ASSUME StateOK, LockOK, [Next]_vars, Removing, NEW k \in KeysOf(rebuild.vault)
    PROVE  thumb'[k] = thumb[k]
<1>. USE DEF genVars, diskVars, callerVars, ghostVars
<1>0. commitMu = Rebuild /\ commitMu # "free" /\ work.pc # "committing" /\ thumb[k] = 0
  BY DEF LockOK, Rebuild
<1>1. CASE WorkerStep
  <2>1. CASE Receive \/ BeginJob \/ RefuseJob \/ DiscardJob \/ StartGenerate \/ FetchFrame
    BY <2>1 DEF Receive, BeginJob, RefuseJob, DiscardJob, StartGenerate, FetchFrame
  <2>2. CASE FetchFails \/ LockCommit \/ Commit \/ FinishJob \/ EndJob \/ WorkerExits
    BY <1>0, <2>2 DEF FetchFails, LockCommit, Commit, FinishJob, EndJob, WorkerExits
  <2>. QED
    BY <1>1, <2>1, <2>2 DEF WorkerStep
<1>2. CASE (\E l \in Keys : ForgetFailure(l)) \/ UNCHANGED vars
  BY <1>2 DEF ForgetFailure, vars
<1>3. ASSUME NEW w \in Writers, WriterAct(w)
      PROVE  thumb' = thumb
  BY <1>0, <1>3 DEF WriterAct, WriterStep, Invalidate, DeleteThumbnail, LookForThumbnail,
     EnqueueThumbnail, CommitFile, LoseIndex, RemoveFile
<1>4. CASE RebuildAct
  BY <1>0, <1>4 DEF RebuildAct, RebuildStep, Removing, RemoveCache, PurgeCaches, ReopenForRebuild,
     WalkFile, LookForRebuild, AdmitForRebuild, VaultIdle, LeaveRebuild, RebuildAborts, StartRebuild
<1>5. ASSUME NEW d \in Deleters, DeleterAct(d)
      PROVE  thumb'[k] = thumb[k]
  <2>1. CASE RemoveStorage(d)
    BY <1>0, <2>1 DEF RemoveStorage, WithoutVault, KeysOf
  <2>2. CASE QuiesceThumbnails(d) \/ Drained(d) \/ DrainTimeout(d) \/ LockLifeMu(d)
    BY <2>2 DEF QuiesceThumbnails, Drained, DrainTimeout, LockLifeMu
  <2>3. CASE DeletionFails(d) \/ ResumeWorkers(d) \/ StayQuiesced(d)
    BY <2>3 DEF DeletionFails, ResumeWorkers, StayQuiesced
  <2>4. CASE DeleteRow(d) \/ ForgetThumbnails(d) \/ \E v \in Vaults : FindVault(d, v)
    BY <2>4 DEF DeleteRow, ForgetThumbnails, FindVault
  <2>. QED
    BY <1>5, <2>1, <2>2, <2>3, <2>4 DEF DeleterAct, DeleterStep
<1>6. CASE StopAct
  BY <1>6, StopFrame
<1>. QED
  BY Steps, <1>1, <1>2, <1>3, <1>4, <1>5, <1>6

-----------------------------------------------------------------------------
(* A tombstone keeps jobs out, and whoever has waited for the run that was *)
(* active finds the vault without one.                                     *)

Settled(q) ==
    \/ PastDrain(q)
    \/ q # Rebuild /\ deleter[q].pc = "draining" /\ q \notin waiting

TombstonesStand == \A p \in standing : life[p[2]].quiescing
SettledIsQuiet ==
    \A q \in Quiescers : Settled(q) /\ <<q, VaultAt(q)>> \in standing => ~ActiveIn(VaultAt(q))
BarrierOK == TombstonesStand /\ SettledIsQuiet

\* A run only begins at beginJob, and otherwise it stays with its key.
LEMMA WorkerRuns ==
    ASSUME StateOK, WorkerStep, ~BeginJob
    PROVE  Active' => Active /\ work'.key = work.key
<1>1. CASE Receive \/ WorkerExits \/ DiscardJob \/ EndJob
  <2>1. work'.pc \in {"received", "exited", "idle"}
    <3>1. CASE Receive \/ WorkerExits
      BY <3>1 DEF Receive, WorkerExits
    <3>2. CASE DiscardJob
      BY <3>2 DEF DiscardJob, NoWork
    <3>3. CASE EndJob
      BY <3>3 DEF EndJob, NoWork
    <3>. QED
      BY <1>1, <3>1, <3>2, <3>3
  <2>. QED
    BY <2>1 DEF Active, HasJob
<1>2. CASE RefuseJob
  <2>1. work \in [pc : {"received", "discarding", "ended"}, key : Keys, gen : Nat]
    BY <1>2 DEF RefuseJob, StateOK, WorkOK, WorkType
  <2>. QED
    BY <1>2, <2>1 DEF RefuseJob, Active, HasJob
<1>3. CASE StartGenerate
  BY <1>3 DEF StartGenerate, Finish, Active, HasJob, StateOK, WorkOK, WorkType
<1>4. CASE FetchFrame \/ FetchFails \/ Commit \/ FinishJob
  BY <1>4 DEF FetchFrame, FetchFails, Commit, FinishJob, Finish, Active, HasJob
<1>5. CASE LockCommit
  BY <1>5 DEF LockCommit, Finish, Active, HasJob, StateOK, WorkOK, WorkType
<1>. QED
  BY <1>1, <1>2, <1>3, <1>4, <1>5 DEF WorkerStep

LEMMA LiftedStands ==
    ASSUME StateOK, TombstonesStand, NEW v \in Vaults, Lifted(v),
           \A u \in Vaults \ {v} : life'[u] = life[u]
    PROVE  TombstonesStand' /\ standing' \subseteq standing
<1>1. \A p \in standing : p[2] \in Vaults
  BY DEF StateOK, LocksOK
<1>2. CASE life[v].quiescing /\ ~life'[v].quiescing
  BY <1>1, <1>2 DEF Lifted, TombstonesStand
<1>3. CASE ~(life[v].quiescing /\ ~life'[v].quiescing)
  BY <1>1, <1>3 DEF Lifted, TombstonesStand
<1>. QED
  BY <1>2, <1>3

LEMMA StandsKept ==
    ASSUME StateOK, TombstonesStand, standing' = standing,
           \A u \in Vaults : life'[u].quiescing = life[u].quiescing
    PROVE  TombstonesStand' /\ standing' \subseteq standing
BY DEF StateOK, LocksOK, TombstonesStand

LEMMA QuietKept ==
    ASSUME SettledIsQuiet, standing' \subseteq standing,
           Active' => Active /\ work'.key = work.key,
           Active' => \A q \in Quiescers :
                          Settled(q)' => Settled(q) /\ VaultAt(q)' = VaultAt(q)
    PROVE  SettledIsQuiet'
<1>. SUFFICES ASSUME NEW q \in Quiescers, Settled(q)', <<q, VaultAt(q)'>> \in standing',
                     ActiveIn(VaultAt(q))'
              PROVE  FALSE
  BY DEF SettledIsQuiet
<1>1. Active' /\ VaultOf[work'.key] = VaultAt(q)'
  BY DEF ActiveIn
<1>2. Settled(q) /\ VaultAt(q)' = VaultAt(q) /\ Active /\ work'.key = work.key
  BY <1>1
<1>. QED
  BY <1>1, <1>2 DEF SettledIsQuiet, ActiveIn

\* Only a caller's own step changes where it stands, as long as nobody leaves
\* the wait.
LEMMA SettledKept ==
    ASSUME NEW q \in Quiescers, waiting \ {q} \subseteq waiting' \ {q}, NEW p \in Quiescers,
           p # q \/ waiting \subseteq waiting',
           p = Rebuild => rebuild' = rebuild, p # Rebuild => deleter'[p] = deleter[p]
    PROVE  Settled(p)' => Settled(p) /\ VaultAt(p)' = VaultAt(p)
BY DEF Settled, PastDrain, VaultAt

LEMMA BarrierQuiesce ==
    ASSUME StateOK, BarrierOK, NEW q \in Quiescers, NEW v \in Vaults, QuiesceVault(q, v),
           VaultAt(q)' = v,
           \A p \in Quiescers \ {q} :
               /\ p = Rebuild => rebuild' = rebuild
               /\ p # Rebuild => deleter'[p] = deleter[p],
           q = Rebuild => rebuild'.pc = "draining",
           q # Rebuild => deleter'[q].pc = "draining"
    PROVE  BarrierOK'
<1>0. life \in LifeType /\ WorkOK
  BY DEF StateOK
<1>1. CASE Stopped
  <2>1. standing' = standing \ {<<q, v>>} /\ UNCHANGED <<life, work, waiting>>
    BY <1>1 DEF QuiesceVault
  <2>2. TombstonesStand'
    BY <2>1 DEF BarrierOK, TombstonesStand
  <2>3. ASSUME NEW p \in Quiescers, Settled(p)', <<p, VaultAt(p)'>> \in standing',
               ActiveIn(VaultAt(p))'
        PROVE  FALSE
    <3>1. p # q
      BY <2>1, <2>3
    <3>2. Settled(p) /\ VaultAt(p)' = VaultAt(p)
      BY <2>1, <2>3, <3>1, SettledKept
    <3>. QED
      BY <2>1, <2>3, <3>2 DEF BarrierOK, SettledIsQuiet, ActiveIn, Active, HasJob
  <2>. QED
    BY <2>2, <2>3 DEF BarrierOK, SettledIsQuiet
<1>2. CASE ~Stopped
  <2>1. /\ life' = Seal(life, v) /\ standing' = standing \cup {<<q, v>>}
        /\ waiting \subseteq waiting' /\ (ActiveIn(v) => q \in waiting')
        /\ work' = work \/ work' = CutRun
    BY <1>2 DEF QuiesceVault
  <2>2. (Active' <=> Active) /\ (Active => work'.key = work.key)
    BY <1>0, <2>1, CutKeepsInside DEF Active, HasJob
  <2>3. TombstonesStand'
    <3>1. life'[v].quiescing /\ (\A u \in Vaults \ {v} : life'[u] = life[u])
      BY <1>0, <2>1, OthersKeepLife
    <3>2. \A p \in standing : p[2] \in Vaults
      BY DEF StateOK, LocksOK
    <3>. QED
      BY <2>1, <3>1, <3>2 DEF BarrierOK, TombstonesStand
  <2>4. ASSUME NEW p \in Quiescers, Settled(p)', <<p, VaultAt(p)'>> \in standing',
               ActiveIn(VaultAt(p))'
        PROVE  FALSE
    <3>1. Active /\ VaultOf[work.key] = VaultAt(p)'
      BY <2>2, <2>4 DEF ActiveIn
    <3>2. CASE p = q
      <4>1. q \in waiting'
        BY <2>1, <3>1, <3>2 DEF ActiveIn
      <4>. QED
        BY <2>4, <3>2, <4>1 DEF Settled, PastDrain
    <3>3. CASE p # q
      <4>1. Settled(p) /\ VaultAt(p)' = VaultAt(p)
        BY <2>1, <2>4, <3>3, SettledKept
      <4>. QED
        BY <2>1, <2>4, <3>1, <3>3, <4>1 DEF BarrierOK, SettledIsQuiet, ActiveIn
    <3>. QED
      BY <3>2, <3>3
  <2>. QED
    BY <2>3, <2>4 DEF BarrierOK, SettledIsQuiet
<1>. QED
  BY <1>1, <1>2

\* How the worker's steps change the lifecycle.
LEMMA WorkerStands ==
    ASSUME StateOK, TombstonesStand, WorkerStep
    PROVE  TombstonesStand' /\ standing' \subseteq standing
<1>. USE DEF callerVars, ghostVars
<1>0. life \in LifeType
  BY DEF StateOK
<1>k. HasJob => VaultOf[work.key] \in Vaults
  BY InHandTypes DEF StateOK
<1>1. CASE Receive \/ StartGenerate \/ FetchFrame \/ FetchFails
  <2>1. standing' = standing /\ life' = life
    BY <1>1 DEF Receive, StartGenerate, FetchFrame, FetchFails
  <2>. QED
    BY <2>1, StandsKept
<1>2. CASE LockCommit \/ Commit \/ FinishJob \/ WorkerExits
  <2>1. standing' = standing /\ life' = life
    BY <1>2 DEF LockCommit, Commit, FinishJob, WorkerExits
  <2>. QED
    BY <2>1, StandsKept
<1>3. CASE BeginJob
  <2>1. VaultOf[work.key] \in Vaults
    BY <1>3, <1>k DEF BeginJob, HasJob
  <2>2. \A u \in Vaults : life'[u].quiescing = life[u].quiescing
    BY <1>0, <1>3, <2>1, OthersKeepLife DEF BeginJob
  <2>. QED
    BY <1>3, <2>2, StandsKept DEF BeginJob
<1>4. CASE RefuseJob \/ DiscardJob \/ EndJob
  <2>. DEFINE v == VaultOf[work.key]
              l == IF (life[v].resume /\ ~life[v].retiring) /\ life[v].pending = 0
                   THEN Unseal(life, v) ELSE life
  <2>1. v \in Vaults /\ Lifted(v)
    BY <1>4, <1>k DEF RefuseJob, DiscardJob, EndJob, HasJob
  <2>2. PICK m \in LifeType :
            life' = LifeRetired(m, v, FALSE) /\ (\A u \in Vaults \ {v} : m[u] = life[u])
    <3>1. CASE RefuseJob
      BY <1>0, <2>1, <3>1, CountedOffType, OthersKeepLife DEF RefuseJob
    <3>2. CASE DiscardJob
      BY <1>0, <2>1, <3>2 DEF DiscardJob
    <3>3. CASE EndJob
      <4>1. l \in LifeType /\ (\A u \in Vaults \ {v} : l[u] = life[u])
        BY <1>0, <2>1, SealTypes, OthersKeepLife
      <4>2. life' = LifeRetired(l, v, FALSE)
        BY <3>3 DEF EndJob
      <4>. QED
        BY <4>1, <4>2
    <3>. QED
      BY <1>4, <3>1, <3>2, <3>3
  <2>3. \A u \in Vaults \ {v} : life'[u] = life[u]
    BY <2>1, <2>2, LifeRetiredSeals
  <2>. QED
    BY <2>1, <2>3, LiftedStands
<1>. QED
  BY <1>1, <1>2, <1>3, <1>4 DEF WorkerStep

LEMMA BarrierWorker ==
    ASSUME StateOK, BarrierOK, WorkerStep
    PROVE  BarrierOK'
<1>0. TombstonesStand' /\ standing' \subseteq standing
  BY WorkerStands DEF BarrierOK
<1>f. UNCHANGED <<rebuild, deleter>>
  BY WorkerFrame
<1>1. CASE BeginJob
  <2>1. work'.key = work.key /\ ~life[VaultOf[work.key]].quiescing /\ waiting' = waiting
    BY <1>1 DEF BeginJob, Admits
  <2>2. \A q \in Quiescers : <<q, VaultOf[work.key]>> \notin standing'
    BY <1>0, <2>1 DEF BarrierOK, TombstonesStand
  <2>3. SettledIsQuiet'
    <3>. SUFFICES ASSUME NEW q \in Quiescers, <<q, VaultAt(q)'>> \in standing',
                         ActiveIn(VaultAt(q))'
                  PROVE  FALSE
      BY DEF SettledIsQuiet
    <3>. QED
      BY <2>1, <2>2 DEF ActiveIn
  <2>. QED
    BY <1>0, <2>3 DEF BarrierOK
<1>2. CASE ~BeginJob
  <2>1. Active' => Active /\ work'.key = work.key
    BY <1>2, WorkerRuns
  <2>2. Active' => \A q \in Quiescers : Settled(q)' => Settled(q) /\ VaultAt(q)' = VaultAt(q)
    <3>1. CASE EndJob
      BY <3>1 DEF EndJob, NoWork, Active, HasJob
    <3>2. CASE ~EndJob
      <4>1. CASE Receive \/ BeginJob \/ RefuseJob \/ DiscardJob \/ StartGenerate \/ FetchFrame
        <5>1. waiting' = waiting
          BY <4>1 DEF Receive, BeginJob, RefuseJob, DiscardJob, StartGenerate, FetchFrame
        <5>. QED
          BY <1>f, <5>1 DEF Settled, PastDrain, VaultAt
      <4>2. CASE FetchFails \/ LockCommit \/ Commit \/ FinishJob \/ WorkerExits
        <5>1. waiting' = waiting
          BY <4>2 DEF FetchFails, LockCommit, Commit, FinishJob, WorkerExits
        <5>. QED
          BY <1>f, <5>1 DEF Settled, PastDrain, VaultAt
      <4>. QED
        BY <3>2, <4>1, <4>2 DEF WorkerStep
    <3>. QED
      BY <3>1, <3>2
  <2>. QED
    BY <1>0, <2>1, <2>2, QuietKept DEF BarrierOK
<1>. QED
  BY <1>1, <1>2

\* A caller that changes neither the worker nor the tombstones.
LEMMA BarrierCaller ==
    ASSUME StateOK, BarrierOK, TombstonesStand' /\ standing' \subseteq standing, work' = work,
           \A q \in Quiescers : Settled(q)' => Settled(q) /\ VaultAt(q)' = VaultAt(q)
    PROVE  BarrierOK'
<1>1. Active' => Active /\ work'.key = work.key
  BY DEF Active, HasJob
<1>. QED
  BY <1>1, QuietKept DEF BarrierOK

LEMMA EnqueueStands ==
    ASSUME StateOK, TombstonesStand, standing' = standing, NEW k \in Keys, Enqueue(k) \/ Ignore(k)
    PROVE  TombstonesStand' /\ standing' \subseteq standing
<1>1. CASE Enqueue(k)
  <2>1. VaultOf[k] \in Vaults /\ life \in LifeType
    BY KeysAssumption DEF StateOK
  <2>2. life' = [life EXCEPT ![VaultOf[k]].pending = @ + 1]
    BY <1>1 DEF Enqueue
  <2>3. \A u \in Vaults : life'[u].quiescing = life[u].quiescing
    BY <2>1, <2>2 DEF LifeType, LifeRecord
  <2>. QED
    BY <2>3, StandsKept
<1>2. CASE Ignore(k)
  BY <1>2, StandsKept DEF Ignore
<1>. QED
  BY <1>1, <1>2

LEMMA BarrierStep ==
    ASSUME StateOK, BarrierOK, [Next]_vars
    PROVE  BarrierOK'
<1>. USE DEF genVars, diskVars, callerVars, ghostVars
<1>b. TombstonesStand /\ SettledIsQuiet
  BY DEF BarrierOK
<1>1. CASE WorkerStep
  BY <1>1, BarrierWorker
<1>2. CASE (\E k \in Keys : ForgetFailure(k)) \/ UNCHANGED vars
  <2>1. UNCHANGED <<work, life, standing, waiting, rebuild, deleter>>
    BY <1>2 DEF ForgetFailure, vars
  <2>2. TombstonesStand' /\ standing' \subseteq standing
    BY <1>b, <2>1 DEF TombstonesStand
  <2>. QED
    BY <2>1, <2>2, BarrierCaller DEF Settled, PastDrain, VaultAt
<1>3. ASSUME NEW w \in Writers, WriterAct(w)
      PROVE  BarrierOK'
  <2>f. UNCHANGED <<work, waiting, rebuild, deleter, standing>>
    BY <1>3, WriterFrame
  <2>1. TombstonesStand' /\ standing' \subseteq standing
    <3>1. CASE EnqueueThumbnail(w)
      <4>1. writer[w].key \in Keys
        BY <3>1 DEF EnqueueThumbnail, WriterAt, StateOK, CallersOK, WriterType
      <4>. QED
        BY <1>b, <2>f, <3>1, <4>1, EnqueueStands DEF EnqueueThumbnail
    <3>2. CASE ~EnqueueThumbnail(w)
      <4>1. life' = life
        BY <1>3, <3>2 DEF WriterAct, WriterStep, Invalidate, LookForThumbnail, CommitFile,
           LoseIndex, RemoveFile
      <4>. QED
        BY <1>b, <2>f, <4>1, StandsKept
    <3>. QED
      BY <3>1, <3>2
  <2>. QED
    BY <2>f, <2>1, BarrierCaller DEF Settled, PastDrain, VaultAt
<1>4. CASE RebuildAct
  <2>f. deleter' = deleter
    BY <1>4, RebuildFrame
  <2>t. rebuild \in RebuildType /\ (rebuild.pc # "idle" => rebuild.vault \in Vaults)
    BY DEF StateOK, CallersOK, RebuildType
  <2>r. Rebuild \in Quiescers /\ Rebuild \notin Deleters
    BY CallersAssumption DEF Quiescers, Rebuild
  <2>o. ASSUME waiting' = waiting \/ waiting' = waiting \ {Rebuild},
               Settled(Rebuild)' => Settled(Rebuild) /\ VaultAt(Rebuild)' = VaultAt(Rebuild),
               NEW q \in Quiescers
        PROVE  Settled(q)' => Settled(q) /\ VaultAt(q)' = VaultAt(q)
    BY <2>f, <2>o DEF Settled, PastDrain, VaultAt
  <2>1. CASE RemoveCache \/ PurgeCaches
    <3>1. rebuild'.vault = rebuild.vault /\ rebuild.pc \in {"draining", "emptied"}
      BY <2>1, <2>t DEF RemoveCache, PurgeCaches, RebuildGoes, RebuildType
    <3>2. UNCHANGED <<work, waiting, life, standing>>
      BY <2>1 DEF RemoveCache, PurgeCaches
    <3>3. Settled(Rebuild)' => Settled(Rebuild) /\ VaultAt(Rebuild)' = VaultAt(Rebuild)
      BY <3>1, <3>2 DEF Settled, PastDrain, VaultAt
    <3>4. \A q \in Quiescers : Settled(q)' => Settled(q) /\ VaultAt(q)' = VaultAt(q)
      BY <2>o, <3>2, <3>3
    <3>5. TombstonesStand' /\ standing' \subseteq standing
      BY <1>b, <3>2, StandsKept
    <3>. QED
      BY <3>2, <3>4, <3>5, BarrierCaller
  <2>2. CASE ReopenForRebuild \/ LeaveRebuild
    <3>1. rebuild'.pc \in {"walking", "idle"} /\ UNCHANGED <<work, waiting>>
      BY <2>2 DEF ReopenForRebuild, LeaveRebuild
    <3>2. ~Settled(Rebuild)'
      BY <3>1 DEF Settled, PastDrain
    <3>3. \A q \in Quiescers : Settled(q)' => Settled(q) /\ VaultAt(q)' = VaultAt(q)
      BY <2>o, <3>1, <3>2
    <3>4. TombstonesStand' /\ standing' \subseteq standing
      <4>1. rebuild.vault \in Vaults /\ ResumeVault(rebuild.vault)
        BY <2>2, <2>t DEF ReopenForRebuild, LeaveRebuild
      <4>2. \A u \in Vaults \ {rebuild.vault} : life'[u] = life[u]
        BY <4>1, ResumeSeals
      <4>3. Lifted(rebuild.vault)
        BY <4>1 DEF ResumeVault
      <4>. QED
        BY <1>b, <4>1, <4>2, <4>3, LiftedStands
    <3>. QED
      BY <3>1, <3>3, <3>4, BarrierCaller
  <2>3. CASE (\E k \in Keys : WalkFile(k)) \/ LookForRebuild \/ VaultIdle \/ RebuildAborts
    <3>1. rebuild'.pc \in {"looking", "walking", "admitting", "leaving"}
      <4>1. CASE \E k \in Keys : WalkFile(k)
        BY <4>1 DEF WalkFile
      <4>2. CASE LookForRebuild \/ VaultIdle \/ RebuildAborts
        BY <4>2, <2>t DEF LookForRebuild, VaultIdle, RebuildAborts, NextFile, RebuildGoes,
           RebuildType
      <4>. QED
        BY <2>3, <4>1, <4>2
    <3>2. /\ UNCHANGED <<work, life, standing>>
          /\ waiting' = waiting \/ waiting' = waiting \ {Rebuild}
      BY <2>3 DEF WalkFile, LookForRebuild, VaultIdle, RebuildAborts
    <3>3. ~Settled(Rebuild)'
      BY <3>1 DEF Settled, PastDrain
    <3>4. \A q \in Quiescers : Settled(q)' => Settled(q) /\ VaultAt(q)' = VaultAt(q)
      BY <2>o, <3>2, <3>3
    <3>5. TombstonesStand' /\ standing' \subseteq standing
      BY <1>b, <3>2, StandsKept
    <3>. QED
      BY <3>2, <3>4, <3>5, BarrierCaller
  <2>4. CASE AdmitForRebuild
    <3>1. rebuild'.pc \in {"walking", "leaving"} /\ UNCHANGED <<work, waiting, standing>>
      BY <2>4, <2>t DEF AdmitForRebuild, NextFile, RebuildGoes, RebuildType
    <3>2. ~Settled(Rebuild)'
      BY <3>1 DEF Settled, PastDrain
    <3>3. \A q \in Quiescers : Settled(q)' => Settled(q) /\ VaultAt(q)' = VaultAt(q)
      BY <2>o, <3>1, <3>2
    <3>4. rebuild.key \in Keys
      BY <2>4, <2>t DEF AdmitForRebuild, RebuildType
    <3>5. TombstonesStand' /\ standing' \subseteq standing
      BY <1>b, <2>4, <3>1, <3>4, EnqueueStands DEF AdmitForRebuild
    <3>. QED
      BY <3>1, <3>3, <3>5, BarrierCaller
  <2>5. ASSUME NEW v \in Vaults, StartRebuild(v)
        PROVE  BarrierOK'
    <3>1. VaultAt(Rebuild)' = v /\ rebuild'.pc = "draining" /\ QuiesceVault(Rebuild, v)
      BY <2>5 DEF StartRebuild, VaultAt
    <3>. QED
      BY <2>f, <2>r, <3>1, BarrierQuiesce
  <2>. QED
    BY <1>4, <2>1, <2>2, <2>3, <2>4, <2>5 DEF RebuildAct, RebuildStep
<1>5. ASSUME NEW d \in Deleters, DeleterAct(d)
      PROVE  BarrierOK'
  <2>f. rebuild' = rebuild
    BY <1>5, DeleterFrame
  <2>t. /\ deleter \in [Deleters -> DeleterType]
        /\ deleter[d].pc # "idle" => deleter[d].vault \in Vaults
    BY DEF StateOK, CallersOK, DeleterType
  <2>r. d \in Quiescers /\ d # Rebuild
    BY CallersAssumption DEF Quiescers, Rebuild
  <2>o. ASSUME waiting' = waiting \/ waiting' = waiting \ {d},
               \A e \in Deleters \ {d} : deleter'[e] = deleter[e],
               Settled(d)' => Settled(d) /\ VaultAt(d)' = VaultAt(d),
               NEW q \in Quiescers
        PROVE  Settled(q)' => Settled(q) /\ VaultAt(q)' = VaultAt(q)
    <3>1. CASE q = d
      BY <2>o, <3>1
    <3>2. CASE q # d /\ q # Rebuild
      <4>1. deleter'[q] = deleter[q]
        BY <2>o, <3>2 DEF Quiescers
      <4>. QED
        BY <2>o, <3>2, <4>1 DEF Settled, PastDrain, VaultAt
    <3>3. CASE q = Rebuild
      BY <2>f, <2>o, <2>r, <3>3 DEF Settled, PastDrain, VaultAt
    <3>. QED
      BY <3>1, <3>2, <3>3
  <2>g. ASSUME NEW r, deleter' = [deleter EXCEPT ![d] = r]
        PROVE  deleter'[d] = r /\ (\A e \in Deleters \ {d} : deleter'[e] = deleter[e])
    BY <2>t, <2>g
  <2>1. CASE QuiesceThumbnails(d)
    <3>1. deleter[d].vault \in Vaults /\ deleter[d] \in DeleterType /\ deleter[d].pc = "found"
      BY <2>1, <2>t DEF QuiesceThumbnails, DeleterAt
    <3>2. deleter' = [deleter EXCEPT ![d] = [deleter[d] EXCEPT !.pc = "draining"]]
      BY <2>1, <2>t DEF QuiesceThumbnails, DeleterGoes
    <3>3. /\ deleter'[d].pc = "draining" /\ deleter'[d].vault = deleter[d].vault
          /\ \A e \in Deleters \ {d} : deleter'[e] = deleter[e]
      BY <2>g, <3>1, <3>2 DEF DeleterType
    <3>4. VaultAt(d)' = deleter[d].vault /\ QuiesceVault(d, deleter[d].vault)
      BY <2>1, <2>r, <3>3 DEF QuiesceThumbnails, VaultAt
    <3>. QED
      BY <2>f, <2>r, <3>1, <3>3, <3>4, BarrierQuiesce DEF Quiescers
  <2>2. CASE Drained(d) \/ LockLifeMu(d) \/ RemoveStorage(d) \/ DeleteRow(d)
    <3>1. PICK pc \in {"quiesced", "locked", "emptied", "rowGone"} :
              deleter' = [deleter EXCEPT ![d] = [deleter[d] EXCEPT !.pc = pc]]
      BY <2>2, <2>t DEF Drained, LockLifeMu, RemoveStorage, DeleteRow, DeleterGoes
    <3>2. deleter[d].pc \in {"draining", "quiesced", "locked", "emptied"}
          /\ (deleter[d].pc = "draining" => d \notin waiting)
      BY <2>2 DEF Drained, LockLifeMu, RemoveStorage, DeleteRow, DeleterAt
    <3>3. /\ deleter'[d].pc = pc /\ deleter'[d].vault = deleter[d].vault
          /\ \A e \in Deleters \ {d} : deleter'[e] = deleter[e]
      BY <2>g, <2>t, <3>1, <3>2 DEF DeleterType
    <3>4. UNCHANGED <<work, waiting, life, standing>>
      BY <2>2 DEF Drained, LockLifeMu, RemoveStorage, DeleteRow
    <3>5. Settled(d)' => Settled(d) /\ VaultAt(d)' = VaultAt(d)
      BY <2>r, <3>2, <3>3 DEF Settled, PastDrain, VaultAt
    <3>6. \A q \in Quiescers : Settled(q)' => Settled(q) /\ VaultAt(q)' = VaultAt(q)
      BY <2>o, <3>3, <3>4, <3>5
    <3>7. TombstonesStand' /\ standing' \subseteq standing
      BY <1>b, <3>4, StandsKept
    <3>. QED
      BY <3>4, <3>6, <3>7, BarrierCaller
  <2>3. CASE DrainTimeout(d) \/ DeletionFails(d) \/ StayQuiesced(d) \/ \E v \in Vaults : FindVault(d, v)
    <3>1. PICK r : deleter' = [deleter EXCEPT ![d] = r] /\ r.pc \in {"failed", "idle", "found"}
      <4>1. CASE DrainTimeout(d) \/ DeletionFails(d)
        <5>1. deleter' = [deleter EXCEPT ![d] = [deleter[d] EXCEPT !.pc = "failed"]]
          BY <4>1, <2>t DEF DrainTimeout, DeletionFails, DeleterGoes
        <5>2. [deleter[d] EXCEPT !.pc = "failed"].pc = "failed"
          BY <2>t DEF DeleterType
        <5>. QED
          BY <5>1, <5>2
      <4>2. CASE StayQuiesced(d)
        <5>1. deleter' = [deleter EXCEPT ![d] = [pc |-> "idle"]]
          BY <4>2 DEF StayQuiesced, DeleterDone
        <5>2. [pc |-> "idle"].pc = "idle"
          OBVIOUS
        <5>. QED
          BY <5>1, <5>2
      <4>3. ASSUME NEW v \in Vaults, FindVault(d, v)
            PROVE  \E r : deleter' = [deleter EXCEPT ![d] = r] /\ r.pc \in {"failed", "idle", "found"}
        <5>1. deleter' = [deleter EXCEPT ![d] = [pc |-> "found", vault |-> v]]
          BY <4>3 DEF FindVault
        <5>2. [pc |-> "found", vault |-> v].pc = "found"
          OBVIOUS
        <5>. QED
          BY <5>1, <5>2
      <4>. QED
        BY <2>3, <4>1, <4>2, <4>3
    <3>2. deleter'[d].pc \in {"failed", "idle", "found"}
          /\ (\A e \in Deleters \ {d} : deleter'[e] = deleter[e])
      BY <2>g, <3>1
    <3>3. UNCHANGED <<work, life, standing>> /\ (waiting' = waiting \/ waiting' = waiting \ {d})
      BY <2>3 DEF DrainTimeout, DeletionFails, StayQuiesced, FindVault
    <3>4. ~Settled(d)'
      BY <2>r, <3>2 DEF Settled, PastDrain
    <3>5. \A q \in Quiescers : Settled(q)' => Settled(q) /\ VaultAt(q)' = VaultAt(q)
      BY <2>o, <3>2, <3>3, <3>4
    <3>6. TombstonesStand' /\ standing' \subseteq standing
      BY <1>b, <3>3, StandsKept
    <3>. QED
      BY <3>3, <3>5, <3>6, BarrierCaller
  <2>4. CASE ResumeWorkers(d) \/ ForgetThumbnails(d)
    <3>. DEFINE v == deleter[d].vault
    <3>1. v \in Vaults /\ (ResumeVault(v) \/ ForgetVault(v)) /\ UNCHANGED <<work, waiting>>
      BY <2>t, <2>4 DEF ResumeWorkers, ForgetThumbnails, DeleterAt
    <3>2. deleter' = [deleter EXCEPT ![d] = [pc |-> "idle"]]
      BY <2>4 DEF ResumeWorkers, ForgetThumbnails, DeleterDone
    <3>3. deleter'[d].pc = "idle" /\ (\A e \in Deleters \ {d} : deleter'[e] = deleter[e])
      BY <2>g, <3>2
    <3>4. ~Settled(d)'
      BY <2>r, <3>3 DEF Settled, PastDrain
    <3>5. \A q \in Quiescers : Settled(q)' => Settled(q) /\ VaultAt(q)' = VaultAt(q)
      BY <2>o, <3>1, <3>3, <3>4
    <3>6. (\A u \in Vaults \ {v} : life'[u] = life[u]) /\ Lifted(v)
      <4>1. CASE ResumeVault(v)
        BY <3>1, <4>1, ResumeSeals DEF ResumeVault
      <4>2. CASE ForgetVault(v)
        BY <3>1, <4>2, ForgetSeals DEF ForgetVault
      <4>. QED
        BY <3>1, <4>1, <4>2
    <3>7. TombstonesStand' /\ standing' \subseteq standing
      BY <1>b, <3>1, <3>6, LiftedStands
    <3>. QED
      BY <3>1, <3>5, <3>7, BarrierCaller
  <2>. QED
    BY <1>5, <2>1, <2>2, <2>3, <2>4 DEF DeleterAct, DeleterStep
<1>6. CASE StopAct
  <2>1. UNCHANGED <<life, waiting, rebuild, deleter, standing>>
    BY <1>6, StopFrame
  <2>2. Active' => Active /\ work'.key = work.key
    <3>1. WorkOK /\ (work' = work \/ work' = CutRun)
      BY <1>6 DEF StopAct, StopStep, BeginStop, CloseJobs, StopReturns, StateOK
    <3>. QED
      BY <3>1, CutKeepsInside DEF Active, HasJob
  <2>3. TombstonesStand' /\ standing' \subseteq standing
    BY <1>b, <2>1, StandsKept
  <2>4. SettledIsQuiet'
    BY <1>b, <2>1, <2>2, <2>3, QuietKept DEF Settled, PastDrain, VaultAt
  <2>. QED
    BY <2>3, <2>4 DEF BarrierOK
<1>. QED
  BY Steps, <1>1, <1>2, <1>3, <1>4, <1>5, <1>6

LEMMA QuietBarrier == BarrierOK => QuiesceIsBarrier
BY DEF BarrierOK, SettledIsQuiet, Settled, QuiesceIsBarrier

-----------------------------------------------------------------------------
(* Counting the jobs of a queue.                                           *)

\* The places of a queue that hold a job of the set J.
Places(s, J) == {i \in DOMAIN s : s[i] \in J}

LEMMA PlacesAreFinite ==
    ASSUME NEW s \in Seq(JobType), NEW J
    PROVE  /\ IsFiniteSet(Places(s, J)) /\ Cardinality(Places(s, J)) \in Nat
           /\ Places(s, J) \subseteq 1..Len(s) /\ Len(s) \in Nat
<1>1. Len(s) \in Nat /\ DOMAIN s = 1..Len(s)
  BY LenProperties
<1>2. Places(s, J) \subseteq 1..Len(s)
  BY <1>1 DEF Places
<1>3. IsFiniteSet(1..Len(s))
  BY <1>1, FS_Interval
<1>4. IsFiniteSet(Places(s, J))
  BY <1>2, <1>3, FS_Subset
<1>. QED
  BY <1>1, <1>2, <1>4, FS_CardinalityType

\* A job that is sent is one more of its kind.
LEMMA PlacesAfterSend ==
    ASSUME NEW s \in Seq(JobType), NEW job \in JobType, NEW J
    PROVE  Cardinality(Places(Append(s, job), J))
               = Cardinality(Places(s, J)) + (IF job \in J THEN 1 ELSE 0)
<1>. DEFINE P == Places(s, J)
            n == Len(s) + 1
<1>1. IsFiniteSet(P) /\ Cardinality(P) \in Nat /\ P \subseteq 1..Len(s) /\ Len(s) \in Nat
  BY PlacesAreFinite
<1>2. n \notin P
  BY <1>1
<1>3. /\ DOMAIN Append(s, job) = 1..n /\ DOMAIN s = 1..Len(s)
      /\ \A i \in 1..Len(s) : Append(s, job)[i] = s[i]
      /\ Append(s, job)[n] = job
  <2>1. Append(s, job) \in Seq(JobType) /\ Len(Append(s, job)) = n
    BY AppendProperties
  <2>. QED
    BY <2>1, AppendProperties, LenProperties
<1>4. 1..n = (1..Len(s)) \cup {n} /\ n \notin 1..Len(s)
  BY <1>1
<1>5. Places(Append(s, job), J) = IF job \in J THEN P \cup {n} ELSE P
  BY <1>3, <1>4 DEF Places
<1>. HIDE DEF P, n
<1>6. Cardinality(P \cup {n}) = Cardinality(P) + 1
  BY <1>1, <1>2, FS_AddElement
<1>. QED
  BY <1>1, <1>5, <1>6 DEF P

\* A job that is received is one less of its kind, and the others move up.
LEMMA PlacesAfterReceive ==
    ASSUME NEW s \in Seq(JobType), s # <<>>, NEW J
    PROVE  Cardinality(Places(s, J))
               = Cardinality(Places(Tail(s), J)) + (IF Head(s) \in J THEN 1 ELSE 0)
<1>. DEFINE P == Places(s, J)
            T == Places(Tail(s), J)
<1>1. IsFiniteSet(P) /\ Cardinality(P) \in Nat /\ P \subseteq 1..Len(s) /\ Len(s) \in Nat
  BY PlacesAreFinite
<1>2. /\ Tail(s) \in Seq(JobType) /\ Len(Tail(s)) = Len(s) - 1
      /\ \A i \in 1..Len(Tail(s)) : Tail(s)[i] = s[i + 1]
      /\ Head(s) = s[1] /\ Len(s) > 0
  BY <1>1, HeadTailProperties, EmptySeq
<1>3. IsFiniteSet(T) /\ Cardinality(T) \in Nat /\ T \subseteq 1..Len(Tail(s))
  BY <1>2, PlacesAreFinite
<1>4. DOMAIN s = 1..Len(s) /\ DOMAIN Tail(s) = 1..Len(Tail(s))
  BY <1>2, LenProperties
<1>5. \A i \in 1..Len(Tail(s)) : i \in T <=> i + 1 \in P
  BY <1>1, <1>2, <1>4 DEF Places
<1>6. 1 \in P <=> Head(s) \in J
  BY <1>1, <1>2, <1>4 DEF Places
<1>7. \A i \in P \ {1} : i \in Nat /\ i - 1 \in 1..Len(Tail(s)) /\ (i - 1) + 1 = i
  BY <1>1, <1>2
<1>8. \A i \in T : i \in Nat /\ i + 1 \in P \ {1}
  BY <1>3, <1>5
<1>. HIDE DEF P, T
<1>9. Cardinality(P \ {1}) = Cardinality(T)
  <2>. DEFINE f == [i \in T |-> i + 1]
  <2>1. f \in [T -> P \ {1}]
    BY <1>8
  <2>2. \A i, j \in T : f[i] = f[j] => i = j
    BY <1>8
  <2>3. \A i \in P \ {1} : \E j \in T : f[j] = i
    <3>. SUFFICES ASSUME NEW i \in P \ {1}
                  PROVE  \E j \in T : f[j] = i
      OBVIOUS
    <3>1. i - 1 \in T
      BY <1>5, <1>7
    <3>2. f[i - 1] = i
      BY <1>7, <3>1
    <3>. QED
      BY <3>1, <3>2
  <2>. HIDE DEF f
  <2>4. f \in Bijection(T, P \ {1})
    BY <2>1, <2>2, <2>3 DEF Bijection, Injection, Surjection, IsInjective
  <2>. QED
    BY <1>3, <2>4, FS_Bijection DEF ExistsBijection
<1>10. Cardinality(P \ {1}) = IF 1 \in P THEN Cardinality(P) - 1 ELSE Cardinality(P)
  BY <1>1, FS_RemoveElement
<1>. QED
  BY <1>1, <1>3, <1>6, <1>9, <1>10 DEF P, T

JobsIn(v) == {job \in JobType : VaultOf[job.key] = v}
JobsOf(k) == {job \in JobType : job.key = k}

LEMMA QueueCounts ==
    ASSUME queue \in Seq(JobType)
    PROVE  /\ \A v : {i \in DOMAIN queue : VaultOf[queue[i].key] = v} = Places(queue, JobsIn(v))
           /\ \A k : QueuedJobs(k) = Places(queue, JobsOf(k))
<1>1. \A i \in DOMAIN queue : queue[i] \in JobType
  BY LenProperties
<1>. QED
  BY <1>1 DEF Places, JobsIn, JobsOf, QueuedJobs

-----------------------------------------------------------------------------
(* The pending count of a vault.                                           *)

Received(v) == IF work.pc = "received" /\ VaultOf[work.key] = v THEN 1 ELSE 0
PendingOK ==
    \A v \in Vaults : life[v].pending = Cardinality(Places(queue, JobsIn(v))) + Received(v)

LEMMA PendingCounted == StateOK => (PendingOK <=> PendingIsExact)
<1>. SUFFICES ASSUME StateOK
              PROVE  PendingOK <=> PendingIsExact
  OBVIOUS
<1>1. \A v : {i \in DOMAIN queue : VaultOf[queue[i].key] = v} = Places(queue, JobsIn(v))
  BY QueueCounts DEF StateOK, QueueOK
<1>. QED
  BY <1>1 DEF PendingOK, PendingIsExact, Received

LEMMA PendingKept ==
    ASSUME PendingOK, queue' = queue,
           \A v \in Vaults : life'[v].pending = life[v].pending,
           \A v \in Vaults : Received(v)' = Received(v)
    PROVE  PendingOK'
BY DEF PendingOK

\* What never counts jobs.
LEMMA RetiredPending ==
    ASSUME NEW l \in LifeType, NEW v \in Vaults, NEW a \in BOOLEAN, NEW u \in Vaults
    PROVE  LifeRetired(l, v, a)[u].pending = l[u].pending
<1>1. CASE Retires(l, v, a)
  <2>1. l[v].pending = 0 /\ LifeRetired(l, v, a) = [l EXCEPT ![v] = NewLife]
    BY <1>1 DEF LifeRetired, Retires
  <2>2. NewLife.pending = 0
    BY DEF NewLife
  <2>. QED
    BY <2>1, <2>2 DEF LifeType
<1>2. CASE ~Retires(l, v, a)
  BY <1>2 DEF LifeRetired
<1>. QED
  BY <1>1, <1>2

LEMMA SealedPending ==
    ASSUME NEW l \in LifeType, NEW v \in Vaults, NEW u \in Vaults
    PROVE  Seal(l, v)[u].pending = l[u].pending /\ Unseal(l, v)[u].pending = l[u].pending
BY DEF Seal, Unseal, LifeType, LifeRecord

LEMMA PendingResume ==
    ASSUME StateOK, NEW v \in Vaults, ResumeVault(v) \/ ForgetVault(v)
    PROVE  \A u \in Vaults : life'[u].pending = life[u].pending
<1>0. life \in LifeType /\ ActiveIn(v) \in BOOLEAN
  BY DEF StateOK, ActiveIn
<1>1. CASE ResumeVault(v)
  <2>1. CASE life' = life
    BY <2>1
  <2>2. CASE life' = Unseal(life, v)
    BY <1>0, <2>2, SealedPending
  <2>3. CASE life' = [life EXCEPT ![v].resume = TRUE]
    BY <1>0, <2>3 DEF LifeType, LifeRecord
  <2>. QED
    BY <1>1, <2>1, <2>2, <2>3 DEF ResumeVault
<1>2. CASE ForgetVault(v)
  <2>. DEFINE l == [life EXCEPT ![v].retiring = TRUE, ![v].quiescing = TRUE]
  <2>1. l \in LifeType
    BY <1>0 DEF LifeType, LifeRecord
  <2>2. \A u \in Vaults : l[u].pending = life[u].pending
    BY <1>0 DEF LifeType, LifeRecord
  <2>3. life' = LifeRetired(l, v, ActiveIn(v))
    BY <1>2 DEF ForgetVault
  <2>. HIDE DEF l
  <2>4. \A u \in Vaults : LifeRetired(l, v, ActiveIn(v))[u].pending = l[u].pending
    BY <1>0, <2>1, RetiredPending
  <2>. QED
    BY <2>2, <2>3, <2>4
<1>. QED
  BY <1>1, <1>2

LEMMA PendingQuiesce ==
    ASSUME StateOK, NEW q \in Quiescers, NEW v \in Vaults, QuiesceVault(q, v)
    PROVE  /\ \A u \in Vaults : life'[u].pending = life[u].pending
           /\ \A u \in Vaults : Received(u)' = Received(u)
<1>0. life \in LifeType
  BY DEF StateOK
<1>1. life' = life \/ life' = Seal(life, v)
  BY DEF QuiesceVault
<1>2. \A u \in Vaults : life'[u].pending = life[u].pending
  BY <1>0, <1>1, SealedPending
<1>3. work' = work \/ work' = CutRun
  BY DEF QuiesceVault
<1>4. work'.pc = work.pc /\ (HasJob => work'.key = work.key)
  BY <1>3, CutRunType DEF StateOK
<1>. QED
  BY <1>2, <1>4 DEF Received, HasJob

LEMMA PendingEnqueue ==
    ASSUME StateOK, PendingOK, NEW k \in Keys, Enqueue(k) \/ Ignore(k), work' = work
    PROVE  PendingOK'
<1>1. CASE Enqueue(k)
  <2>. DEFINE job == [key |-> k, gen |-> cache.gens[k]]
  <2>1. job \in JobType /\ queue \in Seq(JobType) /\ life \in LifeType /\ VaultOf[k] \in Vaults
    BY KeysAssumption DEF JobType, StateOK, QueueOK, CacheType
  <2>2. queue' = Append(queue, job) /\ life' = [life EXCEPT ![VaultOf[k]].pending = @ + 1]
    BY <1>1 DEF Enqueue
  <2>3. \A v \in Vaults : job \in JobsIn(v) <=> v = VaultOf[k]
    BY <2>1 DEF JobsIn
  <2>. HIDE DEF job
  <2>4. \A v \in Vaults : Received(v)' = Received(v) /\ Received(v) \in Nat
    BY DEF Received
  <2>. SUFFICES ASSUME NEW v \in Vaults
                PROVE  life'[v].pending = Cardinality(Places(queue', JobsIn(v))) + Received(v)'
    BY DEF PendingOK
  <2>5. PICK n \in Nat : n = Cardinality(Places(queue, JobsIn(v)))
    BY <2>1, PlacesAreFinite
  <2>6. Cardinality(Places(queue', JobsIn(v))) = n + (IF v = VaultOf[k] THEN 1 ELSE 0)
    BY <2>1, <2>2, <2>3, <2>5, PlacesAfterSend
  <2>7. life[v].pending = n + Received(v)
    BY <2>5 DEF PendingOK
  <2>8. life'[v].pending = life[v].pending + (IF v = VaultOf[k] THEN 1 ELSE 0)
    BY <2>1, <2>2 DEF LifeType, LifeRecord
  <2>. QED
    BY <2>4, <2>6, <2>7, <2>8
<1>2. CASE Ignore(k)
  <2>1. UNCHANGED <<queue, life, work>>
    BY <1>2 DEF Ignore
  <2>. QED
    BY <2>1 DEF PendingOK, Received
<1>. QED
  BY <1>1, <1>2

LEMMA PendingWorker ==
    ASSUME StateOK, PendingOK, WorkerStep
    PROVE  PendingOK'
<1>. USE DEF callerVars, ghostVars, diskVars
<1>0. life \in LifeType /\ queue \in Seq(JobType)
  BY DEF StateOK, QueueOK
<1>k. HasJob => VaultOf[work.key] \in Vaults
  BY InHandTypes DEF StateOK
<1>1. CASE Receive
  <2>1. /\ queue # <<>> /\ queue' = Tail(queue) /\ life' = life /\ work.pc = "idle"
        /\ work'.pc = "received" /\ work'.key = Head(queue).key
    BY <1>1 DEF Receive
  <2>2. Head(queue) \in JobType
    BY <1>0, <2>1, HeadTailProperties
  <2>3. \A v \in Vaults :
            Received(v) = 0 /\ Received(v)' = IF Head(queue) \in JobsIn(v) THEN 1 ELSE 0
    BY <2>1, <2>2 DEF Received, JobsIn
  <2>4. \A v \in Vaults :
            Cardinality(Places(queue, JobsIn(v)))
                = Cardinality(Places(queue', JobsIn(v))) + Received(v)'
    BY <1>0, <2>1, <2>3, PlacesAfterReceive
  <2>5. \A v \in Vaults : Cardinality(Places(queue, JobsIn(v))) \in Nat
    BY <1>0, PlacesAreFinite
  <2>6. \A v \in Vaults : life[v].pending = Cardinality(Places(queue, JobsIn(v)))
    BY <2>3, <2>5 DEF PendingOK
  <2>. QED
    BY <2>1, <2>4, <2>6 DEF PendingOK
<1>2. CASE BeginJob \/ RefuseJob
  <2>. DEFINE v == VaultOf[work.key]
  <2>1. v \in Vaults /\ work.pc = "received" /\ queue' = queue
    BY <1>2, <1>k DEF BeginJob, RefuseJob, HasJob
  <2>2. work'.pc # "received"
    <3>1. CASE BeginJob
      BY <3>1 DEF BeginJob
    <3>2. CASE RefuseJob
      <4>1. work \in [pc : {"received", "discarding", "ended"}, key : Keys, gen : Nat]
        BY <3>2 DEF RefuseJob, StateOK, WorkOK, WorkType
      <4>. QED
        BY <3>2, <4>1 DEF RefuseJob
    <3>. QED
      BY <1>2, <3>1, <3>2
  <2>3. \A u \in Vaults : Received(u) = (IF u = v THEN 1 ELSE 0) /\ Received(u)' = 0
    BY <2>1, <2>2 DEF Received
  <2>4. \A u \in Vaults : life'[u].pending = CountedOff(v)[u].pending
    <3>1. CASE BeginJob
      BY <3>1 DEF BeginJob
    <3>2. CASE RefuseJob
      <4>1. life' = LifeRetired(CountedOff(v), v, FALSE) /\ CountedOff(v) \in LifeType
        BY <1>0, <2>1, <3>2, CountedOffType DEF RefuseJob
      <4>. QED
        BY <2>1, <4>1, RetiredPending
    <3>. QED
      BY <1>2, <3>1, <3>2
  <2>5. \A u \in Vaults : life[u].pending \in Nat
    BY <1>0 DEF LifeType, LifeRecord
  <2>6. \A u \in Vaults :
            CountedOff(v)[u].pending = IF u = v /\ life[u].pending > 0 THEN life[u].pending - 1
                                       ELSE IF u = v THEN 0 ELSE life[u].pending
    BY <1>0, <2>1 DEF CountedOff, LifeType, LifeRecord
  <2>. HIDE DEF v
  <2>. SUFFICES ASSUME NEW u \in Vaults
                PROVE  life'[u].pending = Cardinality(Places(queue', JobsIn(u))) + Received(u)'
    BY DEF PendingOK
  <2>7. PICK n \in Nat : n = Cardinality(Places(queue, JobsIn(u)))
    BY <1>0, PlacesAreFinite
  <2>8. life[u].pending = n + (IF u = v THEN 1 ELSE 0)
    BY <2>3, <2>7 DEF PendingOK
  <2>9. life'[u].pending = n
    BY <2>4, <2>5, <2>6, <2>8
  <2>. QED
    BY <2>1, <2>3, <2>7, <2>9
<1>3. CASE DiscardJob \/ EndJob
  <2>. DEFINE v == VaultOf[work.key]
              l == IF (life[v].resume /\ ~life[v].retiring) /\ life[v].pending = 0
                   THEN Unseal(life, v) ELSE life
  <2>1. v \in Vaults /\ work.pc # "received" /\ queue' = queue
    BY <1>3, <1>k DEF DiscardJob, EndJob, HasJob
  <2>2. work'.pc = "idle"
    <3>1. CASE DiscardJob
      BY <3>1 DEF DiscardJob, NoWork
    <3>2. CASE EndJob
      BY <3>2 DEF EndJob, NoWork
    <3>. QED
      BY <1>3, <3>1, <3>2
  <2>3. \A u \in Vaults : Received(u)' = Received(u)
    BY <2>1, <2>2 DEF Received
  <2>4. l \in LifeType /\ (\A u \in Vaults : l[u].pending = life[u].pending)
    BY <1>0, <2>1, SealTypes, SealedPending
  <2>5. life' = LifeRetired(life, v, FALSE) \/ life' = LifeRetired(l, v, FALSE)
    <3>1. CASE DiscardJob
      BY <3>1 DEF DiscardJob
    <3>2. CASE EndJob
      BY <3>2 DEF EndJob
    <3>. QED
      BY <1>3, <3>1, <3>2
  <2>. HIDE DEF l
  <2>6. \A u \in Vaults : life'[u].pending = life[u].pending
    <3>1. CASE life' = LifeRetired(life, v, FALSE)
      BY <1>0, <2>1, <3>1, RetiredPending
    <3>2. CASE life' = LifeRetired(l, v, FALSE)
      <4>1. \A u \in Vaults : LifeRetired(l, v, FALSE)[u].pending = l[u].pending
        BY <2>1, <2>4, RetiredPending
      <4>. QED
        BY <2>4, <3>2, <4>1
    <3>. QED
      BY <2>5, <3>1, <3>2
  <2>. QED
    BY <2>1, <2>3, <2>6, PendingKept
<1>4. CASE StartGenerate \/ FetchFrame \/ FetchFails \/ LockCommit \/ Commit \/ FinishJob \/ WorkerExits
  <2>1. CASE StartGenerate
    <3>1. work'.pc # "received"
      BY <2>1 DEF StartGenerate, Finish, StateOK, WorkOK, WorkType
    <3>. QED
      BY <2>1, <3>1, PendingKept DEF StartGenerate, Received
  <2>2. CASE FetchFrame \/ FetchFails
    <3>1. work.pc # "received" /\ work'.pc # "received" /\ UNCHANGED <<queue, life>>
      BY <2>2 DEF FetchFrame, FetchFails, Finish
    <3>. QED
      BY <3>1, PendingKept DEF Received
  <2>3. CASE LockCommit
    <3>1. work'.pc # "received"
      BY <2>3 DEF LockCommit, Finish, StateOK, WorkOK, WorkType
    <3>. QED
      BY <2>3, <3>1, PendingKept DEF LockCommit, Received
  <2>4. CASE Commit \/ FinishJob
    <3>1. work.pc # "received" /\ work'.pc # "received" /\ UNCHANGED <<queue, life>>
      BY <2>4 DEF Commit, FinishJob, Finish
    <3>. QED
      BY <3>1, PendingKept DEF Received
  <2>5. CASE WorkerExits
    BY <2>5, PendingKept DEF WorkerExits, Received
  <2>. QED
    BY <1>4, <2>1, <2>2, <2>3, <2>4, <2>5
<1>. QED
  BY <1>1, <1>2, <1>3, <1>4 DEF WorkerStep

LEMMA PendingStep ==
    ASSUME StateOK, PendingOK, [Next]_vars
    PROVE  PendingOK'
<1>. USE DEF genVars, diskVars, callerVars, ghostVars
<1>r. ASSUME work' = work
      PROVE  \A u \in Vaults : Received(u)' = Received(u)
  BY <1>r DEF Received
<1>k. ASSUME UNCHANGED <<queue, life, work>>
      PROVE  PendingOK'
  BY <1>k DEF PendingOK, Received
<1>1. CASE WorkerStep
  BY <1>1, PendingWorker
<1>2. CASE (\E k \in Keys : ForgetFailure(k)) \/ UNCHANGED vars
  BY <1>2, <1>k DEF ForgetFailure, vars
<1>3. ASSUME NEW w \in Writers, WriterAct(w)
      PROVE  PendingOK'
  <2>1. CASE EnqueueThumbnail(w)
    <3>1. writer[w].key \in Keys
      BY <2>1 DEF EnqueueThumbnail, WriterAt, StateOK, CallersOK, WriterType
    <3>. QED
      BY <2>1, <3>1, PendingEnqueue DEF EnqueueThumbnail
  <2>2. CASE ~EnqueueThumbnail(w)
    <3>1. UNCHANGED <<queue, life, work>>
      BY <1>3, <2>2 DEF WriterAct, WriterStep, Invalidate, LookForThumbnail, CommitFile,
         LoseIndex, RemoveFile
    <3>. QED
      BY <3>1, <1>k
  <2>. QED
    BY <2>1, <2>2
<1>4. CASE RebuildAct
  <2>t. rebuild \in RebuildType /\ (rebuild.pc # "idle" => rebuild.vault \in Vaults)
    BY DEF StateOK, CallersOK, RebuildType
  <2>1. CASE RemoveCache \/ PurgeCaches \/ LookForRebuild \/ VaultIdle \/ RebuildAborts
    BY <1>k, <2>1 DEF RemoveCache, PurgeCaches, LookForRebuild, VaultIdle, RebuildAborts
  <2>2. CASE \E k \in Keys : WalkFile(k)
    BY <1>k, <2>2 DEF WalkFile
  <2>3. CASE ReopenForRebuild \/ LeaveRebuild
    <3>1. rebuild.vault \in Vaults /\ ResumeVault(rebuild.vault) /\ UNCHANGED <<work, queue>>
      BY <2>3, <2>t DEF ReopenForRebuild, LeaveRebuild
    <3>. QED
      BY <1>r, <3>1, PendingResume, PendingKept
  <2>4. CASE AdmitForRebuild
    <3>1. rebuild.key \in Keys
      BY <2>4, <2>t DEF AdmitForRebuild, RebuildType
    <3>. QED
      BY <2>4, <3>1, PendingEnqueue DEF AdmitForRebuild
  <2>5. ASSUME NEW v \in Vaults, StartRebuild(v)
        PROVE  PendingOK'
    BY <2>5, PendingQuiesce, PendingKept DEF StartRebuild, Quiescers
  <2>. QED
    BY <1>4, <2>1, <2>2, <2>3, <2>4, <2>5 DEF RebuildAct, RebuildStep
<1>5. ASSUME NEW d \in Deleters, DeleterAct(d)
      PROVE  PendingOK'
  <2>t. deleter[d].pc # "idle" => deleter[d].vault \in Vaults
    BY DEF StateOK, CallersOK, DeleterType
  <2>1. CASE QuiesceThumbnails(d)
    <3>1. deleter[d].vault \in Vaults /\ QuiesceVault(d, deleter[d].vault) /\ queue' = queue
      BY <2>1, <2>t DEF QuiesceThumbnails, DeleterAt
    <3>. QED
      BY <3>1, PendingQuiesce, PendingKept DEF Quiescers
  <2>2. CASE ResumeWorkers(d) \/ ForgetThumbnails(d)
    <3>1. /\ deleter[d].vault \in Vaults /\ UNCHANGED <<queue, work>>
          /\ ResumeVault(deleter[d].vault) \/ ForgetVault(deleter[d].vault)
      BY <2>2, <2>t DEF ResumeWorkers, ForgetThumbnails, DeleterAt
    <3>. QED
      BY <1>r, <3>1, PendingResume, PendingKept
  <2>3. CASE Drained(d) \/ DrainTimeout(d) \/ LockLifeMu(d) \/ DeletionFails(d)
    BY <1>k, <2>3 DEF Drained, DrainTimeout, LockLifeMu, DeletionFails
  <2>4. CASE RemoveStorage(d) \/ StayQuiesced(d) \/ DeleteRow(d) \/ \E v \in Vaults : FindVault(d, v)
    BY <1>k, <2>4 DEF RemoveStorage, StayQuiesced, DeleteRow, FindVault
  <2>. QED
    BY <1>5, <2>1, <2>2, <2>3, <2>4 DEF DeleterAct, DeleterStep
<1>6. CASE StopAct
  <2>1. work' = work \/ work' = CutRun
    BY <1>6 DEF StopAct, StopStep, BeginStop, CloseJobs, StopReturns
  <2>2. work'.pc = work.pc /\ (HasJob => work'.key = work.key)
    BY <2>1, CutRunType DEF StateOK
  <2>3. UNCHANGED <<queue, life>>
    BY <1>6, StopFrame
  <2>. QED
    BY <2>2, <2>3, PendingKept DEF Received, HasJob
<1>. QED
  BY Steps, <1>1, <1>2, <1>3, <1>4, <1>5, <1>6

-----------------------------------------------------------------------------
(* The markers of the queue: whatever happens to the bookkeeping but an    *)
(* admission only takes markers away, and a key that keeps its marker      *)
(* keeps its generation.                                                   *)

Shrinks(c, d) == d.queued \subseteq c.queued /\ \A k \in d.queued : d.gens[k] = c.gens[k]

LEMMA PurgedShrinks ==
    ASSUME NEW c \in CacheType, NEW v
    PROVE  Shrinks(c, Purged(c, v))
BY DEF Shrinks, Purged, WithoutVault, KeysOf, CacheType

LEMMA CacheRetiredShrinks ==
    ASSUME NEW c \in CacheType, NEW l, NEW v, NEW a
    PROVE  Shrinks(c, CacheRetired(c, l, v, a))
<1>1. CASE Retires(l, v, a)
  BY <1>1, PurgedShrinks DEF CacheRetired
<1>2. CASE ~Retires(l, v, a)
  BY <1>2 DEF CacheRetired, Shrinks
<1>. QED
  BY <1>1, <1>2

LEMMA MaybePurgeShrinks ==
    ASSUME NEW c \in CacheType, NEW k \in Keys
    PROVE  Shrinks(c, MaybePurgeGeneration(c, k))
BY DEF Shrinks, MaybePurgeGeneration, CacheType

LEMMA ReleasedShrinks ==
    ASSUME NEW c \in CacheType, NEW k \in Keys
    PROVE  Shrinks(c, Released(c, k))
<1>1. CASE c.refs[k] > 1
  BY <1>1 DEF Released, Shrinks, CacheType
<1>2. CASE ~(c.refs[k] > 1)
  <2>. DEFINE d == [c EXCEPT !.refs[k] = 0]
  <2>1. d \in CacheType /\ Shrinks(c, d)
    BY DEF Shrinks, CacheType
  <2>2. Released(c, k) = MaybePurgeGeneration(d, k)
    BY <1>2 DEF Released
  <2>. HIDE DEF d
  <2>3. Shrinks(d, Released(c, k))
    BY <2>1, <2>2, MaybePurgeShrinks
  <2>. QED
    BY <2>1, <2>3 DEF Shrinks
<1>. QED
  BY <1>1, <1>2

LEMMA WithdrawalShrinks ==
    ASSUME cache \in CacheType, NEW k \in Keys, DeleteThumbnail(k)
    PROVE  Shrinks(cache, cache') /\ k \notin cache'.queued
<1>. DEFINE c == [cache EXCEPT !.gens = [cache.gens EXCEPT ![k] = cache.gens[k] + 1],
                               !.queued = cache.queued \ {k}, !.failed = cache.failed \ {k}]
<1>1. cache' = MaybePurgeGeneration(c, k)
  BY DEF DeleteThumbnail, CacheType
<1>2. cache.gens[k] + 1 \in Nat
  BY DEF CacheType
<1>3. [cache.gens EXCEPT ![k] = cache.gens[k] + 1] \in [Keys -> Nat]
  BY <1>2 DEF CacheType
<1>4. c \in CacheType /\ Shrinks(cache, c) /\ k \notin c.queued
  BY <1>3 DEF CacheType, Shrinks
<1>. HIDE DEF c
<1>5. Shrinks(c, cache')
  BY <1>1, <1>4, MaybePurgeShrinks
<1>. QED
  BY <1>4, <1>5 DEF Shrinks

Carries == HasJob /\ work.pc # "ended"

LEMMA MarkersKept ==
    ASSUME MarkersHaveJobs, Shrinks(cache, cache'), queue' = queue,
           \A k \in cache'.queued :
               Carries /\ work.key = k /\ Current(work) =>
                   Carries' /\ work'.key = work.key /\ work'.gen = work.gen
    PROVE  MarkersHaveJobs'
<1>. SUFFICES ASSUME NEW k \in cache'.queued
              PROVE  (\E i \in QueuedJobs(k)' : Current(queue[i])') \/ (InHand(k) = 1 /\ Current(work))'
  BY DEF MarkersHaveJobs
<1>1. k \in cache.queued /\ cache'.gens[k] = cache.gens[k]
  BY DEF Shrinks
<1>2. CASE \E i \in QueuedJobs(k) : Current(queue[i])
  BY <1>1, <1>2 DEF QueuedJobs, Current
<1>3. CASE InHand(k) = 1 /\ Current(work)
  <2>1. Carries /\ work.key = k /\ cache.gens[k] = work.gen
    BY <1>3 DEF InHand, Current, Carries
  <2>2. Carries' /\ work'.key = k /\ work'.gen = work.gen
    BY <1>3, <2>1
  <2>. QED
    BY <1>1, <2>1, <2>2 DEF InHand, Current, Carries, HasJob
<1>. QED
  BY <1>1, <1>2, <1>3 DEF MarkersHaveJobs

LEMMA MarkersStay ==
    ASSUME StateOK, MarkersHaveJobs, Shrinks(cache, cache'), queue' = queue,
           work' = work \/ work' = CutRun
    PROVE  MarkersHaveJobs'
<1>1. work'.pc = work.pc /\ (HasJob => work'.key = work.key /\ work'.gen = work.gen)
  BY CutRunType DEF StateOK
<1>. QED
  BY <1>1, MarkersKept DEF Carries, HasJob

LEMMA MarkersEnqueue ==
    ASSUME StateOK, MarkersHaveJobs, NEW k \in Keys, Enqueue(k) \/ Ignore(k), work' = work
    PROVE  MarkersHaveJobs'
<1>1. CASE Enqueue(k)
  <2>. DEFINE job == [key |-> k, gen |-> cache.gens[k]]
  <2>1. job \in JobType /\ queue \in Seq(JobType) /\ queue' = Append(queue, job)
    BY <1>1 DEF Enqueue, JobType, StateOK, QueueOK, CacheType
  <2>2. cache'.queued = cache.queued \cup {k} /\ cache'.gens = cache.gens
    BY <1>1 DEF Enqueue, StateOK, CacheType
  <2>3. job.key = k /\ job.gen = cache.gens[k]
    OBVIOUS
  <2>. HIDE DEF job
  <2>4. /\ Len(queue) \in Nat /\ DOMAIN queue = 1..Len(queue)
        /\ DOMAIN queue' = 1..(Len(queue) + 1)
        /\ \A i \in 1..Len(queue) : queue'[i] = queue[i]
        /\ queue'[Len(queue) + 1] = job
    <3>1. queue' \in Seq(JobType) /\ Len(queue') = Len(queue) + 1
      BY <2>1, AppendProperties
    <3>. QED
      BY <2>1, <3>1, AppendProperties, LenProperties
  <2>. SUFFICES ASSUME NEW l \in cache'.queued
                PROVE  (\E i \in QueuedJobs(l)' : Current(queue[i])')
                           \/ (InHand(l) = 1 /\ Current(work))'
    BY DEF MarkersHaveJobs
  <2>5. CASE l = k
    <3>1. Len(queue) + 1 \in DOMAIN queue' /\ queue'[Len(queue) + 1] = job
      BY <2>4
    <3>. QED
      BY <2>2, <2>3, <2>5, <3>1 DEF QueuedJobs, Current
  <2>6. CASE l # k
    <3>1. l \in cache.queued
      BY <2>2, <2>6
    <3>2. CASE \E i \in QueuedJobs(l) : Current(queue[i])
      <4>1. PICK i \in DOMAIN queue : queue[i].key = l /\ cache.gens[queue[i].key] = queue[i].gen
        BY <3>2 DEF QueuedJobs, Current
      <4>2. i \in DOMAIN queue' /\ queue'[i] = queue[i]
        BY <2>4
      <4>. QED
        BY <2>2, <4>1, <4>2 DEF QueuedJobs, Current
    <3>3. CASE InHand(l) = 1 /\ Current(work)
      BY <2>2, <3>3 DEF InHand, Current, HasJob
    <3>. QED
      BY <3>1, <3>2, <3>3 DEF MarkersHaveJobs
  <2>. QED
    BY <2>5, <2>6
<1>2. CASE Ignore(k)
  <2>1. UNCHANGED <<queue, cache>>
    BY <1>2 DEF Ignore
  <2>. QED
    BY <2>1, MarkersStay DEF Shrinks
<1>. QED
  BY <1>1, <1>2

\* The job of a run stays what it is until the run ends.
LEMMA RunGoesOn ==
    ASSUME StateOK, BeginJob \/ StartGenerate \/ FetchFrame \/ FetchFails \/ LockCommit \/ Commit
    PROVE  /\ Carries /\ Carries' /\ work'.key = work.key /\ work'.gen = work.gen
           /\ UNCHANGED <<queue, cache>>
<1>1. CASE BeginJob
  BY <1>1 DEF BeginJob, Carries, HasJob
<1>2. CASE StartGenerate
  BY <1>2 DEF StartGenerate, Finish, Carries, HasJob, StateOK, WorkOK, WorkType
<1>3. CASE FetchFrame \/ FetchFails \/ Commit
  BY <1>3 DEF FetchFrame, FetchFails, Commit, Finish, Carries, HasJob
<1>4. CASE LockCommit
  BY <1>4 DEF LockCommit, Finish, Carries, HasJob, StateOK, WorkOK, WorkType
<1>. QED
  BY <1>1, <1>2, <1>3, <1>4

\* A job that is over takes the marker of its key along if it is current.
LEMMA JobOver ==
    ASSUME StateOK, DiscardJob \/ FinishJob
    PROVE  /\ Shrinks(cache, cache') /\ queue' = queue /\ work.key \in Keys /\ Carries /\ ~Carries'
           /\ Current(work) => work.key \notin cache'.queued
<1>k. HasJob => work.key \in Keys
  BY InHandTypes DEF StateOK
<1>1. CASE DiscardJob
  <2>. DEFINE c == IF Current(work) THEN [cache EXCEPT !.queued = @ \ {work.key}] ELSE cache
              r == Released(c, work.key)
  <2>1. work.key \in Keys /\ queue' = queue /\ Carries /\ ~Carries'
    BY <1>1, <1>k DEF DiscardJob, HasJob, Carries, NoWork
  <2>2. /\ c \in CacheType /\ Shrinks(cache, c)
        /\ Current(work) => work.key \notin c.queued
    BY DEF StateOK, CacheType, Shrinks
  <2>3. cache' = CacheRetired(r, life, VaultOf[work.key], FALSE)
    BY <1>1 DEF DiscardJob
  <2>. HIDE DEF c
  <2>4. r \in CacheType /\ Shrinks(c, r)
    BY <2>1, <2>2, ReleasedType, ReleasedShrinks
  <2>. HIDE DEF r
  <2>5. Shrinks(r, cache')
    BY <2>3, <2>4, CacheRetiredShrinks
  <2>. QED
    BY <2>1, <2>2, <2>4, <2>5 DEF Shrinks
<1>2. CASE FinishJob
  <2>. DEFINE cools == work.result \in {"error", "skipped"}
              c == IF Current(work)
                   THEN [cache EXCEPT
                             !.queued = @ \ {work.key},
                             !.failed = IF cools THEN @ \cup {work.key}
                                        ELSE @ \ {work.key}]
                   ELSE cache
  <2>1. work.key \in Keys /\ queue' = queue /\ Carries /\ ~Carries'
    BY <1>2, <1>k DEF FinishJob, HasJob, Carries
  <2>2. /\ c \in CacheType /\ Shrinks(cache, c)
        /\ Current(work) => work.key \notin c.queued
    BY <2>1 DEF StateOK, CacheType, Shrinks
  <2>3. cache' = Released(c, work.key)
    BY <1>2 DEF FinishJob
  <2>. HIDE DEF c
  <2>4. Shrinks(c, cache')
    BY <2>1, <2>2, <2>3, ReleasedShrinks
  <2>. QED
    BY <2>1, <2>2, <2>4 DEF Shrinks
<1>. QED
  BY <1>1, <1>2

LEMMA MarkersWorker ==
    ASSUME StateOK, MarkersHaveJobs, WorkerStep
    PROVE  MarkersHaveJobs'
<1>0. queue \in Seq(JobType) /\ cache \in CacheType
  BY DEF StateOK, QueueOK
<1>1. CASE Receive
  <2>1. /\ queue # <<>> /\ queue' = Tail(queue) /\ cache' = cache /\ work.pc = "idle"
        /\ work'.pc = "received" /\ work'.key = Head(queue).key /\ work'.gen = Head(queue).gen
    BY <1>1 DEF Receive
  <2>2. /\ DOMAIN queue = 1..Len(queue) /\ Len(queue) \in Nat /\ Len(queue) > 0
        /\ DOMAIN queue' = 1..(Len(queue) - 1)
        /\ \A i \in 1..(Len(queue) - 1) : queue'[i] = queue[i + 1]
        /\ Head(queue) = queue[1]
    <3>1. queue' \in Seq(JobType) /\ Len(queue') = Len(queue) - 1
      BY <1>0, <2>1, HeadTailProperties
    <3>. QED
      BY <1>0, <2>1, <3>1, HeadTailProperties, LenProperties, EmptySeq
  <2>. SUFFICES ASSUME NEW k \in cache'.queued
                PROVE  (\E i \in QueuedJobs(k)' : Current(queue[i])')
                           \/ (InHand(k) = 1 /\ Current(work))'
    BY DEF MarkersHaveJobs
  <2>3. ~HasJob
    BY <2>1 DEF HasJob
  <2>4. PICK i \in DOMAIN queue : queue[i].key = k /\ cache.gens[queue[i].key] = queue[i].gen
    BY <2>1, <2>3 DEF MarkersHaveJobs, InHand, QueuedJobs, Current
  <2>5. CASE i = 1
    BY <2>1, <2>2, <2>4, <2>5 DEF InHand, Current, HasJob
  <2>6. CASE i # 1
    <3>1. i - 1 \in DOMAIN queue' /\ queue'[i - 1] = queue[i]
      BY <2>2, <2>6
    <3>. QED
      BY <2>1, <2>4, <3>1 DEF QueuedJobs, Current
  <2>. QED
    BY <2>5, <2>6
<1>2. CASE BeginJob \/ StartGenerate \/ FetchFrame \/ FetchFails \/ LockCommit \/ Commit
  BY <1>2, RunGoesOn, MarkersKept DEF Shrinks
<1>3. CASE RefuseJob
  <2>1. work \in [pc : {"received", "discarding", "ended"}, key : Keys, gen : Nat]
    BY <1>3 DEF RefuseJob, StateOK, WorkOK, WorkType
  <2>2. work'.pc = "discarding" /\ work'.key = work.key /\ work'.gen = work.gen
    BY <1>3, <2>1 DEF RefuseJob
  <2>3. queue' = queue /\ Shrinks(cache, cache')
    BY <1>0, <1>3, CacheRetiredShrinks DEF RefuseJob
  <2>. QED
    BY <2>2, <2>3, MarkersKept DEF Carries, HasJob
<1>4. CASE DiscardJob \/ FinishJob
  BY <1>4, JobOver, MarkersKept
<1>5. CASE EndJob \/ WorkerExits
  <2>1. ~Carries /\ queue' = queue
    BY <1>5 DEF EndJob, WorkerExits, Carries, HasJob
  <2>2. Shrinks(cache, cache')
    <3>1. CASE EndJob
      BY <1>0, <3>1, CacheRetiredShrinks DEF EndJob
    <3>2. CASE WorkerExits
      BY <3>2 DEF WorkerExits, Shrinks
    <3>. QED
      BY <1>5, <3>1, <3>2
  <2>. QED
    BY <2>1, <2>2, MarkersKept
<1>. QED
  BY <1>1, <1>2, <1>3, <1>4, <1>5 DEF WorkerStep

LEMMA MarkersStep ==
    ASSUME StateOK, MarkersHaveJobs, [Next]_vars
    PROVE  MarkersHaveJobs'
<1>. USE DEF genVars, diskVars, callerVars, ghostVars
<1>0. cache \in CacheType
  BY DEF StateOK
<1>k. ASSUME UNCHANGED <<queue, cache>>, work' = work \/ work' = CutRun
      PROVE  MarkersHaveJobs'
  BY <1>k, MarkersStay DEF Shrinks
<1>1. CASE WorkerStep
  BY <1>1, MarkersWorker
<1>2. CASE (\E k \in Keys : ForgetFailure(k)) \/ UNCHANGED vars
  <2>1. UNCHANGED <<queue, work>> /\ Shrinks(cache, cache')
    BY <1>0, <1>2 DEF ForgetFailure, vars, Shrinks, CacheType
  <2>. QED
    BY <2>1, MarkersStay
<1>3. ASSUME NEW w \in Writers, WriterAct(w)
      PROVE  MarkersHaveJobs'
  <2>1. CASE EnqueueThumbnail(w)
    <3>1. writer[w].key \in Keys
      BY <2>1 DEF EnqueueThumbnail, WriterAt, StateOK, CallersOK, WriterType
    <3>. QED
      BY <2>1, <3>1, MarkersEnqueue DEF EnqueueThumbnail
  <2>2. CASE Invalidate(w)
    <3>1. writer[w].key \in Keys
      BY <2>2 DEF Invalidate, StateOK, CallersOK, WriterType
    <3>2. UNCHANGED <<queue, work>> /\ Shrinks(cache, cache')
      BY <1>0, <2>2, <3>1, WithdrawalShrinks DEF Invalidate
    <3>. QED
      BY <3>2, MarkersStay
  <2>3. CASE LookForThumbnail(w)
             \/ \E k \in Keys : CommitFile(w, k) \/ LoseIndex(w, k) \/ RemoveFile(w, k)
    BY <1>k, <2>3 DEF LookForThumbnail, CommitFile, LoseIndex, RemoveFile
  <2>. QED
    BY <1>3, <2>1, <2>2, <2>3 DEF WriterAct, WriterStep
<1>4. CASE RebuildAct
  <2>t. rebuild \in RebuildType
    BY DEF StateOK, CallersOK
  <2>1. CASE RemoveCache \/ LookForRebuild \/ VaultIdle \/ RebuildAborts
    BY <1>k, <2>1 DEF RemoveCache, LookForRebuild, VaultIdle, RebuildAborts
  <2>2. CASE ReopenForRebuild \/ LeaveRebuild
    BY <1>k, <2>2 DEF ReopenForRebuild, LeaveRebuild
  <2>3. CASE PurgeCaches
    BY <1>0, <2>3, PurgedShrinks, MarkersStay DEF PurgeCaches
  <2>4. ASSUME NEW k \in Keys, WalkFile(k)
        PROVE  MarkersHaveJobs'
    BY <1>0, <2>4, WithdrawalShrinks, MarkersStay DEF WalkFile
  <2>5. CASE AdmitForRebuild
    <3>1. rebuild.key \in Keys
      BY <2>5, <2>t DEF AdmitForRebuild, RebuildType
    <3>. QED
      BY <2>5, <3>1, MarkersEnqueue DEF AdmitForRebuild
  <2>6. CASE \E v \in Vaults : StartRebuild(v)
    BY <1>k, <2>6 DEF StartRebuild, QuiesceVault
  <2>. QED
    BY <1>4, <2>1, <2>2, <2>3, <2>4, <2>5, <2>6 DEF RebuildAct, RebuildStep
<1>5. ASSUME NEW d \in Deleters, DeleterAct(d)
      PROVE  MarkersHaveJobs'
  <2>1. CASE QuiesceThumbnails(d)
    BY <1>k, <2>1 DEF QuiesceThumbnails, QuiesceVault
  <2>2. CASE ForgetThumbnails(d)
    <3>1. Shrinks(cache, cache')
      BY <1>0, <2>2, CacheRetiredShrinks DEF ForgetThumbnails, ForgetVault
    <3>. QED
      BY <2>2, <3>1, MarkersStay DEF ForgetThumbnails
  <2>3. CASE Drained(d) \/ DrainTimeout(d) \/ LockLifeMu(d) \/ DeletionFails(d) \/ ResumeWorkers(d)
    BY <1>k, <2>3 DEF Drained, DrainTimeout, LockLifeMu, DeletionFails, ResumeWorkers
  <2>4. CASE RemoveStorage(d) \/ StayQuiesced(d) \/ DeleteRow(d) \/ \E v \in Vaults : FindVault(d, v)
    BY <1>k, <2>4 DEF RemoveStorage, StayQuiesced, DeleteRow, FindVault
  <2>. QED
    BY <1>5, <2>1, <2>2, <2>3, <2>4 DEF DeleterAct, DeleterStep
<1>6. CASE StopAct
  BY <1>6, <1>k, StopFrame DEF StopAct, StopStep, BeginStop, CloseJobs, StopReturns
<1>. QED
  BY Steps, <1>1, <1>2, <1>3, <1>4, <1>5, <1>6

-----------------------------------------------------------------------------
(* What the callers have done: a vault is only forgotten once its row is   *)
(* gone, and a rebuild that runs has been counted.                         *)

VaultExists(k) == VaultOf[k] \notin deleted

RetireOK ==
    /\ \A v \in Vaults : life[v].retiring => v \in deleted
    /\ \A d \in Deleters : deleter[d].pc = "rowGone" => deleter[d].vault \in deleted
    /\ rebuild.pc # "idle" => used.rebuilds > 0

\* What a deletion, a rebuild or a lost index entry has left behind stays.
LEMMA UsedGrows ==
    ASSUME StateOK, [Next]_vars
    PROVE  /\ used'.rebuilds = 0 => used.rebuilds = 0
           /\ used'.lost = 0 => used.lost = 0
           /\ deleted \subseteq deleted'
<1>. USE DEF genVars, diskVars, callerVars, ghostVars
<1>u. used.rebuilds \in Nat /\ used.lost \in Nat
  BY DEF StateOK, UsedOK
<1>k. ASSUME used' = used, deleted \subseteq deleted'
      PROVE  /\ used'.rebuilds = 0 => used.rebuilds = 0
             /\ used'.lost = 0 => used.lost = 0
             /\ deleted \subseteq deleted'
  BY <1>k
<1>1. CASE WorkerStep
  <2>1. CASE FetchFails
    BY <2>1 DEF FetchFails, StateOK, UsedOK
  <2>2. CASE Receive \/ BeginJob \/ RefuseJob \/ DiscardJob \/ StartGenerate \/ FetchFrame
    BY <1>k, <2>2 DEF Receive, BeginJob, RefuseJob, DiscardJob, StartGenerate, FetchFrame
  <2>3. CASE LockCommit \/ Commit \/ FinishJob \/ EndJob \/ WorkerExits
    BY <1>k, <2>3 DEF LockCommit, Commit, FinishJob, EndJob, WorkerExits
  <2>. QED
    BY <1>1, <2>1, <2>2, <2>3 DEF WorkerStep
<1>2. CASE (\E k \in Keys : ForgetFailure(k)) \/ UNCHANGED vars
  BY <1>k, <1>2 DEF ForgetFailure, vars
<1>3. ASSUME NEW w \in Writers, WriterAct(w)
      PROVE  /\ used'.rebuilds = 0 => used.rebuilds = 0
             /\ used'.lost = 0 => used.lost = 0
             /\ deleted \subseteq deleted'
  <2>1. CASE WriterStep(w)
    BY <1>k, <2>1 DEF WriterStep, Invalidate, LookForThumbnail, EnqueueThumbnail
  <2>2. ASSUME NEW k \in Keys, CommitFile(w, k) \/ LoseIndex(w, k) \/ RemoveFile(w, k)
        PROVE  used'.rebuilds = used.rebuilds /\ deleted' = deleted
               /\ (used'.lost = used.lost \/ used'.lost = used.lost + 1)
    <3>. DEFINE up == [used.versions EXCEPT ![k] = used.versions[k] + 1]
    <3>1. \/ used' = used
          \/ used' = [used EXCEPT !.versions = up]
          \/ used' = [used EXCEPT !.versions = up, !.empty = used.empty + 1]
          \/ used' = [used EXCEPT !.versions = up, !.lost = used.lost + 1]
      BY <2>2 DEF CommitFile, LoseIndex, RemoveFile, StateOK, UsedOK
    <3>. HIDE DEF up
    <3>2. deleted' = deleted
      BY <2>2 DEF CommitFile, LoseIndex, RemoveFile
    <3>. QED
      BY <3>1, <3>2 DEF StateOK, UsedOK
  <2>. QED
    BY <1>3, <1>u, <2>1, <2>2 DEF WriterAct
<1>4. CASE RebuildAct
  <2>1. CASE RebuildStep \/ RebuildAborts
    BY <1>k, <2>1 DEF RebuildStep, RemoveCache, PurgeCaches, ReopenForRebuild, WalkFile,
       LookForRebuild, AdmitForRebuild, VaultIdle, LeaveRebuild, RebuildAborts
  <2>2. CASE \E v \in Vaults : StartRebuild(v)
    BY <1>u, <2>2 DEF StartRebuild, StateOK, UsedOK
  <2>. QED
    BY <1>4, <2>1, <2>2 DEF RebuildAct
<1>5. ASSUME NEW d \in Deleters, DeleterAct(d)
      PROVE  /\ used'.rebuilds = 0 => used.rebuilds = 0
             /\ used'.lost = 0 => used.lost = 0
             /\ deleted \subseteq deleted'
  <2>1. CASE \E v \in Vaults : FindVault(d, v)
    BY <2>1 DEF FindVault, StateOK, UsedOK
  <2>2. CASE QuiesceThumbnails(d) \/ Drained(d) \/ DrainTimeout(d) \/ LockLifeMu(d)
    BY <1>k, <2>2 DEF QuiesceThumbnails, Drained, DrainTimeout, LockLifeMu
  <2>3. CASE DeletionFails(d) \/ ResumeWorkers(d) \/ RemoveStorage(d) \/ StayQuiesced(d)
    BY <1>k, <2>3 DEF DeletionFails, ResumeWorkers, RemoveStorage, StayQuiesced
  <2>4. CASE DeleteRow(d) \/ ForgetThumbnails(d)
    BY <1>k, <2>4 DEF DeleteRow, ForgetThumbnails
  <2>. QED
    BY <1>5, <2>1, <2>2, <2>3, <2>4 DEF DeleterAct, DeleterStep
<1>6. CASE StopAct
  BY <1>6, <1>k, StopFrame
<1>. QED
  BY Steps, <1>1, <1>2, <1>3, <1>4, <1>5, <1>6

\* Whoever has retired a vault has deleted it.
LEMMA RetiredKept ==
    ASSUME NEW l \in LifeType, NEW v \in Vaults, NEW a \in BOOLEAN, NEW u \in Vaults
    PROVE  LifeRetired(l, v, a)[u].retiring => l[u].retiring
<1>1. CASE Retires(l, v, a)
  <2>1. LifeRetired(l, v, a) = [l EXCEPT ![v] = NewLife] /\ ~NewLife.retiring
    BY <1>1 DEF LifeRetired, NewLife
  <2>. QED
    BY <2>1 DEF LifeType
<1>2. CASE ~Retires(l, v, a)
  BY <1>2 DEF LifeRetired
<1>. QED
  BY <1>1, <1>2

LEMMA SealedRetiring ==
    ASSUME NEW l \in LifeType, NEW v \in Vaults, NEW u \in Vaults
    PROVE  Seal(l, v)[u].retiring = l[u].retiring /\ Unseal(l, v)[u].retiring = l[u].retiring
BY DEF Seal, Unseal, LifeType, LifeRecord

LEMMA CountedOffRetiring ==
    ASSUME life \in LifeType, NEW v \in Vaults, NEW u \in Vaults
    PROVE  CountedOff(v)[u].retiring = life[u].retiring
BY DEF CountedOff, LifeType, LifeRecord

LEMMA RetireKept ==
    ASSUME RetireOK, UNCHANGED <<deleted, deleter, rebuild>>, used'.rebuilds = used.rebuilds,
           \A u \in Vaults : life'[u].retiring => life[u].retiring
    PROVE  RetireOK'
BY DEF RetireOK

LEMMA RetireWorker ==
    ASSUME StateOK, WorkerStep
    PROVE  \A u \in Vaults : life'[u].retiring => life[u].retiring
<1>. USE DEF callerVars, ghostVars
<1>0. life \in LifeType
  BY DEF StateOK
<1>k. HasJob => VaultOf[work.key] \in Vaults
  BY InHandTypes DEF StateOK
<1>1. CASE Receive \/ StartGenerate \/ FetchFrame \/ FetchFails
  BY <1>1 DEF Receive, StartGenerate, FetchFrame, FetchFails
<1>2. CASE LockCommit \/ Commit \/ FinishJob \/ WorkerExits
  BY <1>2 DEF LockCommit, Commit, FinishJob, WorkerExits
<1>3. CASE BeginJob \/ RefuseJob
  <2>. DEFINE v == VaultOf[work.key]
  <2>1. v \in Vaults
    BY <1>3, <1>k DEF BeginJob, RefuseJob, HasJob
  <2>2. CountedOff(v) \in LifeType
    BY <1>0, <2>1, CountedOffType
  <2>3. life' = CountedOff(v) \/ life' = LifeRetired(CountedOff(v), v, FALSE)
    BY <1>3 DEF BeginJob, RefuseJob
  <2>. QED
    <3>1. \A u \in Vaults : CountedOff(v)[u].retiring = life[u].retiring
      BY <1>0, <2>1, CountedOffRetiring
    <3>2. \A u \in Vaults :
              LifeRetired(CountedOff(v), v, FALSE)[u].retiring => CountedOff(v)[u].retiring
      BY <2>1, <2>2, RetiredKept
    <3>. QED
      BY <2>3, <3>1, <3>2
<1>4. CASE DiscardJob
  <2>1. VaultOf[work.key] \in Vaults
    BY <1>4, <1>k DEF DiscardJob, HasJob
  <2>2. life' = LifeRetired(life, VaultOf[work.key], FALSE)
    BY <1>4 DEF DiscardJob
  <2>. QED
    BY <1>0, <2>1, <2>2, RetiredKept
<1>5. CASE EndJob
  <2>. DEFINE v == VaultOf[work.key]
              l == IF (life[v].resume /\ ~life[v].retiring) /\ life[v].pending = 0
                   THEN Unseal(life, v) ELSE life
  <2>1. v \in Vaults
    BY <1>5, <1>k DEF EndJob, HasJob
  <2>2. l \in LifeType /\ \A u \in Vaults : l[u].retiring = life[u].retiring
    BY <1>0, <2>1, SealTypes, SealedRetiring
  <2>3. life' = LifeRetired(l, v, FALSE)
    BY <1>5 DEF EndJob
  <2>. HIDE DEF l
  <2>4. \A u \in Vaults : LifeRetired(l, v, FALSE)[u].retiring => l[u].retiring
    BY <2>1, <2>2, RetiredKept
  <2>. QED
    BY <2>2, <2>3, <2>4
<1>. QED
  BY <1>1, <1>2, <1>3, <1>4, <1>5 DEF WorkerStep

LEMMA RetireResume ==
    ASSUME StateOK, NEW v \in Vaults, ResumeVault(v)
    PROVE  \A u \in Vaults : life'[u].retiring = life[u].retiring
<1>0. life \in LifeType
  BY DEF StateOK
<1>1. CASE life' = life
  BY <1>1
<1>2. CASE life' = Unseal(life, v)
  BY <1>0, <1>2, SealedRetiring
<1>3. CASE life' = [life EXCEPT ![v].resume = TRUE]
  BY <1>0, <1>3 DEF LifeType, LifeRecord
<1>. QED
  BY <1>1, <1>2, <1>3 DEF ResumeVault

LEMMA RetireForget ==
    ASSUME StateOK, NEW v \in Vaults, ForgetVault(v)
    PROVE  \A u \in Vaults : life'[u].retiring => life[u].retiring \/ u = v
<1>. DEFINE l == [life EXCEPT ![v].retiring = TRUE, ![v].quiescing = TRUE]
<1>1. l \in LifeType /\ \A u \in Vaults : u # v => l[u].retiring = life[u].retiring
  BY DEF StateOK, LifeType, LifeRecord
<1>2. life' = LifeRetired(l, v, ActiveIn(v)) /\ ActiveIn(v) \in BOOLEAN
  BY DEF ForgetVault, ActiveIn
<1>. HIDE DEF l
<1>3. \A u \in Vaults : LifeRetired(l, v, ActiveIn(v))[u].retiring => l[u].retiring
  BY <1>1, <1>2, RetiredKept
<1>. QED
  BY <1>1, <1>2, <1>3

LEMMA RetireQuiesce ==
    ASSUME StateOK, NEW q, NEW v \in Vaults, QuiesceVault(q, v)
    PROVE  \A u \in Vaults : life'[u].retiring = life[u].retiring
<1>1. life' = life \/ life' = Seal(life, v)
  BY DEF QuiesceVault
<1>. QED
  BY <1>1, SealedRetiring DEF StateOK

LEMMA RetireEnqueue ==
    ASSUME StateOK, NEW k \in Keys, Enqueue(k) \/ Ignore(k)
    PROVE  \A u \in Vaults : life'[u].retiring = life[u].retiring
<1>1. CASE Enqueue(k)
  <2>1. VaultOf[k] \in Vaults /\ life \in LifeType
    BY KeysAssumption DEF StateOK
  <2>2. life' = [life EXCEPT ![VaultOf[k]].pending = @ + 1]
    BY <1>1 DEF Enqueue
  <2>. QED
    BY <2>1, <2>2 DEF LifeType, LifeRecord
<1>2. CASE Ignore(k)
  BY <1>2 DEF Ignore
<1>. QED
  BY <1>1, <1>2

\* What happens in the vault of a caller without a deletion of its row.
LEMMA RetireStep ==
    ASSUME StateOK, RetireOK, [Next]_vars
    PROVE  RetireOK'
<1>. USE DEF genVars, diskVars, callerVars, ghostVars
<1>1. CASE WorkerStep
  <2>1. used'.rebuilds = used.rebuilds
    <3>1. CASE FetchFails
      BY <3>1 DEF FetchFails, StateOK, UsedOK
    <3>2. CASE Receive \/ BeginJob \/ RefuseJob \/ DiscardJob \/ StartGenerate \/ FetchFrame
      BY <3>2 DEF Receive, BeginJob, RefuseJob, DiscardJob, StartGenerate, FetchFrame
    <3>3. CASE LockCommit \/ Commit \/ FinishJob \/ EndJob \/ WorkerExits
      BY <3>3 DEF LockCommit, Commit, FinishJob, EndJob, WorkerExits
    <3>. QED
      BY <1>1, <3>1, <3>2, <3>3 DEF WorkerStep
  <2>. QED
    BY <1>1, <2>1, WorkerFrame, RetireWorker, RetireKept
<1>2. CASE (\E k \in Keys : ForgetFailure(k)) \/ UNCHANGED vars
  BY <1>2, RetireKept DEF ForgetFailure, vars
<1>3. ASSUME NEW w \in Writers, WriterAct(w)
      PROVE  RetireOK'
  <2>f. UNCHANGED <<deleted, rebuild, deleter>>
    BY <1>3, WriterFrame
  <2>1. CASE EnqueueThumbnail(w)
    <3>1. writer[w].key \in Keys
      BY <2>1 DEF EnqueueThumbnail, WriterAt, StateOK, CallersOK, WriterType
    <3>. QED
      BY <2>f, <2>1, <3>1, RetireEnqueue, RetireKept DEF EnqueueThumbnail
  <2>2. CASE Invalidate(w) \/ LookForThumbnail(w)
    BY <2>f, <2>2, RetireKept DEF Invalidate, LookForThumbnail
  <2>3. ASSUME NEW k \in Keys, CommitFile(w, k) \/ LoseIndex(w, k) \/ RemoveFile(w, k)
        PROVE  RetireOK'
    <3>. DEFINE up == [used.versions EXCEPT ![k] = used.versions[k] + 1]
    <3>1. \/ used' = used
          \/ used' = [used EXCEPT !.versions = up]
          \/ used' = [used EXCEPT !.versions = up, !.empty = used.empty + 1]
          \/ used' = [used EXCEPT !.versions = up, !.lost = used.lost + 1]
      BY <2>3 DEF CommitFile, LoseIndex, RemoveFile, StateOK, UsedOK
    <3>. HIDE DEF up
    <3>2. used'.rebuilds = used.rebuilds /\ life' = life
      BY <2>3, <3>1 DEF StateOK, UsedOK, CommitFile, LoseIndex, RemoveFile
    <3>. QED
      BY <2>f, <3>2, RetireKept
  <2>. QED
    BY <1>3, <2>1, <2>2, <2>3 DEF WriterAct, WriterStep
<1>4. CASE RebuildAct
  <2>f. UNCHANGED <<deleted, deleter>>
    BY <1>4, RebuildFrame
  <2>t. rebuild \in RebuildType /\ (rebuild.pc # "idle" => rebuild.vault \in Vaults)
    BY DEF StateOK, CallersOK, RebuildType
  <2>r. ASSUME used' = used, rebuild.pc # "idle", NEW u \in Vaults,
               \A x \in Vaults : life'[x].retiring = life[x].retiring
        PROVE  RetireOK'
    BY <2>f, <2>r DEF RetireOK
  <2>1. CASE RemoveCache \/ PurgeCaches \/ LookForRebuild \/ VaultIdle \/ RebuildAborts
    BY <2>r, <2>t, <2>1 DEF RemoveCache, PurgeCaches, LookForRebuild, VaultIdle, RebuildAborts
  <2>2. CASE \E k \in Keys : WalkFile(k)
    BY <2>r, <2>t, <2>2 DEF WalkFile
  <2>3. CASE ReopenForRebuild \/ LeaveRebuild
    <3>1. /\ rebuild.vault \in Vaults /\ ResumeVault(rebuild.vault) /\ used' = used
          /\ rebuild.pc # "idle"
      BY <2>3, <2>t DEF ReopenForRebuild, LeaveRebuild
    <3>. QED
      BY <2>r, <3>1, RetireResume
  <2>4. CASE AdmitForRebuild
    <3>1. rebuild.key \in Keys
      BY <2>4, <2>t DEF AdmitForRebuild, RebuildType
    <3>. QED
      BY <2>r, <2>t, <2>4, <3>1, RetireEnqueue DEF AdmitForRebuild
  <2>5. ASSUME NEW v \in Vaults, StartRebuild(v)
        PROVE  RetireOK'
    <3>1. used'.rebuilds > 0
      BY <2>5 DEF StartRebuild, StateOK, UsedOK
    <3>2. \A u \in Vaults : life'[u].retiring = life[u].retiring
      BY <2>5, RetireQuiesce DEF StartRebuild
    <3>. QED
      BY <2>f, <3>1, <3>2 DEF RetireOK
  <2>. QED
    BY <1>4, <2>1, <2>2, <2>3, <2>4, <2>5 DEF RebuildAct, RebuildStep
<1>5. ASSUME NEW d \in Deleters, DeleterAct(d)
      PROVE  RetireOK'
  <2>f. rebuild' = rebuild
    BY <1>5, DeleterFrame
  <2>t. /\ deleter \in [Deleters -> DeleterType]
        /\ deleter[d].pc # "idle" => deleter[d].vault \in Vaults
    BY DEF StateOK, CallersOK, DeleterType
  <2>k. ASSUME NEW r, deleter' = [deleter EXCEPT ![d] = r],
               r.pc = "rowGone" => r.vault \in deleted',
               deleted \subseteq deleted', used'.rebuilds = used.rebuilds,
               \A u \in Vaults : life'[u].retiring => life[u].retiring \/ u \in deleted'
        PROVE  RetireOK'
    BY <2>f, <2>t, <2>k DEF RetireOK
  <2>g. ASSUME NEW pc, deleter[d].pc # "idle"
        PROVE  /\ [deleter[d] EXCEPT !.pc = pc].pc = pc
               /\ [deleter[d] EXCEPT !.pc = pc].vault = deleter[d].vault
    BY <2>t, <2>g DEF DeleterType
  <2>1. CASE QuiesceThumbnails(d)
    <3>1. /\ deleter' = [deleter EXCEPT ![d] = [deleter[d] EXCEPT !.pc = "draining"]]
          /\ deleter[d].pc # "idle" /\ UNCHANGED <<deleted, used>>
          /\ QuiesceVault(d, deleter[d].vault)
      BY <2>1, <2>t DEF QuiesceThumbnails, DeleterAt, DeleterGoes
    <3>2. \A u \in Vaults : life'[u].retiring = life[u].retiring
      BY <2>t, <3>1, RetireQuiesce
    <3>3. [deleter[d] EXCEPT !.pc = "draining"].pc = "draining"
      BY <2>g, <3>1
    <3>. QED
      BY <2>k, <3>1, <3>2, <3>3
  <2>2. CASE Drained(d) \/ DrainTimeout(d) \/ LockLifeMu(d) \/ DeletionFails(d) \/ RemoveStorage(d)
    <3>1. PICK pc \in {"quiesced", "failed", "locked", "emptied"} :
              deleter' = [deleter EXCEPT ![d] = [deleter[d] EXCEPT !.pc = pc]]
      BY <2>2, <2>t DEF Drained, DrainTimeout, LockLifeMu, DeletionFails, RemoveStorage, DeleterGoes
    <3>2. deleter[d].pc # "idle" /\ UNCHANGED <<life, deleted, used>>
      BY <2>2 DEF Drained, DrainTimeout, LockLifeMu, DeletionFails, RemoveStorage, DeleterAt
    <3>3. [deleter[d] EXCEPT !.pc = pc].pc = pc
      BY <2>g, <3>2
    <3>. QED
      BY <2>k, <3>1, <3>2, <3>3
  <2>3. CASE DeleteRow(d)
    <3>1. /\ deleter' = [deleter EXCEPT ![d] = [deleter[d] EXCEPT !.pc = "rowGone"]]
          /\ deleter[d].pc # "idle" /\ life' = life /\ used'.rebuilds = used.rebuilds
          /\ deleted' = deleted \cup {deleter[d].vault}
      BY <2>3, <2>t DEF DeleteRow, DeleterGoes
    <3>2. [deleter[d] EXCEPT !.pc = "rowGone"].vault = deleter[d].vault
      BY <2>g, <3>1
    <3>3. deleted \subseteq deleted' /\ deleter[d].vault \in deleted'
      BY <3>1
    <3>. QED
      BY <2>k, <3>1, <3>2, <3>3
  <2>4. CASE StayQuiesced(d) \/ ResumeWorkers(d)
    <3>1. deleter' = [deleter EXCEPT ![d] = [pc |-> "idle"]] /\ UNCHANGED <<deleted, used>>
      BY <2>4 DEF StayQuiesced, ResumeWorkers, DeleterDone
    <3>2. \A u \in Vaults : life'[u].retiring = life[u].retiring
      <4>1. CASE StayQuiesced(d)
        BY <4>1 DEF StayQuiesced
      <4>2. CASE ResumeWorkers(d)
        BY <4>2, <2>t, RetireResume DEF ResumeWorkers, DeleterAt
      <4>. QED
        BY <2>4, <4>1, <4>2
    <3>3. [pc |-> "idle"].pc # "rowGone"
      OBVIOUS
    <3>. QED
      BY <2>k, <3>1, <3>2, <3>3
  <2>5. CASE ForgetThumbnails(d)
    <3>1. /\ deleter' = [deleter EXCEPT ![d] = [pc |-> "idle"]] /\ UNCHANGED <<deleted, used>>
          /\ deleter[d].vault \in deleted /\ deleter[d].vault \in Vaults
      BY <2>5, <2>t DEF ForgetThumbnails, DeleterDone, DeleterAt, RetireOK
    <3>2. \A u \in Vaults : life'[u].retiring => life[u].retiring \/ u = deleter[d].vault
      BY <2>5, <3>1, RetireForget DEF ForgetThumbnails
    <3>3. [pc |-> "idle"].pc # "rowGone"
      OBVIOUS
    <3>. QED
      BY <2>k, <3>1, <3>2, <3>3
  <2>6. ASSUME NEW v \in Vaults, FindVault(d, v)
        PROVE  RetireOK'
    <3>1. /\ deleter' = [deleter EXCEPT ![d] = [pc |-> "found", vault |-> v]]
          /\ UNCHANGED <<life, deleted>> /\ used'.rebuilds = used.rebuilds
      BY <2>6 DEF FindVault, StateOK, UsedOK
    <3>2. [pc |-> "found", vault |-> v].pc # "rowGone"
      OBVIOUS
    <3>. QED
      BY <2>k, <3>1, <3>2
  <2>. QED
    BY <1>5, <2>1, <2>2, <2>3, <2>4, <2>5, <2>6 DEF DeleterAct, DeleterStep
<1>6. CASE StopAct
  BY <1>6, StopFrame, RetireKept
<1>. QED
  BY Steps, <1>1, <1>2, <1>3, <1>4, <1>5, <1>6

\* As long as no rebuild has been counted, none takes a step.
LEMMA NoRebuildActs ==
    ASSUME StateOK, RetireOK, RebuildAct
    PROVE  used'.rebuilds # 0
<1>. USE DEF genVars, diskVars, callerVars, ghostVars
<1>u. used.rebuilds \in Nat
  BY DEF StateOK, UsedOK
<1>1. CASE RebuildStep \/ RebuildAborts
  <2>1. rebuild.pc # "idle" /\ used' = used
    BY <1>1 DEF RebuildStep, RemoveCache, PurgeCaches, ReopenForRebuild, WalkFile, LookForRebuild,
       AdmitForRebuild, VaultIdle, LeaveRebuild, RebuildAborts
  <2>. QED
    BY <1>u, <2>1 DEF RetireOK
<1>2. CASE \E v \in Vaults : StartRebuild(v)
  BY <1>u, <1>2 DEF StartRebuild, StateOK, UsedOK
<1>. QED
  BY <1>1, <1>2 DEF RebuildAct

-----------------------------------------------------------------------------
(* The references to a generation.  A rebuild purges them under the jobs   *)
(* that are still queued, so the count is exact until one begins.          *)

RefsEq(k) == cache.refs[k] = Cardinality(Places(queue, JobsOf(k))) + InHand(k)
RefsOK == used.rebuilds = 0 => \A k \in Keys : VaultExists(k) => RefsEq(k)

LEMMA RefsCounted == StateOK /\ used.rebuilds = 0 => (RefsOK <=> RefsAreExact)
<1>. SUFFICES ASSUME StateOK, used.rebuilds = 0
              PROVE  RefsOK <=> RefsAreExact
  OBVIOUS
<1>1. \A k : QueuedJobs(k) = Places(queue, JobsOf(k))
  BY QueueCounts DEF StateOK, QueueOK
<1>. QED
  BY <1>1 DEF RefsOK, RefsEq, RefsAreExact, VaultExists

LEMMA CacheRetiredKeeps ==
    ASSUME NEW c \in CacheType, NEW l, NEW v, NEW a, NEW k \in Keys,
           l[v].retiring => VaultOf[k] # v
    PROVE  /\ CacheRetired(c, l, v, a).refs[k] = c.refs[k]
           /\ CacheRetired(c, l, v, a).gens[k] = c.gens[k]
BY DEF CacheRetired, Retires, Purged, WithoutVault

LEMMA CacheIdleKeeps ==
    ASSUME NEW c \in CacheType, NEW l, NEW v, NEW k \in Keys, l[v].retiring => VaultOf[k] # v
    PROVE  /\ CacheRetired(c, l, v, FALSE).refs[k] = c.refs[k]
           /\ CacheRetired(c, l, v, FALSE).gens[k] = c.gens[k]
BY DEF CacheRetired, Retires, Purged, WithoutVault

LEMMA MaybePurgeKeeps ==
    ASSUME NEW c \in CacheType, NEW j \in Keys, NEW k \in Keys
    PROVE  /\ MaybePurgeGeneration(c, j).refs[k] = c.refs[k]
           /\ \/ MaybePurgeGeneration(c, j).gens[k] = c.gens[k]
              \/ k = j /\ c.refs[k] = 0
BY DEF MaybePurgeGeneration, CacheType

LEMMA ReleasedKeeps ==
    ASSUME NEW c \in CacheType, NEW j \in Keys, NEW k \in Keys
    PROVE  /\ k # j => Released(c, j).refs[k] = c.refs[k]
           /\ k = j => Released(c, j).refs[k] = IF c.refs[k] > 1 THEN c.refs[k] - 1 ELSE 0
           /\ Released(c, j).gens[k] = c.gens[k] \/ Released(c, j).refs[k] = 0
<1>1. CASE c.refs[j] > 1
  BY <1>1 DEF Released, CacheType
<1>2. CASE ~(c.refs[j] > 1)
  <2>. DEFINE d == [c EXCEPT !.refs[j] = 0]
  <2>1. /\ d \in CacheType /\ d.gens = c.gens /\ d.refs[j] = 0
        /\ k # j => d.refs[k] = c.refs[k]
    BY DEF CacheType
  <2>2. Released(c, j) = MaybePurgeGeneration(d, j)
    BY <1>2 DEF Released
  <2>. HIDE DEF d
  <2>3. /\ Released(c, j).refs[k] = d.refs[k]
        /\ Released(c, j).gens[k] = d.gens[k] \/ (k = j /\ d.refs[k] = 0)
    BY <2>1, <2>2, MaybePurgeKeeps
  <2>. QED
    BY <1>2, <2>1, <2>3
<1>. QED
  BY <1>1, <1>2

LEMMA WithdrawalKeeps ==
    ASSUME cache \in CacheType, NEW j \in Keys, NEW k \in Keys, DeleteThumbnail(j)
    PROVE  /\ cache'.refs[k] = cache.refs[k]
           /\ k # j => cache'.gens[k] = cache.gens[k]
           /\ k = j => cache'.gens[k] = cache.gens[k] + 1 \/ cache.refs[k] = 0
<1>. DEFINE c == [cache EXCEPT !.gens = [cache.gens EXCEPT ![j] = cache.gens[j] + 1],
                               !.queued = cache.queued \ {j}, !.failed = cache.failed \ {j}]
<1>1. cache' = MaybePurgeGeneration(c, j)
  BY DEF DeleteThumbnail, CacheType
<1>2. cache.gens[j] + 1 \in Nat
  BY DEF CacheType
<1>3. [cache.gens EXCEPT ![j] = cache.gens[j] + 1] \in [Keys -> Nat]
  BY <1>2 DEF CacheType
<1>4. /\ c \in CacheType /\ c.refs = cache.refs /\ c.gens[j] = cache.gens[j] + 1
      /\ k # j => c.gens[k] = cache.gens[k]
  BY <1>3 DEF CacheType
<1>. HIDE DEF c
<1>5. cache'.refs[k] = c.refs[k] /\ (cache'.gens[k] = c.gens[k] \/ (k = j /\ c.refs[k] = 0))
  BY <1>1, <1>4, MaybePurgeKeeps
<1>. QED
  BY <1>4, <1>5

LEMMA InHandCarries == \A k : InHand(k) = IF Carries /\ work.key = k THEN 1 ELSE 0
BY DEF InHand, Carries

LEMMA RefsKept ==
    ASSUME NEW k, RefsEq(k), queue' = queue, cache'.refs[k] = cache.refs[k],
           InHand(k)' = InHand(k)
    PROVE  RefsEq(k)'
BY DEF RefsEq

LEMMA RefsEnqueue ==
    ASSUME StateOK, NEW k \in Keys, RefsEq(k), NEW j \in Keys, Enqueue(j) \/ Ignore(j),
           work' = work
    PROVE  RefsEq(k)'
<1>0. InHand(k)' = InHand(k) /\ InHand(k) \in Nat
  BY DEF InHand, HasJob
<1>1. CASE Enqueue(j)
  <2>. DEFINE job == [key |-> j, gen |-> cache.gens[j]]
  <2>1. job \in JobType /\ queue \in Seq(JobType) /\ queue' = Append(queue, job)
    BY <1>1 DEF Enqueue, JobType, StateOK, QueueOK, CacheType
  <2>2. job \in JobsOf(k) <=> j = k
    BY <2>1 DEF JobsOf
  <2>. HIDE DEF job
  <2>3. PICK n \in Nat : n = Cardinality(Places(queue, JobsOf(k)))
    BY <2>1, PlacesAreFinite
  <2>4. Cardinality(Places(queue', JobsOf(k))) = n + (IF j = k THEN 1 ELSE 0)
    BY <2>1, <2>2, <2>3, PlacesAfterSend
  <2>5. cache'.refs[k] = cache.refs[k] + (IF j = k THEN 1 ELSE 0) /\ cache.refs[k] \in Nat
    BY <1>1 DEF Enqueue, StateOK, CacheType
  <2>. QED
    BY <1>0, <2>3, <2>4, <2>5 DEF RefsEq
<1>2. CASE Ignore(j)
  <2>1. UNCHANGED <<queue, cache>>
    BY <1>2 DEF Ignore
  <2>. QED
    BY <1>0, <2>1, RefsKept
<1>. QED
  BY <1>1, <1>2

\* A job that is over gives its reference back.
LEMMA RefsJobOver ==
    ASSUME StateOK, RetireOK, NEW k \in Keys, VaultExists(k), DiscardJob \/ FinishJob
    PROVE  /\ work.key \in Keys /\ queue' = queue /\ Carries /\ ~Carries'
           /\ k # work.key => cache'.refs[k] = cache.refs[k]
           /\ k = work.key =>
                  cache'.refs[k] = IF cache.refs[k] > 1 THEN cache.refs[k] - 1 ELSE 0
           /\ cache'.gens[k] = cache.gens[k] \/ cache'.refs[k] = 0
<1>1. work.key \in Keys /\ queue' = queue /\ Carries /\ ~Carries'
  BY JobOver
<1>2. CASE DiscardJob
  <2>. DEFINE v == VaultOf[work.key]
              c == IF Current(work) THEN [cache EXCEPT !.queued = @ \ {work.key}] ELSE cache
              r == Released(c, work.key)
  <2>1. c \in CacheType /\ c.refs = cache.refs /\ c.gens = cache.gens
    BY DEF StateOK, CacheType
  <2>2. cache' = CacheRetired(r, life, v, FALSE)
    BY <1>2 DEF DiscardJob
  <2>. HIDE DEF c
  <2>3. /\ r \in CacheType
        /\ k # work.key => r.refs[k] = c.refs[k]
        /\ k = work.key => r.refs[k] = IF c.refs[k] > 1 THEN c.refs[k] - 1 ELSE 0
        /\ r.gens[k] = c.gens[k] \/ r.refs[k] = 0
    BY <1>1, <2>1, ReleasedType, ReleasedKeeps
  <2>4. life[v].retiring => VaultOf[k] # v
    <3>1. v \in Vaults
      BY <1>1, KeysAssumption
    <3>. QED
      BY <3>1 DEF RetireOK, VaultExists
  <2>. HIDE DEF r, v
  <2>5. cache'.refs[k] = r.refs[k] /\ cache'.gens[k] = r.gens[k]
    BY <2>2, <2>3, <2>4, CacheIdleKeeps
  <2>. QED
    BY <1>1, <2>1, <2>3, <2>5
<1>3. CASE FinishJob
  <2>. DEFINE cools == work.result \in {"error", "skipped"}
              c == IF Current(work)
                   THEN [cache EXCEPT
                             !.queued = @ \ {work.key},
                             !.failed = IF cools THEN @ \cup {work.key}
                                        ELSE @ \ {work.key}]
                   ELSE cache
  <2>1. c \in CacheType /\ c.refs = cache.refs /\ c.gens = cache.gens
    BY <1>1 DEF StateOK, CacheType
  <2>2. cache' = Released(c, work.key)
    BY <1>3 DEF FinishJob
  <2>. HIDE DEF c
  <2>3. /\ k # work.key => cache'.refs[k] = c.refs[k]
        /\ k = work.key => cache'.refs[k] = IF c.refs[k] > 1 THEN c.refs[k] - 1 ELSE 0
        /\ cache'.gens[k] = c.gens[k] \/ cache'.refs[k] = 0
    BY <1>1, <2>1, <2>2, ReleasedKeeps
  <2>. QED
    BY <1>1, <2>1, <2>3
<1>. QED
  BY <1>2, <1>3

\* The tombstone that is lifted belongs to a vault whose row is gone.
LEMMA RetiredElsewhere ==
    ASSUME StateOK, RetireOK, NEW k \in Keys, VaultExists(k), RefuseJob \/ EndJob
    PROVE  cache'.refs[k] = cache.refs[k] /\ cache'.gens[k] = cache.gens[k] /\ queue' = queue
<1>. DEFINE v == VaultOf[work.key]
<1>0. life \in LifeType /\ cache \in CacheType
  BY DEF StateOK
<1>k. v \in Vaults
  BY InHandTypes DEF StateOK, RefuseJob, EndJob, HasJob
<1>1. CASE RefuseJob
  <2>1. CountedOff(v)[v].retiring => VaultOf[k] # v
    BY <1>0, <1>k, CountedOffRetiring DEF RetireOK, VaultExists
  <2>2. cache' = CacheRetired(cache, CountedOff(v), v, FALSE) /\ queue' = queue
    BY <1>1 DEF RefuseJob
  <2>. HIDE DEF v
  <2>. QED
    <3>1. cache \in CacheType /\ k \in Keys
      BY <1>0
    <3>2. /\ CacheRetired(cache, CountedOff(v), v, FALSE).refs[k] = cache.refs[k]
          /\ CacheRetired(cache, CountedOff(v), v, FALSE).gens[k] = cache.gens[k]
      BY <2>1, <3>1, CacheIdleKeeps
    <3>. QED
      BY <2>2, <3>2
<1>2. CASE EndJob
  <2>. DEFINE l == IF (life[v].resume /\ ~life[v].retiring) /\ life[v].pending = 0
                   THEN Unseal(life, v) ELSE life
  <2>1. l[v].retiring = life[v].retiring
    BY <1>0, <1>k, SealedRetiring
  <2>2. cache' = CacheRetired(cache, l, v, FALSE) /\ queue' = queue
    BY <1>2 DEF EndJob
  <2>. HIDE DEF l
  <2>3. l[v].retiring => VaultOf[k] # v
    BY <1>k, <2>1 DEF RetireOK, VaultExists
  <2>. HIDE DEF v
  <2>. QED
    <3>1. cache \in CacheType /\ k \in Keys
      BY <1>0
    <3>2. /\ CacheRetired(cache, l, v, FALSE).refs[k] = cache.refs[k]
          /\ CacheRetired(cache, l, v, FALSE).gens[k] = cache.gens[k]
      BY <2>3, <3>1, CacheIdleKeeps
    <3>. QED
      BY <2>2, <3>2
<1>. QED
  BY <1>1, <1>2

LEMMA RefsWorker ==
    ASSUME StateOK, RetireOK, WorkerStep, NEW k \in Keys, RefsEq(k), VaultExists(k)
    PROVE  RefsEq(k)'
<1>0. queue \in Seq(JobType) /\ cache.refs[k] \in Nat
  BY DEF StateOK, QueueOK, CacheType
<1>h. InHand(k) = IF Carries /\ work.key = k THEN 1 ELSE 0
  BY DEF InHand, Carries
<1>i. InHand(k)' = IF Carries' /\ work'.key = k THEN 1 ELSE 0
  BY DEF InHand, Carries, HasJob
<1>1. CASE Receive
  <2>1. /\ queue # <<>> /\ queue' = Tail(queue) /\ cache' = cache /\ ~Carries
        /\ Carries' /\ work'.key = Head(queue).key
    BY <1>1 DEF Receive, Carries, HasJob
  <2>2. Head(queue) \in JobType
    BY <1>0, <2>1, HeadTailProperties
  <2>3. InHand(k) = 0 /\ InHand(k)' = IF Head(queue) \in JobsOf(k) THEN 1 ELSE 0
    BY <1>h, <1>i, <2>1, <2>2 DEF JobsOf
  <2>4. Cardinality(Places(queue, JobsOf(k))) = Cardinality(Places(queue', JobsOf(k))) + InHand(k)'
    BY <1>0, <2>1, <2>3, PlacesAfterReceive
  <2>5. Cardinality(Places(queue, JobsOf(k))) \in Nat
    BY <1>0, PlacesAreFinite
  <2>6. cache.refs[k] = Cardinality(Places(queue, JobsOf(k)))
    BY <2>3, <2>5 DEF RefsEq
  <2>. QED
    BY <2>1, <2>4, <2>6 DEF RefsEq
<1>2. CASE BeginJob \/ StartGenerate \/ FetchFrame \/ FetchFails \/ LockCommit \/ Commit
  BY <1>2, <1>h, <1>i, RunGoesOn, RefsKept
<1>3. CASE RefuseJob
  <2>1. work \in [pc : {"received", "discarding", "ended"}, key : Keys, gen : Nat]
    BY <1>3 DEF RefuseJob, StateOK, WorkOK, WorkType
  <2>2. Carries /\ Carries' /\ work'.key = work.key
    BY <1>3, <2>1 DEF RefuseJob, Carries, HasJob
  <2>. QED
    BY <1>3, <1>h, <1>i, <2>2, RetiredElsewhere, RefsKept
<1>4. CASE DiscardJob \/ FinishJob
  <2>1. /\ work.key \in Keys /\ queue' = queue /\ Carries /\ ~Carries'
        /\ k # work.key => cache'.refs[k] = cache.refs[k]
        /\ k = work.key =>
               cache'.refs[k] = IF cache.refs[k] > 1 THEN cache.refs[k] - 1 ELSE 0
    BY <1>4, RefsJobOver
  <2>2. PICK n \in Nat : n = Cardinality(Places(queue, JobsOf(k)))
    BY <1>0, PlacesAreFinite
  <2>3. cache.refs[k] = n + InHand(k) /\ InHand(k)' = 0
    BY <1>i, <2>1, <2>2 DEF RefsEq
  <2>4. InHand(k) = IF k = work.key THEN 1 ELSE 0
    BY <1>h, <2>1
  <2>5. cache'.refs[k] = n
    BY <2>1, <2>3, <2>4
  <2>. QED
    BY <2>1, <2>2, <2>3, <2>5 DEF RefsEq
<1>5. CASE EndJob \/ WorkerExits
  <2>1. ~Carries /\ ~Carries'
    <3>1. CASE EndJob
      BY <3>1 DEF EndJob, Carries, HasJob, NoWork
    <3>2. CASE WorkerExits
      BY <3>2 DEF WorkerExits, Carries, HasJob
    <3>. QED
      BY <1>5, <3>1, <3>2
  <2>2. cache'.refs[k] = cache.refs[k] /\ queue' = queue
    BY <1>5, RetiredElsewhere DEF WorkerExits
  <2>. QED
    BY <1>h, <1>i, <2>1, <2>2, RefsKept
<1>. QED
  BY <1>1, <1>2, <1>3, <1>4, <1>5 DEF WorkerStep

\* What cuts a run short leaves the worker with its job.
LEMMA CutKeepsHand ==
    ASSUME WorkOK, work' = work \/ work' = CutRun, NEW k
    PROVE  InHand(k)' = InHand(k)
<1>1. work'.pc = work.pc /\ (HasJob => work'.key = work.key)
  BY CutRunType
<1>. QED
  BY <1>1 DEF InHand, HasJob

\* ForgetVault only retires the vault of the deletion, whose row is gone.
LEMMA ForgottenElsewhere ==
    ASSUME StateOK, RetireOK, NEW k \in Keys, VaultExists(k), NEW d \in Deleters,
           ForgetThumbnails(d)
    PROVE  cache'.refs[k] = cache.refs[k] /\ cache'.gens[k] = cache.gens[k]
<1>. DEFINE v == deleter[d].vault
            l == [life EXCEPT ![v].retiring = TRUE, ![v].quiescing = TRUE]
<1>1. VaultOf[k] # v /\ cache \in CacheType
  BY DEF ForgetThumbnails, DeleterAt, RetireOK, VaultExists, StateOK
<1>2. cache' = CacheRetired(cache, l, v, ActiveIn(v))
  BY DEF ForgetThumbnails, ForgetVault
<1>3. ActiveIn(v) \in BOOLEAN
  BY DEF ActiveIn
<1>. HIDE DEF l, v
<1>. QED
  BY <1>1, <1>2, <1>3, CacheRetiredKeeps

LEMMA RefsStep ==
    ASSUME StateOK, RetireOK, RefsOK, [Next]_vars
    PROVE  RefsOK'
<1>. USE DEF genVars, diskVars, callerVars, ghostVars
<1>. SUFFICES ASSUME used'.rebuilds = 0, NEW k \in Keys, VaultExists(k)'
              PROVE  RefsEq(k)'
  BY DEF RefsOK
<1>0. used.rebuilds = 0 /\ VaultExists(k) /\ cache \in CacheType /\ WorkOK
  BY UsedGrows DEF VaultExists, StateOK
<1>e. RefsEq(k)
  BY <1>0 DEF RefsOK
<1>k. ASSUME queue' = queue, cache'.refs[k] = cache.refs[k], work' = work \/ work' = CutRun
      PROVE  RefsEq(k)'
  BY <1>0, <1>e, <1>k, CutKeepsHand, RefsKept
<1>1. CASE WorkerStep
  BY <1>0, <1>1, <1>e, RefsWorker
<1>2. CASE (\E l \in Keys : ForgetFailure(l)) \/ UNCHANGED vars
  <2>1. UNCHANGED <<queue, work>> /\ cache'.refs[k] = cache.refs[k]
    BY <1>0, <1>2 DEF ForgetFailure, vars, CacheType
  <2>. QED
    BY <1>k, <2>1
<1>3. ASSUME NEW w \in Writers, WriterAct(w)
      PROVE  RefsEq(k)'
  <2>1. CASE EnqueueThumbnail(w)
    <3>1. writer[w].key \in Keys
      BY <2>1 DEF EnqueueThumbnail, WriterAt, StateOK, CallersOK, WriterType
    <3>. QED
      BY <1>e, <2>1, <3>1, RefsEnqueue DEF EnqueueThumbnail
  <2>2. CASE Invalidate(w)
    <3>1. writer[w].key \in Keys
      BY <2>2 DEF Invalidate, StateOK, CallersOK, WriterType
    <3>2. UNCHANGED <<queue, work>> /\ cache'.refs[k] = cache.refs[k]
      BY <1>0, <2>2, <3>1, WithdrawalKeeps DEF Invalidate
    <3>. QED
      BY <1>k, <3>2
  <2>3. CASE LookForThumbnail(w)
             \/ \E l \in Keys : CommitFile(w, l) \/ LoseIndex(w, l) \/ RemoveFile(w, l)
    BY <1>k, <2>3 DEF LookForThumbnail, CommitFile, LoseIndex, RemoveFile
  <2>. QED
    BY <1>3, <2>1, <2>2, <2>3 DEF WriterAct, WriterStep
<1>4. CASE RebuildAct
  BY <1>4, NoRebuildActs
<1>5. ASSUME NEW d \in Deleters, DeleterAct(d)
      PROVE  RefsEq(k)'
  <2>1. CASE QuiesceThumbnails(d)
    BY <1>k, <2>1 DEF QuiesceThumbnails, QuiesceVault
  <2>2. CASE ForgetThumbnails(d)
    <3>1. cache'.refs[k] = cache.refs[k]
      BY <1>0, <2>2, ForgottenElsewhere
    <3>. QED
      BY <1>k, <2>2, <3>1 DEF ForgetThumbnails
  <2>3. CASE Drained(d) \/ DrainTimeout(d) \/ LockLifeMu(d) \/ DeletionFails(d) \/ ResumeWorkers(d)
    BY <1>k, <2>3 DEF Drained, DrainTimeout, LockLifeMu, DeletionFails, ResumeWorkers
  <2>4. CASE RemoveStorage(d) \/ StayQuiesced(d) \/ DeleteRow(d) \/ \E v \in Vaults : FindVault(d, v)
    BY <1>k, <2>4 DEF RemoveStorage, StayQuiesced, DeleteRow, FindVault
  <2>. QED
    BY <1>5, <2>1, <2>2, <2>3, <2>4 DEF DeleterAct, DeleterStep
<1>6. CASE StopAct
  BY <1>6, <1>k, StopFrame DEF StopAct, StopStep, BeginStop, CloseJobs, StopReturns
<1>. QED
  BY Steps, <1>1, <1>2, <1>3, <1>4, <1>5, <1>6

-----------------------------------------------------------------------------
(* The thumbnails.  While no rebuild has been counted and no index entry   *)
(* was lost, a frame that may still be committed shows the committed       *)
(* version, and a job that a withdrawal has overtaken never becomes        *)
(* current again.                                                          *)

Shown(k, version) == version = file[k] \/ k \in empty \/ Withdrawing(k)
Framed(k) == work.pc \in {"encoded", "committing"} /\ work.key = k

GensEq(k) ==
    /\ \A i \in DOMAIN queue : queue[i].key = k => queue[i].gen <= cache.gens[k]
    /\ Carries /\ work.key = k => work.gen <= cache.gens[k]
    /\ work.pc = "committing" /\ work.key = k => work.gen = cache.gens[k]
FrameEq(k) ==
    Framed(k) /\ work.gen = cache.gens[k] /\ VaultOf[k] \in dirs => Shown(k, work.saw)
ThumbEq(k) == thumb[k] # 0 => Shown(k, thumb[k])
FreshEq(k) == GensEq(k) /\ FrameEq(k) /\ ThumbEq(k)

Untroubled == used.rebuilds = 0 /\ used.lost = 0
FreshOK == Untroubled => \A k \in Keys : VaultExists(k) => FreshEq(k)

LEMMA FreshShown == Untroubled /\ FreshOK => FreshThumbnails
BY DEF FreshOK, FreshEq, ThumbEq, Shown, FreshThumbnails, VaultExists

\* What the files and their withdrawals do not lose.
LEMMA ShownKept ==
    ASSUME NEW k, file'[k] = file[k], k \in empty => k \in empty',
           Withdrawing(k) => Withdrawing(k)', NEW version, Shown(k, version)
    PROVE  Shown(k, version)'
BY DEF Shown

\* A key that keeps its generation while no new job or frame of it appears.
LEMMA FreshKept ==
    ASSUME NEW k, FreshEq(k), queue' = queue, cache'.gens[k] = cache.gens[k],
           Carries' /\ work'.key = k => Carries /\ work.key = k /\ work'.gen = work.gen,
           Framed(k)' => /\ work.pc = work'.pc /\ work'.saw = work.saw
                         /\ VaultOf[k] \in dirs' => VaultOf[k] \in dirs,
           thumb'[k] = thumb[k], file'[k] = file[k], k \in empty => k \in empty',
           Withdrawing(k) => Withdrawing(k)'
    PROVE  FreshEq(k)'
<1>c. Framed(k)' => Carries'
  BY DEF Framed, Carries, HasJob
<1>d. work'.pc = "committing" /\ work'.key = k => Framed(k)'
  BY DEF Framed
<1>e. Framed(k)' => work'.pc = work.pc /\ work'.gen = work.gen /\ work.key = k
  BY <1>c DEF Framed
<1>1. GensEq(k)'
  BY <1>c, <1>d, <1>e DEF FreshEq, GensEq
<1>2. FrameEq(k)'
  <2>. SUFFICES ASSUME Framed(k)', work'.gen = cache'.gens[k], VaultOf[k] \in dirs'
                PROVE  Shown(k, work.saw)'
    BY DEF FrameEq
  <2>1. Framed(k) /\ work.gen = cache.gens[k] /\ VaultOf[k] \in dirs /\ work'.saw = work.saw
    BY <1>e DEF Framed
  <2>2. Shown(k, work.saw)
    BY <2>1 DEF FreshEq, FrameEq
  <2>. QED
    BY <2>1, <2>2 DEF Shown
<1>3. ThumbEq(k)'
  BY DEF FreshEq, ThumbEq, Shown
<1>. QED
  BY <1>1, <1>2, <1>3 DEF FreshEq

\* The same for a caller, which at most cuts the run short.
LEMMA FreshStays ==
    ASSUME StateOK, NEW k, FreshEq(k), queue' = queue, cache'.gens[k] = cache.gens[k],
           work' = work \/ work' = CutRun, VaultOf[k] \in dirs' => VaultOf[k] \in dirs,
           thumb'[k] = thumb[k], file'[k] = file[k], k \in empty => k \in empty',
           Withdrawing(k) => Withdrawing(k)'
    PROVE  FreshEq(k)'
<1>1. /\ work'.pc = work.pc
      /\ HasJob => work'.key = work.key /\ work'.gen = work.gen
      /\ work.pc \in {"encoded", "committing"} => work'.saw = work.saw
  BY CutRunType DEF StateOK
<1>2. Carries' /\ work'.key = k => Carries /\ work.key = k /\ work'.gen = work.gen
  BY <1>1 DEF Carries, HasJob
<1>3. Framed(k)' => work.pc = work'.pc /\ work'.saw = work.saw
  BY <1>1 DEF Framed
<1>. QED
  BY <1>2, <1>3, FreshKept

\* No references, no jobs.
LEMMA NoPlaces ==
    ASSUME NEW s \in Seq(JobType), NEW J, Cardinality(Places(s, J)) = 0
    PROVE  \A i \in DOMAIN s : s[i] \notin J
<1>1. IsFiniteSet(Places(s, J))
  BY PlacesAreFinite
<1>2. Places(s, J) = {}
  BY <1>1, FS_EmptySet
<1>. QED
  BY <1>2 DEF Places

LEMMA NothingHeld ==
    ASSUME queue' \in Seq(JobType), NEW k, RefsEq(k)', cache'.refs[k] = 0
    PROVE  /\ \A i \in DOMAIN queue' : queue'[i].key # k
           /\ ~(Carries' /\ work'.key = k)
<1>1. PICK n \in Nat : n = Cardinality(Places(queue', JobsOf(k)))
  BY PlacesAreFinite
<1>2. InHand(k)' = IF Carries' /\ work'.key = k THEN 1 ELSE 0
  BY DEF InHand, Carries, HasJob
<1>3. 0 = n + InHand(k)'
  BY <1>1 DEF RefsEq
<1>4. n = 0 /\ ~(Carries' /\ work'.key = k)
  BY <1>2, <1>3
<1>5. \A i \in DOMAIN queue' : queue'[i] \notin JobsOf(k)
  BY <1>1, <1>4, NoPlaces
<1>6. \A i \in DOMAIN queue' : queue'[i] \in JobType
  BY LenProperties
<1>. QED
  BY <1>4, <1>5, <1>6 DEF JobsOf

\* A key without jobs has nothing outdated in flight.
LEMMA FreshUnheld ==
    ASSUME queue' \in Seq(JobType), NEW k, RefsEq(k)', cache'.refs[k] = 0, ThumbEq(k)'
    PROVE  FreshEq(k)'
<1>1. /\ \A i \in DOMAIN queue' : queue'[i].key # k
      /\ ~(Carries' /\ work'.key = k)
  BY NothingHeld
<1>2. ~Framed(k)' /\ ~(work'.pc = "committing" /\ work'.key = k)
  BY <1>1 DEF Framed, Carries, HasJob
<1>. QED
  BY <1>1, <1>2 DEF FreshEq, GensEq, FrameEq

LEMMA FreshWorker ==
    ASSUME StateOK, StateOK', RetireOK, WorkerStep, NEW k \in Keys, VaultExists(k), FreshEq(k),
           RefsEq(k)'
    PROVE  FreshEq(k)'
<1>. USE DEF diskVars, callerVars, ghostVars
<1>f. UNCHANGED <<file, empty, writer>> /\ (Withdrawing(k) => Withdrawing(k)')
  BY WorkerFrame DEF Withdrawing
<1>s. \A version : Shown(k, version) => Shown(k, version)'
  BY <1>f, ShownKept
<1>0. queue \in Seq(JobType) /\ queue' \in Seq(JobType) /\ cache.gens[k] \in Nat
  BY DEF StateOK, QueueOK, CacheType
<1>1. CASE Receive
  <2>1. /\ queue # <<>> /\ queue' = Tail(queue) /\ UNCHANGED <<cache, thumb>>
        /\ work'.pc = "received" /\ work'.key = Head(queue).key /\ work'.gen = Head(queue).gen
    BY <1>1 DEF Receive
  <2>2. /\ DOMAIN queue = 1..Len(queue) /\ Len(queue) \in Nat /\ Len(queue) > 0
        /\ DOMAIN queue' = 1..(Len(queue) - 1)
        /\ \A i \in 1..(Len(queue) - 1) : queue'[i] = queue[i + 1]
        /\ Head(queue) = queue[1]
    <3>1. queue' \in Seq(JobType) /\ Len(queue') = Len(queue) - 1
      BY <1>0, <2>1, HeadTailProperties
    <3>. QED
      BY <1>0, <2>1, <3>1, HeadTailProperties, LenProperties, EmptySeq
  <2>3. \A i \in DOMAIN queue' : i + 1 \in DOMAIN queue /\ queue'[i] = queue[i + 1]
    BY <2>2
  <2>4. 1 \in DOMAIN queue
    BY <2>2
  <2>5. GensEq(k)'
    BY <2>1, <2>2, <2>3, <2>4 DEF FreshEq, GensEq
  <2>6. FrameEq(k)' /\ ThumbEq(k)'
    BY <1>s, <2>1 DEF FreshEq, FrameEq, Framed, ThumbEq
  <2>. QED
    BY <2>5, <2>6 DEF FreshEq
<1>2. CASE BeginJob \/ StartGenerate \/ FetchFails
  <2>1. /\ Carries /\ Carries' /\ work'.key = work.key /\ work'.gen = work.gen
        /\ UNCHANGED <<queue, cache>>
    BY <1>2, RunGoesOn
  <2>2. ~Framed(k)'
    <3>1. CASE BeginJob \/ FetchFails
      BY <3>1 DEF BeginJob, FetchFails, Finish, Framed
    <3>2. CASE StartGenerate
      BY <3>2 DEF StartGenerate, Finish, Framed, StateOK, WorkOK, WorkType
    <3>. QED
      BY <1>2, <3>1, <3>2
  <2>3. thumb' = thumb
    BY <1>2 DEF BeginJob, StartGenerate, FetchFails
  <2>. QED
    BY <1>f, <2>1, <2>2, <2>3, FreshKept
<1>3. CASE FetchFrame
  <2>1. /\ Carries /\ Carries' /\ work'.key = work.key /\ work'.gen = work.gen
        /\ UNCHANGED <<queue, cache>>
    BY <1>3, RunGoesOn
  <2>2. work'.pc = "encoded" /\ work'.saw = file[work.key] /\ thumb' = thumb
    BY <1>3 DEF FetchFrame
  <2>3. GensEq(k)'
    BY <2>1, <2>2 DEF FreshEq, GensEq
  <2>4. FrameEq(k)'
    BY <1>f, <2>1, <2>2 DEF FrameEq, Framed, Shown
  <2>5. ThumbEq(k)'
    BY <1>s, <2>2 DEF FreshEq, ThumbEq
  <2>. QED
    BY <2>3, <2>4, <2>5 DEF FreshEq
<1>4. CASE LockCommit
  <2>1. /\ Carries /\ Carries' /\ work'.key = work.key /\ work'.gen = work.gen
        /\ UNCHANGED <<queue, cache>>
    BY <1>4, RunGoesOn
  <2>2. /\ work.pc = "encoded" /\ UNCHANGED <<thumb, dirs>>
        /\ \/ /\ work'.pc = "committing" /\ work'.saw = work.saw
              /\ work.gen = cache.gens[work.key]
           \/ work'.pc = "finished"
    BY <1>4 DEF LockCommit, Finish, Current, StateOK, WorkOK, WorkType
  <2>3. GensEq(k)'
    BY <2>1, <2>2 DEF FreshEq, GensEq
  <2>4. FrameEq(k)'
    <3>. SUFFICES ASSUME Framed(k)', work'.gen = cache'.gens[k], VaultOf[k] \in dirs'
                  PROVE  Shown(k, work.saw)'
      BY DEF FrameEq
    <3>1. /\ Framed(k) /\ work.gen = cache.gens[k] /\ VaultOf[k] \in dirs
          /\ work'.saw = work.saw
      BY <2>1, <2>2 DEF Framed
    <3>2. Shown(k, work.saw)
      BY <3>1 DEF FreshEq, FrameEq
    <3>. QED
      BY <1>f, <3>1, <3>2 DEF Shown
  <2>5. ThumbEq(k)'
    BY <1>s, <2>2 DEF FreshEq, ThumbEq
  <2>. QED
    BY <2>3, <2>4, <2>5 DEF FreshEq
<1>5. CASE Commit
  <2>1. /\ Carries /\ Carries' /\ work'.key = work.key /\ work'.gen = work.gen
        /\ UNCHANGED <<queue, cache>>
    BY <1>5, RunGoesOn
  <2>2. work.pc = "committing" /\ work'.pc = "finished"
    BY <1>5 DEF Commit, Finish
  <2>3. GensEq(k)' /\ FrameEq(k)'
    BY <2>1, <2>2 DEF FreshEq, GensEq, FrameEq, Framed
  <2>4. CASE work.key = k /\ VaultOf[work.key] \in dirs
    <3>1. thumb'[k] = work.saw
      BY <1>5, <2>4 DEF Commit, StateOK, FilesOK
    <3>2. Framed(k) /\ work.gen = cache.gens[k]
      BY <2>2, <2>4 DEF Framed, FreshEq, GensEq
    <3>3. Shown(k, work.saw)
      BY <2>4, <3>2 DEF FreshEq, FrameEq
    <3>. QED
      BY <1>s, <2>3, <3>1, <3>3 DEF FreshEq, ThumbEq
  <2>5. CASE ~(work.key = k /\ VaultOf[work.key] \in dirs)
    <3>1. thumb'[k] = thumb[k]
      BY <1>5, <2>5 DEF Commit, StateOK, FilesOK
    <3>. QED
      BY <1>s, <2>3, <3>1 DEF FreshEq, ThumbEq
  <2>. QED
    BY <2>4, <2>5
<1>6. CASE RefuseJob
  <2>1. work \in [pc : {"received", "discarding", "ended"}, key : Keys, gen : Nat]
    BY <1>6 DEF RefuseJob, StateOK, WorkOK, WorkType
  <2>2. /\ Carries /\ work'.pc = "discarding" /\ work'.key = work.key /\ work'.gen = work.gen
        /\ thumb' = thumb
    BY <1>6, <2>1 DEF RefuseJob, Carries, HasJob
  <2>3. cache'.gens[k] = cache.gens[k] /\ queue' = queue
    BY <1>6, RetiredElsewhere
  <2>. QED
    BY <1>f, <2>2, <2>3, FreshKept DEF Framed
<1>7. CASE DiscardJob \/ FinishJob
  <2>1. /\ queue' = queue /\ ~Carries'
        /\ cache'.gens[k] = cache.gens[k] \/ cache'.refs[k] = 0
    BY <1>7, RefsJobOver
  <2>2. thumb' = thumb /\ ~Framed(k)'
    BY <1>7, <2>1 DEF DiscardJob, FinishJob, Framed, Carries, HasJob
  <2>3. CASE cache'.gens[k] = cache.gens[k]
    BY <1>f, <2>1, <2>2, <2>3, FreshKept
  <2>4. CASE cache'.refs[k] = 0
    <3>1. ThumbEq(k)'
      BY <1>s, <2>2 DEF FreshEq, ThumbEq
    <3>. QED
      BY <1>0, <2>4, <3>1, FreshUnheld
  <2>. QED
    BY <2>1, <2>3, <2>4
<1>8. CASE EndJob \/ WorkerExits
  <2>1. work'.pc \in {"idle", "exited"} /\ thumb' = thumb
    <3>1. CASE EndJob
      BY <3>1 DEF EndJob, NoWork
    <3>2. CASE WorkerExits
      BY <3>2 DEF WorkerExits
    <3>. QED
      BY <1>8, <3>1, <3>2
  <2>2. cache'.gens[k] = cache.gens[k] /\ queue' = queue
    BY <1>8, RetiredElsewhere DEF WorkerExits
  <2>. QED
    BY <1>f, <2>1, <2>2, FreshKept DEF Framed, Carries, HasJob
<1>. QED
  BY <1>1, <1>2, <1>3, <1>4, <1>5, <1>6, <1>7, <1>8 DEF WorkerStep

LEMMA FreshEnqueue ==
    ASSUME StateOK, NEW k \in Keys, FreshEq(k), NEW j \in Keys, Enqueue(j) \/ Ignore(j),
           UNCHANGED <<work, thumb, file, empty, dirs>>, Withdrawing(k) => Withdrawing(k)'
    PROVE  FreshEq(k)'
<1>s. \A version : Shown(k, version) => Shown(k, version)'
  BY ShownKept
<1>1. CASE Enqueue(j)
  <2>. DEFINE job == [key |-> j, gen |-> cache.gens[j]]
  <2>1. job \in JobType /\ queue \in Seq(JobType) /\ queue' = Append(queue, job)
    BY <1>1 DEF Enqueue, JobType, StateOK, QueueOK, CacheType
  <2>2. cache'.gens = cache.gens /\ cache.gens[k] \in Nat
    BY <1>1 DEF Enqueue, StateOK, CacheType
  <2>3. job.key = j /\ job.gen = cache.gens[j]
    OBVIOUS
  <2>. HIDE DEF job
  <2>4. /\ Len(queue) \in Nat /\ DOMAIN queue = 1..Len(queue)
        /\ DOMAIN queue' = 1..(Len(queue) + 1)
        /\ \A i \in 1..Len(queue) : queue'[i] = queue[i]
        /\ queue'[Len(queue) + 1] = job
    <3>1. queue' \in Seq(JobType) /\ Len(queue') = Len(queue) + 1
      BY <2>1, AppendProperties
    <3>. QED
      BY <2>1, <3>1, AppendProperties, LenProperties
  <2>5. \A i \in DOMAIN queue' :
            (i \in DOMAIN queue /\ queue'[i] = queue[i]) \/ queue'[i] = job
    BY <2>4
  <2>6. \A i \in DOMAIN queue' : queue'[i].key = k => queue'[i].gen <= cache.gens[k]
    BY <2>2, <2>3, <2>5 DEF FreshEq, GensEq
  <2>7. GensEq(k)'
    BY <2>2, <2>6 DEF FreshEq, GensEq, Carries, HasJob
  <2>8. FrameEq(k)' /\ ThumbEq(k)'
    BY <1>s, <2>2 DEF FreshEq, FrameEq, Framed, ThumbEq
  <2>. QED
    BY <2>7, <2>8 DEF FreshEq
<1>2. CASE Ignore(j)
  <2>1. UNCHANGED <<queue, cache>>
    BY <1>2 DEF Ignore
  <2>. QED
    BY <2>1, FreshStays
<1>. QED
  BY <1>1, <1>2

\* A writer that leaves the files alone is still about to withdraw what it was
\* about to withdraw.
LEMMA StillWithdrawing ==
    ASSUME NEW w \in Writers, NEW k, \A x \in Writers \ {w} : writer'[x] = writer[x],
           ~(writer[w].pc \in {"committed", "removed"} /\ writer[w].key = k)
    PROVE  Withdrawing(k) => Withdrawing(k)'
BY DEF Withdrawing

LEMMA FreshWriter ==
    ASSUME StateOK, StateOK', LockOK, NEW w \in Writers, WriterAct(w), NEW k \in Keys,
           FreshEq(k), RefsEq(k)', used.lost = 0, used'.lost = 0
    PROVE  FreshEq(k)'
<1>. USE DEF genVars, diskVars, callerVars, ghostVars
<1>0. cache \in CacheType /\ queue' \in Seq(JobType) /\ writer \in [Writers -> WriterType]
  BY DEF StateOK, QueueOK, CallersOK
<1>f. UNCHANGED <<work, commitMu, dirs>>
  BY WriterFrame
<1>g. ASSUME NEW r, writer' = [writer EXCEPT ![w] = r]
      PROVE  writer'[w] = r /\ \A x \in Writers \ {w} : writer'[x] = writer[x]
  BY <1>0, <1>g
<1>1. CASE Invalidate(w)
  <2>. DEFINE j == writer[w].key
  <2>1. /\ j \in Keys /\ DeleteThumbnail(j) /\ UNCHANGED <<queue, file, empty>>
        /\ \A x \in Writers \ {w} : writer'[x] = writer[x]
    BY <1>0, <1>1 DEF Invalidate, WriterType, WriterGoes, WriterDone
  <2>2. /\ commitMu = "free" /\ thumb' = [thumb EXCEPT ![j] = 0]
        /\ cache'.refs[k] = cache.refs[k]
        /\ k # j => cache'.gens[k] = cache.gens[k]
        /\ k = j => cache'.gens[k] = cache.gens[k] + 1 \/ cache.refs[k] = 0
    BY <1>0, <2>1, WithdrawalKeeps DEF DeleteThumbnail
  <2>3. CASE k # j
    <3>1. thumb'[k] = thumb[k]
      BY <2>2, <2>3 DEF StateOK, FilesOK
    <3>2. Withdrawing(k) => Withdrawing(k)'
      BY <2>1, <2>3, StillWithdrawing
    <3>. QED
      BY <1>f, <2>1, <2>2, <2>3, <3>1, <3>2, FreshStays
  <2>4. CASE k = j
    <3>1. thumb'[k] = 0
      BY <2>2, <2>4 DEF StateOK, FilesOK
    <3>2. ThumbEq(k)'
      BY <3>1 DEF ThumbEq
    <3>3. CASE cache.refs[k] = 0
      BY <1>0, <2>2, <3>2, <3>3, FreshUnheld
    <3>4. CASE cache'.gens[k] = cache.gens[k] + 1
      <4>1. cache.gens[k] \in Nat /\ work.pc # "committing"
        BY <2>2 DEF StateOK, CacheType, LockOK
      <4>2. \A i \in DOMAIN queue : queue[i].key = k => queue[i].gen \in Nat
        <5>1. \A i \in DOMAIN queue : queue[i] \in JobType
          BY LenProperties DEF StateOK, QueueOK
        <5>. QED
          BY <5>1 DEF JobType
      <4>3. Carries => work.gen \in Nat
        BY InHandTypes DEF StateOK, Carries
      <4>4. GensEq(k)'
        <5>1. \A i \in DOMAIN queue : queue[i].key = k => queue[i].gen <= cache'.gens[k]
          BY <3>4, <4>1, <4>2 DEF FreshEq, GensEq
        <5>2. Carries /\ work.key = k => work.gen < cache'.gens[k]
          BY <3>4, <4>1, <4>3 DEF FreshEq, GensEq
        <5>3. Carries /\ work.key = k => work.gen <= cache'.gens[k]
          BY <3>4, <4>1, <4>3 DEF FreshEq, GensEq
        <5>. QED
          BY <1>f, <2>1, <4>1, <5>1, <5>3 DEF GensEq, Carries, HasJob
      <4>5. FrameEq(k)'
        <5>1. Framed(k) => work.gen # cache'.gens[k]
          BY <3>4, <4>1, <4>3 DEF FreshEq, GensEq, Framed, Carries, HasJob
        <5>. QED
          BY <1>f, <5>1 DEF FrameEq, Framed
      <4>. QED
        BY <3>2, <4>4, <4>5 DEF FreshEq
    <3>. QED
      BY <2>2, <2>4, <3>3, <3>4
  <2>. QED
    BY <2>3, <2>4
<1>2. CASE LookForThumbnail(w)
  <2>1. /\ ~(writer[w].pc \in {"committed", "removed"})
        /\ \A x \in Writers \ {w} : writer'[x] = writer[x]
    BY <1>0, <1>2 DEF LookForThumbnail, WriterAt, WriterGoes, WriterDone
  <2>2. Withdrawing(k) => Withdrawing(k)'
    BY <2>1, StillWithdrawing
  <2>. QED
    BY <1>f, <1>2, <2>2, FreshStays DEF LookForThumbnail
<1>3. CASE EnqueueThumbnail(w)
  <2>1. /\ ~(writer[w].pc \in {"committed", "removed"}) /\ writer[w].key \in Keys
        /\ \A x \in Writers \ {w} : writer'[x] = writer[x]
    BY <1>0, <1>3 DEF EnqueueThumbnail, WriterAt, WriterDone, WriterType
  <2>2. Withdrawing(k) => Withdrawing(k)'
    BY <2>1, StillWithdrawing
  <2>. QED
    BY <1>f, <1>3, <2>1, <2>2, FreshEnqueue DEF EnqueueThumbnail
<1>4. ASSUME NEW j \in Keys, CommitFile(w, j) \/ RemoveFile(w, j)
      PROVE  FreshEq(k)'
  <2>1. /\ UNCHANGED <<queue, cache, thumb>> /\ writer[w].pc = "idle"
        /\ k # j => file'[k] = file[k] /\ (k \in empty => k \in empty')
    BY <1>4 DEF CommitFile, RemoveFile, WriterAt, StateOK, FilesOK
  <2>2. \A x \in Writers \ {w} : writer'[x] = writer[x]
    BY <1>0, <1>4 DEF CommitFile, RemoveFile, WriterGoes
  <2>3. CASE k # j
    <3>1. Withdrawing(k) => Withdrawing(k)'
      BY <2>1, <2>2, StillWithdrawing
    <3>. QED
      BY <1>f, <2>1, <2>3, <3>1, FreshStays
  <2>4. CASE k = j
    <3>1. k \in empty' \/ Withdrawing(k)'
      <4>1. CASE \E pc \in {"committed", "removed"} : WriterGoes(w, pc, k)
        <5>1. PICK pc \in {"committed", "removed"} :
                  writer' = [writer EXCEPT ![w] = [pc |-> pc, key |-> k]]
          BY <4>1 DEF WriterGoes
        <5>2. writer'[w] = [pc |-> pc, key |-> k]
          BY <1>g, <5>1
        <5>. QED
          BY <5>2 DEF Withdrawing
      <4>2. CASE k \in empty'
        BY <4>2
      <4>. QED
        BY <1>4, <2>4, <4>1, <4>2 DEF CommitFile, RemoveFile
    <3>2. \A version : Shown(k, version)'
      BY <3>1 DEF Shown
    <3>3. GensEq(k)' /\ FrameEq(k)' /\ ThumbEq(k)'
      BY <1>f, <2>1, <3>2 DEF FreshEq, GensEq, FrameEq, ThumbEq, Carries, HasJob
    <3>. QED
      BY <3>3 DEF FreshEq
  <2>. QED
    BY <2>3, <2>4
<1>5. ASSUME NEW j \in Keys, LoseIndex(w, j)
      PROVE  FALSE
  <2>. DEFINE up == [used.versions EXCEPT ![j] = used.versions[j] + 1]
  <2>1. used' = [used EXCEPT !.versions = up, !.lost = used.lost + 1]
    BY <1>5 DEF LoseIndex, StateOK, UsedOK
  <2>. HIDE DEF up
  <2>. QED
    BY <2>1 DEF StateOK, UsedOK
<1>. QED
  BY <1>1, <1>2, <1>3, <1>4, <1>5 DEF WriterAct, WriterStep

LEMMA FreshDeleter ==
    ASSUME StateOK, RetireOK, NEW d \in Deleters, DeleterAct(d), NEW k \in Keys, VaultExists(k),
           FreshEq(k)
    PROVE  FreshEq(k)'
<1>. USE DEF genVars, diskVars, callerVars, ghostVars
<1>f. UNCHANGED <<queue, writer>> /\ (Withdrawing(k) => Withdrawing(k)')
  BY DeleterFrame DEF Withdrawing
<1>1. CASE QuiesceThumbnails(d)
  BY <1>1, <1>f, FreshStays DEF QuiesceThumbnails, QuiesceVault
<1>2. CASE ForgetThumbnails(d)
  <2>1. cache'.gens[k] = cache.gens[k]
    BY <1>2, ForgottenElsewhere
  <2>. QED
    BY <1>2, <1>f, <2>1, FreshStays DEF ForgetThumbnails
<1>3. CASE Drained(d) \/ DrainTimeout(d) \/ LockLifeMu(d) \/ DeletionFails(d)
  BY <1>3, <1>f, FreshStays DEF Drained, DrainTimeout, LockLifeMu, DeletionFails
<1>4. CASE ResumeWorkers(d) \/ StayQuiesced(d) \/ DeleteRow(d) \/ \E v \in Vaults : FindVault(d, v)
  BY <1>4, <1>f, FreshStays DEF ResumeWorkers, StayQuiesced, DeleteRow, FindVault
<1>5. CASE RemoveStorage(d)
  <2>. DEFINE v == deleter[d].vault
  <2>1. /\ UNCHANGED <<cache, work>> /\ dirs' = dirs \ {v} /\ empty' = empty \ KeysOf(v)
        /\ file' = WithoutVault(file, v) /\ thumb' = WithoutVault(thumb, v)
    BY <1>5 DEF RemoveStorage
  <2>. HIDE DEF v
  <2>2. CASE VaultOf[k] = v
    <3>1. thumb'[k] = 0 /\ VaultOf[k] \notin dirs'
      BY <2>1, <2>2 DEF WithoutVault
    <3>2. FrameEq(k)' /\ ThumbEq(k)'
      BY <3>1 DEF FrameEq, ThumbEq
    <3>3. GensEq(k)'
      BY <1>f, <2>1 DEF FreshEq, GensEq, Carries, HasJob
    <3>. QED
      BY <3>2, <3>3 DEF FreshEq
  <2>3. CASE VaultOf[k] # v
    <3>1. thumb'[k] = thumb[k] /\ file'[k] = file[k] /\ (k \in empty => k \in empty')
      BY <2>1, <2>3 DEF WithoutVault, KeysOf
    <3>. QED
      BY <1>f, <2>1, <3>1, FreshStays
  <2>. QED
    BY <2>2, <2>3
<1>. QED
  BY <1>1, <1>2, <1>3, <1>4, <1>5 DEF DeleterAct, DeleterStep

LEMMA FreshStep ==
    ASSUME StateOK, StateOK', LockOK, RetireOK, RefsOK', FreshOK, [Next]_vars
    PROVE  FreshOK'
<1>. USE DEF genVars, diskVars, callerVars, ghostVars
<1>. SUFFICES ASSUME Untroubled', NEW k \in Keys, VaultExists(k)'
              PROVE  FreshEq(k)'
  BY DEF FreshOK
<1>0. /\ used.rebuilds = 0 /\ used.lost = 0 /\ used'.rebuilds = 0 /\ used'.lost = 0
      /\ VaultExists(k)
  BY UsedGrows DEF VaultExists, Untroubled
<1>e. FreshEq(k) /\ RefsEq(k)'
  BY <1>0 DEF FreshOK, RefsOK, Untroubled
<1>1. CASE WorkerStep
  BY <1>0, <1>1, <1>e, FreshWorker
<1>2. CASE (\E l \in Keys : ForgetFailure(l)) \/ UNCHANGED vars
  <2>1. UNCHANGED <<queue, work, thumb, file, empty, dirs, writer>>
        /\ cache'.gens[k] = cache.gens[k]
    BY <1>2 DEF ForgetFailure, vars, StateOK, CacheType
  <2>. QED
    BY <1>e, <2>1, FreshStays DEF Withdrawing
<1>3. CASE \E w \in Writers : WriterAct(w)
  BY <1>0, <1>3, <1>e, FreshWriter
<1>4. CASE RebuildAct
  BY <1>0, <1>4, NoRebuildActs
<1>5. CASE \E d \in Deleters : DeleterAct(d)
  BY <1>0, <1>5, <1>e, FreshDeleter
<1>6. CASE StopAct
  <2>1. UNCHANGED <<queue, cache, thumb, file, empty, dirs, writer>>
        /\ (work' = work \/ work' = CutRun)
    BY <1>6, StopFrame DEF StopAct, StopStep, BeginStop, CloseJobs, StopReturns
  <2>. QED
    BY <1>e, <2>1, FreshStays DEF Withdrawing
<1>. QED
  BY Steps, <1>1, <1>2, <1>3, <1>4, <1>5, <1>6

-----------------------------------------------------------------------------
(* The inductive invariant.                                                *)

IInv ==
    /\ StateOK /\ LockOK /\ BarrierOK /\ PendingOK /\ MarkersHaveJobs
    /\ RetireOK /\ RefsOK /\ FreshOK

LEMMA NoJobsAtInit ==
    ASSUME Init
    PROVE  (\A J : Cardinality(Places(queue, J)) = 0) /\ ~HasJob
<1>1. queue = <<>> /\ DOMAIN queue = {}
  BY DEF Init
<1>2. \A J : Places(queue, J) = {}
  BY <1>1 DEF Places
<1>3. ~HasJob
  BY DEF Init, NoWork, HasJob
<1>. QED
  BY <1>2, <1>3, FS_EmptySet

LEMMA IInvInit == Init => IInv
<1>. SUFFICES ASSUME Init
              PROVE  IInv
  OBVIOUS
<1>1. StateOK
  BY InitTypes
<1>2. LockOK
  BY DEF Init, LockOK, Removing, NoWork, Rebuild
<1>3. BarrierOK
  BY DEF Init, BarrierOK, TombstonesStand, SettledIsQuiet
<1>4. PendingOK
  BY NoJobsAtInit DEF Init, PendingOK, Received, NewLife, NoWork
<1>5. MarkersHaveJobs
  BY DEF Init, MarkersHaveJobs
<1>6. RetireOK
  BY DEF Init, RetireOK, NewLife
<1>7. RefsOK
  BY NoJobsAtInit DEF Init, RefsOK, RefsEq, InHand
<1>8. FreshOK
  <2>1. \A k \in Keys : FrameEq(k) /\ ThumbEq(k)
    BY NoJobsAtInit DEF Init, FrameEq, Framed, NoWork, ThumbEq
  <2>2. \A k \in Keys : GensEq(k)
    BY NoJobsAtInit DEF Init, GensEq, Carries, NoWork, HasJob
  <2>. QED
    BY <2>1, <2>2 DEF FreshOK, FreshEq
<1>. QED
  BY <1>1, <1>2, <1>3, <1>4, <1>5, <1>6, <1>7, <1>8 DEF IInv

LEMMA IInvStep == IInv /\ [Next]_vars => IInv'
<1>. SUFFICES ASSUME IInv, [Next]_vars
              PROVE  IInv'
  OBVIOUS
<1>. USE DEF IInv
<1>1. StateOK'
  BY StateStep
<1>2. LockOK' /\ BarrierOK'
  BY LockStep, BarrierStep
<1>3. PendingOK' /\ MarkersHaveJobs'
  BY PendingStep, MarkersStep
<1>4. RetireOK' /\ RefsOK'
  BY RetireStep, RefsStep
<1>5. FreshOK'
  BY <1>1, <1>4, FreshStep
<1>. QED
  BY <1>1, <1>2, <1>3, <1>4, <1>5

-----------------------------------------------------------------------------
(* Theorems                                                                *)

\* The strengthened invariant holds in every behaviour of the generator.
THEOREM Invariance == Spec => []IInv
BY IInvInit, IInvStep, PTL DEF Spec

\* Every variable keeps its type: the jobs channel never outgrows its capacity,
\* and the commit lock is free or held by the worker or by the rebuild.
THEOREM TypeCorrect == Spec => []TypeOK
<1>1. IInv => TypeOK
  BY StateTypes DEF IInv
<1>. QED
  BY <1>1, Invariance, PTL

\* The pending count that WaitVaultIdle and the deferred resume read is the
\* number of unclaimed jobs, and a queue marker always has a current job that
\* will clear it, over every way a job, a rebuild or a deletion can end.
THEOREM JobsCounted == Spec => []JobsAreCounted
<1>1. IInv => JobsAreCounted
  BY PendingCounted DEF IInv, JobsAreCounted
<1>. QED
  BY <1>1, Invariance, PTL

\* Until a rebuild has begun, the references of every key of a vault that
\* exists are its queued and running jobs as well.  A rebuild purges the
\* references of its vault under jobs that are still queued.
THEOREM BookkeepingExact == Spec => [](used.rebuilds = 0 => BookkeepingIsExact)
<1>1. IInv => (used.rebuilds = 0 => BookkeepingIsExact)
  BY PendingCounted, RefsCounted DEF IInv, BookkeepingIsExact, JobsAreCounted
<1>. QED
  BY <1>1, Invariance, PTL

\* A thumbnail shows the committed version of its file or is about to be
\* withdrawn, for any number of writers, deletions and retries, until a
\* rebuild has begun or a commit has lost its index entry.
THEOREM ThumbnailsFresh ==
    Spec => [](used.rebuilds = 0 /\ used.lost = 0 => FreshThumbnails)
<1>1. IInv => (used.rebuilds = 0 /\ used.lost = 0 => FreshThumbnails)
  BY FreshShown DEF IInv, Untroubled
<1>. QED
  BY <1>1, Invariance, PTL

\* Once QuiesceVault has returned and while its tombstone stands, no job of
\* the vault runs: the deletion or the rebuild meets no FFmpeg process.
THEOREM QuiesceExcludes == Spec => []QuiesceIsBarrier
<1>1. IInv => QuiesceIsBarrier
  BY QuietBarrier DEF IInv
<1>. QED
  BY <1>1, Invariance, PTL

\* No thumbnail appears while a rebuild removes the cache of the vault and
\* purges the bookkeeping: the commit lock is held from one end to the other.
THEOREM RemovedCacheStaysEmpty == Spec => CacheStaysEmpty
<1>1. IInv /\ [Next]_vars =>
          [rebuild.pc \in {"emptied", "purged"} =>
              \A k \in KeysOf(rebuild.vault) : thumb'[k] = thumb[k]]_vars
  BY EmptyStep DEF IInv, Removing
<1>. QED
  BY <1>1, Invariance, PTL DEF Spec, CacheStaysEmpty

\* The generator refines VaultGate: a job enters only an open vault, and
\* unquiesce opens a vault only behind the last of its jobs.
THEOREM GateIsKept == Spec => ImplementsGate
<1>1. Init => Gate!GateInit
  BY DEF Init, Gate!GateInit, Active, HasJob, NoWork, NewLife
<1>2. IInv /\ [Next]_vars => [Gate!GateNext]_(Gate!gate)
  <2>. SUFFICES ASSUME IInv, [Next]_vars
                PROVE  [Gate!GateNext]_(Gate!gate)
    OBVIOUS
  <2>1. GateStep
    BY GateSteps DEF IInv
  <2>. QED
    BY <2>1 DEF GateStep, Gate!GateNext, Gate!gate, Inside, Sealed
<1>. QED
  BY <1>1, <1>2, Invariance, PTL DEF Spec, ImplementsGate, Gate!GateSpec

\* So a vault whose tombstone stands only loses its job, and the tombstone is
\* never lifted over the head of one.
THEOREM TombstonesHold == Spec => Gate!SealHolds
BY GateIsKept, Gate!SealsHold DEF ImplementsGate
=============================================================================
