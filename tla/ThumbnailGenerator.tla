------------------------- MODULE ThumbnailGenerator -------------------------
(***************************************************************************)
(* The thumbnail generator of internal/thumbnail/thumbnail.go: a bounded   *)
(* queue, one worker, and a lifecycle per vault that a deletion and an     *)
(* index rebuild drive.  Its callers are part of the model: the handlers   *)
(* that commit, replace and remove files and then publish or withdraw the  *)
(* thumbnail, the rebuild task, the deletion of a vault, and Stop.         *)
(*                                                                         *)
(* Two locks protect it.  Generator.mu guards the bookkeeping, and every   *)
(* critical section of it is one action; Generator.commitMu (commitMu)     *)
(* serialises the commit of a thumbnail with its invalidation and is held  *)
(* across several actions.                                                 *)
(***************************************************************************)
EXTENDS Naturals, Sequences, FiniteSets

CONSTANTS
    Keys,          \* thumbJobKey: a vault and a virtual path
    Vaults,
    VaultOf,       \* the vault of a key
    Requests,      \* HTTP handlers that upload or delete a file
    Imports,       \* import tasks
    Deleters,      \* requests that delete a vault
    QueueSize,     \* capacity of the job channel
    MaxVersion,    \* bound on the versions of a file
    MaxEmpty,      \* bound on the files committed empty
    MaxRebuilds,   \* bound on the index rebuilds
    MaxDeletions,  \* bound on the deletion requests
    MaxFailures,   \* bound on the thumbnails that cannot be generated
    MaxLost,       \* bound on the commits whose indexing fails
    MaxStops       \* bound on the calls of Stop: 0 or 1

ASSUME KeysAssumption == VaultOf \in [Keys -> Vaults]
ASSUME CallersAssumption == Requests \cap Imports = {} /\ "rebuild" \notin Deleters
ASSUME QueueAssumption == QueueSize \in Nat \ {0}
ASSUME ThumbnailBoundsAssumption ==
    /\ MaxVersion \in Nat /\ MaxEmpty \in Nat /\ MaxRebuilds \in Nat
    /\ MaxDeletions \in Nat /\ MaxFailures \in Nat /\ MaxLost \in Nat
    /\ MaxStops \in {0, 1}

VARIABLES
    queue,      \* the channel of jobs
    life,       \* lifecycle of each vault, with its deferred resume
    cache,      \* queued, failed, generations and generationRefs
    work,       \* the worker and the job it holds
    commitMu,   \* "free", or who holds the commit lock
    stop,       \* progress of Stop
    waiting,    \* QuiesceVault calls that wait for the active run
    file,       \* the committed version of each file, 0 if there is none
    empty,      \* keys whose committed version is empty
    thumb,      \* the version a committed thumbnail shows, 0 if there is none
    dirs,       \* vaults whose thumbnail directory may exist on disk
    deleted,    \* vaults whose row is gone
    noTasks,    \* vaults whose tasks a deletion has quiesced
    writer, rebuild, deleter,  \* progress of the callers
    standing,   \* QuiesceVault calls whose tombstone was never lifted
    used        \* how much of each bound is used up

vars == <<queue, life, cache, work, commitMu, stop, waiting, file, empty, thumb,
          dirs, deleted, noTasks, writer, rebuild, deleter, standing, used>>
genVars == <<queue, life, cache, work, commitMu, stop, waiting>>
diskVars == <<file, empty, thumb, dirs, deleted, noTasks>>
callerVars == <<writer, rebuild, deleter>>
ghostVars == <<standing, used>>

Writers == Requests \cup Imports
Rebuild == "rebuild"
Quiescers == Deleters \cup {Rebuild}
KeysOf(v) == {k \in Keys : VaultOf[k] = v}
WithoutVault(f, v) == [k \in Keys |-> IF VaultOf[k] = v THEN 0 ELSE f[k]]

NewLife == [quiescing |-> FALSE, retiring |-> FALSE, resume |-> FALSE,
            pending |-> 0]
NoWork == [pc |-> "idle"]
HasJob == work.pc \notin {"idle", "exited"}
Active == HasJob /\ work.pc \notin {"received", "discarding"}
ActiveIn(v) == Active /\ VaultOf[work.key] = v

Gone(v) == v \in deleted
Stopped == stop # "running"

-----------------------------------------------------------------------------
(* The helpers that run under Generator.mu, as functions of its state. *)

\* purgeVaultCachesLocked
Purged(c, v) ==
    [queued |-> c.queued \ KeysOf(v),
     failed |-> c.failed \ KeysOf(v),
     gens |-> WithoutVault(c.gens, v),
     refs |-> WithoutVault(c.refs, v)]

\* Mutant: a generation is dropped although jobs still hold it.
BugMaybePurgeGeneration(c, k) ==
    IF k \notin c.queued THEN [c EXCEPT !.gens[k] = 0] ELSE c

\* maybePurgeGenerationLocked
MaybePurgeGeneration(c, k) ==
    IF c.refs[k] = 0 /\ k \notin c.queued THEN [c EXCEPT !.gens[k] = 0] ELSE c

\* releaseGenerationLocked
Released(c, k) ==
    IF c.refs[k] > 1 THEN [c EXCEPT !.refs[k] = @ - 1]
    ELSE MaybePurgeGeneration([c EXCEPT !.refs[k] = 0], k)

\* maybeRetireLocked
Retires(l, v, active) == l[v].retiring /\ l[v].pending = 0 /\ ~active
LifeRetired(l, v, active) ==
    IF Retires(l, v, active) THEN [l EXCEPT ![v] = NewLife] ELSE l
CacheRetired(c, l, v, active) ==
    IF Retires(l, v, active) THEN Purged(c, v) ELSE c

Seal(l, v) == [l EXCEPT ![v].quiescing = TRUE]
Unseal(l, v) == [l EXCEPT ![v].quiescing = FALSE, ![v].resume = FALSE]

\* A tombstone that is lifted no longer stands for whoever set it.
Lifted(v) ==
    standing' = IF life[v].quiescing /\ ~life'[v].quiescing
                THEN {q \in standing : q[2] # v} ELSE standing

Current(job) == cache.gens[job.key] = job.gen

-----------------------------------------------------------------------------
(* Admission: tryEnqueue, as its callers take it. *)

Admits(k) ==
    /\ ~Stopped
    /\ ~life[VaultOf[k]].quiescing /\ ~life[VaultOf[k]].retiring

Covered(k) == k \in cache.queued \/ k \in cache.failed

\* Mutant: one job too many.
BugQueueFull == Len(queue) > QueueSize

QueueFull == Len(queue) = QueueSize

\* Mutant: the job does not retain its generation.
BugEnqueue(k) ==
    /\ Admits(k) /\ ~Covered(k) /\ ~QueueFull
    /\ queue' = Append(queue, [key |-> k, gen |-> cache.gens[k]])
    /\ life' = [life EXCEPT ![VaultOf[k]].pending = @ + 1]
    /\ cache' = [cache EXCEPT !.queued = @ \cup {k}]

\* A job is marked, counted, given the generation of its key and sent.
Enqueue(k) ==
    /\ Admits(k) /\ ~Covered(k) /\ ~QueueFull
    /\ queue' = Append(queue, [key |-> k, gen |-> cache.gens[k]])
    /\ life' = [life EXCEPT ![VaultOf[k]].pending = @ + 1]
    /\ cache' = [cache EXCEPT !.queued = @ \cup {k}, !.refs[k] = @ + 1]

\* Nothing is admitted: refused, already queued, cooling down, or dropped.
Ignore(k) ==
    /\ ~Admits(k) \/ Covered(k) \/ QueueFull
    /\ UNCHANGED <<queue, life, cache>>

\* DeleteThumbnail: the generation moves on and the cached file goes, under
\* both locks.
DeleteThumbnail(k) ==
    /\ commitMu = "free"
    /\ LET c == [cache EXCEPT !.gens[k] = @ + 1,
                              !.queued = @ \ {k}, !.failed = @ \ {k}]
       IN cache' = MaybePurgeGeneration(c, k)
    /\ thumb' = [thumb EXCEPT ![k] = 0]

\* A failure cooldown runs out, or its entry is evicted (pruneFailedLocked).
ForgetFailure(k) ==
    /\ k \in cache.failed
    /\ cache' = [cache EXCEPT !.failed = @ \ {k}]
    /\ UNCHANGED <<queue, life, work, commitMu, stop, waiting, diskVars,
                   callerVars, ghostVars>>

-----------------------------------------------------------------------------
(* The worker *)

\* Mutant: the worker leaves the queue as it is once Stop has begun.
BugReceive ==
    /\ work.pc = "idle" /\ queue # <<>> /\ ~Stopped
    /\ LET job == Head(queue)
       IN work' = [pc |-> "received", key |-> job.key, gen |-> job.gen]
    /\ queue' = Tail(queue)
    /\ UNCHANGED <<life, cache, commitMu, stop, waiting, diskVars, callerVars,
                   ghostVars>>

Receive ==
    /\ work.pc = "idle" /\ queue # <<>>
    /\ LET job == Head(queue)
       IN work' = [pc |-> "received", key |-> job.key, gen |-> job.gen]
    /\ queue' = Tail(queue)
    /\ UNCHANGED <<life, cache, commitMu, stop, waiting, diskVars, callerVars,
                   ghostVars>>

CountedOff(v) == [life EXCEPT ![v].pending = IF @ > 0 THEN @ - 1 ELSE 0]

\* beginJob, the last gate before a vault file is opened
BeginJob ==
    /\ work.pc = "received" /\ Admits(work.key)
    /\ life' = CountedOff(VaultOf[work.key])
    /\ work' = [pc |-> "claimed", key |-> work.key, gen |-> work.gen,
                cut |-> FALSE]
    /\ UNCHANGED <<queue, cache, commitMu, stop, waiting, diskVars, callerVars,
                   ghostVars>>

RefuseJob ==
    /\ work.pc = "received" /\ ~Admits(work.key)
    /\ LET v == VaultOf[work.key]
           l == CountedOff(v)
       IN /\ life' = LifeRetired(l, v, FALSE)
          /\ cache' = CacheRetired(cache, l, v, FALSE)
          /\ Lifted(v)
    /\ work' = [work EXCEPT !.pc = "discarding"]
    /\ UNCHANGED <<queue, commitMu, stop, waiting, diskVars, callerVars, used>>

DiscardJob ==
    /\ work.pc = "discarding"
    /\ LET v == VaultOf[work.key]
           c == IF Current(work) THEN [cache EXCEPT !.queued = @ \ {work.key}]
                ELSE cache
       IN /\ cache' = CacheRetired(Released(c, work.key), life, v, FALSE)
          /\ life' = LifeRetired(life, v, FALSE)
          /\ Lifted(v)
    /\ work' = NoWork
    /\ UNCHANGED <<queue, commitMu, stop, waiting, diskVars, callerVars, used>>

Finish(result) ==
    work' = [pc |-> "finished", key |-> work.key, gen |-> work.gen,
             result |-> result]

\* The worker looks for a cached thumbnail, then generate() checks its
\* context, the generation and the size, and creates the directory.
StartGenerate ==
    /\ work.pc = "claimed"
    /\ \/ /\ thumb[work.key] # 0
          /\ Finish("ok")
          /\ UNCHANGED dirs
       \/ /\ thumb[work.key] = 0 /\ work.cut
          /\ Finish("error")
          /\ UNCHANGED dirs
       \/ /\ thumb[work.key] = 0 /\ ~work.cut /\ ~Current(work)
          /\ Finish("stale")
          /\ UNCHANGED dirs
       \/ /\ thumb[work.key] = 0 /\ ~work.cut /\ Current(work)
          /\ work.key \in empty
          /\ Finish("skipped")
          /\ UNCHANGED dirs
       \/ /\ thumb[work.key] = 0 /\ ~work.cut /\ Current(work)
          /\ work.key \notin empty
          /\ work' = [work EXCEPT !.pc = "fetching"]
          /\ dirs' = dirs \cup {VaultOf[work.key]}
    /\ UNCHANGED <<queue, life, cache, commitMu, stop, waiting, file, empty,
                   thumb, deleted, noTasks, callerVars, ghostVars>>

\* FFmpeg extracts a frame of the version that is committed now.
FetchFrame ==
    /\ work.pc = "fetching"
    /\ file[work.key] # 0
    /\ work' = [pc |-> "encoded", key |-> work.key, gen |-> work.gen,
                saw |-> file[work.key]]
    /\ UNCHANGED <<queue, life, cache, commitMu, stop, waiting, diskVars,
                   callerVars, ghostVars>>

\* Every attempt failed, or the context was cancelled under it.
FetchFails ==
    /\ work.pc = "fetching"
    /\ \/ file[work.key] = 0 \/ work.cut
       \/ used.failures < MaxFailures
    /\ used' = IF file[work.key] = 0 \/ work.cut THEN used
               ELSE [used EXCEPT !.failures = @ + 1]
    /\ Finish("error")
    /\ UNCHANGED <<queue, life, cache, commitMu, stop, waiting, diskVars,
                   callerVars, standing>>

\* Mutant: the commit does not wait for the lock.
Bug2LockCommit ==
    /\ work.pc = "encoded"
    /\ work' = [work EXCEPT !.pc = "committing"]
    /\ UNCHANGED <<queue, life, cache, commitMu, stop, waiting, diskVars,
                   callerVars, ghostVars>>

\* encryptThumbnail: under commitMu the generation is checked ...
LockCommit ==
    /\ work.pc = "encoded" /\ commitMu = "free"
    /\ IF Current(work)
       THEN /\ work' = [work EXCEPT !.pc = "committing"]
            /\ commitMu' = "worker"
       ELSE Finish("stale") /\ UNCHANGED commitMu
    /\ UNCHANGED <<queue, life, cache, stop, waiting, diskVars, callerVars,
                   ghostVars>>

\* ... and the encrypted frame is renamed into place, if its directory is.
Commit ==
    /\ work.pc = "committing"
    /\ IF VaultOf[work.key] \in dirs
       THEN thumb' = [thumb EXCEPT ![work.key] = work.saw] /\ Finish("ok")
       ELSE UNCHANGED thumb /\ Finish("error")
    /\ commitMu' = "free"
    /\ UNCHANGED <<queue, life, cache, stop, waiting, file, empty, dirs,
                   deleted, noTasks, callerVars, ghostVars>>

\* Mutant: a job that failed keeps its marker.
BugFinishJob ==
    /\ work.pc = "finished"
    /\ cache' = Released(IF work.result = "ok"
                         THEN [cache EXCEPT !.queued = @ \ {work.key}]
                         ELSE cache, work.key)
    /\ work' = [pc |-> "ended", key |-> work.key, gen |-> work.gen]
    /\ UNCHANGED <<queue, life, commitMu, stop, waiting, diskVars, callerVars,
                   ghostVars>>

\* Only the job of the current generation may touch the marker or the
\* cooldown of its key; a skipped job cools down like a failed one.
FinishJob ==
    /\ work.pc = "finished"
    /\ LET k == work.key
           cools == work.result \in {"error", "skipped"}
           c == IF Current(work)
                THEN [cache EXCEPT
                          !.queued = @ \ {k},
                          !.failed = IF cools THEN @ \cup {k} ELSE @ \ {k}]
                ELSE cache
       IN cache' = Released(c, k)
    /\ work' = [pc |-> "ended", key |-> work.key, gen |-> work.gen]
    /\ UNCHANGED <<queue, life, commitMu, stop, waiting, diskVars, callerVars,
                   ghostVars>>

\* Mutant: the run ends without closing its done channel.
BugEndJob ==
    /\ work.pc = "ended"
    /\ work' = NoWork
    /\ UNCHANGED <<queue, life, cache, commitMu, stop, waiting, diskVars,
                   callerVars, ghostVars>>

\* endJob: the run is over for whoever waits for it, a deferred resume is
\* honoured when nothing of the vault is left, and a retiring vault goes.
EndJob ==
    /\ work.pc = "ended"
    /\ LET v == VaultOf[work.key]
           deferred == life[v].resume /\ ~life[v].retiring
           honoured == deferred /\ life[v].pending = 0
           l == IF honoured THEN Unseal(life, v) ELSE life
       IN /\ life' = LifeRetired(l, v, FALSE)
          /\ cache' = CacheRetired(cache, l, v, FALSE)
          /\ Lifted(v)
    /\ waiting' = {}
    /\ work' = NoWork
    /\ UNCHANGED <<queue, commitMu, stop, diskVars, callerVars, used>>

-----------------------------------------------------------------------------
(* QuiesceVault, ResumeVault and ForgetVault, as their callers take them. *)

\* A run that is not yet cancelled is, at most once.
CutRun == IF "cut" \in DOMAIN work THEN [work EXCEPT !.cut = TRUE] ELSE work

\* Mutant: the active run is cancelled but not waited for.
BugQuiesceVault(q, v) ==
    /\ life' = Seal(life, v)
    /\ work' = IF ActiveIn(v) THEN CutRun ELSE work
    /\ standing' = standing \cup {<<q, v>>}
    /\ UNCHANGED waiting

\* The tombstone is published and the active run cancelled; a stopped
\* generator is quiet already.
QuiesceVault(q, v) ==
    IF Stopped
    THEN standing' = standing \ {<<q, v>>} /\ UNCHANGED <<life, work, waiting>>
    ELSE /\ life' = Seal(life, v)
         /\ waiting' = IF ActiveIn(v) THEN waiting \cup {q} ELSE waiting
         /\ work' = IF ActiveIn(v) THEN CutRun ELSE work
         /\ standing' = standing \cup {<<q, v>>}

\* Mutant: the vault is opened while a run winds down.
BugResumeVault(v) == life' = Unseal(life, v) /\ Lifted(v)

\* A retiring vault stays closed.  While jobs are left the resume is deferred
\* to the worker.
ResumeVault(v) ==
    /\ life' = IF life[v].retiring THEN life
               ELSE IF ~ActiveIn(v) /\ life[v].pending = 0 THEN Unseal(life, v)
               ELSE [life EXCEPT ![v].resume = TRUE]
    /\ Lifted(v)

ForgetVault(v) ==
    LET l == [life EXCEPT ![v].retiring = TRUE, ![v].quiescing = TRUE]
    IN /\ life' = LifeRetired(l, v, ActiveIn(v))
       /\ cache' = CacheRetired(cache, l, v, ActiveIn(v))
       /\ Lifted(v)

-----------------------------------------------------------------------------
(* Writers of files.  A request holds the server's lifecycle lock           *)
(* (hlsLifeMu) from before it touches the file until it has queued the      *)
(* thumbnail; an import holds it only while it renames its file into place. *)

WriterAt(w, pc) == writer[w].pc = pc
WriterGoes(w, pc, k) == writer' = [writer EXCEPT ![w] = [pc |-> pc, key |-> k]]
WriterDone(w) == writer' = [writer EXCEPT ![w] = [pc |-> "idle"]]

HoldsLifeMu(d) == deleter[d].pc \in {"locked", "emptied", "rowGone"}
LifeMuFree ==
    /\ \A w \in Requests : WriterAt(w, "idle")
    /\ \A d \in Deleters : ~HoldsLifeMu(d)

\* A request finds its session active; an import task is admitted.
TasksAdmitted(v) == ~Gone(v) /\ v \notin noTasks /\ ~Stopped
MayWrite(w, v) == IF w \in Requests THEN ~Gone(v) ELSE TasksAdmitted(v)

\* A new version of a file is in place and indexed.  The thumbnail of an
\* empty file is left alone (size > 0).
CommitFile(w, k) ==
    /\ WriterAt(w, "idle") /\ LifeMuFree /\ MayWrite(w, VaultOf[k])
    /\ used.versions[k] < MaxVersion
    /\ file' = [file EXCEPT ![k] = used.versions[k] + 1]
    /\ \/ /\ empty' = empty \ {k}
          /\ WriterGoes(w, "committed", k)
          /\ used' = [used EXCEPT !.versions[k] = @ + 1]
       \/ /\ used.empty < MaxEmpty
          /\ empty' = empty \cup {k}
          /\ used' = [used EXCEPT !.versions[k] = @ + 1, !.empty = @ + 1]
          /\ UNCHANGED writer
    /\ UNCHANGED <<genVars, thumb, dirs, deleted, noTasks, rebuild, deleter,
                   standing>>

\* The file is in place but its index entry cannot be written, or the import
\* is cancelled here: an upload removes the file again, an import leaves it.
LoseIndex(w, k) ==
    /\ WriterAt(w, "idle") /\ LifeMuFree /\ MayWrite(w, VaultOf[k])
    /\ used.versions[k] < MaxVersion /\ used.lost < MaxLost
    /\ file' = [file EXCEPT ![k] = IF w \in Requests THEN 0
                                   ELSE used.versions[k] + 1]
    /\ empty' = empty \ {k}
    /\ used' = [used EXCEPT !.versions[k] = @ + 1, !.lost = @ + 1]
    /\ UNCHANGED <<genVars, thumb, dirs, deleted, noTasks, callerVars, standing>>

\* A file is removed and its index entry deleted.
RemoveFile(w, k) ==
    /\ w \in Requests /\ WriterAt(w, "idle") /\ LifeMuFree
    /\ file[k] # 0 /\ ~Gone(VaultOf[k])
    /\ file' = [file EXCEPT ![k] = 0]
    /\ empty' = empty \ {k}
    /\ WriterGoes(w, "removed", k)
    /\ UNCHANGED <<genVars, thumb, dirs, deleted, noTasks, rebuild, deleter,
                   ghostVars>>

\* The cached thumbnail is withdrawn, and for a new version made anew.
Invalidate(w) ==
    /\ writer[w].pc \in {"committed", "removed"}
    /\ DeleteThumbnail(writer[w].key)
    /\ IF WriterAt(w, "committed")
       THEN WriterGoes(w, "invalidated", writer[w].key)
       ELSE WriterDone(w)
    /\ UNCHANGED <<queue, life, work, commitMu, stop, waiting, file, empty,
                   dirs, deleted, noTasks, rebuild, deleter, ghostVars>>

\* tryEnqueue looks for the file before it takes the lock.
LookForThumbnail(w) ==
    /\ WriterAt(w, "invalidated")
    /\ IF thumb[writer[w].key] # 0 THEN WriterDone(w)
       ELSE WriterGoes(w, "enqueuing", writer[w].key)
    /\ UNCHANGED <<genVars, diskVars, rebuild, deleter, ghostVars>>

\* Enqueue drops the job when the queue is full.
EnqueueThumbnail(w) ==
    /\ WriterAt(w, "enqueuing")
    /\ Enqueue(writer[w].key) \/ Ignore(writer[w].key)
    /\ WriterDone(w)
    /\ UNCHANGED <<work, commitMu, stop, waiting, diskVars, rebuild, deleter,
                   ghostVars>>

-----------------------------------------------------------------------------
(* The index rebuild: PrepareVaultRebuild, the walk, WaitVaultIdle. *)

RebuildGoes(pc) == rebuild' = [rebuild EXCEPT !.pc = pc]

\* The task manager admits one rebuild of a vault at a time.
StartRebuild(v) ==
    /\ rebuild.pc = "idle" /\ used.rebuilds < MaxRebuilds /\ TasksAdmitted(v)
    /\ QuiesceVault(Rebuild, v)
    /\ rebuild' = [pc |-> "draining", vault |-> v]
    /\ used' = [used EXCEPT !.rebuilds = @ + 1]
    /\ UNCHANGED <<queue, cache, commitMu, stop, diskVars, writer, deleter>>

RemoveCache ==
    /\ rebuild.pc = "draining" /\ Rebuild \notin waiting /\ commitMu = "free"
    /\ commitMu' = Rebuild
    /\ thumb' = WithoutVault(thumb, rebuild.vault)
    /\ dirs' = dirs \ {rebuild.vault}
    /\ RebuildGoes("emptied")
    /\ UNCHANGED <<queue, life, cache, work, stop, waiting, file, empty,
                   deleted, noTasks, writer, deleter, ghostVars>>

PurgeCaches ==
    /\ rebuild.pc = "emptied"
    /\ cache' = Purged(cache, rebuild.vault)
    /\ RebuildGoes("purged")
    /\ UNCHANGED <<queue, life, work, commitMu, stop, waiting, diskVars, writer,
                   deleter, ghostVars>>

ReopenForRebuild ==
    /\ rebuild.pc = "purged"
    /\ ResumeVault(rebuild.vault)
    /\ commitMu' = "free"
    /\ rebuild' = [pc |-> "walking", vault |-> rebuild.vault,
                   todo |-> {k \in KeysOf(rebuild.vault) \ empty : file[k] # 0}]
    /\ UNCHANGED <<queue, cache, work, stop, waiting, diskVars, writer, deleter,
                   used>>

\* indexFileWithArtifacts withdraws the thumbnail of the next file ...
WalkFile(k) ==
    /\ rebuild.pc = "walking" /\ k \in rebuild.todo
    /\ DeleteThumbnail(k)
    /\ rebuild' = [pc |-> "looking", vault |-> rebuild.vault,
                   todo |-> rebuild.todo \ {k}, key |-> k]
    /\ UNCHANGED <<queue, life, work, commitMu, stop, waiting, file, empty,
                   dirs, deleted, noTasks, writer, deleter, ghostVars>>

NextFile ==
    rebuild' = [pc |-> "walking", vault |-> rebuild.vault,
                todo |-> rebuild.todo]

LookForRebuild ==
    /\ rebuild.pc = "looking"
    /\ IF thumb[rebuild.key] # 0 THEN NextFile ELSE RebuildGoes("admitting")
    /\ UNCHANGED <<genVars, diskVars, writer, deleter, ghostVars>>

\* ... and EnqueueContext admits it, retrying for as long as the queue is
\* full; a refusal fails the rebuild.
AdmitForRebuild ==
    /\ rebuild.pc = "admitting"
    /\ \/ Enqueue(rebuild.key) /\ NextFile
       \/ /\ Admits(rebuild.key) /\ Covered(rebuild.key)
          /\ Ignore(rebuild.key) /\ NextFile
       \/ /\ ~Admits(rebuild.key)
          /\ Ignore(rebuild.key) /\ RebuildGoes("leaving")
    /\ UNCHANGED <<work, commitMu, stop, waiting, diskVars, writer, deleter,
                   ghostVars>>

\* WaitVaultIdle
VaultIdle ==
    /\ rebuild.pc = "walking" /\ rebuild.todo = {}
    /\ life[rebuild.vault].pending = 0 /\ ~ActiveIn(rebuild.vault)
    /\ RebuildGoes("leaving")
    /\ UNCHANGED <<genVars, diskVars, writer, deleter, ghostVars>>

\* The task is cancelled, or a step of it fails.
RebuildAborts ==
    /\ rebuild.pc \in {"draining", "walking", "looking", "admitting"}
    /\ RebuildGoes("leaving")
    /\ waiting' = waiting \ {Rebuild}
    /\ UNCHANGED <<queue, life, cache, work, commitMu, stop, diskVars, writer,
                   deleter, ghostVars>>

\* The deferred ResumeVault of runRebuildIndex
LeaveRebuild ==
    /\ rebuild.pc = "leaving"
    /\ ResumeVault(rebuild.vault)
    /\ rebuild' = [pc |-> "idle"]
    /\ UNCHANGED <<queue, cache, work, commitMu, stop, waiting, diskVars,
                   writer, deleter, used>>

-----------------------------------------------------------------------------
(* The deletion of a vault: the part of handleDeleteVault that meets the    *)
(* generator.  hlsLifeMu is held from "locked" on, so only one deletion at  *)
(* a time removes anything, and no request writes meanwhile.                *)

DeleterAt(d, pc) == deleter[d].pc = pc
DeleterGoes(d, pc) == deleter' = [deleter EXCEPT ![d].pc = pc]
DeleterDone(d) == deleter' = [deleter EXCEPT ![d] = [pc |-> "idle"]]


FindVault(d, v) ==
    /\ DeleterAt(d, "idle") /\ ~Gone(v) /\ used.deletions < MaxDeletions
    /\ deleter' = [deleter EXCEPT ![d] = [pc |-> "found", vault |-> v]]
    /\ used' = [used EXCEPT !.deletions = @ + 1]
    /\ UNCHANGED <<genVars, diskVars, writer, rebuild, standing>>

\* The tasks of the vault are drained first.
TasksIdle(v) ==
    /\ rebuild.pc # "idle" => rebuild.vault # v
    /\ \A w \in Imports : ~WriterAt(w, "idle") => VaultOf[writer[w].key] # v

QuiesceThumbnails(d) ==
    LET v == deleter[d].vault IN
    /\ DeleterAt(d, "found") /\ TasksIdle(v)
    /\ noTasks' = noTasks \cup {v}
    /\ QuiesceVault(d, v)
    /\ DeleterGoes(d, "draining")
    /\ UNCHANGED <<queue, cache, commitMu, stop, file, empty, thumb, dirs,
                   deleted, writer, rebuild, used>>

Drained(d) ==
    /\ DeleterAt(d, "draining") /\ d \notin waiting
    /\ DeleterGoes(d, "quiesced")
    /\ UNCHANGED <<genVars, diskVars, writer, rebuild, ghostVars>>

\* The deadline of the request passes while a run winds down.
DrainTimeout(d) ==
    /\ DeleterAt(d, "draining") /\ d \in waiting
    /\ DeleterGoes(d, "failed")
    /\ waiting' = waiting \ {d}
    /\ UNCHANGED <<queue, life, cache, work, commitMu, stop, diskVars, writer,
                   rebuild, ghostVars>>

LockLifeMu(d) ==
    /\ DeleterAt(d, "quiesced") /\ LifeMuFree
    /\ DeleterGoes(d, "locked")
    /\ UNCHANGED <<genVars, diskVars, writer, rebuild, ghostVars>>

\* A stream does not stop, or the row cannot be deleted while the files are
\* still there: the workers are resumed.
DeletionFails(d) ==
    /\ DeleterAt(d, "locked")
    /\ DeleterGoes(d, "failed")
    /\ UNCHANGED <<genVars, diskVars, writer, rebuild, ghostVars>>

ResumeWorkers(d) ==
    /\ DeleterAt(d, "failed")
    /\ ResumeVault(deleter[d].vault)
    /\ noTasks' = noTasks \ {deleter[d].vault}
    /\ DeleterDone(d)
    /\ UNCHANGED <<queue, cache, work, commitMu, stop, waiting, file, empty,
                   thumb, dirs, deleted, writer, rebuild, used>>

\* deleteFiles: the vault's directory goes, its thumbnails with it.
RemoveStorage(d) ==
    LET v == deleter[d].vault IN
    /\ DeleterAt(d, "locked")
    /\ file' = WithoutVault(file, v)
    /\ thumb' = WithoutVault(thumb, v)
    /\ empty' = empty \ KeysOf(v)
    /\ dirs' = dirs \ {v}
    /\ DeleterGoes(d, "emptied")
    /\ UNCHANGED <<genVars, deleted, noTasks, writer, rebuild, ghostVars>>

\* The files could not be isolated, or the row could not be deleted after
\* they were removed: the vault stays quiesced for a retry.
StayQuiesced(d) ==
    /\ deleter[d].pc \in {"locked", "emptied"}
    /\ DeleterDone(d)
    /\ UNCHANGED <<genVars, diskVars, writer, rebuild, ghostVars>>

DeleteRow(d) ==
    /\ deleter[d].pc \in {"locked", "emptied"}
    /\ deleted' = deleted \cup {deleter[d].vault}
    /\ DeleterGoes(d, "rowGone")
    /\ UNCHANGED <<genVars, file, empty, thumb, dirs, noTasks, writer, rebuild,
                   ghostVars>>

ForgetThumbnails(d) ==
    /\ DeleterAt(d, "rowGone")
    /\ ForgetVault(deleter[d].vault)
    /\ DeleterDone(d)
    /\ UNCHANGED <<queue, work, commitMu, stop, waiting, diskVars, writer,
                   rebuild, used>>

-----------------------------------------------------------------------------
(* Stop: the flag, then the cancelled context and the closed channel, then *)
(* the wait for the worker.  main stops the generator after the tasks are   *)
(* drained; a handler that outlived the HTTP server may still be running.   *)

BeginStop ==
    /\ stop = "running" /\ MaxStops = 1
    /\ \A v \in Vaults : TasksIdle(v)
    /\ stop' = "stopping"
    /\ UNCHANGED <<queue, life, cache, work, commitMu, waiting, diskVars,
                   callerVars, ghostVars>>

CloseJobs ==
    /\ stop = "stopping"
    /\ stop' = "closed"
    /\ work' = CutRun
    /\ UNCHANGED <<queue, life, cache, commitMu, waiting, diskVars, callerVars,
                   ghostVars>>

\* The closed channel is empty: the worker's range loop ends.
WorkerExits ==
    /\ stop = "closed" /\ work.pc = "idle" /\ queue = <<>>
    /\ work' = [pc |-> "exited"]
    /\ UNCHANGED <<queue, life, cache, commitMu, stop, waiting, diskVars,
                   callerVars, ghostVars>>

StopReturns ==
    /\ stop = "closed" /\ work.pc = "exited"
    /\ stop' = "stopped"
    /\ UNCHANGED <<queue, life, cache, work, commitMu, waiting, diskVars,
                   callerVars, ghostVars>>

-----------------------------------------------------------------------------
Init ==
    /\ queue = <<>>
    /\ life = [v \in Vaults |-> NewLife]
    /\ cache = [queued |-> {}, failed |-> {},
                gens |-> [k \in Keys |-> 0], refs |-> [k \in Keys |-> 0]]
    /\ work = NoWork /\ commitMu = "free" /\ stop = "running" /\ waiting = {}
    /\ file = [k \in Keys |-> 0] /\ thumb = [k \in Keys |-> 0]
    /\ empty = {} /\ dirs = {} /\ deleted = {} /\ noTasks = {}
    /\ writer = [w \in Writers |-> [pc |-> "idle"]]
    /\ deleter = [d \in Deleters |-> [pc |-> "idle"]]
    /\ rebuild = [pc |-> "idle"]
    /\ standing = {}
    /\ used = [versions |-> [k \in Keys |-> 0], empty |-> 0, rebuilds |-> 0,
               deletions |-> 0, failures |-> 0, lost |-> 0]

WorkerStep ==
    \/ Receive \/ BeginJob \/ RefuseJob \/ DiscardJob \/ StartGenerate
    \/ FetchFrame \/ FetchFails \/ LockCommit \/ Commit \/ FinishJob \/ EndJob
    \/ WorkerExits

WriterStep(w) == Invalidate(w) \/ LookForThumbnail(w) \/ EnqueueThumbnail(w)

RebuildStep ==
    \/ RemoveCache \/ PurgeCaches \/ ReopenForRebuild
    \/ \E k \in Keys : WalkFile(k)
    \/ LookForRebuild \/ AdmitForRebuild \/ VaultIdle \/ LeaveRebuild

DeleterStep(d) ==
    \/ QuiesceThumbnails(d) \/ Drained(d) \/ DrainTimeout(d) \/ LockLifeMu(d)
    \/ DeletionFails(d) \/ ResumeWorkers(d) \/ RemoveStorage(d)
    \/ StayQuiesced(d) \/ DeleteRow(d) \/ ForgetThumbnails(d)

StopStep == CloseJobs \/ StopReturns

\* Every caller has returned; nothing need happen any more.
Terminated ==
    /\ rebuild.pc = "idle"
    /\ \A w \in Writers : WriterAt(w, "idle")
    /\ \A d \in Deleters : DeleterAt(d, "idle")
    /\ UNCHANGED vars

Next ==
    \/ WorkerStep
    \/ \E k \in Keys : ForgetFailure(k)
    \/ \E w \in Writers :
           \/ WriterStep(w)
           \/ \E k \in Keys :
                  CommitFile(w, k) \/ LoseIndex(w, k) \/ RemoveFile(w, k)
    \/ RebuildStep \/ RebuildAborts \/ \E v \in Vaults : StartRebuild(v)
    \/ \E d \in Deleters : DeleterStep(d) \/ \E v \in Vaults : FindVault(d, v)
    \/ BeginStop \/ StopStep \/ Terminated

Spec == Init /\ [][Next]_vars

(* The worker and every handler that has begun take their steps: FFmpeg     *)
(* runs under a timeout and the waits of handlers have deadlines.  Nothing  *)
(* is owed by clients, by cancellations, or by the signal that stops.       *)
Fairness ==
    /\ WF_vars(WorkerStep) /\ WF_vars(RebuildStep) /\ WF_vars(StopStep)
    /\ \A w \in Writers : WF_vars(WriterStep(w))
    /\ \A d \in Deleters : WF_vars(DeleterStep(d))

FairSpec == Spec /\ Fairness

-----------------------------------------------------------------------------
(* Properties *)

JobType == [key : Keys, gen : Nat]

\* Every variable keeps its type: in particular a job always belongs to a
\* key, and the counters of the bookkeeping never go below zero.
TypeOK ==
    /\ queue \in Seq(JobType) /\ Len(queue) <= QueueSize
    /\ life \in [Vaults -> [quiescing : BOOLEAN, retiring : BOOLEAN,
                            resume : BOOLEAN, pending : Nat]]
    /\ cache \in [queued : SUBSET Keys, failed : SUBSET Keys,
                  gens : [Keys -> Nat], refs : [Keys -> Nat]]
    /\ HasJob => work.key \in Keys /\ work.gen \in Nat
    /\ commitMu \in {"free", "worker", Rebuild}
    /\ waiting \subseteq Quiescers /\ standing \subseteq Quiescers \X Vaults
    /\ file \in [Keys -> Nat] /\ thumb \in [Keys -> Nat]
    /\ empty \subseteq Keys
    /\ dirs \subseteq Vaults /\ deleted \subseteq Vaults /\ noTasks \subseteq Vaults

QueuedJobs(k) == {i \in DOMAIN queue : queue[i].key = k}
InHand(k) == IF HasJob /\ work.key = k /\ work.pc # "ended" THEN 1 ELSE 0

\* The pending count of a vault is the number of its jobs that the worker has
\* not yet claimed.  WaitVaultIdle, the deferred resume and the retirement of
\* a tombstone all rely on it.
PendingIsExact ==
    \A v \in Vaults :
        life[v].pending =
            Cardinality({i \in DOMAIN queue : VaultOf[queue[i].key] = v})
            + (IF work.pc = "received" /\ VaultOf[work.key] = v THEN 1 ELSE 0)

\* A queue marker always has a job of the current generation behind it that
\* will clear it; an orphaned marker would keep its file without a thumbnail
\* for as long as the process lives.
MarkersHaveJobs ==
    \A k \in cache.queued :
        \/ \E i \in QueuedJobs(k) : Current(queue[i])
        \/ InHand(k) = 1 /\ Current(work)

\* Both, over every way a job can end: received, refused, cut short, finished.
JobsAreCounted == PendingIsExact /\ MarkersHaveJobs

\* Of a vault that exists, every job is counted as a reference to the
\* generation of its key, so a generation is never forgotten while a job
\* could still be mistaken for a current one.
RefsAreExact ==
    \A k \in Keys : VaultOf[k] \notin deleted =>
        cache.refs[k] = Cardinality(QueuedJobs(k)) + InHand(k)

\* All three counters follow the jobs there are.
BookkeepingIsExact == JobsAreCounted /\ RefsAreExact

Withdrawing(k) ==
    \E w \in Writers :
        writer[w].pc \in {"committed", "removed"} /\ writer[w].key = k

\* A thumbnail on disk shows the committed version of its file, unless a
\* request that has just changed the file is about to withdraw it, or the
\* version is empty.
FreshThumbnails ==
    \A k \in Keys : thumb[k] # 0 /\ VaultOf[k] \notin deleted =>
        thumb[k] = file[k] \/ k \in empty \/ Withdrawing(k)

VaultAt(q) == IF q = Rebuild THEN rebuild.vault ELSE deleter[q].vault
PastDrain(q) ==
    IF q = Rebuild
    THEN /\ rebuild.pc \in {"draining", "emptied", "purged"}
         /\ Rebuild \notin waiting
    ELSE deleter[q].pc \in {"quiesced", "locked", "emptied", "rowGone"}

\* While the tombstone of a QuiesceVault call stands and its wait is over, no
\* job of the vault is running: whoever removes the cache or the vault next
\* meets no FFmpeg process.
QuiesceIsBarrier ==
    \A q \in Quiescers :
        PastDrain(q) /\ <<q, VaultAt(q)>> \in standing => ~ActiveIn(VaultAt(q))

\* A thumbnail never appears in a vault while its cache is removed for a
\* rebuild: the removal holds the commit lock to the end of the purge.
CacheStaysEmpty ==
    [][rebuild.pc \in {"emptied", "purged"} =>
           \A k \in KeysOf(rebuild.vault) : thumb'[k] = thumb[k]]_vars

\* The generator is a gate of each vault (VaultGate): a job enters only an
\* open vault, and a vault opens only behind the last of its jobs.
Gate == INSTANCE VaultGate WITH
            Owners <- Keys,
            inside <- IF Active THEN {work.key} ELSE {},
            sealed <- {v \in Vaults : life[v].quiescing}
ImplementsGate == Gate!GateSpec

\* Stop returns: the worker discards what is queued and exits.
StopDrains == stop = "closed" ~> stop = "stopped"

\* A marked key is unmarked again, so a file whose job was lost, refused or
\* failed can be queued once more.
MarkersClear == \A k \in Keys : k \in cache.queued ~> k \notin cache.queued

\* A rebuild ends: neither its quiesce, nor its retries against a full queue,
\* nor its wait for an idle vault last forever.
RebuildEnds == rebuild.pc # "idle" ~> rebuild.pc = "idle"

\* The tombstone of a forgotten vault goes once its jobs are gone, so the
\* bookkeeping of deleted vaults does not pile up.
TombstonesGo == \A v \in Vaults : life[v].retiring ~> ~life[v].retiring

\* Nothing that stands for a job outlives the jobs.
LeftoversGo == MarkersClear /\ TombstonesGo
=============================================================================
