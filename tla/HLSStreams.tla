----------------------------- MODULE HLSStreams -----------------------------
(***************************************************************************)
(* HLS streaming (internal/api/files_hls.go): the admission of starts, the *)
(* life of an FFmpeg process from its start to the removal of its          *)
(* segments, the references its viewers hold, and the barrier that every   *)
(* request takes which replaces files, deletes the vault, logs a session   *)
(* out or shuts the server down.                                           *)
(*                                                                         *)
(* A critical section of hlsMu is one action.  A section under the read    *)
(* side of hlsLifeMu is one too: it changes state only under hlsMu, and it *)
(* cannot run while a barrier holds the write side.  The vault is one; its *)
(* files are Paths.                                                        *)
(***************************************************************************)
EXTENDS Naturals, FiniteSets

CONSTANTS
    Sessions,      \* sessions of users, the owners of streams
    Viewers,       \* players: each belongs to a session and shows one file
    OwnerOf, PathOf,
    Paths,
    Writers,       \* requests that take the barrier
    KindOf,        \* "replace", "logout", "deleteVault" or "shutdown"
    FilesOf,       \* the files a "replace" touches: one, or a directory
    LogoutOf,      \* the session a "logout" ends
    NoPath, NoWriter,
    MaxStreams,    \* hlsMaxStreams
    MaxStarts,     \* bound on the starts of FFmpeg
    MaxFallbacks,  \* bound on the profiles after the first
    MaxVersion     \* bound on the versions of a file

Streams == 1 .. MaxStarts
NoStream == 0

ASSUME ViewersAssumption ==
    /\ IsFiniteSet(Viewers)
    /\ OwnerOf \in [Viewers -> Sessions] /\ PathOf \in [Viewers -> Paths]
    /\ NoPath \notin Paths
ASSUME BarriersAssumption ==
    /\ KindOf \in [Writers -> {"replace", "logout", "deleteVault", "shutdown"}]
    /\ FilesOf \in [Writers -> SUBSET Paths]
    /\ LogoutOf \in [Writers -> Sessions]
    /\ NoWriter \notin Writers
ASSUME HLSBoundsAssumption ==
    /\ MaxStreams \in Nat \ {0} /\ MaxStarts \in Nat
    /\ MaxFallbacks \in Nat /\ MaxVersion \in Nat \ {0}

VARIABLES
    lifeMu,     \* the writer that holds hlsLifeMu, or NoWriter
    closing,    \* hlsClosing
    sess,       \* sessions the store still knows
    active,     \* hlsActive, the running streams
    starts,     \* hlsStarts, the pending starts
    st,         \* how far the goroutines of a stream are
    key,        \* the file of a stream
    left,       \* profiles that can still be tried
    stopped,    \* streams that were asked to stop, or whose start timed out
    refs,       \* ownerRefs: references of each session
    proc,       \* the FFmpeg process of a stream
    login,      \* streams whose internal session exists
    dir,        \* streams whose segment directory exists
    reads,      \* the versions of the file FFmpeg has read
    version,    \* the version of each file
    viewer,     \* progress of each viewer's requests
    writer      \* progress of each barrier

server == <<lifeMu, closing, sess, active, starts>>
goroutine == <<st, key, left>>
ffmpeg == <<proc, login, dir, reads>>
owners == <<stopped, refs>>
vars == <<server, goroutine, ffmpeg, owners, version, viewer, writer>>

PendingStates == {"queued", "trying", "warming", "ready"}
Pending(s) == st[s] \in PendingStates       \* in hlsPending
Registered(s) == st[s] \in {"live", "retained"}   \* in hls
Ended(s) == st[s] \in {"rejected", "failed", "over"}
Known == {s \in Streams : Pending(s) \/ Registered(s)}
KnownAt(p) == {s \in Known : key[s] = p}
Unused == {s \in Streams : st[s] = "free"}

Owners(s) == {o \in Sessions : refs[s][o] > 0}
At(r, pc) == viewer[r].pc = pc
Goes(r, pc, s) == viewer' = [viewer EXCEPT ![r] = [pc |-> pc, id |-> s]]
Moves(s, pc) == st' = [st EXCEPT ![s] = pc]

-----------------------------------------------------------------------------
(* References.                                                             *)

AddRef(s, o) == refs' = [refs EXCEPT ![s][o] = @ + 1]

\* releaseOwner: nobody is left once o gives up one reference.
LastRef(s, o) ==
    \/ Owners(s) = {}
    \/ Owners(s) = {o} /\ refs[s][o] = 1

\* Mutant: a reference is given up that the session does not hold.
BugRelease(ids, o) ==
    /\ refs' = [s \in Streams |->
                    IF s \in ids THEN [refs[s] EXCEPT ![o] = @ - 1] ELSE refs[s]]
    /\ stopped' = stopped \cup {s \in ids : LastRef(s, o)}

\* collectHLSStopTargetsForOwner and the cancellation of its targets, which
\* only makes contexts and processes end that end asynchronously anyway.
Release(ids, o) ==
    /\ refs' = [s \in Streams |->
                    IF s \in ids /\ refs[s][o] > 0
                    THEN [refs[s] EXCEPT ![o] = @ - 1] ELSE refs[s]]
    /\ stopped' = stopped \cup {s \in ids : LastRef(s, o)}

\* collectHLSOwnerTargets: all references of o go.
Owned(o) == {s \in Known : Owners(s) \subseteq {o}}
ReleaseAll(o) ==
    /\ refs' = [s \in Streams |->
                    IF s \in Known THEN [refs[s] EXCEPT ![o] = 0] ELSE refs[s]]
    /\ stopped' = stopped \cup Owned(o)

-----------------------------------------------------------------------------
(* A viewer starts a stream: handleHLSStart.                               *)

\* authMiddleware lets the request in.
Arrive(r) ==
    /\ At(r, "idle") /\ OwnerOf[r] \in sess
    /\ Goes(r, "asking", NoStream)
    /\ UNCHANGED <<server, goroutine, ffmpeg, owners, version, writer>>

\* Mutant: the session is not looked up again under the lock.
BugAuthorised(r) == TRUE

Authorised(r) == OwnerOf[r] \in sess

\* Mutant: the start does not take hlsLifeMu.
BugAdmitted(r) == At(r, "asking") /\ Authorised(r) /\ ~closing

\* hlsLifeMu is free, the session is still active, and HLS is not closing.
Admitted(r) ==
    /\ At(r, "asking") /\ lifeMu = NoWriter
    /\ Authorised(r) /\ ~closing

\* A stream of the file that runs and may be joined.
Joinable(s, p) == st[s] = "live" /\ key[s] = p /\ s \notin stopped
NoneToJoin(p) == \A s \in Streams : ~Joinable(s, p)

\* hlsMaxStreams is reached, or the bound MaxStarts of the model.
Full == active + starts >= MaxStreams \/ Unused = {}

\* hlsPendingReusable
Reusable(s) == s \notin stopped

\* Mutant: a cancelled start does not occupy its key any more.
BugKeyFree(p) == \A s \in KnownAt(p) : ~(Pending(s) /\ Reusable(s))

KeyFree(p) == \A s \in KnownAt(p) : ~Pending(s)

RefuseStart(r) ==
    /\ At(r, "asking") /\ lifeMu = NoWriter
    /\ \/ ~Authorised(r) \/ closing
       \/ KeyFree(PathOf[r]) /\ NoneToJoin(PathOf[r]) /\ Full
    /\ Goes(r, "idle", NoStream)
    /\ UNCHANGED <<server, goroutine, ffmpeg, owners, version, writer>>

JoinStream(r) ==
    /\ Admitted(r)
    /\ \E s \in Streams :
           /\ Joinable(s, PathOf[r])
           /\ AddRef(s, OwnerOf[r])
           /\ Goes(r, "watching", s)
    /\ UNCHANGED <<server, goroutine, ffmpeg, stopped, version, writer>>

JoinPending(r) ==
    /\ Admitted(r) /\ NoneToJoin(PathOf[r])
    /\ \E s \in KnownAt(PathOf[r]) :
           /\ Pending(s) /\ Reusable(s)
           /\ AddRef(s, OwnerOf[r])
           /\ Goes(r, "waiting", s)
    /\ UNCHANGED <<server, goroutine, ffmpeg, stopped, version, writer>>

\* A cancelled start still occupies the key: wait for it, then ask again.
AwaitCancelled(r) ==
    /\ Admitted(r) /\ NoneToJoin(PathOf[r])
    /\ \E s \in KnownAt(PathOf[r]) :
           Pending(s) /\ ~Reusable(s) /\ Goes(r, "blocked", s)
    /\ UNCHANGED <<server, goroutine, ffmpeg, owners, version, writer>>

Retry(r) ==
    /\ At(r, "blocked") /\ ~Pending(viewer[r].id)
    /\ Goes(r, "asking", NoStream)
    /\ UNCHANGED <<server, goroutine, ffmpeg, owners, version, writer>>

GiveUp(r) ==
    /\ At(r, "blocked")
    /\ Goes(r, "idle", NoStream)
    /\ UNCHANGED <<server, goroutine, ffmpeg, owners, version, writer>>

RegisterStart(r) ==
    /\ Admitted(r) /\ NoneToJoin(PathOf[r]) /\ ~Full
    /\ KeyFree(PathOf[r])
    /\ LET s == CHOOSE s \in Unused : \A u \in Unused : s <= u
       IN /\ Moves(s, "queued")
          /\ key' = [key EXCEPT ![s] = PathOf[r]]
          /\ AddRef(s, OwnerOf[r])
          /\ Goes(r, "waiting", s)
    /\ starts' = starts + 1
    /\ UNCHANGED <<lifeMu, closing, sess, active, left, ffmpeg, stopped,
                   version, writer>>

-----------------------------------------------------------------------------
(* What a viewer does next: waitForHLSStartOwner, handleHLSStop,           *)
(* handleHLSAsset, and the player of web/src/components/VideoPlayer.tsx.   *)

\* The start is over: an error, or the redirect to the stream.
StartAnswered(r) ==
    LET s == viewer[r].id
    IN /\ At(r, "waiting") /\ ~Pending(s)
       /\ IF st[s] \in {"rejected", "failed"}
          THEN Goes(r, "idle", NoStream) ELSE Goes(r, "watching", s)
       /\ UNCHANGED <<server, goroutine, ffmpeg, owners, version, writer>>

\* Mutant: the reference of a client that has gone is kept.
BugDisconnect(r) ==
    /\ At(r, "waiting")
    /\ Goes(r, "leaving", viewer[r].id)
    /\ UNCHANGED <<server, goroutine, ffmpeg, owners, version, writer>>

\* The connection of a waiting start is lost: releaseHLSStartOwner.
Disconnect(r) ==
    /\ At(r, "waiting")
    /\ Release(Known \cap {viewer[r].id}, OwnerOf[r])
    /\ Goes(r, "leaving", viewer[r].id)
    /\ UNCHANGED <<server, goroutine, ffmpeg, version, writer>>

\* The player closes and calls handleHLSStop, by the file while it does not
\* know its stream (a native player never learns it), else by the stream.
StopPlayback(r) ==
    /\ At(r, "waiting") \/ At(r, "watching")
    /\ \/ Release(KnownAt(PathOf[r]), OwnerOf[r])
       \/ At(r, "watching") /\ Release(Known \cap {viewer[r].id}, OwnerOf[r])
    /\ Goes(r, "leaving", viewer[r].id)
    /\ UNCHANGED <<server, goroutine, ffmpeg, version, writer>>

\* A second release of the same viewer: the stop is repeated after a 202 or a
\* lost answer, or it follows or precedes the lost connection of the start.
ReleaseAgain(r) ==
    /\ At(r, "leaving")
    /\ \/ Release(KnownAt(PathOf[r]), OwnerOf[r])
       \/ Release(Known \cap {viewer[r].id}, OwnerOf[r])
    /\ Goes(r, "idle", NoStream)
    /\ UNCHANGED <<server, goroutine, ffmpeg, version, writer>>

Leave(r) ==
    /\ At(r, "leaving")
    /\ Goes(r, "idle", NoStream)
    /\ UNCHANGED <<server, goroutine, ffmpeg, owners, version, writer>>

\* handleHLSAsset finds the stream; assetMu comes later.
RequestAsset(r) ==
    LET s == viewer[r].id
    IN /\ At(r, "watching") /\ OwnerOf[r] \in sess
       /\ Registered(s) /\ s \notin stopped
       /\ Owners(s) = {} \/ OwnerOf[r] \in Owners(s)
       /\ Goes(r, "found", s)
       /\ UNCHANGED <<server, goroutine, ffmpeg, owners, version, writer>>

\* The segment is there and is sent under the read side of assetMu.
ServeAsset(r) ==
    LET s == viewer[r].id
    IN /\ At(r, "found") /\ s \in dir /\ s \notin stopped
       /\ Goes(r, "serving", s)
       /\ UNCHANGED <<server, goroutine, ffmpeg, owners, version, writer>>

\* The segment is gone, the stream stops while the request waits for it, or
\* the wait times out.
AssetMissing(r) ==
    /\ At(r, "found")
    /\ Goes(r, "watching", viewer[r].id)
    /\ UNCHANGED <<server, goroutine, ffmpeg, owners, version, writer>>

AssetServed(r) ==
    /\ At(r, "serving")
    /\ Goes(r, "watching", viewer[r].id)
    /\ UNCHANGED <<server, goroutine, ffmpeg, owners, version, writer>>

-----------------------------------------------------------------------------
(* The start goroutine: runHLSStart, startHLSStream, completeHLSStart.     *)

\* The 30-second context of the start runs out.
StartupTimeout(s) ==
    /\ Pending(s) /\ s \notin stopped
    /\ stopped' = stopped \cup {s}
    /\ UNCHANGED <<server, goroutine, ffmpeg, refs, version, viewer, writer>>

\* A failed start: what it made is undone, then the slot and the key are
\* released and every waiter is told.
FailStart(s) ==
    /\ Moves(s, "failed")
    /\ proc' = [proc EXCEPT ![s] = "none"]
    /\ login' = login \ {s} /\ dir' = dir \ {s}
    /\ starts' = starts - 1
    /\ UNCHANGED <<lifeMu, closing, sess, active, key, left, reads, owners,
                   version, viewer, writer>>

\* Mutant: a start that is cancelled before it begins reports to nobody.
BugBeginStart(s) ==
    /\ st[s] = "queued" /\ s \notin stopped
    /\ Moves(s, "trying")
    /\ login' = login \cup {s} /\ dir' = dir \cup {s}
    /\ UNCHANGED <<server, key, left, proc, reads, owners, version, viewer,
                   writer>>

\* The duration is looked up, an internal session and a directory are made;
\* any of this may fail, and a cancelled start does not begin.
BeginStart(s) ==
    /\ st[s] = "queued"
    /\ \/ FailStart(s)
       \/ /\ s \notin stopped
          /\ Moves(s, "trying")
          /\ \E n \in 0 .. MaxFallbacks : left' = [left EXCEPT ![s] = n]
          /\ login' = login \cup {s} /\ dir' = dir \cup {s}
          /\ UNCHANGED <<server, key, proc, reads, owners, version, viewer,
                         writer>>

LaunchFFmpeg(s) ==
    /\ st[s] = "trying" /\ s \notin stopped
    /\ Moves(s, "warming")
    /\ proc' = [proc EXCEPT ![s] = "running"]
    /\ reads' = [reads EXCEPT ![s] = {}]
    /\ UNCHANGED <<server, key, left, login, dir, owners, version, viewer,
                   writer>>

\* FFmpeg cannot be started, exits or is not ready in time; it is killed and
\* reaped before the next profile is tried.
ProfileFails(s) ==
    /\ st[s] \in {"trying", "warming"}
    /\ IF s \in stopped \/ left[s] = 0 THEN FailStart(s)
       ELSE /\ Moves(s, "trying")
            /\ left' = [left EXCEPT ![s] = @ - 1]
            /\ proc' = [proc EXCEPT ![s] = "none"]
            /\ UNCHANGED <<server, key, login, dir, reads, owners, version,
                           viewer, writer>>

\* The playlist names a segment: waitForHLSReadyWithProcess returns.
FFmpegReady(s) ==
    /\ st[s] = "warming" /\ reads[s] # {}
    /\ Moves(s, "ready")
    /\ UNCHANGED <<server, key, left, ffmpeg, owners, version, viewer, writer>>

\* completeHLSStart of a ready stream: it is published, or turned down if the
\* start was cancelled meanwhile.
CompleteStart(s) ==
    /\ st[s] = "ready"
    /\ IF s \in stopped THEN Moves(s, "rejected") /\ UNCHANGED active
       ELSE Moves(s, "live") /\ active' = active + 1
    /\ starts' = starts - 1
    /\ UNCHANGED <<lifeMu, closing, sess, key, left, ffmpeg, owners, version,
                   viewer, writer>>

\* Mutant: the directory of a stream that was turned down stays behind.
BugReapRejected(s) ==
    /\ st[s] = "rejected"
    /\ Moves(s, "failed")
    /\ proc' = [proc EXCEPT ![s] = "none"] /\ login' = login \ {s}
    /\ UNCHANGED <<server, key, left, dir, reads, owners, version, viewer,
                   writer>>

\* stopAndWaitHLS and the rest of runHLSStart.
ReapRejected(s) ==
    /\ st[s] = "rejected"
    /\ Moves(s, "failed")
    /\ proc' = [proc EXCEPT ![s] = "none"]
    /\ login' = login \ {s} /\ dir' = dir \ {s}
    /\ UNCHANGED <<server, key, left, reads, owners, version, viewer, writer>>

-----------------------------------------------------------------------------
(* FFmpeg and the cleanup goroutine: cleanupHLSStream.                     *)

\* FFmpeg fetches the file through the content handler, with the internal
\* session of its stream.
ReadContent(s) ==
    /\ proc[s] = "running" /\ s \in login
    /\ reads' = [reads EXCEPT ![s] = @ \cup {version[key[s]]}]
    /\ UNCHANGED <<server, goroutine, proc, login, dir, owners, version,
                   viewer, writer>>

\* It ends with a complete playlist, or it fails or is killed.
ProcessExits(s) ==
    /\ proc[s] = "running"
    /\ \E how \in {"complete", "broken"} : proc' = [proc EXCEPT ![s] = how]
    /\ UNCHANGED <<server, goroutine, login, dir, reads, owners, version,
                   viewer, writer>>

\* No asset was requested for hlsIdleTimeout.
IdleStop(s) ==
    /\ st[s] = "live" /\ s \notin stopped
    /\ stopped' = stopped \cup {s}
    /\ UNCHANGED <<server, goroutine, ffmpeg, refs, version, viewer, writer>>

\* Mutant: the slot of a finished stream is not given back.
BugStreamFinished(s) ==
    /\ st[s] = "live" /\ proc[s] # "running"
    /\ IF s \in stopped \/ proc[s] = "broken"
       THEN Moves(s, "removing") ELSE Moves(s, "retained")
    /\ login' = login \ {s}
    /\ UNCHANGED <<server, key, left, proc, dir, reads, owners, version,
                   viewer, writer>>

\* The process is reaped: the slot is free and the internal session goes.  A
\* complete stream that nobody stopped is kept for its viewers.
StreamFinished(s) ==
    /\ st[s] = "live" /\ proc[s] # "running"
    /\ IF s \in stopped \/ proc[s] = "broken"
       THEN Moves(s, "removing") ELSE Moves(s, "retained")
    /\ active' = active - 1
    /\ login' = login \ {s}
    /\ UNCHANGED <<lifeMu, closing, sess, starts, key, left, proc, dir, reads,
                   owners, version, viewer, writer>>

\* Mutant: a stream that is kept does not hear that it shall stop.
BugRetentionEnds(s) ==
    /\ st[s] = "retained" /\ s \notin stopped
    /\ Moves(s, "removing")
    /\ UNCHANGED <<server, key, left, ffmpeg, owners, version, viewer, writer>>

\* hlsFinishedRetention is over, or the stream is asked to stop.
RetentionEnds(s) ==
    /\ st[s] = "retained"
    /\ Moves(s, "removing")
    /\ UNCHANGED <<server, key, left, ffmpeg, owners, version, viewer, writer>>

\* Mutant: the directory is removed under the eyes of the readers.
BugUnread(s) == TRUE

\* The write side of assetMu.
Unread(s) == \A r \in Viewers : ~(At(r, "serving") /\ viewer[r].id = s)

\* removeHLSDir, then doneCh is closed.
RemoveDir(s) ==
    /\ st[s] = "removing" /\ Unread(s)
    /\ Moves(s, "over")
    /\ dir' = dir \ {s}
    /\ UNCHANGED <<server, key, left, proc, login, reads, owners, version,
                   viewer, writer>>

-----------------------------------------------------------------------------
(* The barrier: hlsLifeMu is locked, the streams in question are asked to  *)
(* stop, and after at most five seconds the caller goes on or gives up.    *)

InBarrier(w, pc) == writer[w].pc = pc
Released(w, pc) ==
    /\ lifeMu' = NoWriter
    /\ writer' = [writer EXCEPT ![w] = [pc |-> pc, waits |-> {}, timed |-> TRUE]]

\* stopHLSForPath, stopHLSForOwner, stopHLSForVault and Shutdown.
Targets(w) ==
    CASE KindOf[w] = "replace" -> {s \in Known : key[s] \in FilesOf[w]}
      [] KindOf[w] = "logout" -> Owned(LogoutOf[w])
      [] OTHER -> Known

\* Mutant: the barrier waits for as long as it takes.
BugDeadline(w) == FALSE

\* Five seconds, or what is left of ten; main repeats a shutdown without any.
Deadline(w) == ~(KindOf[w] = "shutdown" /\ closing)

\* The write side is taken and the targets are marked and cancelled.
LockBarrier(w) ==
    /\ InBarrier(w, "idle") /\ lifeMu = NoWriter
    /\ KindOf[w] = "logout" => LogoutOf[w] \in sess
    /\ lifeMu' = w
    /\ writer' = [writer EXCEPT ![w] =
                      [pc |-> "waiting", waits |-> Targets(w),
                       timed |-> Deadline(w)]]
    /\ closing' = (closing \/ KindOf[w] = "shutdown")
    /\ IF KindOf[w] = "logout" THEN ReleaseAll(LogoutOf[w])
       ELSE stopped' = stopped \cup Targets(w) /\ UNCHANGED refs
    /\ UNCHANGED <<sess, active, starts, goroutine, ffmpeg, version, viewer>>

\* Every target has reported that it ended.
StreamsEnded(w) ==
    /\ InBarrier(w, "waiting")
    /\ \A s \in writer[w].waits : Ended(s)
    /\ writer' = [writer EXCEPT ![w].pc = "clear"]
    /\ UNCHANGED <<server, goroutine, ffmpeg, owners, version, viewer>>

\* The deadline passes first.  A logout goes on all the same; the shutdown
\* comes back once more without a deadline.
BarrierTimeout(w) ==
    /\ InBarrier(w, "waiting") /\ writer[w].timed /\ writer[w].waits # {}
    /\ IF KindOf[w] = "logout"
       THEN Released(w, "done") /\ sess' = sess \ {LogoutOf[w]}
       ELSE Released(w, "idle") /\ UNCHANGED sess
    /\ UNCHANGED <<closing, active, starts, goroutine, ffmpeg, owners, version,
                   viewer>>

\* The files are replaced or deleted.
ReplaceFiles(w) ==
    /\ InBarrier(w, "clear") /\ KindOf[w] = "replace"
    /\ \A p \in FilesOf[w] : version[p] < MaxVersion
    /\ version' = [p \in Paths |-> IF p \in FilesOf[w] THEN version[p] + 1
                                   ELSE version[p]]
    /\ Released(w, "idle")
    /\ UNCHANGED <<closing, sess, active, starts, goroutine, ffmpeg, owners,
                   viewer>>

\* The request fails for a reason of its own.
AbandonBarrier(w) ==
    /\ InBarrier(w, "clear") /\ KindOf[w] \in {"replace", "deleteVault"}
    /\ Released(w, "idle")
    /\ UNCHANGED <<closing, sess, active, starts, goroutine, ffmpeg, owners,
                   version, viewer>>

Logout(w) ==
    /\ InBarrier(w, "clear") /\ KindOf[w] = "logout"
    /\ sess' = sess \ {LogoutOf[w]}
    /\ Released(w, "done")
    /\ UNCHANGED <<closing, active, starts, goroutine, ffmpeg, owners, version,
                   viewer>>

\* The files, the row and all sessions of the vault go, internal ones too.
DeleteVault(w) ==
    /\ InBarrier(w, "clear") /\ KindOf[w] = "deleteVault"
    /\ version' = [p \in Paths |-> version[p] + 1]
    /\ sess' = {} /\ login' = {}
    /\ Released(w, "done")
    /\ UNCHANGED <<closing, active, starts, goroutine, proc, dir, reads, owners,
                   viewer>>

\* Shutdown returns nil.
ShutdownReturns(w) ==
    /\ InBarrier(w, "clear") /\ KindOf[w] = "shutdown"
    /\ Released(w, "done")
    /\ UNCHANGED <<closing, sess, active, starts, goroutine, ffmpeg, owners,
                   version, viewer>>

\* A session ends on its own: it expires, or the janitor removes it.
ExpireSession(o) ==
    /\ o \in sess
    /\ sess' = sess \ {o}
    /\ UNCHANGED <<lifeMu, closing, active, starts, goroutine, ffmpeg, owners,
                   version, viewer, writer>>

-----------------------------------------------------------------------------
Init ==
    /\ lifeMu = NoWriter /\ closing = FALSE /\ sess = Sessions
    /\ active = 0 /\ starts = 0
    /\ st = [s \in Streams |-> "free"]
    /\ key = [s \in Streams |-> NoPath]
    /\ left = [s \in Streams |-> 0]
    /\ stopped = {}
    /\ refs = [s \in Streams |-> [o \in Sessions |-> 0]]
    /\ proc = [s \in Streams |-> "none"]
    /\ login = {} /\ dir = {}
    /\ reads = [s \in Streams |-> {}]
    /\ version = [p \in Paths |-> 1]
    /\ viewer = [r \in Viewers |-> [pc |-> "idle", id |-> NoStream]]
    /\ writer = [w \in Writers |-> [pc |-> "idle", waits |-> {}, timed |-> TRUE]]

StartStep(s) ==
    \/ BeginStart(s) \/ LaunchFFmpeg(s) \/ ProfileFails(s) \/ FFmpegReady(s)
    \/ CompleteStart(s) \/ ReapRejected(s)

\* A killed process dies; the cleanup goroutine does the rest.
Killed(s) == st[s] = "live" /\ s \in stopped /\ ProcessExits(s)
CleanupStep(s) == Killed(s) \/ StreamFinished(s) \/ RemoveDir(s)
StoppedRetention(s) == s \in stopped /\ RetentionEnds(s)

\* What the handler of a start does without its client.
HandlerStep(r) ==
    \/ RefuseStart(r) \/ JoinStream(r) \/ JoinPending(r) \/ AwaitCancelled(r)
    \/ RegisterStart(r) \/ Retry(r) \/ StartAnswered(r)

ClientStep(r) ==
    \/ Arrive(r) \/ GiveUp(r) \/ Disconnect(r) \/ StopPlayback(r)
    \/ ReleaseAgain(r) \/ Leave(r)

AssetStep(r) ==
    RequestAsset(r) \/ ServeAsset(r) \/ AssetMissing(r) \/ AssetServed(r)

\* main.go: httpServer.Close
ClosedConnection(r) == closing /\ AssetServed(r)

BarrierStep(w) ==
    \/ StreamsEnded(w) \/ BarrierTimeout(w) \/ ReplaceFiles(w)
    \/ AbandonBarrier(w) \/ Logout(w) \/ DeleteVault(w) \/ ShutdownReturns(w)

\* Nothing is under way; all there is may have ended.
Quiet ==
    /\ \A r \in Viewers : At(r, "idle")
    /\ \A s \in Streams : st[s] \in {"free", "failed", "over"}
    /\ \A w \in Writers : InBarrier(w, "idle") \/ InBarrier(w, "done")
    /\ UNCHANGED vars

Next ==
    \/ \E s \in Streams :
           \/ StartStep(s) \/ CleanupStep(s) \/ RetentionEnds(s)
           \/ StartupTimeout(s) \/ ReadContent(s) \/ ProcessExits(s)
           \/ IdleStop(s)
    \/ \E r \in Viewers : HandlerStep(r) \/ ClientStep(r) \/ AssetStep(r)
    \/ \E w \in Writers : LockBarrier(w) \/ BarrierStep(w)
    \/ \E o \in Sessions : ExpireSession(o)
    \/ Quiet

Spec == Init /\ [][Next]_vars

(* The goroutines of the server run, a process that was killed dies, a      *)
(* start meets its timeouts, and waits have deadlines.  The fairness of     *)
(* handlers is strong: when a writer unlocks hlsLifeMu, a sync.RWMutex lets *)
(* the readers that wait pass before the next writer.  FFmpeg need not      *)
(* finish, and clients owe nothing: they may stall in the middle of an      *)
(* asset, leave without a word, or never come.  Before the shutdown, main   *)
(* closes their connections, so no response goes on for ever after it.      *)
Fairness ==
    /\ \A s \in Streams :
           /\ WF_vars(StartStep(s)) /\ WF_vars(CleanupStep(s))
           /\ WF_vars(StoppedRetention(s))
    /\ \A r \in Viewers :
           SF_vars(HandlerStep(r)) /\ WF_vars(ClosedConnection(r))
    /\ \A w \in Writers : WF_vars(BarrierStep(w))

FairSpec == Spec /\ Fairness

-----------------------------------------------------------------------------
(* Properties.                                                             *)

\* Every variable keeps its type; no counter falls below zero.
TypeOK ==
    /\ lifeMu \in Writers \cup {NoWriter} /\ closing \in BOOLEAN
    /\ sess \subseteq Sessions /\ active \in Nat /\ starts \in Nat
    /\ st \in [Streams -> PendingStates \cup
                   {"free", "live", "retained", "removing", "rejected",
                    "failed", "over"}]
    /\ key \in [Streams -> Paths \cup {NoPath}]
    /\ left \in [Streams -> Nat]
    /\ stopped \subseteq Streams /\ login \subseteq Streams
    /\ dir \subseteq Streams
    /\ refs \in [Streams -> [Sessions -> Nat]]
    /\ proc \in [Streams -> {"none", "running", "complete", "broken"}]
    /\ version \in [Paths -> Nat] /\ reads \in [Streams -> SUBSET Nat]
    /\ viewer \in [Viewers ->
           [pc : {"idle", "asking", "blocked", "waiting", "watching", "found",
                  "serving", "leaving"}, id : Streams \cup {NoStream}]]
    /\ writer \in [Writers ->
           [pc : {"idle", "waiting", "clear", "done"}, waits : SUBSET Streams,
            timed : BOOLEAN]]

\* hlsActive and hlsStarts count the running and the pending streams exactly
\* over every failure, cancellation and time-out: the limit neither leaks a
\* slot nor hands one out twice.
SlotsAreExact ==
    /\ active = Cardinality({s \in Streams : st[s] = "live"})
    /\ starts = Cardinality({s \in Streams : Pending(s)})
    /\ active + starts <= MaxStreams

\* A file has at most one pending start and at most one stream that can be
\* joined, so viewers of one file share one FFmpeg process.
OneStreamPerFile ==
    \A s, u \in Known :
        /\ key[s] = key[u] /\ s # u
        /\ Pending(s) \/ Joinable(s, key[s])
        => ~Pending(u) /\ ~Joinable(u, key[u])

Serving(r, s) == At(r, "serving") /\ viewer[r].id = s

Attached(r, s) ==
    /\ viewer[r].pc \in {"waiting", "watching", "found", "serving"}
    /\ viewer[r].id = s

\* No reference is stranded: each one of a stream belongs to a viewer that has
\* not left, whichever way the others left, so the last one stops FFmpeg.
NoStrandedReference ==
    \A s \in Known, o \in Sessions :
        refs[s][o] <=
            Cardinality({r \in Viewers : OwnerOf[r] = o /\ Attached(r, s)})

\* After a logout no start and no running stream is held by the session, even
\* one whose request had been authorised before the logout.
LoggedOutOwnsNothing ==
    \A w \in Writers : KindOf[w] = "logout" /\ InBarrier(w, "done") =>
        \A s \in Known : refs[s][LogoutOf[w]] = 0

\* When a stream has ended nothing is left of it: no process, no internal
\* session that could still read the vault, no decrypted segments on disk.
EndedLeavesNothing ==
    \A s \in Streams : st[s] \in {"failed", "over"} =>
        proc[s] # "running" /\ s \notin login /\ s \notin dir

\* Past its barrier a writer has the files for itself: nothing of them is
\* pending or listed, and no response of a stream that it asked to stop is
\* still under way.  After Shutdown no stream is known for good.
BarrierIsExclusive ==
    \A w \in Writers :
        /\ KindOf[w] # "logout" /\ InBarrier(w, "clear") =>
               /\ \A p \in (IF KindOf[w] = "replace" THEN FilesOf[w] ELSE Paths) :
                      KnownAt(p) = {}
               /\ \A s \in writer[w].waits, r \in Viewers : ~Serving(r, s)
        /\ KindOf[w] = "shutdown" /\ InBarrier(w, "done") => Known = {}

\* Listed streams keep the lease of the abstract specification: they show one
\* version, the current one, and no file is replaced under them, so no request
\* finds replaced content.
Lease == INSTANCE PlaybackLease WITH
    listed <- {[stream |-> s, path |-> key[s], shows |-> reads[s]] :
                   s \in {u \in Streams : Registered(u)}}
ImplementsLease == Lease!LeaseSpec

\* Every start is answered, with a stream or an error, also when the start it
\* joined is cancelled by somebody else.
StartsAnswered ==
    \A r \in Viewers :
        viewer[r].pc \in {"asking", "blocked", "waiting"} ~>
        viewer[r].pc \notin {"asking", "blocked", "waiting"}

\* A stream that is asked to stop gives its slot and its process back.
StoppedFreesSlot ==
    \A s \in Streams :
        s \in stopped ~> ~Pending(s) /\ st[s] # "live" /\ proc[s] # "running"

\* Its segments go too, unless a client keeps a response open for ever.
StoppedIsRemoved ==
    \A s \in Streams :
        s \in stopped ~> st[s] \in {"failed", "over"} \/ ~Unread(s)

\* A stop is carried out in full.
StopsComplete == StoppedFreesSlot /\ StoppedIsRemoved

\* No barrier is held for ever, whatever FFmpeg and the clients do.
BarrierReleased == lifeMu # NoWriter ~> lifeMu = NoWriter
=============================================================================
