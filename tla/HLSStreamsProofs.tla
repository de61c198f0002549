--------------------------- MODULE HLSStreamsProofs ---------------------------
(***************************************************************************)
(* Proofs about HLSStreams for any number of sessions, viewers, files,     *)
(* barriers and streams: slots are counted exactly, a stream that ended    *)
(* leaves nothing, viewers of a file share one stream, no reference is     *)
(* stranded, a barrier has its files for itself, and what is listed keeps  *)
(* the lease of PlaybackLease.                                             *)
(***************************************************************************)
EXTENDS HLSStreams, FiniteSetTheorems, WellFoundedInduction, TLAPS

\* The steps of one stream, one viewer and one barrier.
StreamStep(s) ==
    \/ BeginStart(s) \/ LaunchFFmpeg(s) \/ ProfileFails(s) \/ FFmpegReady(s)
    \/ CompleteStart(s) \/ ReapRejected(s) \/ StreamFinished(s) \/ RemoveDir(s)
    \/ RetentionEnds(s) \/ StartupTimeout(s) \/ ReadContent(s)
    \/ ProcessExits(s) \/ IdleStop(s)

ViewerStep(r) == HandlerStep(r) \/ ClientStep(r) \/ AssetStep(r)
WriterStep(w) == LockBarrier(w) \/ BarrierStep(w)

LEMMA Steps ==
    ASSUME [Next]_vars
    PROVE  \/ \E s \in Streams : StreamStep(s)
           \/ \E r \in Viewers : ViewerStep(r)
           \/ \E w \in Writers : WriterStep(w)
           \/ \E o \in Sessions : ExpireSession(o)
           \/ UNCHANGED vars
<1>1. ASSUME NEW s \in Streams,
             \/ StartStep(s) \/ CleanupStep(s) \/ RetentionEnds(s)
             \/ StartupTimeout(s) \/ ReadContent(s) \/ ProcessExits(s)
             \/ IdleStop(s)
      PROVE  StreamStep(s)
  BY <1>1 DEF StartStep, CleanupStep, Killed, StreamStep
<1>. QED
  BY <1>1 DEF Next, Quiet, ViewerStep, WriterStep

-----------------------------------------------------------------------------
(* What each actor leaves alone.                                           *)

LEMMA StreamFrame ==
    ASSUME NEW s \in Streams, StreamStep(s)
    PROVE  UNCHANGED <<lifeMu, closing, sess, key, refs, version, viewer, writer>>
<1>. USE DEF server, goroutine, ffmpeg, owners
<1>1. CASE FailStart(s)
  BY <1>1 DEF FailStart
<1>2. CASE BeginStart(s) \/ LaunchFFmpeg(s) \/ ProfileFails(s)
  BY <1>1, <1>2 DEF BeginStart, LaunchFFmpeg, ProfileFails
<1>3. CASE FFmpegReady(s) \/ CompleteStart(s) \/ ReapRejected(s) \/ StreamFinished(s)
  BY <1>3 DEF FFmpegReady, CompleteStart, ReapRejected, StreamFinished
<1>4. CASE \/ RemoveDir(s) \/ RetentionEnds(s) \/ StartupTimeout(s)
           \/ ReadContent(s) \/ ProcessExits(s) \/ IdleStop(s)
  BY <1>4 DEF RemoveDir, RetentionEnds, StartupTimeout, ReadContent, ProcessExits, IdleStop
<1>. QED
  BY <1>2, <1>3, <1>4 DEF StreamStep

LEMMA ViewerFrame ==
    ASSUME NEW r \in Viewers, ViewerStep(r)
    PROVE  /\ UNCHANGED <<lifeMu, closing, sess, active, left, ffmpeg, version, writer>>
           /\ RegisterStart(r) \/ UNCHANGED <<starts, st, key>>
           /\ \E pc \in {"idle", "asking", "blocked", "waiting", "watching",
                         "found", "serving", "leaving"} :
                  \E id : Goes(r, pc, id)
<1>. USE DEF server, goroutine, owners
<1>1. CASE RefuseStart(r) \/ AwaitCancelled(r) \/ Retry(r) \/ StartAnswered(r)
  BY <1>1 DEF RefuseStart, AwaitCancelled, Retry, StartAnswered
<1>2. CASE JoinStream(r) \/ JoinPending(r) \/ RegisterStart(r)
  BY <1>2 DEF JoinStream, JoinPending, RegisterStart
<1>3. CASE ClientStep(r)
  BY <1>3 DEF ClientStep, Arrive, GiveUp, Disconnect, StopPlayback, ReleaseAgain, Leave
<1>4. CASE AssetStep(r)
  BY <1>4 DEF AssetStep, RequestAsset, ServeAsset, AssetMissing, AssetServed
<1>. QED
  BY <1>1, <1>2, <1>3, <1>4 DEF ViewerStep, HandlerStep

LEMMA WriterFrame ==
    ASSUME NEW w \in Writers, WriterStep(w)
    PROVE  UNCHANGED <<active, starts, goroutine, proc, dir, reads, viewer>>
BY DEF WriterStep, LockBarrier, BarrierStep, StreamsEnded, BarrierTimeout, ReplaceFiles,
   AbandonBarrier, Logout, DeleteVault, ShutdownReturns, server, goroutine, ffmpeg

-----------------------------------------------------------------------------
(* Type correctness, one part of the state after the other.                *)

ServerOK ==
    /\ lifeMu \in Writers \cup {NoWriter} /\ closing \in BOOLEAN
    /\ sess \subseteq Sessions

CountersOK == active \in Nat /\ starts \in Nat

GoroutineOK ==
    /\ st \in [Streams -> PendingStates \cup
                   {"free", "live", "retained", "removing", "rejected",
                    "failed", "over"}]
    /\ key \in [Streams -> Paths \cup {NoPath}]
    /\ left \in [Streams -> Nat]

FFmpegOK ==
    /\ login \subseteq Streams /\ dir \subseteq Streams
    /\ proc \in [Streams -> {"none", "running", "complete", "broken"}]
    /\ reads \in [Streams -> SUBSET Nat]

OwnersOK ==
    /\ stopped \subseteq Streams
    /\ refs \in [Streams -> [Sessions -> Nat]]

VersionOK == version \in [Paths -> Nat]

ViewerOK ==
    viewer \in [Viewers ->
        [pc : {"idle", "asking", "blocked", "waiting", "watching", "found",
               "serving", "leaving"}, id : Streams \cup {NoStream}]]

WriterOK ==
    writer \in [Writers ->
        [pc : {"idle", "waiting", "clear", "done"}, waits : SUBSET Streams,
         timed : BOOLEAN]]

LEMMA TypeParts ==
    TypeOK <=> /\ ServerOK /\ CountersOK /\ GoroutineOK /\ FFmpegOK /\ OwnersOK
               /\ VersionOK /\ ViewerOK /\ WriterOK
BY DEF TypeOK, ServerOK, CountersOK, GoroutineOK, FFmpegOK, OwnersOK, VersionOK, ViewerOK,
   WriterOK

\* The stream a new start gets is the first unused one.
FirstUnused == CHOOSE s \in Unused : \A u \in Unused : s <= u

LEMMA FirstUnusedExists ==
    ASSUME Unused # {}
    PROVE  FirstUnused \in Streams /\ st[FirstUnused] = "free"
<1>1. Unused \subseteq Nat
  BY HLSBoundsAssumption DEF Unused, Streams
<1>2. PICK s \in Unused : \A u \in Unused : ~ (<<u, s>> \in OpToRel(<, Nat))
  BY <1>1, NatLessThanWellFounded, WFMin
<1>3. \A u \in Unused : s <= u
  <2>1. SUFFICES ASSUME NEW u \in Unused, u < s PROVE FALSE
    BY <1>1
  <2>2. <<u, s>> \in OpToRel(<, Nat)
    BY <1>1, <2>1 DEF OpToRel
  <2>. QED
    BY <1>2, <2>2
<1>4. FirstUnused \in Unused
  BY <1>3 DEF FirstUnused
<1>. QED
  BY <1>4 DEF Unused

LEMMA Registers ==
    ASSUME NEW r \in Viewers, RegisterStart(r)
    PROVE  \E s \in Streams :
               /\ st[s] = "free" /\ Moves(s, "queued")
               /\ key' = [key EXCEPT ![s] = PathOf[r]]
               /\ AddRef(s, OwnerOf[r]) /\ Goes(r, "waiting", s)
               /\ starts' = starts + 1 /\ UNCHANGED stopped
<1>1. Unused # {}
  BY DEF RegisterStart, Full
<1>. QED
  BY <1>1, FirstUnusedExists DEF RegisterStart, FirstUnused

LEMMA AddRefTypes ==
    ASSUME OwnersOK, NEW s \in Streams, NEW o \in Sessions, AddRef(s, o)
    PROVE  refs' \in [Streams -> [Sessions -> Nat]]
<1>1. refs[s] \in [Sessions -> Nat] /\ refs[s][o] + 1 \in Nat
  BY DEF OwnersOK
<1>2. refs' = [refs EXCEPT ![s] = [refs[s] EXCEPT ![o] = refs[s][o] + 1]]
  BY DEF AddRef
<1>. QED
  BY <1>1, <1>2 DEF OwnersOK

LEMMA ReleaseTypes ==
    ASSUME OwnersOK, NEW ids \in SUBSET Streams, NEW o, Release(ids, o)
    PROVE  OwnersOK'
<1>1. refs' \in [Streams -> [Sessions -> Nat]]
  <2>1. \A s \in Streams, q \in Sessions : refs[s][o] > 0 /\ q = o => refs[s][q] - 1 \in Nat
    BY DEF OwnersOK
  <2>. QED
    BY <2>1 DEF OwnersOK, Release
<1>. QED
  BY <1>1 DEF OwnersOK, Release

LEMMA ReleaseAllTypes ==
    ASSUME OwnersOK, NEW o, ReleaseAll(o)
    PROVE  OwnersOK'
BY DEF OwnersOK, ReleaseAll, Owned, Known

\* What there is of a stream in each state of its goroutines.
LifeOK ==
    \A s \in Streams :
        /\ st[s] \in {"free", "queued", "failed"} =>
               proc[s] = "none" /\ s \notin login /\ s \notin dir
        /\ st[s] = "trying" => proc[s] = "none"
        /\ st[s] \in {"retained", "removing", "over"} =>
               proc[s] # "running" /\ s \notin login
        /\ st[s] = "over" => s \notin dir
        /\ st[s] = "free" =>
               s \notin stopped /\ \A o \in Sessions : refs[s][o] = 0
        /\ st[s] # "free" => key[s] \in Paths

LEMMA StreamTypes ==
    ASSUME GoroutineOK, FFmpegOK, OwnersOK, VersionOK, LifeOK,
           NEW s \in Streams, StreamStep(s)
    PROVE  GoroutineOK' /\ FFmpegOK' /\ stopped' \subseteq Streams
<1>. USE DEF goroutine, ffmpeg, owners, GoroutineOK, FFmpegOK, OwnersOK, Moves, PendingStates
<1>1. CASE FailStart(s)
  BY <1>1 DEF FailStart
<1>2. CASE BeginStart(s) /\ ~FailStart(s)
  <2>1. PICK n \in 0 .. MaxFallbacks : left' = [left EXCEPT ![s] = n]
    BY <1>2 DEF BeginStart
  <2>2. n \in Nat
    BY <2>1, HLSBoundsAssumption
  <2>. QED
    BY <1>2, <2>1, <2>2 DEF BeginStart
<1>3. CASE ProfileFails(s) /\ ~FailStart(s)
  <2>1. ~(s \in stopped \/ left[s] = 0)
    BY <1>3, Zenon DEF ProfileFails
  <2>2. left[s] - 1 \in Nat
    BY <2>1
  <2>3. /\ Moves(s, "trying") /\ left' = [left EXCEPT ![s] = left[s] - 1]
        /\ proc' = [proc EXCEPT ![s] = "none"]
        /\ UNCHANGED <<key, login, dir, reads, owners>>
    BY <1>3, <2>1, Zenon DEF ProfileFails
  <2>. QED
    BY <2>2, <2>3
<1>4. CASE LaunchFFmpeg(s)
  BY <1>4 DEF LaunchFFmpeg
<1>5. CASE FFmpegReady(s) \/ CompleteStart(s) \/ ReapRejected(s)
  BY <1>5 DEF FFmpegReady, CompleteStart, ReapRejected
<1>6. CASE \/ StreamFinished(s) \/ RemoveDir(s) \/ RetentionEnds(s)
           \/ StartupTimeout(s) \/ IdleStop(s)
  BY <1>6 DEF StreamFinished, RemoveDir, RetentionEnds, StartupTimeout, IdleStop
<1>7. CASE ReadContent(s)
  <2>1. version[key[s]] \in Nat
    BY <1>7 DEF ReadContent, LifeOK, VersionOK
  <2>. QED
    BY <1>7, <2>1 DEF ReadContent
<1>8. CASE ProcessExits(s)
  BY <1>8 DEF ProcessExits
<1>. QED
  BY <1>1, <1>2, <1>3, <1>4, <1>5, <1>6, <1>7, <1>8 DEF StreamStep

\* Streams a viewer waits for, watches or is served from.
Attaching == {"blocked", "waiting", "watching", "found", "serving"}

\* A viewer is at a stream of its file, and is served only while the
\* segments are there.
AtItsStream(r) ==
    LET s == viewer[r].id
    IN /\ viewer[r].pc \in Attaching =>
              s \in Streams /\ st[s] # "free" /\ key[s] = PathOf[r]
       /\ At(r, "found") => st[s] \in {"live", "retained", "removing", "over"}
       /\ At(r, "serving") => st[s] \in {"live", "retained", "removing"}

ViewersAtStreams == \A r \in Viewers : AtItsStream(r)

LEMMA ViewerTypes ==
    ASSUME GoroutineOK, OwnersOK, ViewerOK, ViewersAtStreams,
           NEW r \in Viewers, ViewerStep(r)
    PROVE  ViewerOK' /\ OwnersOK' /\ GoroutineOK'
<1>. USE ViewersAssumption
<1>0. OwnerOf[r] \in Sessions /\ PathOf[r] \in Paths /\ NoStream \in Streams \cup {NoStream}
  OBVIOUS
<1>1. \A pc \in {"idle", "asking", "blocked", "waiting", "watching", "found",
                 "serving", "leaving"}, s \in Streams \cup {NoStream} :
          Goes(r, pc, s) => ViewerOK'
  BY DEF ViewerOK, Goes
<1>2. viewer[r].pc \in Attaching => viewer[r].id \in Streams
  BY DEF ViewersAtStreams, AtItsStream
<1>3. viewer[r].id \in Streams \cup {NoStream}
  BY DEF ViewerOK
<1>4. KnownAt(PathOf[r]) \in SUBSET Streams /\ Known \cap {viewer[r].id} \in SUBSET Streams
  BY DEF KnownAt, Known
<1>5. CASE \/ RefuseStart(r) \/ AwaitCancelled(r) \/ Retry(r) \/ StartAnswered(r)
           \/ Arrive(r) \/ GiveUp(r) \/ Leave(r) \/ AssetStep(r)
  <2>1. UNCHANGED <<goroutine, owners>>
    BY <1>5 DEF RefuseStart, AwaitCancelled, Retry, StartAnswered, Arrive, GiveUp, Leave,
       AssetStep, RequestAsset, ServeAsset, AssetMissing, AssetServed
  <2>2. \/ Goes(r, "idle", NoStream) \/ Goes(r, "asking", NoStream)
        \/ Goes(r, "watching", viewer[r].id)
        \/ Goes(r, "found", viewer[r].id) \/ Goes(r, "serving", viewer[r].id)
        \/ \E s \in Streams : Goes(r, "blocked", s)
    <3>1. CASE RefuseStart(r) \/ Retry(r) \/ Arrive(r) \/ GiveUp(r) \/ Leave(r)
      BY <3>1 DEF RefuseStart, Retry, Arrive, GiveUp, Leave
    <3>2. CASE AwaitCancelled(r)
      BY <3>2 DEF AwaitCancelled, KnownAt, Known
    <3>3. CASE StartAnswered(r)
      BY <3>3, Zenon DEF StartAnswered
    <3>4. CASE AssetStep(r)
      BY <3>4 DEF AssetStep, RequestAsset, ServeAsset, AssetMissing, AssetServed
    <3>. QED
      BY <1>5, <3>1, <3>2, <3>3, <3>4
  <2>3. ViewerOK'
    BY <1>1, <1>3, <2>2
  <2>. QED
    BY <2>1, <2>3 DEF OwnersOK, GoroutineOK, goroutine, owners
<1>6. CASE JoinStream(r) \/ JoinPending(r)
  <2>1. PICK s \in Streams :
            AddRef(s, OwnerOf[r]) /\ (Goes(r, "watching", s) \/ Goes(r, "waiting", s))
    BY <1>6 DEF JoinStream, JoinPending, KnownAt, Known
  <2>2. UNCHANGED <<goroutine, stopped>>
    BY <1>6 DEF JoinStream, JoinPending
  <2>. QED
    BY <1>0, <1>1, <2>1, <2>2, AddRefTypes DEF OwnersOK, GoroutineOK, goroutine
<1>7. CASE RegisterStart(r)
  <2>1. PICK s \in Streams :
            /\ st[s] = "free" /\ Moves(s, "queued")
            /\ key' = [key EXCEPT ![s] = PathOf[r]]
            /\ AddRef(s, OwnerOf[r]) /\ Goes(r, "waiting", s)
            /\ starts' = starts + 1 /\ UNCHANGED stopped
    BY <1>7, Registers
  <2>2. UNCHANGED left
    BY <1>7 DEF RegisterStart
  <2>3. GoroutineOK'
    BY <1>0, <2>1, <2>2 DEF GoroutineOK, Moves, PendingStates
  <2>. QED
    BY <1>0, <1>1, <2>1, <2>3, AddRefTypes DEF OwnersOK
<1>8. CASE Disconnect(r) \/ StopPlayback(r) \/ ReleaseAgain(r)
  <2>1. UNCHANGED goroutine
    BY <1>8 DEF Disconnect, StopPlayback, ReleaseAgain
  <2>2. Goes(r, "leaving", viewer[r].id) \/ Goes(r, "idle", NoStream)
    BY <1>8 DEF Disconnect, StopPlayback, ReleaseAgain
  <2>3. \/ Release(Known \cap {viewer[r].id}, OwnerOf[r])
        \/ Release(KnownAt(PathOf[r]), OwnerOf[r])
    BY <1>8 DEF Disconnect, StopPlayback, ReleaseAgain
  <2>. QED
    BY <1>1, <1>3, <1>4, <2>1, <2>2, <2>3, ReleaseTypes DEF GoroutineOK, goroutine
<1>. QED
  BY <1>5, <1>6, <1>7, <1>8 DEF ViewerStep, HandlerStep, ClientStep

LEMMA TargetsAreStreams ==
    ASSUME NEW w \in Writers
    PROVE  Targets(w) \subseteq Streams
BY BarriersAssumption DEF Targets, Known, Owned

LEMMA WriterTypes ==
    ASSUME ServerOK, FFmpegOK, OwnersOK, VersionOK, WriterOK,
           NEW w \in Writers, WriterStep(w)
    PROVE  ServerOK' /\ login' \subseteq Streams /\ OwnersOK' /\ VersionOK' /\ WriterOK'
<1>. USE BarriersAssumption DEF server, ffmpeg, owners
<1>1. \A pc \in {"idle", "done"} : Released(w, pc) => WriterOK' /\ lifeMu' = NoWriter
  BY DEF Released, WriterOK
<1>2. CASE LockBarrier(w)
  <2>1. OwnersOK'
    BY <1>2, TargetsAreStreams, ReleaseAllTypes DEF LockBarrier, OwnersOK
  <2>2. WriterOK'
    BY <1>2, TargetsAreStreams DEF LockBarrier, WriterOK, Deadline, ServerOK
  <2>. QED
    BY <1>2, <2>1, <2>2 DEF LockBarrier, ServerOK, FFmpegOK, VersionOK
<1>3. CASE StreamsEnded(w)
  <2>1. WriterOK'
    BY <1>3 DEF StreamsEnded, WriterOK
  <2>. QED
    BY <1>3, <2>1 DEF StreamsEnded, ServerOK, FFmpegOK, OwnersOK, VersionOK
<1>4. CASE \/ BarrierTimeout(w) \/ AbandonBarrier(w) \/ Logout(w) \/ ShutdownReturns(w)
  BY <1>1, <1>4 DEF BarrierTimeout, AbandonBarrier, Logout, ShutdownReturns, ServerOK, FFmpegOK,
     OwnersOK, VersionOK
<1>5. CASE ReplaceFiles(w) \/ DeleteVault(w)
  <2>1. VersionOK'
    BY <1>5 DEF ReplaceFiles, DeleteVault, VersionOK
  <2>. QED
    BY <1>1, <1>5, <2>1 DEF ReplaceFiles, DeleteVault, ServerOK, FFmpegOK, OwnersOK
<1>. QED
  BY <1>2, <1>3, <1>4, <1>5 DEF WriterStep, BarrierStep

\* The counters follow from SlotsAreExact, all else from the lemmas above.
LEMMA Types ==
    ASSUME TypeOK, LifeOK, ViewersAtStreams, [Next]_vars
    PROVE  /\ ServerOK' /\ GoroutineOK' /\ FFmpegOK' /\ OwnersOK' /\ VersionOK'
           /\ ViewerOK' /\ WriterOK'
<1>. USE TypeParts
<1>1. ASSUME NEW s \in Streams, StreamStep(s)
      PROVE  /\ ServerOK' /\ GoroutineOK' /\ FFmpegOK' /\ OwnersOK' /\ VersionOK'
             /\ ViewerOK' /\ WriterOK'
  BY <1>1, StreamFrame, StreamTypes DEF ServerOK, OwnersOK, VersionOK, ViewerOK, WriterOK
<1>2. ASSUME NEW r \in Viewers, ViewerStep(r)
      PROVE  /\ ServerOK' /\ GoroutineOK' /\ FFmpegOK' /\ OwnersOK' /\ VersionOK'
             /\ ViewerOK' /\ WriterOK'
  BY <1>2, ViewerFrame, ViewerTypes DEF ServerOK, FFmpegOK, VersionOK, WriterOK, ffmpeg
<1>3. ASSUME NEW w \in Writers, WriterStep(w)
      PROVE  /\ ServerOK' /\ GoroutineOK' /\ FFmpegOK' /\ OwnersOK' /\ VersionOK'
             /\ ViewerOK' /\ WriterOK'
  BY <1>3, WriterFrame, WriterTypes DEF GoroutineOK, FFmpegOK, ViewerOK, goroutine
<1>4. ASSUME NEW o \in Sessions, ExpireSession(o)
      PROVE  /\ ServerOK' /\ GoroutineOK' /\ FFmpegOK' /\ OwnersOK' /\ VersionOK'
             /\ ViewerOK' /\ WriterOK'
  BY <1>4 DEF ExpireSession, ServerOK, GoroutineOK, FFmpegOK, OwnersOK, VersionOK, ViewerOK,
     WriterOK, goroutine, ffmpeg, owners
<1>5. CASE UNCHANGED vars
  BY <1>5 DEF vars, server, goroutine, ffmpeg, owners, ServerOK, GoroutineOK, FFmpegOK, OwnersOK,
     VersionOK, ViewerOK, WriterOK
<1>. QED
  BY <1>1, <1>2, <1>3, <1>4, <1>5, Steps

-----------------------------------------------------------------------------
(* The life of a stream.                                                   *)

\* A step of one stream leaves the others alone, and stops nobody's stop.
LEMMA OtherStreams ==
    ASSUME GoroutineOK, FFmpegOK, OwnersOK, NEW s \in Streams, StreamStep(s)
    PROVE  /\ stopped \subseteq stopped'
           /\ \A u \in Streams \ {s} :
                  /\ st'[u] = st[u] /\ proc'[u] = proc[u] /\ reads'[u] = reads[u]
                  /\ u \in login' <=> u \in login
                  /\ u \in dir' <=> u \in dir
                  /\ u \in stopped' <=> u \in stopped
<1>. USE DEF goroutine, ffmpeg, owners, GoroutineOK, FFmpegOK, OwnersOK, Moves
<1>1. CASE FailStart(s)
  BY <1>1 DEF FailStart
<1>2. CASE (BeginStart(s) /\ ~FailStart(s)) \/ LaunchFFmpeg(s)
  BY <1>2 DEF BeginStart, LaunchFFmpeg
<1>3. CASE ProfileFails(s) /\ ~FailStart(s)
  <2>1. ~(s \in stopped \/ left[s] = 0)
    BY <1>3, Zenon DEF ProfileFails
  <2>2. /\ Moves(s, "trying") /\ proc' = [proc EXCEPT ![s] = "none"]
        /\ UNCHANGED <<login, dir, reads, owners>>
    BY <1>3, <2>1, Zenon DEF ProfileFails
  <2>. QED
    BY <2>2
<1>4. CASE FFmpegReady(s) \/ CompleteStart(s) \/ ReapRejected(s)
  BY <1>4 DEF FFmpegReady, CompleteStart, ReapRejected
<1>5. CASE \/ StreamFinished(s) \/ RemoveDir(s) \/ RetentionEnds(s)
           \/ StartupTimeout(s) \/ IdleStop(s)
  BY <1>5 DEF StreamFinished, RemoveDir, RetentionEnds, StartupTimeout, IdleStop
<1>6. CASE ReadContent(s) \/ ProcessExits(s)
  BY <1>6 DEF ReadContent, ProcessExits
<1>. QED
  BY <1>1, <1>2, <1>3, <1>4, <1>5, <1>6 DEF StreamStep

\* How far one step takes a stream.
After(x) ==
    CASE x = "queued" -> {"trying", "failed"}
      [] x = "trying" -> {"trying", "warming", "failed"}
      [] x = "warming" -> {"trying", "ready", "failed"}
      [] x = "ready" -> {"live", "rejected"}
      [] x = "rejected" -> {"failed"}
      [] x = "live" -> {"retained", "removing"}
      [] x = "retained" -> {"removing"}
      [] x = "removing" -> {"over"}
      [] OTHER -> {}

LEMMA StreamMoves ==
    ASSUME GoroutineOK, NEW s \in Streams, StreamStep(s)
    PROVE  st'[s] = st[s] \/ st'[s] \in After(st[s])
<1>. USE DEF goroutine, GoroutineOK, Moves, After
<1>1. CASE BeginStart(s) \/ LaunchFFmpeg(s)
  BY <1>1 DEF BeginStart, LaunchFFmpeg, FailStart
<1>2. CASE ProfileFails(s)
  BY <1>2 DEF ProfileFails, FailStart
<1>3. CASE FFmpegReady(s) \/ CompleteStart(s) \/ ReapRejected(s)
  BY <1>3 DEF FFmpegReady, CompleteStart, ReapRejected
<1>4. CASE \/ StreamFinished(s) \/ RemoveDir(s) \/ RetentionEnds(s)
  BY <1>4 DEF StreamFinished, RemoveDir, RetentionEnds
<1>5. CASE StartupTimeout(s) \/ IdleStop(s) \/ ReadContent(s) \/ ProcessExits(s)
  BY <1>5 DEF StartupTimeout, IdleStop, ReadContent, ProcessExits
<1>. QED
  BY <1>1, <1>2, <1>3, <1>4, <1>5 DEF StreamStep

\* The clauses of LifeOK about one stream that concern its own goroutines.
Alive(s) ==
    /\ st[s] \in {"free", "queued", "failed"} =>
           proc[s] = "none" /\ s \notin login /\ s \notin dir
    /\ st[s] = "trying" => proc[s] = "none"
    /\ st[s] \in {"retained", "removing", "over"} =>
           proc[s] # "running" /\ s \notin login
    /\ st[s] = "over" => s \notin dir

LEMMA LifeParts ==
    LifeOK <=> \A s \in Streams :
        /\ Alive(s)
        /\ st[s] = "free" => s \notin stopped /\ \A o \in Sessions : refs[s][o] = 0
        /\ st[s] # "free" => key[s] \in Paths
BY DEF LifeOK, Alive

LEMMA StreamAlive ==
    ASSUME GoroutineOK, FFmpegOK, LifeOK, NEW s \in Streams, StreamStep(s)
    PROVE  Alive(s)' /\ st'[s] # "free" /\ st[s] # "free"
<1>. USE DEF goroutine, ffmpeg, GoroutineOK, FFmpegOK, Moves, Alive
<1>0. Alive(s)
  BY LifeParts
<1>1. CASE FailStart(s) /\ st[s] # "free"
  BY <1>1 DEF FailStart
<1>2. CASE BeginStart(s)
  BY <1>0, <1>1, <1>2 DEF BeginStart
<1>3. CASE ProfileFails(s)
  <2>1. CASE s \in stopped \/ left[s] = 0
    BY <1>1, <1>3, <2>1 DEF ProfileFails
  <2>2. CASE ~(s \in stopped \/ left[s] = 0)
    BY <1>0, <1>3, <2>2 DEF ProfileFails
  <2>. QED
    BY <2>1, <2>2
<1>4. CASE LaunchFFmpeg(s) \/ FFmpegReady(s) \/ CompleteStart(s)
  BY <1>0, <1>4 DEF LaunchFFmpeg, FFmpegReady, CompleteStart
<1>5. CASE ReapRejected(s) \/ StreamFinished(s)
  BY <1>0, <1>5 DEF ReapRejected, StreamFinished
<1>6. CASE RemoveDir(s) \/ RetentionEnds(s)
  BY <1>0, <1>6 DEF RemoveDir, RetentionEnds
<1>7. CASE StartupTimeout(s) \/ IdleStop(s)
  BY <1>0, <1>7 DEF StartupTimeout, IdleStop, Pending, PendingStates
<1>8. CASE ReadContent(s) \/ ProcessExits(s)
  BY <1>0, <1>8 DEF ReadContent, ProcessExits
<1>. QED
  BY <1>2, <1>3, <1>4, <1>5, <1>6, <1>7, <1>8 DEF StreamStep

\* References and stops of a stream that is not known are left alone.
LEMMA ViewersReachKnown ==
    ASSUME GoroutineOK, OwnersOK, NEW r \in Viewers, ViewerStep(r), ~RegisterStart(r),
           NEW s \in Streams, s \notin Known
    PROVE  refs'[s] = refs[s] /\ (s \in stopped' <=> s \in stopped)
<1>. USE DEF OwnersOK, owners
<1>1. CASE JoinStream(r) \/ JoinPending(r)
  <2>1. PICK u \in Streams : u # s /\ AddRef(u, OwnerOf[r])
    BY <1>1 DEF JoinStream, JoinPending, Joinable, KnownAt, Known, Registered
  <2>2. UNCHANGED stopped
    BY <1>1 DEF JoinStream, JoinPending
  <2>. QED
    BY <2>1, <2>2 DEF AddRef
<1>2. CASE Disconnect(r) \/ StopPlayback(r) \/ ReleaseAgain(r)
  <2>1. \E ids \in SUBSET Streams : s \notin ids /\ Release(ids, OwnerOf[r])
    BY <1>2 DEF Disconnect, StopPlayback, ReleaseAgain, KnownAt, Known
  <2>. QED
    BY <2>1 DEF Release
<1>3. CASE \/ RefuseStart(r) \/ AwaitCancelled(r) \/ Retry(r) \/ StartAnswered(r)
           \/ Arrive(r) \/ GiveUp(r) \/ Leave(r) \/ AssetStep(r)
  BY <1>3 DEF RefuseStart, AwaitCancelled, Retry, StartAnswered, Arrive, GiveUp, Leave,
     AssetStep, RequestAsset, ServeAsset, AssetMissing, AssetServed
<1>. QED
  BY <1>1, <1>2, <1>3 DEF ViewerStep, HandlerStep, ClientStep

LEMMA WritersReachKnown ==
    ASSUME GoroutineOK, OwnersOK, NEW w \in Writers, WriterStep(w),
           NEW s \in Streams, s \notin Known
    PROVE  /\ refs'[s] = refs[s] /\ (s \in stopped' <=> s \in stopped)
           /\ login' \subseteq login
<1>. USE DEF OwnersOK, owners, ffmpeg
<1>1. CASE LockBarrier(w)
  <2>1. s \notin Targets(w)
    BY BarriersAssumption DEF Targets, Owned
  <2>. QED
    BY <1>1, <2>1 DEF LockBarrier, ReleaseAll, Owned
<1>2. CASE BarrierStep(w)
  BY <1>2 DEF BarrierStep, StreamsEnded, BarrierTimeout, ReplaceFiles, AbandonBarrier, Logout,
     DeleteVault, ShutdownReturns
<1>. QED
  BY <1>1, <1>2 DEF WriterStep

LEMMA LifeStep ==
    ASSUME TypeOK, LifeOK, [Next]_vars
    PROVE  LifeOK'
<1>. USE TypeParts, ViewersAssumption
<1>1. ASSUME NEW s \in Streams, StreamStep(s) PROVE LifeOK'
  <2>1. \A u \in Streams \ {s} : Alive(u)' /\ (u \in stopped' <=> u \in stopped)
    BY <1>1, OtherStreams, LifeParts DEF Alive
  <2>2. UNCHANGED <<refs, key>>
    BY <1>1, StreamFrame
  <2>3. \A u \in Streams \ {s} : st'[u] = st[u]
    BY <1>1, OtherStreams
  <2>. QED
    BY <1>1, <2>1, <2>2, <2>3, StreamAlive DEF LifeOK, Alive
<1>2. ASSUME NEW r \in Viewers, ViewerStep(r) PROVE LifeOK'
  <2>1. UNCHANGED <<proc, login, dir>>
    BY <1>2, ViewerFrame DEF ffmpeg
  <2>2. CASE RegisterStart(r)
    <3>1. PICK s \in Streams :
              /\ st[s] = "free" /\ Moves(s, "queued")
              /\ key' = [key EXCEPT ![s] = PathOf[r]]
              /\ AddRef(s, OwnerOf[r]) /\ Goes(r, "waiting", s)
              /\ starts' = starts + 1 /\ UNCHANGED stopped
      BY <2>2, Registers
    <3>2. /\ \A u \in Streams \ {s} : st'[u] = st[u] /\ key'[u] = key[u] /\ refs'[u] = refs[u]
          /\ st'[s] = "queued" /\ key'[s] \in Paths
      BY <3>1 DEF Moves, AddRef, GoroutineOK, OwnersOK
    <3>. QED
      BY <2>1, <3>1, <3>2 DEF LifeOK
  <2>3. CASE ~RegisterStart(r)
    <3>1. UNCHANGED <<st, key>>
      BY <1>2, <2>3, ViewerFrame
    <3>2. \A s \in Streams : st[s] = "free" =>
              refs'[s] = refs[s] /\ (s \in stopped' <=> s \in stopped)
      BY <1>2, <2>3, ViewersReachKnown DEF Known, Pending, PendingStates, Registered
    <3>. QED
      BY <2>1, <3>1, <3>2 DEF LifeOK
  <2>. QED
    BY <2>2, <2>3
<1>3. ASSUME NEW w \in Writers, WriterStep(w) PROVE LifeOK'
  <2>1. UNCHANGED <<st, key, proc, dir>>
    BY <1>3, WriterFrame DEF goroutine
  <2>2. \A s \in Streams : s \notin login => s \notin login'
    BY <1>3 DEF WriterStep, LockBarrier, BarrierStep, StreamsEnded, BarrierTimeout, ReplaceFiles,
       AbandonBarrier, Logout, DeleteVault, ShutdownReturns, ffmpeg
  <2>3. \A s \in Streams : st[s] = "free" =>
            refs'[s] = refs[s] /\ (s \in stopped' <=> s \in stopped)
    BY <1>3, WritersReachKnown DEF Known, Pending, PendingStates, Registered
  <2>. QED
    BY <2>1, <2>2, <2>3 DEF LifeOK
<1>4. ASSUME NEW o \in Sessions, ExpireSession(o) PROVE LifeOK'
  BY <1>4 DEF ExpireSession, LifeOK, goroutine, ffmpeg, owners
<1>5. CASE UNCHANGED vars
  BY <1>5 DEF vars, goroutine, ffmpeg, owners, LifeOK
<1>. QED
  BY <1>1, <1>2, <1>3, <1>4, <1>5, Steps

\* A known stream was known, or it is a new one that is queued.
LEMMA KnownStep ==
    ASSUME TypeOK, LifeOK, [Next]_vars, NEW s \in Streams
    PROVE  /\ \/ st'[s] = st[s] \/ st'[s] \in After(st[s])
              \/ st[s] = "free" /\ st'[s] = "queued"
           /\ st[s] # "free" => key'[s] = key[s] /\ st'[s] # "free"
           /\ lifeMu # NoWriter \/ closing => (st[s] = "free" <=> st'[s] = "free")
           /\ stopped \subseteq stopped'
<1>. USE TypeParts DEF GoroutineOK
<1>1. ASSUME NEW u \in Streams, StreamStep(u)
      PROVE  /\ st'[s] = st[s] \/ st'[s] \in After(st[s])
             /\ key'[s] = key[s] /\ (st[s] = "free" <=> st'[s] = "free")
             /\ stopped \subseteq stopped'
  BY <1>1, StreamFrame, StreamMoves, OtherStreams, StreamAlive
<1>2. ASSUME NEW r \in Viewers, ViewerStep(r), ~RegisterStart(r)
      PROVE  UNCHANGED <<st, key>> /\ stopped \subseteq stopped'
  <2>1. CASE JoinStream(r) \/ JoinPending(r)
    BY <2>1 DEF JoinStream, JoinPending, goroutine
  <2>2. CASE ClientStep(r)
    BY <2>2 DEF ClientStep, Arrive, GiveUp, Disconnect, StopPlayback, ReleaseAgain, Leave,
       Release, goroutine, owners
  <2>3. CASE RefuseStart(r) \/ AwaitCancelled(r) \/ Retry(r) \/ StartAnswered(r) \/ AssetStep(r)
    BY <2>3 DEF RefuseStart, AwaitCancelled, Retry, StartAnswered, AssetStep, RequestAsset,
       ServeAsset, AssetMissing, AssetServed, goroutine, owners
  <2>. QED
    BY <1>2, <2>1, <2>2, <2>3 DEF ViewerStep, HandlerStep
<1>3. ASSUME NEW r \in Viewers, RegisterStart(r)
      PROVE  /\ st'[s] = st[s] \/ (st[s] = "free" /\ st'[s] = "queued")
             /\ st[s] # "free" => key'[s] = key[s]
             /\ lifeMu = NoWriter /\ ~closing /\ UNCHANGED stopped
  <2>1. PICK u \in Streams :
            /\ st[u] = "free" /\ Moves(u, "queued")
            /\ key' = [key EXCEPT ![u] = PathOf[r]]
            /\ AddRef(u, OwnerOf[r]) /\ Goes(r, "waiting", u)
            /\ starts' = starts + 1 /\ UNCHANGED stopped
    BY <1>3, Registers
  <2>. QED
    BY <1>3, <2>1 DEF RegisterStart, Admitted, Moves
<1>4. ASSUME NEW w \in Writers, WriterStep(w)
      PROVE  UNCHANGED <<st, key>> /\ stopped \subseteq stopped'
  BY <1>4, WriterFrame DEF WriterStep, LockBarrier, BarrierStep, StreamsEnded, BarrierTimeout,
     ReplaceFiles, AbandonBarrier, Logout, DeleteVault, ShutdownReturns, ReleaseAll, goroutine,
     owners
<1>5. ASSUME \/ \E o \in Sessions : ExpireSession(o)
             \/ UNCHANGED vars
      PROVE  UNCHANGED <<st, key, stopped>>
  BY <1>5 DEF ExpireSession, vars, goroutine, owners
<1>. QED
  BY <1>1, <1>2, <1>3, <1>4, <1>5, Steps

-----------------------------------------------------------------------------
(* Slots.                                                                  *)

LEMMA Counting ==
    ASSUME NEW S \in SUBSET Streams, NEW s \in Streams
    PROVE  /\ IsFiniteSet(S) /\ Cardinality(S) \in Nat
           /\ s \notin S => Cardinality(S \cup {s}) = Cardinality(S) + 1
           /\ s \in S => Cardinality(S \ {s}) = Cardinality(S) - 1
<1>1. IsFiniteSet(Streams)
  BY HLSBoundsAssumption, FS_Interval DEF Streams
<1>. QED
  BY <1>1, FS_Subset, FS_CardinalityType, FS_AddElement, FS_RemoveElement

LEMMA CountersStep ==
    ASSUME GoroutineOK, NEW s \in Streams, StreamStep(s)
    PROVE  \/ /\ st'[s] \in PendingStates <=> Pending(s)
              /\ st'[s] = "live" <=> st[s] = "live"
              /\ UNCHANGED <<active, starts>>
           \/ /\ Pending(s) /\ st'[s] \notin PendingStates /\ st'[s] # "live"
              /\ starts' = starts - 1 /\ UNCHANGED active
           \/ /\ Pending(s) /\ st'[s] = "live"
              /\ starts' = starts - 1 /\ active' = active + 1
           \/ /\ st[s] = "live" /\ st'[s] \notin PendingStates /\ st'[s] # "live"
              /\ active' = active - 1 /\ UNCHANGED starts
<1>. USE DEF server, goroutine, GoroutineOK, Moves, Pending, PendingStates
<1>1. CASE FailStart(s) /\ st[s] \in {"queued", "trying", "warming"}
  BY <1>1 DEF FailStart
<1>2. CASE BeginStart(s) \/ ProfileFails(s)
  <2>1. st[s] \in {"queued", "trying", "warming"}
    BY <1>2 DEF BeginStart, ProfileFails
  <2>2. \/ FailStart(s)
        \/ Moves(s, "trying") /\ UNCHANGED server
    <3>1. CASE BeginStart(s)
      BY <3>1 DEF BeginStart
    <3>2. CASE ProfileFails(s)
      BY <3>2, Zenon DEF ProfileFails
    <3>. QED
      BY <1>2, <3>1, <3>2
  <2>. QED
    BY <1>1, <2>1, <2>2
<1>3. CASE LaunchFFmpeg(s) \/ FFmpegReady(s) \/ ReapRejected(s)
  BY <1>3 DEF LaunchFFmpeg, FFmpegReady, ReapRejected
<1>4. CASE CompleteStart(s) \/ StreamFinished(s)
  BY <1>4 DEF CompleteStart, StreamFinished
<1>5. CASE \/ RemoveDir(s) \/ RetentionEnds(s) \/ StartupTimeout(s)
           \/ ReadContent(s) \/ ProcessExits(s) \/ IdleStop(s)
  BY <1>5 DEF RemoveDir, RetentionEnds, StartupTimeout, ReadContent, ProcessExits, IdleStop
<1>. QED
  BY <1>2, <1>3, <1>4, <1>5 DEF StreamStep

LEMMA SlotsStep ==
    ASSUME TypeOK, SlotsAreExact, [Next]_vars
    PROVE  SlotsAreExact' /\ CountersOK'
<1>. USE TypeParts
<1>. DEFINE live == {s \in Streams : st[s] = "live"}
            pending == {s \in Streams : Pending(s)}
<1>0. /\ active = Cardinality(live) /\ starts = Cardinality(pending)
      /\ active + starts <= MaxStreams /\ active \in Nat /\ starts \in Nat /\ MaxStreams \in Nat
  BY HLSBoundsAssumption DEF SlotsAreExact, CountersOK
<1>1. ASSUME active' = Cardinality(live'), starts' = Cardinality(pending'),
             active' + starts' <= MaxStreams
      PROVE  SlotsAreExact' /\ CountersOK'
  <2>1. live' \in SUBSET Streams /\ pending' \in SUBSET Streams
    OBVIOUS
  <2>2. \A S \in SUBSET Streams : Cardinality(S) \in Nat
    <3>1. IsFiniteSet(Streams)
      BY HLSBoundsAssumption, FS_Interval DEF Streams
    <3>. QED
      BY <3>1, FS_Subset, FS_CardinalityType
  <2>. QED
    BY <1>1, <2>1, <2>2 DEF SlotsAreExact, CountersOK
<1>2. ASSUME NEW s \in Streams, StreamStep(s) PROVE SlotsAreExact' /\ CountersOK'
  <2>1. \A u \in Streams \ {s} : st'[u] = st[u]
    BY <1>2, OtherStreams
  <2>2. live \in SUBSET Streams /\ pending \in SUBSET Streams
    OBVIOUS
  <2>3. CASE /\ st'[s] \in PendingStates <=> Pending(s)
             /\ st'[s] = "live" <=> st[s] = "live"
             /\ UNCHANGED <<active, starts>>
    <3>1. live' = live /\ pending' = pending
      BY <2>1, <2>3 DEF Pending
    <3>. QED
      BY <1>0, <1>1, <2>3, <3>1
  <2>4. CASE /\ Pending(s) /\ st'[s] \notin PendingStates /\ st'[s] # "live"
             /\ starts' = starts - 1 /\ UNCHANGED active
    <3>1. live' = live /\ pending' = pending \ {s} /\ s \in pending
      BY <2>1, <2>4 DEF Pending, PendingStates
    <3>2. Cardinality(live') = active /\ Cardinality(pending') = starts - 1
      BY <1>0, <2>2, <3>1, Counting
    <3>. HIDE DEF live, pending
    <3>. QED
      BY <1>0, <1>1, <2>4, <3>2
  <2>5. CASE /\ Pending(s) /\ st'[s] = "live"
             /\ starts' = starts - 1 /\ active' = active + 1
    <3>1. live' = live \cup {s} /\ s \notin live /\ pending' = pending \ {s} /\ s \in pending
      BY <2>1, <2>5 DEF Pending, PendingStates
    <3>2. Cardinality(live') = active + 1 /\ Cardinality(pending') = starts - 1
      BY <1>0, <2>2, <3>1, Counting
    <3>. HIDE DEF live, pending
    <3>. QED
      BY <1>0, <1>1, <2>5, <3>2
  <2>6. CASE /\ st[s] = "live" /\ st'[s] \notin PendingStates /\ st'[s] # "live"
             /\ active' = active - 1 /\ UNCHANGED starts
    <3>1. live' = live \ {s} /\ s \in live /\ pending' = pending
      BY <2>1, <2>6 DEF Pending, PendingStates
    <3>2. Cardinality(live') = active - 1 /\ Cardinality(pending') = starts
      BY <1>0, <2>2, <3>1, Counting
    <3>. HIDE DEF live, pending
    <3>. QED
      BY <1>0, <1>1, <2>6, <3>2
  <2>. QED
    BY <1>2, <2>3, <2>4, <2>5, <2>6, CountersStep
<1>3. ASSUME NEW r \in Viewers, RegisterStart(r) PROVE SlotsAreExact' /\ CountersOK'
  <2>1. PICK s \in Streams :
            /\ st[s] = "free" /\ Moves(s, "queued")
            /\ key' = [key EXCEPT ![s] = PathOf[r]]
            /\ AddRef(s, OwnerOf[r]) /\ Goes(r, "waiting", s)
            /\ starts' = starts + 1 /\ UNCHANGED stopped
    BY <1>3, Registers
  <2>2. live' = live /\ pending' = pending \cup {s} /\ s \notin pending
    BY <2>1 DEF Moves, GoroutineOK, Pending, PendingStates
  <2>3. active + starts < MaxStreams /\ UNCHANGED active
    BY <1>0, <1>3 DEF RegisterStart, Full
  <2>4. pending \in SUBSET Streams
    OBVIOUS
  <2>5. Cardinality(live') = active /\ Cardinality(pending') = starts + 1
    BY <1>0, <2>2, <2>4, Counting
  <2>. HIDE DEF live, pending
  <2>. QED
    BY <1>0, <1>1, <2>1, <2>3, <2>5
<1>4. ASSUME UNCHANGED <<active, starts, st>> PROVE SlotsAreExact' /\ CountersOK'
  BY <1>4 DEF SlotsAreExact, CountersOK, Pending
<1>5. ASSUME NEW o \in Sessions, ExpireSession(o) PROVE UNCHANGED <<active, starts, st>>
  BY <1>5 DEF ExpireSession, goroutine
<1>. QED
  BY <1>2, <1>3, <1>4, <1>5, Steps, ViewerFrame, WriterFrame DEF vars, server, goroutine

-----------------------------------------------------------------------------
(* One stream for each file.                                               *)

\* A stream that a new viewer may use, as a start or as a stream.
Offered(s) == Pending(s) \/ (st[s] = "live" /\ s \notin stopped)

LEMMA OnePerFile ==
    OneStreamPerFile <=>
        \A s, u \in Streams : Offered(s) /\ Offered(u) /\ key[s] = key[u] => s = u
BY DEF OneStreamPerFile, Offered, Known, Joinable, Registered, Pending, PendingStates

LEMMA OneStreamStep ==
    ASSUME TypeOK, LifeOK, OneStreamPerFile, [Next]_vars
    PROVE  OneStreamPerFile'
<1>. USE TypeParts DEF GoroutineOK
<1>1. SUFFICES ASSUME NEW s \in Streams, NEW u \in Streams, s # u,
                      Offered(s)', Offered(u)', key'[s] = key'[u]
               PROVE  FALSE
  BY DEF OneStreamPerFile, Offered, Known, Joinable, Registered, Pending, PendingStates
<1>2. \A x \in Streams : Offered(x)' /\ st[x] # "free" => Offered(x) /\ key'[x] = key[x]
  BY KnownStep DEF Offered, Pending, PendingStates, After
<1>3. ~(st[s] # "free" /\ st[u] # "free")
  BY <1>1, <1>2, OnePerFile
<1>4. PICK r \in Viewers : RegisterStart(r)
  <2>1. st'[s] # st[s] \/ st'[u] # st[u]
    BY <1>1, <1>3 DEF Offered, Pending, PendingStates
  <2>2. \A x \in Streams : StreamStep(x) =>
            /\ st[s] = "free" => st'[s] = "free"
            /\ st[u] = "free" => st'[u] = "free"
    BY OtherStreams, StreamAlive
  <2>3. \A x \in Streams : ~StreamStep(x)
    BY <1>1, <1>3, <2>2 DEF Offered, Pending, PendingStates
  <2>4. ASSUME NEW o \in Sessions, ExpireSession(o) PROVE UNCHANGED st
    BY <2>4 DEF ExpireSession, goroutine
  <2>. QED
    BY <2>1, <2>3, <2>4, Steps, ViewerFrame, WriterFrame DEF vars, goroutine
<1>5. PICK n \in Streams :
          /\ st[n] = "free" /\ Moves(n, "queued")
          /\ key' = [key EXCEPT ![n] = PathOf[r]]
          /\ AddRef(n, OwnerOf[r]) /\ Goes(r, "waiting", n)
          /\ starts' = starts + 1 /\ UNCHANGED stopped
  BY <1>4, Registers
<1>6. \A x \in Streams : Offered(x) => key[x] # PathOf[r]
  BY <1>4 DEF RegisterStart, KeyFree, NoneToJoin, KnownAt, Known, Joinable, Offered
<1>7. \A x \in Streams \ {n} : Offered(x)' => Offered(x) /\ key'[x] = key[x]
  BY <1>5 DEF Moves, Offered, Pending
<1>8. key'[n] = PathOf[r]
  BY <1>5
<1>. QED
  BY <1>1, <1>6, <1>7, <1>8, OnePerFile

-----------------------------------------------------------------------------
(* Viewers and their streams.                                              *)

\* A viewer that did not move is still at its stream.
LEMMA StillAtStream ==
    ASSUME TypeOK, LifeOK, ViewersAtStreams, [Next]_vars,
           NEW r \in Viewers, viewer'[r] = viewer[r],
           \A s \in Streams : StreamStep(s) /\ st'[s] = "over" => ~Serving(r, s)
    PROVE  AtItsStream(r)'
<1>. DEFINE s == viewer[r].id
<1>. USE TypeParts
<1>0. AtItsStream(r)
  BY DEF ViewersAtStreams
<1>1. CASE viewer[r].pc \notin Attaching
  BY <1>1 DEF AtItsStream, Attaching, At
<1>2. CASE viewer[r].pc \in Attaching
  <2>1. s \in Streams /\ st[s] # "free" /\ key[s] = PathOf[r]
    BY <1>0, <1>2 DEF AtItsStream
  <2>2. st'[s] # "free" /\ key'[s] = PathOf[r]
    BY <2>1, KnownStep
  <2>3. At(r, "found") => st'[s] \in {"live", "retained", "removing", "over"}
    BY <1>0, <2>1, KnownStep DEF AtItsStream, After
  <2>4. At(r, "serving") => st'[s] \in {"live", "retained", "removing"}
    <3>1. SUFFICES ASSUME At(r, "serving"), st'[s] = "over" PROVE FALSE
      BY <1>0, <2>1, KnownStep DEF AtItsStream, After
    <3>2. st[s] \in {"live", "retained", "removing"}
      BY <1>0, <3>1 DEF AtItsStream
    <3>3. StreamStep(s)
      <4>1. st'[s] # st[s] /\ st[s] # "free"
        BY <3>1, <3>2
      <4>2. ASSUME NEW u \in Streams \ {s} PROVE ~StreamStep(u)
        BY <2>1, <4>1, OtherStreams
      <4>3. ASSUME NEW q \in Viewers PROVE ~ViewerStep(q)
        <5>1. SUFFICES ASSUME RegisterStart(q) PROVE FALSE
          BY <4>1, ViewerFrame
        <5>. QED
          BY <5>1, <2>1, <4>1, Registers DEF Moves, GoroutineOK
      <4>4. ASSUME NEW o \in Sessions, ExpireSession(o) PROVE UNCHANGED st
        BY <4>4 DEF ExpireSession, goroutine
      <4>. QED
        BY <2>1, <4>1, <4>2, <4>3, <4>4, Steps, WriterFrame DEF vars, goroutine
    <3>. QED
      BY <2>1, <3>1, <3>3 DEF Serving
  <2>. QED
    BY <2>1, <2>2, <2>3, <2>4 DEF AtItsStream, At
<1>. QED
  BY <1>1, <1>2

LEMMA ViewerMoves ==
    ASSUME TypeOK, LifeOK, ViewersAtStreams, [Next]_vars, NEW r \in Viewers, ViewerStep(r)
    PROVE  AtItsStream(r)'
<1>. USE TypeParts, ViewersAssumption
<1>0. AtItsStream(r)
  BY DEF ViewersAtStreams
<1>1. \A pc, id : Goes(r, pc, id) => viewer'[r].pc = pc /\ viewer'[r].id = id
  BY DEF Goes, ViewerOK
<1>2. ASSUME NEW pc, NEW id, Goes(r, pc, id), pc \notin Attaching
      PROVE  AtItsStream(r)'
  BY <1>1, <1>2 DEF AtItsStream, At, Attaching
<1>3. ASSUME NEW pc \in {"blocked", "waiting", "watching"}, NEW s \in Streams, Goes(r, pc, s),
             st[s] # "free", key[s] = PathOf[r]
      PROVE  AtItsStream(r)'
  BY <1>1, <1>3, KnownStep DEF AtItsStream, At
<1>4. CASE \/ RefuseStart(r) \/ Retry(r) \/ Arrive(r) \/ GiveUp(r) \/ Leave(r)
           \/ Disconnect(r) \/ StopPlayback(r) \/ ReleaseAgain(r)
  <2>1. \/ Goes(r, "idle", NoStream) \/ Goes(r, "asking", NoStream)
        \/ Goes(r, "leaving", viewer[r].id)
    BY <1>4 DEF RefuseStart, Retry, Arrive, GiveUp, Leave, Disconnect, StopPlayback,
       ReleaseAgain
  <2>. QED
    BY <1>2, <2>1 DEF Attaching
<1>5. CASE JoinStream(r) \/ JoinPending(r) \/ AwaitCancelled(r)
  <2>1. \E s \in Streams, pc \in {"blocked", "waiting", "watching"} :
            st[s] # "free" /\ key[s] = PathOf[r] /\ Goes(r, pc, s)
    BY <1>5 DEF JoinStream, JoinPending, AwaitCancelled, Joinable, KnownAt, Known, Pending,
       PendingStates, Registered
  <2>. QED
    BY <1>3, <2>1
<1>6. CASE RegisterStart(r)
  <2>1. PICK s \in Streams :
            /\ st[s] = "free" /\ Moves(s, "queued")
            /\ key' = [key EXCEPT ![s] = PathOf[r]]
            /\ AddRef(s, OwnerOf[r]) /\ Goes(r, "waiting", s)
            /\ starts' = starts + 1 /\ UNCHANGED stopped
    BY <1>6, Registers
  <2>2. st'[s] = "queued" /\ key'[s] = PathOf[r]
    BY <2>1 DEF Moves, GoroutineOK
  <2>. QED
    BY <1>1, <2>1, <2>2 DEF AtItsStream, At
<1>7. CASE StartAnswered(r)
  <2>1. Goes(r, "idle", NoStream) \/ Goes(r, "watching", viewer[r].id)
    BY <1>7, Zenon DEF StartAnswered
  <2>2. At(r, "waiting")
    BY <1>7 DEF StartAnswered
  <2>. QED
    BY <1>0, <1>2, <1>3, <2>1, <2>2 DEF AtItsStream, Attaching, At
<1>8. CASE AssetMissing(r) \/ AssetServed(r)
  <2>1. Goes(r, "watching", viewer[r].id) /\ (At(r, "found") \/ At(r, "serving"))
    BY <1>8 DEF AssetMissing, AssetServed
  <2>. QED
    BY <1>0, <1>3, <2>1 DEF AtItsStream, Attaching, At
<1>9. CASE RequestAsset(r) \/ ServeAsset(r)
  <2>. DEFINE s == viewer[r].id
  <2>1. UNCHANGED <<st, key>>
    BY <1>9 DEF RequestAsset, ServeAsset, goroutine
  <2>2. s \in Streams /\ st[s] # "free" /\ key[s] = PathOf[r]
    BY <1>0, <1>9 DEF RequestAsset, ServeAsset, AtItsStream, Attaching, At
  <2>3. \/ Goes(r, "found", s) /\ st[s] \in {"live", "retained"}
        \/ Goes(r, "serving", s) /\ st[s] \in {"live", "retained", "removing"}
    <3>1. CASE RequestAsset(r)
      BY <3>1 DEF RequestAsset, Registered
    <3>2. CASE ServeAsset(r)
      <4>1. s \in dir /\ st[s] \in {"live", "retained", "removing", "over"}
        BY <1>0, <3>2 DEF ServeAsset, AtItsStream
      <4>. QED
        BY <2>2, <3>2, <4>1 DEF ServeAsset, LifeOK
    <3>. QED
      BY <1>9, <3>1, <3>2
  <2>. QED
    BY <1>1, <2>1, <2>2, <2>3 DEF AtItsStream, At
<1>. QED
  BY <1>4, <1>5, <1>6, <1>7, <1>8, <1>9 DEF ViewerStep, HandlerStep, ClientStep, AssetStep

LEMMA ViewersStep ==
    ASSUME TypeOK, LifeOK, ViewersAtStreams, [Next]_vars
    PROVE  ViewersAtStreams'
<1>. USE TypeParts
<1>1. SUFFICES ASSUME NEW r \in Viewers PROVE AtItsStream(r)'
  BY DEF ViewersAtStreams
<1>2. CASE ViewerStep(r)
  BY <1>2, ViewerMoves
<1>3. CASE ~ViewerStep(r)
  <2>1. viewer'[r] = viewer[r]
    <3>1. ASSUME NEW q \in Viewers, ViewerStep(q) PROVE viewer'[r] = viewer[r]
      BY <1>3, <3>1, ViewerFrame DEF Goes, ViewerOK
    <3>2. ASSUME NEW o \in Sessions, ExpireSession(o) PROVE viewer'[r] = viewer[r]
      BY <3>2 DEF ExpireSession
    <3>. QED
      BY <3>1, <3>2, Steps, StreamFrame, WriterFrame DEF vars
  <2>2. ASSUME NEW s \in Streams, StreamStep(s), st'[s] = "over" PROVE ~Serving(r, s)
    <3>1. CASE st[s] = "over"
      BY <3>1 DEF ViewersAtStreams, AtItsStream, Serving
    <3>2. CASE st[s] # "over"
      <4>1. RemoveDir(s)
        BY <2>2, <3>2 DEF StreamStep, BeginStart, LaunchFFmpeg, ProfileFails, FailStart,
           FFmpegReady, CompleteStart, ReapRejected, StreamFinished, RetentionEnds,
           StartupTimeout, ReadContent, ProcessExits, IdleStop, GoroutineOK, Moves, goroutine
      <4>. QED
        BY <4>1 DEF RemoveDir, Unread, Serving
    <3>. QED
      BY <3>1, <3>2
  <2>. QED
    BY <2>1, <2>2, StillAtStream
<1>. QED
  BY <1>2, <1>3

-----------------------------------------------------------------------------
(* Barriers.                                                               *)

Inside(w) == writer[w].pc \in {"waiting", "clear"}

\* The files a barrier that is no logout is about.
Reach(w) == IF KindOf[w] = "replace" THEN FilesOf[w] ELSE Paths

\* A writer inside the barrier holds the lock and waits for every stream of
\* its files that is known; past it, all of them have ended.
BarrierOK(w) ==
    /\ lifeMu = w <=> Inside(w)
    /\ Inside(w) /\ KindOf[w] # "logout" =>
           \A s \in Known : key[s] \in Reach(w) => s \in writer[w].waits
    /\ InBarrier(w, "clear") => \A s \in writer[w].waits : Ended(s)
    /\ KindOf[w] = "shutdown" /\ ~InBarrier(w, "idle") => closing
    /\ KindOf[w] = "shutdown" /\ InBarrier(w, "done") => Known = {}

BarriersOK == \A w \in Writers : BarrierOK(w)

\* Past the barrier nothing of the files is known.
LEMMA NothingIsKnown ==
    ASSUME BarriersOK, NEW w \in Writers, InBarrier(w, "clear"), KindOf[w] # "logout"
    PROVE  \A s \in Known : key[s] \notin Reach(w)
BY DEF BarriersOK, BarrierOK, Inside, InBarrier, Ended, Known, Pending, PendingStates, Registered

\* What a stream has reached it does not leave, and no stream becomes known
\* while the lock is held or after HLS has begun to close.
LEMMA EndedStaysEnded ==
    ASSUME TypeOK, LifeOK, [Next]_vars, NEW s \in Streams
    PROVE  /\ Ended(s) => Ended(s)'
           /\ s \in Known' /\ s \notin Known =>
                  lifeMu = NoWriter /\ ~closing /\ st[s] = "free"
           /\ s \in Known => key'[s] = key[s]
BY KnownStep DEF Ended, Known, Pending, PendingStates, Registered, After

LEMMA BarrierMoves ==
    ASSUME TypeOK, LifeOK, BarriersOK, [Next]_vars, NEW w \in Writers, WriterStep(w)
    PROVE  BarrierOK(w)'
<1>. USE TypeParts, BarriersAssumption
<1>0. BarrierOK(w) /\ UNCHANGED <<st, key>>
  BY WriterFrame DEF BarriersOK, goroutine
<1>1. Known' = Known
  BY <1>0 DEF Known, Pending, Registered
<1>2. CASE LockBarrier(w)
  <2>1. /\ lifeMu' = w
        /\ writer'[w] = [pc |-> "waiting", waits |-> Targets(w), timed |-> Deadline(w)]
        /\ KindOf[w] = "shutdown" => closing'
    BY <1>2 DEF LockBarrier, WriterOK
  <2>2. KindOf[w] # "logout" => \A s \in Known : key[s] \in Reach(w) => s \in Targets(w)
    BY DEF Targets, Reach
  <2>. QED
    BY <1>0, <1>1, <2>1, <2>2 DEF BarrierOK, Inside, InBarrier, Reach
<1>3. CASE StreamsEnded(w)
  <2>1. /\ writer'[w].pc = "clear" /\ writer'[w].waits = writer[w].waits
        /\ UNCHANGED <<lifeMu, closing>>
    BY <1>3 DEF StreamsEnded, server, WriterOK
  <2>2. InBarrier(w, "waiting") /\ \A s \in writer[w].waits : Ended(s)
    BY <1>3 DEF StreamsEnded
  <2>3. \A s : Ended(s)' <=> Ended(s)
    BY <1>0 DEF Ended
  <2>. QED
    BY <1>0, <1>1, <2>1, <2>2, <2>3 DEF BarrierOK, Inside, InBarrier, Reach
<1>4. CASE \/ BarrierTimeout(w) \/ ReplaceFiles(w) \/ AbandonBarrier(w) \/ Logout(w)
           \/ DeleteVault(w) \/ ShutdownReturns(w)
  <2>1. \E pc \in {"idle", "done"} : Released(w, pc)
    BY <1>4 DEF BarrierTimeout, ReplaceFiles, AbandonBarrier, Logout, DeleteVault, ShutdownReturns
  <2>2. UNCHANGED closing /\ Inside(w)
    BY <1>4 DEF BarrierTimeout, ReplaceFiles, AbandonBarrier, Logout, DeleteVault,
       ShutdownReturns, InBarrier, Inside
  <2>3. lifeMu' = NoWriter /\ writer'[w].pc \in {"idle", "done"}
    BY <2>1 DEF Released, WriterOK
  <2>4. KindOf[w] = "shutdown" /\ writer'[w].pc = "done" => Known = {}
    <3>1. SUFFICES ASSUME KindOf[w] = "shutdown", writer'[w].pc = "done" PROVE InBarrier(w, "clear")
      <4>1. \A s \in Known : key[s] \in Paths
        BY DEF Known, Pending, PendingStates, Registered, LifeOK
      <4>. QED
        BY <4>1, NothingIsKnown DEF Reach
    <3>. QED
      BY <1>4, <3>1 DEF BarrierTimeout, ReplaceFiles, AbandonBarrier, Logout, DeleteVault,
         ShutdownReturns, Released, WriterOK
  <2>5. KindOf[w] = "shutdown" => closing
    BY <1>0, <2>2 DEF BarrierOK, Inside, InBarrier
  <2>. QED
    BY <1>1, <2>2, <2>3, <2>4, <2>5 DEF BarrierOK, Inside, InBarrier
<1>. QED
  BY <1>2, <1>3, <1>4 DEF WriterStep, BarrierStep

LEMMA BarrierStays ==
    ASSUME TypeOK, LifeOK, BarriersOK, [Next]_vars, NEW w \in Writers, writer'[w] = writer[w],
           closing => closing', lifeMu' = w <=> lifeMu = w
    PROVE  BarrierOK(w)'
<1>. USE BarriersAssumption
<1>0. BarrierOK(w)
  BY DEF BarriersOK
<1>1. Inside(w)' = Inside(w) /\ \A pc : InBarrier(w, pc)' = InBarrier(w, pc)
  BY DEF Inside, InBarrier
<1>2. Known' \subseteq Streams
  BY DEF Known
<1>3. Inside(w) /\ KindOf[w] # "logout" =>
          \A s \in Known' : key'[s] \in Reach(w) => s \in writer'[w].waits
  BY <1>0, <1>2, EndedStaysEnded DEF BarrierOK
<1>4. InBarrier(w, "clear") => \A s \in writer'[w].waits : Ended(s)'
  <2>1. writer[w].waits \subseteq Streams
    BY TypeParts DEF WriterOK
  <2>. QED
    BY <1>0, <2>1, EndedStaysEnded DEF BarrierOK
<1>5. KindOf[w] = "shutdown" /\ InBarrier(w, "done") => Known' = {}
  BY <1>0, <1>2, EndedStaysEnded DEF BarrierOK, InBarrier
<1>. QED
  BY <1>0, <1>1, <1>3, <1>4, <1>5 DEF BarrierOK, Reach

LEMMA BarriersStep ==
    ASSUME TypeOK, LifeOK, BarriersOK, [Next]_vars
    PROVE  BarriersOK'
<1>. USE TypeParts, BarriersAssumption
<1>1. SUFFICES ASSUME NEW w \in Writers, ~WriterStep(w) PROVE BarrierOK(w)'
  BY BarrierMoves DEF BarriersOK
<1>2. ASSUME NEW x \in Writers \ {w}, WriterStep(x)
      PROVE  /\ writer'[w] = writer[w] /\ (closing => closing')
             /\ lifeMu' = w <=> lifeMu = w
  <2>1. lifeMu = NoWriter \/ lifeMu = x
    BY <1>2 DEF WriterStep, LockBarrier, BarrierStep, StreamsEnded, BarrierTimeout,
       ReplaceFiles, AbandonBarrier, Logout, DeleteVault, ShutdownReturns, BarriersOK, BarrierOK,
       Inside, InBarrier
  <2>2. CASE LockBarrier(x)
    BY <1>2, <2>1, <2>2 DEF LockBarrier, WriterOK
  <2>3. CASE StreamsEnded(x)
    BY <1>2, <2>3 DEF StreamsEnded, server, WriterOK
  <2>4. CASE \/ BarrierTimeout(x) \/ ReplaceFiles(x) \/ AbandonBarrier(x) \/ Logout(x)
             \/ DeleteVault(x) \/ ShutdownReturns(x)
    <3>1. UNCHANGED closing /\ \E pc \in {"idle", "done"} : Released(x, pc)
      BY <2>4 DEF BarrierTimeout, ReplaceFiles, AbandonBarrier, Logout, DeleteVault,
         ShutdownReturns
    <3>. QED
      BY <1>2, <2>1, <3>1 DEF Released, WriterOK
  <2>. QED
    BY <1>2, <2>2, <2>3, <2>4 DEF WriterStep, BarrierStep
<1>3. /\ writer'[w] = writer[w] /\ (closing => closing')
      /\ lifeMu' = w <=> lifeMu = w
  <2>1. ASSUME NEW o \in Sessions, ExpireSession(o) PROVE UNCHANGED <<writer, closing, lifeMu>>
    BY <2>1 DEF ExpireSession
  <2>. QED
    BY <1>1, <1>2, <2>1, Steps, StreamFrame, ViewerFrame DEF vars, server
<1>. QED
  BY <1>3, BarrierStays

\* What the barrier is for.
LEMMA Exclusive ==
    ASSUME TypeOK, LifeOK, BarriersOK, ViewersAtStreams
    PROVE  BarrierIsExclusive
<1>1. SUFFICES ASSUME NEW w \in Writers
               PROVE  /\ KindOf[w] # "logout" /\ InBarrier(w, "clear") =>
                             /\ \A p \in Reach(w) : KnownAt(p) = {}
                             /\ \A s \in writer[w].waits, r \in Viewers : ~Serving(r, s)
                      /\ KindOf[w] = "shutdown" /\ InBarrier(w, "done") => Known = {}
  BY DEF BarrierIsExclusive, Reach
<1>2. ASSUME KindOf[w] # "logout", InBarrier(w, "clear"), NEW p \in Reach(w)
      PROVE  KnownAt(p) = {}
  BY <1>2, NothingIsKnown DEF KnownAt
<1>3. ASSUME InBarrier(w, "clear"), NEW s \in writer[w].waits, NEW r \in Viewers, Serving(r, s)
      PROVE  FALSE
  <2>1. Ended(s)
    BY <1>3 DEF BarriersOK, BarrierOK
  <2>2. st[s] \in {"live", "retained", "removing"}
    BY <1>3 DEF ViewersAtStreams, AtItsStream, Serving
  <2>. QED
    BY <2>1, <2>2 DEF Ended
<1>4. KindOf[w] = "shutdown" /\ InBarrier(w, "done") => Known = {}
  BY DEF BarriersOK, BarrierOK
<1>. QED
  BY <1>2, <1>3, <1>4

-----------------------------------------------------------------------------
(* References.                                                             *)

\* How a viewer's step changes the references of session o to stream s.
LEMMA ViewerRefs ==
    ASSUME TypeOK, LifeOK, ViewersAtStreams, NEW r \in Viewers, ViewerStep(r),
           NEW s \in Streams, s \in Known', NEW o \in Sessions
    PROVE  \/ /\ refs'[s][o] <= refs[s][o] /\ s \in Known
              /\ Attached(r, s) /\ OwnerOf[r] = o =>
                     Attached(r, s)' \/ refs'[s][o] = 0 \/ refs'[s][o] = refs[s][o] - 1
           \/ /\ refs'[s][o] = refs[s][o] + 1 /\ o = OwnerOf[r] /\ o \in sess
              /\ lifeMu = NoWriter /\ ~closing
              /\ ~Attached(r, s) /\ Attached(r, s)'
              /\ s \in Known \/ refs[s][o] = 0
           \/ refs'[s][o] = 0 /\ o # OwnerOf[r]
<1>. USE TypeParts, ViewersAssumption
<1>0. refs[s][o] \in Nat
  BY DEF OwnersOK
<1>1. \A pc, id : Goes(r, pc, id) => viewer'[r].pc = pc /\ viewer'[r].id = id
  BY DEF Goes, ViewerOK
<1>2. CASE ~RegisterStart(r) /\ UNCHANGED refs /\ (Attached(r, s) => Attached(r, s)')
  <2>1. s \in Known
    BY <1>2, ViewerFrame DEF Known, Pending, Registered
  <2>. QED
    BY <1>0, <1>2, <2>1
<1>3. CASE JoinStream(r) \/ JoinPending(r)
  <2>1. PICK u \in Streams :
            AddRef(u, OwnerOf[r]) /\ (Goes(r, "watching", u) \/ Goes(r, "waiting", u))
    BY <1>3 DEF JoinStream, JoinPending, KnownAt, Known
  <2>2. UNCHANGED st /\ Admitted(r)
    BY <1>3 DEF JoinStream, JoinPending, goroutine
  <2>3. s \in Known
    BY <2>2 DEF Known, Pending, Registered
  <2>4. ~Attached(r, s)
    BY <2>2 DEF Admitted, Attached, At
  <2>5. CASE u = s /\ o = OwnerOf[r]
    <3>1. refs'[s][o] = refs[s][o] + 1
      BY <2>1, <2>5 DEF AddRef, OwnersOK
    <3>2. Attached(r, s)'
      BY <1>1, <2>1, <2>5 DEF Attached
    <3>. QED
      BY <2>2, <2>3, <2>4, <2>5, <3>1, <3>2 DEF Admitted, Authorised
  <2>6. CASE ~(u = s /\ o = OwnerOf[r])
    <3>1. refs'[s][o] = refs[s][o]
      BY <2>1, <2>6 DEF AddRef, OwnersOK
    <3>. QED
      BY <1>0, <2>3, <2>4, <3>1
  <2>. QED
    BY <2>5, <2>6
<1>4. CASE RegisterStart(r)
  <2>1. PICK u \in Streams :
            /\ st[u] = "free" /\ Moves(u, "queued")
            /\ key' = [key EXCEPT ![u] = PathOf[r]]
            /\ AddRef(u, OwnerOf[r]) /\ Goes(r, "waiting", u)
            /\ starts' = starts + 1 /\ UNCHANGED stopped
    BY <1>4, Registers
  <2>2. ~Attached(r, s) /\ Admitted(r)
    BY <1>4 DEF RegisterStart, Admitted, Attached, At
  <2>3. refs[u][o] = 0
    BY <2>1 DEF LifeOK
  <2>4. CASE u = s /\ o = OwnerOf[r]
    <3>1. refs'[s][o] = refs[s][o] + 1
      BY <2>1, <2>4 DEF AddRef, OwnersOK
    <3>2. Attached(r, s)'
      BY <1>1, <2>1, <2>4 DEF Attached
    <3>. QED
      BY <2>2, <2>3, <2>4, <3>1, <3>2 DEF Admitted, Authorised
  <2>5. CASE u = s /\ o # OwnerOf[r]
    <3>1. refs'[s][o] = 0
      BY <2>1, <2>3, <2>5 DEF AddRef, OwnersOK
    <3>. QED
      BY <2>5, <3>1
  <2>6. CASE u # s
    <3>1. refs'[s][o] = refs[s][o]
      BY <2>1, <2>6 DEF AddRef, OwnersOK
    <3>2. s \in Known
      BY <2>1, <2>6 DEF Known, Pending, Registered, Moves, GoroutineOK
    <3>. QED
      BY <1>0, <2>2, <3>1, <3>2
  <2>. QED
    BY <2>4, <2>5, <2>6
<1>5. CASE StartAnswered(r)
  <2>1. UNCHANGED <<st, refs>>
    BY <1>5 DEF StartAnswered, goroutine, owners
  <2>2. s \in Known
    BY <2>1 DEF Known, Pending, Registered
  <2>3. CASE Goes(r, "watching", viewer[r].id)
    BY <1>0, <1>1, <2>1, <2>2, <2>3 DEF Attached
  <2>4. CASE st[viewer[r].id] \in {"rejected", "failed"}
    <3>1. viewer[r].id # s
      BY <2>2, <2>4 DEF Known, Pending, PendingStates, Registered
    <3>. QED
      BY <1>0, <2>1, <2>2, <3>1 DEF Attached
  <2>. QED
    BY <1>5, <2>3, <2>4, Zenon DEF StartAnswered
<1>6. CASE Disconnect(r) \/ StopPlayback(r) \/ ReleaseAgain(r)
  <2>1. PICK ids \in SUBSET Streams :
            /\ Release(ids, OwnerOf[r])
            /\ Attached(r, s) /\ s \in Known => s \in ids
    <3>1. At(r, "waiting") \/ At(r, "watching") \/ At(r, "leaving")
      BY <1>6 DEF Disconnect, StopPlayback, ReleaseAgain
    <3>2. Attached(r, s) => key[s] = PathOf[r] /\ viewer[r].id = s
      BY <3>1 DEF ViewersAtStreams, AtItsStream, Attaching, At, Attached
    <3>. QED
      BY <1>6, <3>2 DEF Disconnect, StopPlayback, ReleaseAgain, KnownAt, Known
  <2>2. UNCHANGED st
    BY <1>6 DEF Disconnect, StopPlayback, ReleaseAgain, goroutine
  <2>3. s \in Known
    BY <2>2 DEF Known, Pending, Registered
  <2>4. \/ refs'[s][o] = refs[s][o]
        \/ refs'[s][o] = refs[s][o] - 1
    BY <2>1 DEF Release, OwnersOK
  <2>5. s \in ids /\ OwnerOf[r] = o => refs'[s][o] = 0 \/ refs'[s][o] = refs[s][o] - 1
    BY <1>0, <2>1 DEF Release, OwnersOK
  <2>. QED
    BY <1>0, <2>1, <2>3, <2>4, <2>5
<1>7. CASE \/ RefuseStart(r) \/ AwaitCancelled(r) \/ Retry(r)
           \/ Arrive(r) \/ GiveUp(r) \/ Leave(r) \/ AssetStep(r)
  <2>1. UNCHANGED <<refs, st>>
    BY <1>7 DEF RefuseStart, AwaitCancelled, Retry, Arrive, GiveUp, Leave, AssetStep,
       RequestAsset, ServeAsset, AssetMissing, AssetServed, owners, goroutine
  <2>2. Attached(r, s) => Attached(r, s)'
    <3>1. CASE AssetStep(r)
      <4>1. \E pc \in {"watching", "found", "serving"} : Goes(r, pc, viewer[r].id)
        BY <3>1 DEF AssetStep, RequestAsset, ServeAsset, AssetMissing, AssetServed
      <4>. QED
        BY <1>1, <4>1 DEF Attached
    <3>2. CASE ~AssetStep(r)
      <4>1. viewer[r].pc \in {"asking", "blocked", "idle", "leaving"}
        BY <1>7, <3>2 DEF RefuseStart, AwaitCancelled, Admitted, Retry, Arrive, GiveUp, Leave, At
      <4>. QED
        BY <4>1 DEF Attached
    <3>. QED
      BY <3>1, <3>2
  <2>3. s \in Known
    BY <2>1 DEF Known, Pending, Registered
  <2>. QED
    BY <1>0, <2>1, <2>2, <2>3
<1>. QED
  BY <1>3, <1>4, <1>5, <1>6, <1>7 DEF ViewerStep, HandlerStep, ClientStep

\* Nobody else gives references away, and no session comes back.
LEMMA OtherRefs ==
    ASSUME TypeOK, LifeOK, [Next]_vars, \A r \in Viewers : ~ViewerStep(r),
           NEW s \in Streams, s \in Known', NEW o \in Sessions
    PROVE  s \in Known /\ refs'[s][o] \in {0, refs[s][o]} /\ UNCHANGED viewer
<1>. USE TypeParts
<1>1. ASSUME NEW u \in Streams, StreamStep(u)
      PROVE  s \in Known /\ UNCHANGED <<refs, viewer>>
  <2>1. UNCHANGED <<refs, viewer>>
    BY <1>1, StreamFrame
  <2>2. st[s] # "free"
    BY <1>1, OtherStreams, StreamAlive DEF Known, Pending, PendingStates, Registered
  <2>. QED
    BY <2>1, <2>2, EndedStaysEnded
<1>2. ASSUME NEW w \in Writers, WriterStep(w)
      PROVE  s \in Known /\ refs'[s][o] \in {0, refs[s][o]} /\ UNCHANGED viewer
  <2>1. s \in Known /\ UNCHANGED viewer
    BY <1>2, WriterFrame DEF Known, Pending, Registered, goroutine
  <2>2. CASE LockBarrier(w)
    BY <2>1, <2>2 DEF LockBarrier, ReleaseAll, OwnersOK
  <2>3. CASE BarrierStep(w)
    BY <2>1, <2>3 DEF BarrierStep, StreamsEnded, BarrierTimeout, ReplaceFiles, AbandonBarrier, Logout,
       DeleteVault, ShutdownReturns, owners
  <2>. QED
    BY <1>2, <2>1, <2>2, <2>3 DEF WriterStep
<1>3. ASSUME \/ \E x \in Sessions : ExpireSession(x)
             \/ UNCHANGED vars
      PROVE  s \in Known /\ UNCHANGED <<refs, viewer>>
  BY <1>3 DEF ExpireSession, vars, Known, Pending, Registered, goroutine, owners
<1>. QED
  BY <1>1, <1>2, <1>3, Steps

\* A session that is logged out, or is about to be, holds nothing.
LogoutOK(w) ==
    KindOf[w] = "logout" =>
        /\ ~InBarrier(w, "idle") => \A s \in Known : refs[s][LogoutOf[w]] = 0
        /\ InBarrier(w, "done") => LogoutOf[w] \notin sess

LogoutsOK == \A w \in Writers : LogoutOK(w)

LEMMA SessionsOnlyGo ==
    ASSUME [Next]_vars
    PROVE  sess' \subseteq sess
<1>1. ASSUME NEW w \in Writers, WriterStep(w) PROVE sess' \subseteq sess
  BY <1>1 DEF WriterStep, LockBarrier, BarrierStep, StreamsEnded, BarrierTimeout, ReplaceFiles,
     AbandonBarrier, Logout, DeleteVault, ShutdownReturns, server
<1>2. ASSUME NEW o \in Sessions, ExpireSession(o) PROVE sess' \subseteq sess
  BY <1>2 DEF ExpireSession
<1>. QED
  BY <1>1, <1>2, Steps, StreamFrame, ViewerFrame DEF vars, server

LEMMA LogoutsStep ==
    ASSUME TypeOK, LifeOK, ViewersAtStreams, BarriersOK, LogoutsOK, [Next]_vars
    PROVE  LogoutsOK'
<1>. USE TypeParts, BarriersAssumption
<1>1. SUFFICES ASSUME NEW w \in Writers, KindOf[w] = "logout" PROVE LogoutOK(w)'
  BY DEF LogoutsOK, LogoutOK
<1>. DEFINE o == LogoutOf[w]
<1>0. LogoutOK(w) /\ BarrierOK(w) /\ o \in Sessions
  BY DEF LogoutsOK, BarriersOK
<1>2. CASE WriterStep(w)
  <2>1. Known' = Known
    BY <1>2, WriterFrame DEF Known, Pending, Registered, goroutine
  <2>2. CASE LockBarrier(w)
    <3>1. writer'[w].pc = "waiting" /\ ReleaseAll(o)
      BY <1>1, <2>2 DEF LockBarrier, WriterOK
    <3>2. \A s \in Known : refs'[s][o] = 0
      BY <1>0, <3>1 DEF ReleaseAll, OwnersOK, Known
    <3>. QED
      BY <2>1, <3>1, <3>2 DEF LogoutOK, InBarrier
  <2>3. CASE StreamsEnded(w)
    <3>1. writer'[w].pc = "clear" /\ UNCHANGED refs /\ ~InBarrier(w, "idle")
      BY <2>3 DEF StreamsEnded, WriterOK, owners, InBarrier
    <3>. QED
      BY <1>0, <1>1, <2>1, <3>1 DEF LogoutOK, InBarrier
  <2>4. CASE BarrierTimeout(w) \/ Logout(w)
    <3>1. sess' = sess \ {o} /\ UNCHANGED refs /\ ~InBarrier(w, "idle")
      BY <1>1, <2>4 DEF BarrierTimeout, Logout, InBarrier, owners
    <3>. QED
      BY <1>0, <1>1, <2>1, <3>1 DEF LogoutOK
  <2>. QED
    BY <1>1, <1>2, <2>2, <2>3, <2>4 DEF WriterStep, BarrierStep, ReplaceFiles, AbandonBarrier,
       DeleteVault, ShutdownReturns
<1>3. CASE ~WriterStep(w)
  <2>1. writer'[w] = writer[w]
    <3>1. ASSUME NEW x \in Writers \ {w}, WriterStep(x) PROVE writer'[w] = writer[w]
      BY <3>1 DEF WriterStep, LockBarrier, BarrierStep, StreamsEnded, BarrierTimeout,
         ReplaceFiles, AbandonBarrier, Logout, DeleteVault, ShutdownReturns, Released, WriterOK
    <3>2. ASSUME NEW x \in Sessions, ExpireSession(x) PROVE UNCHANGED writer
      BY <3>2 DEF ExpireSession
    <3>. QED
      BY <1>3, <3>1, <3>2, Steps, StreamFrame, ViewerFrame DEF vars
  <2>2. ASSUME ~InBarrier(w, "idle"), NEW s \in Known' PROVE refs'[s][o] = 0
    <3>1. s \in Streams
      BY DEF Known
    <3>2. s \in Known => refs[s][o] = 0
      BY <1>0, <1>1, <2>2 DEF LogoutOK
    <3>3. ~(lifeMu = NoWriter /\ o \in sess)
      <4>1. writer[w].pc \in {"waiting", "clear", "done"}
        BY <2>2 DEF InBarrier, WriterOK
      <4>. QED
        BY <1>0, <1>1, <4>1 DEF LogoutOK, BarrierOK, Inside, InBarrier
    <3>4. refs[s][o] \in Nat /\ refs'[s][o] \in Nat
      <4>1. OwnersOK'
        BY Types
      <4>. QED
        BY <1>0, <3>1, <4>1 DEF OwnersOK
    <3>5. ASSUME NEW r \in Viewers, ViewerStep(r) PROVE refs'[s][o] = 0
      BY <1>0, <3>1, <3>2, <3>3, <3>4, <3>5, ViewerRefs
    <3>6. CASE \A r \in Viewers : ~ViewerStep(r)
      BY <1>0, <3>1, <3>2, <3>6, OtherRefs
    <3>. QED
      BY <3>5, <3>6
  <2>. QED
    BY <1>0, <1>1, <2>1, <2>2, SessionsOnlyGo DEF LogoutOK, InBarrier
<1>. QED
  BY <1>2, <1>3

\* The viewers of session o that hold stream s.
Holders(s, o) == {r \in Viewers : OwnerOf[r] = o /\ Attached(r, s)}

LEMMA HoldersCount ==
    ASSUME NEW S \in SUBSET Viewers, NEW r \in Viewers
    PROVE  /\ Cardinality(S) \in Nat
           /\ r \notin S => Cardinality(S \cup {r}) = Cardinality(S) + 1
           /\ r \in S => Cardinality(S \ {r}) = Cardinality(S) - 1
BY ViewersAssumption, FS_Subset, FS_CardinalityType, FS_AddElement, FS_RemoveElement

LEMMA StrandedStep ==
    ASSUME TypeOK, LifeOK, ViewersAtStreams, NoStrandedReference, [Next]_vars
    PROVE  NoStrandedReference'
<1>. USE TypeParts, ViewersAssumption
<1>1. SUFFICES ASSUME NEW s \in Known', NEW o \in Sessions
               PROVE  refs'[s][o] <= Cardinality(Holders(s, o)')
  BY DEF NoStrandedReference, Holders
<1>2. s \in Streams
  BY DEF Known
<1>3. PICK c \in Nat : c = Cardinality(Holders(s, o))
  <2>1. IsFiniteSet(Holders(s, o))
    BY FS_Subset DEF Holders
  <2>. QED
    BY <2>1, FS_CardinalityType
<1>4. PICK d \in Nat : d = Cardinality(Holders(s, o)')
  <2>1. IsFiniteSet(Holders(s, o)')
    BY FS_Subset DEF Holders
  <2>. QED
    BY <2>1, FS_CardinalityType
<1>5. PICK n \in Nat : n = refs[s][o]
  BY <1>2 DEF OwnersOK
<1>6. s \in Known => n <= c
  BY <1>3, <1>5 DEF NoStrandedReference, Holders
<1>7. CASE \A r \in Viewers : ~ViewerStep(r)
  <2>1. s \in Known /\ refs'[s][o] \in {0, refs[s][o]} /\ UNCHANGED viewer
    BY <1>2, <1>7, OtherRefs
  <2>2. Holders(s, o)' = Holders(s, o)
    BY <2>1 DEF Holders, Attached
  <2>. QED
    BY <1>3, <1>4, <1>5, <1>6, <2>1, <2>2
<1>8. ASSUME NEW r \in Viewers, ViewerStep(r)
      PROVE  refs'[s][o] <= Cardinality(Holders(s, o)')
  <2>1. \A q \in Viewers \ {r} : Attached(q, s)' <=> Attached(q, s)
    BY <1>8, ViewerFrame DEF Attached, Goes, ViewerOK
  <2>2. Holders(s, o) \in SUBSET Viewers
    BY DEF Holders
  <2>3. CASE o # OwnerOf[r]
    <3>1. Holders(s, o)' = Holders(s, o)
      BY <2>1, <2>3 DEF Holders
    <3>2. (s \in Known /\ refs'[s][o] <= n) \/ refs'[s][o] = 0
      BY <1>2, <1>5, <1>8, <2>3, ViewerRefs
    <3>3. refs'[s][o] \in Nat
      <4>1. OwnersOK'
        BY Types
      <4>. QED
        BY <1>2, <4>1 DEF OwnersOK
    <3>. QED
      BY <1>3, <1>4, <1>6, <3>1, <3>2, <3>3
  <2>4. CASE o = OwnerOf[r]
    <3>1. r \in Holders(s, o) <=> Attached(r, s)
      BY <2>4 DEF Holders
    <3>2. PICK m \in Nat : m = refs'[s][o]
      <4>1. OwnersOK'
        BY Types
      <4>. QED
        BY <1>2, <4>1 DEF OwnersOK
    <3>3. \/ /\ m <= n /\ s \in Known
             /\ Attached(r, s) => Attached(r, s)' \/ m = 0 \/ m = n - 1
          \/ /\ m = n + 1 /\ ~Attached(r, s) /\ Attached(r, s)'
             /\ s \in Known \/ n = 0
      BY <1>2, <1>5, <1>8, <2>4, <3>2, ViewerRefs
    <3>4. CASE Attached(r, s)' <=> Attached(r, s)
      <4>1. Holders(s, o)' = Holders(s, o)
        BY <2>1, <3>4 DEF Holders
      <4>. QED
        BY <1>3, <1>4, <1>6, <3>2, <3>3, <3>4, <4>1
    <3>5. CASE Attached(r, s)' /\ ~Attached(r, s)
      <4>1. Holders(s, o)' = Holders(s, o) \cup {r}
        BY <2>1, <2>4, <3>5 DEF Holders
      <4>2. d = c + 1
        BY <1>3, <1>4, <2>2, <3>1, <3>5, <4>1, HoldersCount
      <4>. QED
        BY <1>4, <1>6, <3>2, <3>3, <4>2
    <3>6. CASE ~Attached(r, s)' /\ Attached(r, s)
      <4>1. Holders(s, o)' = Holders(s, o) \ {r}
        BY <2>1, <2>4, <3>6 DEF Holders
      <4>2. d = c - 1
        BY <1>3, <1>4, <2>2, <3>1, <3>6, <4>1, HoldersCount
      <4>. QED
        BY <1>4, <1>6, <3>2, <3>3, <3>6, <4>2
    <3>. QED
      BY <3>4, <3>5, <3>6
  <2>. QED
    BY <2>3, <2>4
<1>. QED
  BY <1>7, <1>8

-----------------------------------------------------------------------------
(* What FFmpeg has read.                                                   *)

\* A known stream has read the current version of its file and no other, and
\* it has read it when it is ready.
ReadOK(s) ==
    /\ st[s] \in {"warming", "ready", "live", "retained"} =>
           reads[s] \subseteq {version[key[s]]}
    /\ st[s] \in {"ready", "live", "retained"} => reads[s] # {}

ReadsOK == \A s \in Streams : ReadOK(s)

\* No file of a known stream is replaced.
LEMMA VersionStays ==
    ASSUME TypeOK, LifeOK, BarriersOK, [Next]_vars, NEW s \in Known
    PROVE  version'[key[s]] = version[key[s]]
<1>. USE TypeParts
<1>1. key[s] \in Paths
  BY DEF Known, Pending, PendingStates, Registered, LifeOK
<1>2. ASSUME NEW w \in Writers, WriterStep(w)
      PROVE  version'[key[s]] = version[key[s]]
  <2>1. CASE ReplaceFiles(w) \/ DeleteVault(w)
    <3>1. InBarrier(w, "clear") /\ KindOf[w] # "logout"
      BY <2>1 DEF ReplaceFiles, DeleteVault
    <3>2. key[s] \notin Reach(w)
      BY <3>1, NothingIsKnown
    <3>. QED
      BY <1>1, <2>1, <3>2 DEF ReplaceFiles, DeleteVault, Reach
  <2>2. CASE ~(ReplaceFiles(w) \/ DeleteVault(w))
    BY <1>2, <2>2 DEF WriterStep, LockBarrier, BarrierStep, StreamsEnded, BarrierTimeout,
       AbandonBarrier, Logout, ShutdownReturns
  <2>. QED
    BY <2>1, <2>2
<1>3. ASSUME NEW o \in Sessions, ExpireSession(o) PROVE UNCHANGED version
  BY <1>3 DEF ExpireSession
<1>. QED
  BY <1>2, <1>3, Steps, StreamFrame, ViewerFrame DEF vars

LEMMA StreamReads ==
    ASSUME TypeOK, LifeOK, ReadsOK, NEW s \in Streams, StreamStep(s)
    PROVE  ReadOK(s)'
<1>. USE TypeParts DEF ReadOK, GoroutineOK, FFmpegOK, Moves, goroutine, ffmpeg
<1>0. ReadOK(s) /\ UNCHANGED <<key, version>>
  BY StreamFrame DEF ReadsOK
<1>1. CASE FailStart(s)
  BY <1>1 DEF FailStart
<1>2. CASE BeginStart(s)
  BY <1>1, <1>2 DEF BeginStart
<1>3. CASE ProfileFails(s)
  BY <1>1, <1>3 DEF ProfileFails
<1>4. CASE LaunchFFmpeg(s) \/ FFmpegReady(s) \/ ReapRejected(s)
  BY <1>0, <1>4 DEF LaunchFFmpeg, FFmpegReady, ReapRejected
<1>5. CASE CompleteStart(s) \/ StreamFinished(s)
  BY <1>0, <1>5 DEF CompleteStart, StreamFinished
<1>6. CASE RemoveDir(s) \/ RetentionEnds(s)
  BY <1>0, <1>6 DEF RemoveDir, RetentionEnds
<1>7. CASE StartupTimeout(s) \/ IdleStop(s) \/ ProcessExits(s)
  BY <1>0, <1>7 DEF StartupTimeout, IdleStop, ProcessExits
<1>8. CASE ReadContent(s)
  <2>1. reads'[s] = reads[s] \cup {version[key[s]]} /\ UNCHANGED st
    BY <1>8 DEF ReadContent
  <2>. QED
    BY <1>0, <2>1
<1>. QED
  BY <1>2, <1>3, <1>4, <1>5, <1>6, <1>7, <1>8 DEF StreamStep

LEMMA ReadsStep ==
    ASSUME TypeOK, LifeOK, BarriersOK, ReadsOK, [Next]_vars
    PROVE  ReadsOK'
<1>. USE TypeParts
<1>1. SUFFICES ASSUME NEW s \in Streams, ~StreamStep(s) PROVE ReadOK(s)'
  BY StreamReads DEF ReadsOK
<1>0. ReadOK(s)
  BY DEF ReadsOK
<1>2. reads'[s] = reads[s] /\ (st'[s] = st[s] \/ (st[s] = "free" /\ st'[s] = "queued"))
  <2>1. ASSUME NEW u \in Streams, StreamStep(u) PROVE st'[s] = st[s] /\ reads'[s] = reads[s]
    BY <1>1, <2>1, OtherStreams
  <2>2. ASSUME NEW r \in Viewers, ViewerStep(r)
        PROVE  /\ reads'[s] = reads[s]
               /\ st'[s] = st[s] \/ (st[s] = "free" /\ st'[s] = "queued")
    BY <2>2, ViewerFrame, Registers DEF Moves, GoroutineOK, ffmpeg
  <2>3. ASSUME NEW o \in Sessions, ExpireSession(o) PROVE UNCHANGED <<st, reads>>
    BY <2>3 DEF ExpireSession, goroutine, ffmpeg
  <2>. QED
    BY <2>1, <2>2, <2>3, Steps, WriterFrame DEF vars, goroutine, ffmpeg
<1>3. CASE st'[s] \in {"warming", "ready", "live", "retained"}
  <2>1. st'[s] = st[s] /\ s \in Known
    BY <1>2, <1>3 DEF Known, Pending, PendingStates, Registered
  <2>2. key'[s] = key[s] /\ version'[key[s]] = version[key[s]]
    BY <2>1, EndedStaysEnded, VersionStays
  <2>. QED
    BY <1>0, <1>2, <2>1, <2>2 DEF ReadOK
<1>. QED
  BY <1>3 DEF ReadOK

-----------------------------------------------------------------------------
(* The inductive invariant and what follows from it.                       *)

IInv ==
    /\ TypeOK /\ SlotsAreExact /\ OneStreamPerFile /\ NoStrandedReference
    /\ LifeOK /\ ViewersAtStreams /\ BarriersOK /\ LogoutsOK /\ ReadsOK

LEMMA IInvInit == Init => IInv
<1>. SUFFICES ASSUME Init PROVE IInv
  OBVIOUS
<1>. USE ViewersAssumption, BarriersAssumption, HLSBoundsAssumption
<1>1. TypeOK
  BY DEF Init, TypeOK, PendingStates
<1>2. Known = {}
  BY DEF Init, Known, Pending, PendingStates, Registered
<1>3. SlotsAreExact
  <2>1. {s \in Streams : st[s] = "live"} = {} /\ {s \in Streams : Pending(s)} = {}
    BY DEF Init, Pending, PendingStates
  <2>2. Cardinality({}) = 0
    BY FS_EmptySet
  <2>3. active = 0 /\ starts = 0 /\ 0 + 0 <= MaxStreams
    BY DEF Init
  <2>. QED
    BY <2>1, <2>2, <2>3 DEF SlotsAreExact
<1>4. OneStreamPerFile /\ NoStrandedReference
  BY <1>2 DEF OneStreamPerFile, NoStrandedReference
<1>5. LifeOK /\ ViewersAtStreams /\ ReadsOK
  BY DEF Init, LifeOK, ViewersAtStreams, AtItsStream, At, Attaching, ReadsOK, ReadOK
<1>6. BarriersOK /\ LogoutsOK
  BY <1>2 DEF Init, BarriersOK, BarrierOK, LogoutsOK, LogoutOK, InBarrier, Inside
<1>. QED
  BY <1>1, <1>3, <1>4, <1>5, <1>6 DEF IInv

LEMMA IInvStep == IInv /\ [Next]_vars => IInv'
<1>. SUFFICES ASSUME IInv, [Next]_vars PROVE IInv'
  OBVIOUS
<1>1. SlotsAreExact' /\ CountersOK'
  BY SlotsStep DEF IInv
<1>2. TypeOK'
  BY <1>1, Types DEF IInv, TypeOK, ServerOK, CountersOK, GoroutineOK, FFmpegOK, OwnersOK,
     VersionOK, ViewerOK, WriterOK
<1>3. OneStreamPerFile' /\ NoStrandedReference'
  BY OneStreamStep, StrandedStep DEF IInv
<1>4. LifeOK' /\ ViewersAtStreams' /\ BarriersOK' /\ LogoutsOK' /\ ReadsOK'
  BY LifeStep, ViewersStep, BarriersStep, LogoutsStep, ReadsStep DEF IInv
<1>. QED
  BY <1>1, <1>2, <1>3, <1>4 DEF IInv

THEOREM Invariance == Spec => []IInv
BY IInvInit, IInvStep, PTL DEF Spec

\* Every variable keeps its type, so no slot and no reference is given back
\* that was not taken.
THEOREM TypeCorrect == Spec => []TypeOK
<1>1. IInv => TypeOK
  BY DEF IInv
<1>. QED
  BY <1>1, Invariance, PTL

\* hlsActive and hlsStarts are the numbers of running and pending streams and
\* keep hlsMaxStreams, for any number of viewers, failures and time-outs.
THEOREM SlotsExact == Spec => []SlotsAreExact
<1>1. IInv => SlotsAreExact
  BY DEF IInv
<1>. QED
  BY <1>1, Invariance, PTL

\* The viewers of a file share one start and one stream.
THEOREM FilesAreShared == Spec => []OneStreamPerFile
<1>1. IInv => OneStreamPerFile
  BY DEF IInv
<1>. QED
  BY <1>1, Invariance, PTL

\* References of a known stream never outnumber the viewers that hold it.
THEOREM NothingIsStranded == Spec => []NoStrandedReference
<1>1. IInv => NoStrandedReference
  BY DEF IInv
<1>. QED
  BY <1>1, Invariance, PTL

\* A stream that ended leaves no process, no session and no segments.
THEOREM EndedIsGone == Spec => []EndedLeavesNothing
<1>1. IInv => EndedLeavesNothing
  BY DEF IInv, LifeOK, EndedLeavesNothing
<1>. QED
  BY <1>1, Invariance, PTL

\* A logout leaves the session without a reference, for good.
THEOREM LogoutReleases == Spec => []LoggedOutOwnsNothing
<1>1. IInv => LoggedOutOwnsNothing
  BY DEF IInv, LogoutsOK, LogoutOK, LoggedOutOwnsNothing, InBarrier
<1>. QED
  BY <1>1, Invariance, PTL

\* Past its barrier a writer has the files for itself.
THEOREM BarrierExcludes == Spec => []BarrierIsExclusive
<1>1. IInv => BarrierIsExclusive
  BY Exclusive DEF IInv
<1>. QED
  BY <1>1, Invariance, PTL

-----------------------------------------------------------------------------
(* The refinement of PlaybackLease.                                        *)

Entry(s) == [stream |-> s, path |-> key[s], shows |-> reads[s]]
Listed == {Entry(s) : s \in {u \in Streams : Registered(u)}}

LEMMA ListedStep ==
    ASSUME TypeOK, NEW s \in Streams, \A u \in Streams \ {s} :
               st'[u] = st[u] /\ key'[u] = key[u] /\ reads'[u] = reads[u]
    PROVE  /\ Registered(s)' /\ Registered(s) /\ key'[s] = key[s] /\ reads'[s] = reads[s]
                  => Listed' = Listed
           /\ ~Registered(s)' /\ ~Registered(s) => Listed' = Listed
           /\ ~Registered(s)' /\ Registered(s) => Listed' = {e \in Listed : e.stream # s}
           /\ Registered(s)' /\ ~Registered(s) => Listed' = Listed \cup {Entry(s)'}
<1>1. \A u \in Streams \ {s} : (Registered(u)' <=> Registered(u)) /\ Entry(u)' = Entry(u)
  BY DEF Registered, Entry
<1>2. \A u \in Streams : Entry(u).stream = u
  BY DEF Entry
<1>3. ASSUME Registered(s)', Registered(s), key'[s] = key[s], reads'[s] = reads[s]
      PROVE  Listed' = Listed
  <2>1. Entry(s)' = Entry(s)
    BY <1>3 DEF Entry
  <2>. QED
    BY <1>1, <1>3, <2>1 DEF Listed
<1>4. ASSUME ~Registered(s)', ~Registered(s) PROVE Listed' = Listed
  BY <1>1, <1>4 DEF Listed
<1>5. ASSUME ~Registered(s)', Registered(s) PROVE Listed' = {e \in Listed : e.stream # s}
  BY <1>1, <1>2, <1>5 DEF Listed
<1>6. ASSUME Registered(s)', ~Registered(s) PROVE Listed' = Listed \cup {Entry(s)'}
  BY <1>1, <1>6 DEF Listed
<1>. QED
  BY <1>3, <1>4, <1>5, <1>6

LEMMA LeaseInits == Init => Lease!LeaseInit
BY DEF Init, Lease!LeaseInit, Registered

LEMMA LeaseStream ==
    ASSUME IInv, NEW s \in Streams, StreamStep(s)
    PROVE  Lease!LeaseNext \/ UNCHANGED Lease!lease
<1>. USE TypeParts
<1>0. TypeOK /\ LifeOK /\ ReadOK(s)
  BY DEF IInv, ReadsOK
<1>1. /\ UNCHANGED <<key, version>>
      /\ \A u \in Streams \ {s} :
             st'[u] = st[u] /\ key'[u] = key[u] /\ reads'[u] = reads[u]
  BY <1>0, StreamFrame, OtherStreams
<1>2. CASE Registered(s) /\ ~Registered(s)'
  <2>1. Listed' = {e \in Listed : e.stream # s}
    BY <1>0, <1>1, <1>2, ListedStep
  <2>. QED
    BY <1>1, <2>1 DEF Lease!LeaseNext, Lease!Withdraw, Listed, Entry
<1>3. CASE ~Registered(s) /\ Registered(s)'
  <2>1. st[s] = "ready" /\ st'[s] = "live"
    BY <1>0, <1>3, StreamMoves DEF Registered, After, GoroutineOK
  <2>2. UNCHANGED reads
    BY <2>1 DEF StreamStep, BeginStart, LaunchFFmpeg, ProfileFails, FFmpegReady, CompleteStart,
       ReapRejected, StreamFinished, RemoveDir, RetentionEnds, StartupTimeout, ReadContent,
       ProcessExits, IdleStop, goroutine, ffmpeg
  <2>3. reads[s] = {version[key[s]]} /\ key[s] \in Paths
    BY <1>0, <2>1 DEF ReadOK, LifeOK
  <2>4. Entry(s)' = [stream |-> s, path |-> key[s], shows |-> {version[key[s]]}]
    BY <1>1, <2>2, <2>3 DEF Entry
  <2>5. Listed' = Listed \cup {[stream |-> s, path |-> key[s], shows |-> {version[key[s]]}]}
    BY <1>0, <1>1, <1>3, <2>4, ListedStep
  <2>6. \A e \in Listed : e.stream # s
    BY <1>3 DEF Listed, Entry
  <2>. QED
    BY <1>1, <2>3, <2>5, <2>6 DEF Lease!LeaseNext, Lease!Publish, Listed, Entry
<1>4. CASE Registered(s) <=> Registered(s)'
  <2>1. Registered(s) => reads'[s] = reads[s]
    <3>1. CASE ReadContent(s)
      <4>1. reads'[s] = reads[s] \cup {version[key[s]]}
        BY <1>0, <3>1 DEF ReadContent, FFmpegOK
      <4>. QED
        BY <1>0, <4>1 DEF ReadOK, Registered
    <3>2. CASE ~ReadContent(s)
      BY <3>2 DEF StreamStep, BeginStart, FailStart, LaunchFFmpeg, ProfileFails, FFmpegReady,
         CompleteStart, ReapRejected, StreamFinished, RemoveDir, RetentionEnds, StartupTimeout,
         ProcessExits, IdleStop, ffmpeg, Registered
    <3>. QED
      BY <3>1, <3>2
  <2>2. Listed' = Listed
    BY <1>0, <1>1, <1>4, <2>1, ListedStep
  <2>. QED
    BY <1>1, <2>2 DEF Lease!lease, Listed, Entry
<1>. QED
  BY <1>2, <1>3, <1>4

LEMMA LeaseStep == IInv /\ [Next]_vars => [Lease!LeaseNext]_(Lease!lease)
<1>. USE TypeParts
<1>1. SUFFICES ASSUME IInv, [Next]_vars
               PROVE  Lease!LeaseNext \/ UNCHANGED Lease!lease
  OBVIOUS
<1>0. TypeOK /\ LifeOK /\ BarriersOK
  BY <1>1 DEF IInv
<1>2. ASSUME NEW r \in Viewers, ViewerStep(r) PROVE UNCHANGED Lease!lease
  <2>1. UNCHANGED <<version, reads>>
    BY <1>2, ViewerFrame DEF ffmpeg
  <2>2. CASE UNCHANGED <<st, key>>
    BY <2>1, <2>2 DEF Lease!lease, Registered
  <2>3. CASE RegisterStart(r)
    <3>1. PICK s \in Streams :
              /\ st[s] = "free" /\ Moves(s, "queued")
              /\ key' = [key EXCEPT ![s] = PathOf[r]]
              /\ AddRef(s, OwnerOf[r]) /\ Goes(r, "waiting", s)
              /\ starts' = starts + 1 /\ UNCHANGED stopped
      BY <2>3, Registers
    <3>2. \A u \in Streams \ {s} :
              st'[u] = st[u] /\ key'[u] = key[u] /\ reads'[u] = reads[u]
      BY <2>1, <3>1 DEF Moves
    <3>3. ~Registered(s) /\ ~Registered(s)'
      BY <1>0, <3>1 DEF Registered, Moves, GoroutineOK
    <3>4. Listed' = Listed
      BY <1>0, <3>2, <3>3, ListedStep
    <3>. QED
      BY <2>1, <3>4 DEF Lease!lease, Listed, Entry
  <2>. QED
    BY <1>2, <2>2, <2>3, ViewerFrame
<1>3. ASSUME NEW w \in Writers, WriterStep(w)
      PROVE  Lease!LeaseNext \/ UNCHANGED Lease!lease
  <2>1. UNCHANGED <<st, key, reads>>
    BY <1>3, WriterFrame DEF goroutine
  <2>2. Listed' = Listed
    BY <2>1 DEF Listed, Entry, Registered
  <2>3. CASE ReplaceFiles(w) \/ DeleteVault(w)
    <3>1. InBarrier(w, "clear") /\ KindOf[w] # "logout" /\ Reach(w) \subseteq Paths
      BY <2>3, BarriersAssumption DEF ReplaceFiles, DeleteVault, Reach
    <3>2. \A e \in Listed : e.path \notin Reach(w)
      BY <1>0, <3>1, NothingIsKnown DEF Listed, Entry, Known
    <3>3. version' = [p \in Paths |-> IF p \in Reach(w) THEN version[p] + 1 ELSE version[p]]
      BY <2>3 DEF ReplaceFiles, DeleteVault, Reach
    <3>4. Lease!Replace(Reach(w))
      BY <2>2, <3>2, <3>3 DEF Lease!Replace, Listed, Entry
    <3>. QED
      BY <3>1, <3>4 DEF Lease!LeaseNext
  <2>4. CASE ~(ReplaceFiles(w) \/ DeleteVault(w))
    <3>1. UNCHANGED version
      BY <1>3, <2>4 DEF WriterStep, LockBarrier, BarrierStep, StreamsEnded, BarrierTimeout,
         AbandonBarrier, Logout, ShutdownReturns
    <3>. QED
      BY <2>2, <3>1 DEF Lease!lease, Listed, Entry
  <2>. QED
    BY <2>3, <2>4
<1>4. ASSUME \/ \E o \in Sessions : ExpireSession(o)
             \/ UNCHANGED vars
      PROVE  UNCHANGED Lease!lease
  BY <1>4 DEF ExpireSession, vars, Lease!lease, Registered, goroutine, ffmpeg
<1>. QED
  BY <1>1, <1>2, <1>3, <1>4, LeaseStream, Steps

\* HLS streaming implements PlaybackLease: what is listed shows the current
\* version of its file, and the file is not replaced before it is off the list.
THEOREM LeaseIsKept == Spec => ImplementsLease
BY LeaseInits, LeaseStep, Invariance, PTL DEF Spec, ImplementsLease, Lease!LeaseSpec
=============================================================================
