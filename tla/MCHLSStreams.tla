---------------------------- MODULE MCHLSStreams ----------------------------
(***************************************************************************)
(* Small instances of HLSStreams: the viewers r1 and r2 belong to session  *)
(* a, r3 and r4 to session b; r4 shows the file q, the others p.           *)
(***************************************************************************)
EXTENDS HLSStreams

CONSTANTS a, b, r1, r2, r3, r4, p, q, rep, out, del, down

MCOwnerOf == [r \in Viewers |-> IF r \in {r1, r2} THEN a ELSE b]
MCPathOf == [r \in Viewers |-> IF r = r4 THEN q ELSE p]
MCKindOf == [w \in Writers |->
                CASE w = rep -> "replace" [] w = out -> "logout"
                  [] w = del -> "deleteVault" [] w = down -> "shutdown"]
MCFilesOf == [w \in Writers |-> IF w = rep THEN {p} ELSE {}]
MCLogoutOf == [w \in Writers |-> a]

Busy == {r \in Viewers : ~At(r, "idle")}
Past(w) == InBarrier(w, "done") \/ lifeMu = w

Others == {w \in Writers \ {rep} : Past(w)}
FirstStart == Cardinality(Unused) >= MaxStarts - 1

(* The safety run: at any time r1 and one other viewer are busy and,       *)
(* replacements aside, one thing happens to the sessions and the server:   *)
(* one session expires, or one barrier of another kind is taken; r2 comes  *)
(* before p is replaced.  Around a second start there is one viewer of     *)
(* each file, no asset is requested, and p is replaced at most once,       *)
(* nothing else.                                                           *)
MCBound ==
    /\ Cardinality(Busy \ {r1}) <= 1
    /\ Cardinality(Others) <= 1
    /\ Others = {} => Cardinality(sess) >= Cardinality(Sessions) - 1
    /\ Others # {} /\ ~InBarrier(del, "done") => b \in sess
    /\ r4 \in Busy => Others = {}
    /\ r2 \in Busy => version[p] = 1
    /\ Others # {} => version[p] = 1 \/ InBarrier(del, "done")
    /\ ~FirstStart =>
           /\ sess = Sessions /\ Others = {} /\ Busy \subseteq {r1, r4}
           /\ r4 \in Busy => lifeMu = NoWriter /\ version[p] = 1
           /\ version[p] = 1 \/ lifeMu = NoWriter
           /\ \A r \in Viewers : ~At(r, "found") /\ ~At(r, "serving")

(* The liveness run: r3 requests no asset, files are replaced or the server *)
(* shuts down, and a second start is that of r1, alone and undisturbed.     *)
MCLive ==
    /\ sess = Sessions
    /\ ~At(r3, "found") /\ ~At(r3, "serving")
    /\ Others # {} => version[p] = 1 /\ lifeMu # rep
    /\ ~FirstStart =>
           /\ Busy \subseteq {r1} /\ lifeMu = NoWriter /\ ~closing
           /\ ~At(r1, "found") /\ ~At(r1, "serving") /\ ~At(r1, "leaving")
=============================================================================
