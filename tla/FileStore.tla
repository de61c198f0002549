----------------------------- MODULE FileStore -----------------------------
(***************************************************************************)
(* The files of one vault and the index of them: uploads, new directories  *)
(* and deletions by request (internal/api/files.go), and the walks of an   *)
(* import and of an index rebuild (internal/task/manager.go), over the     *)
(* encrypted tree (internal/crypto/vault.go, io.go) and the tables         *)
(* vault_entries and vault_file_metadata (internal/storage/db.go).         *)
(*                                                                         *)
(* Requests and the replacements of an import exclude each other through   *)
(* hlsLifeMu; index writes of an import, its new directories and the whole *)
(* rebuild do not take it.  The file and its index row are two stores that *)
(* are written one after the other, and the process may end in between.    *)
(*                                                                         *)
(* A content stands for the bytes of a file with their hash, size and      *)
(* duration; contents are numbered, and a new one is never equal to an     *)
(* old one.  A directory lies in the root and holds files.  Every file is  *)
(* a media file: an ordinary one has the same rows without a duration.     *)
(***************************************************************************)
EXTENDS Integers, FiniteSets

CONSTANTS
    Root, Dirs, Files,  \* the paths of the vault
    ParentOf,           \* the directory of each file
    NoPath,
    InitialSource,      \* what the source directory of the imports holds
    DeleteSource,       \* imports remove what they have encrypted
    Requests,           \* the kinds of requests clients send
    MaxContent,         \* bound: contents that ever exist
    MaxId,              \* bound: directory ids that are ever given out
    MaxRequests, MaxImports, MaxRebuilds, MaxCrashes, MaxFaults

Nothing == 0
Contents == 0 .. MaxContent
Slots == 0 .. MaxId
Walks == {Root} \cup Dirs

ASSUME PathsAssumption ==
    /\ Root \notin Dirs
    /\ Walks \cap Files = {}
    /\ NoPath \notin Walks \cup Files
    /\ ParentOf \in [Files -> Walks]

ASSUME BoundsAssumption ==
    /\ MaxContent \in Nat
    /\ InitialSource \in [Files -> Contents]
    /\ Cardinality({f \in Files : InitialSource[f] # Nothing}) \in Contents
    /\ MaxId \in Nat \ {0}
    /\ MaxRequests \in Nat /\ MaxImports \in Nat /\ MaxRebuilds \in Nat
    /\ MaxCrashes \in Nat /\ MaxFaults \in Nat
    /\ DeleteSource \in BOOLEAN

VARIABLES
    disk,       \* encrypted files: disk[f][i] is what is stored under the name
                \* that f has in a directory with id i
    dirId,      \* id a directory has now, 0 when there is none
    nextId,     \* last id given out (generateDirID never repeats one)
    stray,      \* directories d for which a directory d.c9r exists (slot 0)
    entry,      \* index row of a file with the metadata stored beside it
    dirRow,     \* index row of a directory
    src,        \* content of the source file of each path
    srcDirs,    \* source directories that exist
    kept,       \* contents left behind under a quarantine name
    life,       \* hlsLifeMu: "free", or held for writing
    req, imp, reb,  \* the request, the import and the rebuild at work
    made,       \* contents created so far
    budget      \* what the bounds leave

\* What the properties need to know of the past; nothing reads it.
VARIABLES
    suspect,    \* files whose index row an interrupted or overlapped operation
                \* may have left wrong
    unlinked,   \* source contents an import has removed
    superseded, \* contents that a later operation on their path replaced
    quiet       \* nothing else ran since the rebuild began

tree    == <<disk, dirId, nextId, stray>>
index   == <<entry, dirRow>>
source  == <<src, srcDirs, kept>>
history == <<suspect, unlinked, superseded, quiet>>
vars    == <<tree, index, source, life, req, imp, reb, made, budget, history>>

-----------------------------------------------------------------------------
\* The encrypted tree

\* ResolvePath ends at the id of the directory, or at slot 0 when there is none.
Slot(f) == dirId[ParentOf[f]]
Current(f) == disk[f][Slot(f)]

Children(d) == {f \in Files : ParentOf[f] = d}

\* ListDirectory skips every name that does not decrypt under the present id.
Listed(d) == {f \in Children(d) : Current(f) # Nothing}

Exists(d) == dirId[d] # 0 \/ d \in stray

Stored(f, i, c) == disk' = [disk EXCEPT ![f][i] = c]

NoEntry == [hash |-> Nothing, size |-> Nothing, of |-> Nothing]
Row(h, s, o) == [hash |-> h, size |-> s, of |-> o]

NoReq == [op |-> "none", pc |-> "idle", todo |-> {}, dir |-> NoPath,
          file |-> NoPath, slot |-> 0, content |-> Nothing]
NoImp == [pc |-> "idle", dir |-> Root, todo |-> {}, rest |-> {},
          file |-> NoPath, content |-> Nothing, of |-> Nothing, claimed |-> Nothing]
NoReb == [pc |-> "idle", dir |-> Root, todo |-> {}, rest |-> {}, file |-> NoPath,
          sizes |-> [f \in Files |-> Nothing], hash |-> Nothing, of |-> Nothing,
          doomed |-> FALSE]

\* A background walk has read something of f that it has still to write down.
Held(f) ==
    \/ imp.pc \in {"probe", "store"} /\ imp.file = f
    \/ reb.pc # "idle" /\ (reb.file = f \/ f \in reb.todo \cup reb.rest)

\* A file is in place and its row is not written yet, or the other way round.
InFlight ==
    {f \in Files : \/ req.pc \in {"index", "row"} /\ req.file = f
                   \/ imp.pc \in {"probe", "store"} /\ imp.file = f}

EndRequest == req' = NoReq /\ life' = "free"

Spend(what) == budget[what] > 0 /\ budget' = [budget EXCEPT ![what] = @ - 1]

\* CreateEncryptedDirectory: a new id is written even where one exists.
CreateDirectory(d) ==
    /\ nextId < MaxId
    /\ nextId' = nextId + 1
    /\ dirId' = [dirId EXCEPT ![d] = nextId + 1]
    /\ suspect' = suspect \cup {f \in Children(d) : \/ Current(f) # Nothing
                                                    \/ entry[f] # NoEntry
                                                    \/ Held(f)}
    /\ UNCHANGED <<disk, stray>>

\* A row written or removed after its file, with nobody holding an older
\* reading, is right again.
Settle(f, fine) ==
    suspect' = IF fine /\ ~Held(f) THEN suspect \ {f} ELSE suspect

-----------------------------------------------------------------------------
Init ==
    /\ disk = [f \in Files |-> [i \in Slots |-> Nothing]]
    /\ dirId = [d \in Walks |-> IF d = Root THEN 1 ELSE 0]
    /\ nextId = 1
    /\ stray = {}
    /\ entry = [f \in Files |-> NoEntry]
    /\ dirRow = [d \in Walks |-> IF d = Root THEN "complete" ELSE "none"]
    /\ src = InitialSource
    /\ srcDirs = {d \in Dirs : \E f \in Children(d) : InitialSource[f] # Nothing}
    /\ kept = {}
    /\ life = "free"
    /\ req = NoReq /\ imp = NoImp /\ reb = NoReb
    /\ made = Cardinality({f \in Files : InitialSource[f] # Nothing})
    /\ budget = [request |-> MaxRequests, import |-> MaxImports, rebuild |-> MaxRebuilds,
              crash |-> MaxCrashes, fault |-> MaxFaults]
    /\ suspect = {} /\ unlinked = {} /\ superseded = {} /\ quiet = FALSE

-----------------------------------------------------------------------------
\* Upload: the encrypted path is resolved once, the body is copied into a
\* temporary file beside it, renamed into place and indexed, all under the lock.

UploadOpen(f) ==
    /\ "upload" \in Requests
    /\ life = "free"
    /\ Spend("request")
    /\ made < MaxContent
    /\ Exists(ParentOf[f])
    /\ made' = made + 1
    /\ life' = "request"
    /\ req' = [NoReq EXCEPT !.op = "upload", !.pc = "copy", !.file = f,
                            !.slot = Slot(f), !.content = made + 1]
    /\ quiet' = FALSE
    /\ UNCHANGED <<tree, index, source, imp, reb, suspect, unlinked, superseded>>

\* Mutant: the failed copy removes the destination instead of its own file.
BugUploadFails ==
    /\ req.pc = "copy"
    /\ Stored(req.file, req.slot, Nothing)
    /\ EndRequest
    /\ UNCHANGED <<dirId, nextId, stray, index, source, imp, reb, made, budget, history>>

\* The client goes away or the disk is full: only the temporary file existed.
UploadFails ==
    /\ req.pc = "copy"
    /\ EndRequest
    /\ UNCHANGED <<tree, index, source, imp, reb, made, budget, history>>

UploadRename ==
    /\ req.pc = "copy"
    /\ LET f == req.file IN
        /\ Stored(f, req.slot, req.content)
        /\ superseded' = superseded \cup {disk[f][req.slot]}
        /\ suspect' = IF Held(f) \/ req.slot # Slot(f)
                      THEN suspect \cup {f} ELSE suspect
    /\ req' = [req EXCEPT !.pc = "index"]
    /\ UNCHANGED <<dirId, nextId, stray, index, source, life, imp, reb, made,
                   budget, unlinked, quiet>>

\* indexCommittedFile: the probe reads the path back, and may fail.
UploadIndex ==
    /\ req.op = "upload" /\ req.pc = "index"
    /\ LET f == req.file IN
        /\ \E o \in {Nothing, Current(f)} :
              entry' = [entry EXCEPT ![f] = Row(req.content, req.content, o)]
        /\ Settle(f, Current(f) = req.content)
    /\ EndRequest
    /\ UNCHANGED <<tree, dirRow, source, imp, reb, made, budget, unlinked, superseded, quiet>>

\* The new file is removed again; the one it replaced is gone, its row is not.
UploadIndexFails ==
    /\ req.op = "upload" /\ req.pc = "index"
    /\ Spend("fault")
    /\ Stored(req.file, req.slot, Nothing)
    /\ superseded' = superseded \cup {disk[req.file][req.slot]}
    /\ suspect' = suspect \cup {req.file}
    /\ EndRequest
    /\ UNCHANGED <<dirId, nextId, stray, index, source, imp, reb, made, unlinked, quiet>>

-----------------------------------------------------------------------------
\* A new directory: its id, then its row, which says at once that all of its
\* children are indexed.

Mkdir(d) ==
    /\ "mkdir" \in Requests
    /\ life = "free"
    /\ Spend("request")
    /\ CreateDirectory(d)
    /\ life' = "request"
    /\ req' = [NoReq EXCEPT !.op = "mkdir", !.pc = "index", !.dir = d]
    /\ quiet' = FALSE
    /\ UNCHANGED <<index, source, imp, reb, made, unlinked, superseded>>

MkdirIndex ==
    /\ req.op = "mkdir"
    /\ dirRow' = [dirRow EXCEPT ![req.dir] = "complete"]
    /\ EndRequest
    /\ UNCHANGED <<tree, entry, source, imp, reb, made, budget, history>>

MkdirIndexFails ==
    /\ req.op = "mkdir"
    /\ Spend("fault")
    /\ EndRequest
    /\ UNCHANGED <<tree, index, source, imp, reb, made, history>>

-----------------------------------------------------------------------------
\* Deletion of a file, or of the listed files of a directory one by one and
\* then of the directory.  A batch is such a sequence under one hold.

DeleteOpen(p) ==
    /\ "delete" \in Requests
    /\ life = "free"
    /\ Spend("request")
    /\ \/ p \in Files /\ Current(p) # Nothing
          /\ req' = [NoReq EXCEPT !.op = "delete", !.pc = "children", !.todo = {p}]
       \/ p \in Dirs /\ Exists(p)
          /\ req' = [NoReq EXCEPT !.op = "delete", !.pc = "children", !.todo = Listed(p),
                                  !.dir = p]
    /\ life' = "request"
    /\ quiet' = FALSE
    /\ UNCHANGED <<tree, index, source, imp, reb, made, suspect, unlinked, superseded>>

\* Each name is resolved again; the request ends at the first that is gone.
DeleteFile(f) ==
    /\ req.pc = "children" /\ f \in req.todo
    /\ Current(f) # Nothing
    /\ Stored(f, Slot(f), Nothing)
    /\ superseded' = superseded \cup {Current(f)}
    /\ suspect' = IF Held(f) THEN suspect \cup {f} ELSE suspect
    /\ req' = [req EXCEPT !.pc = "row", !.file = f]
    /\ UNCHANGED <<dirId, nextId, stray, index, source, life, imp, reb, made,
                   budget, unlinked, quiet>>

\* DeleteEntry removes row and metadata in one transaction.
DeleteRow ==
    /\ req.pc = "row"
    /\ entry' = [entry EXCEPT ![req.file] = NoEntry]
    /\ Settle(req.file, TRUE)
    /\ IF req.dir = NoPath
       THEN EndRequest
       ELSE /\ req' = [req EXCEPT !.pc = "children", !.todo = @ \ {req.file}, !.file = NoPath]
            /\ UNCHANGED life
    /\ UNCHANGED <<tree, dirRow, source, imp, reb, made, budget, unlinked, superseded, quiet>>

DeleteRowFails ==
    /\ req.pc = "row"
    /\ Spend("fault")
    /\ suspect' = suspect \cup {req.file}
    /\ EndRequest
    /\ UNCHANGED <<tree, index, source, imp, reb, made, unlinked, superseded, quiet>>

DeleteFails ==
    /\ req.pc \in {"children", "dirrow"}
    /\ EndRequest
    /\ UNCHANGED <<tree, index, source, imp, reb, made, budget, history>>

\* os.RemoveAll also takes what is stored under ids the directory had before.
DeleteDirectory ==
    /\ req.pc = "children" /\ req.todo = {} /\ req.dir # NoPath
    /\ LET d == req.dir
           gone == IF dirId[d] # 0 THEN Slots \ {0} ELSE {0}
       IN
        /\ disk' = [f \in Files |-> [i \in Slots |->
                       IF ParentOf[f] = d /\ i \in gone THEN Nothing ELSE disk[f][i]]]
        /\ superseded' = superseded \cup {disk[f][i] : f \in Children(d), i \in gone}
        /\ suspect' = suspect \cup {f \in Children(d) :
              Held(f) \/ entry[f] # NoEntry \/ disk[f][0] # Nothing}
        /\ dirId' = [dirId EXCEPT ![d] = 0]
        /\ stray' = IF dirId[d] # 0 THEN stray ELSE stray \ {d}
    /\ req' = [req EXCEPT !.pc = "dirrow"]
    /\ UNCHANGED <<nextId, index, source, life, imp, reb, made, budget, unlinked, quiet>>

DeleteDirectoryRow ==
    /\ req.pc = "dirrow"
    /\ dirRow' = [dirRow EXCEPT ![req.dir] = "none"]
    /\ EndRequest
    /\ UNCHANGED <<tree, entry, source, imp, reb, made, budget, history>>

-----------------------------------------------------------------------------
\* Import: the source tree is walked directory by directory (the order of the
\* names is left open).  imp.rest is what is left of the root meanwhile.

SourceFilesIn(d) == {f \in Children(d) : src[f] # Nothing}

ImportStart ==
    /\ imp.pc = "idle"
    /\ Spend("import")
    /\ imp' = [NoImp EXCEPT !.pc = "walk", !.todo = SourceFilesIn(Root) \cup srcDirs]
    /\ quiet' = FALSE
    /\ UNCHANGED <<tree, index, source, life, req, reb, made, suspect, unlinked, superseded>>

\* The directory is created without the lock, whether or not it exists.
ImportDirectory(d) ==
    /\ imp.pc = "walk" /\ d \in imp.todo
    /\ CreateDirectory(d)
    /\ imp' = [imp EXCEPT !.pc = "opening", !.dir = d, !.rest = imp.todo \ {d}, !.todo = {}]
    /\ UNCHANGED <<index, source, life, req, reb, made, budget, unlinked, superseded, quiet>>

\* Its row says that its children are not all indexed yet.
ImportDirectoryRow ==
    /\ imp.pc = "opening"
    /\ dirRow' = [dirRow EXCEPT ![imp.dir] = "partial"]
    /\ imp' = [imp EXCEPT !.pc = "walk", !.todo = SourceFilesIn(imp.dir)]
    /\ UNCHANGED <<tree, entry, source, life, req, reb, made, budget, history>>

\* Mutant: the import replaces files without the lease.
BugImportLease(f) ==
    /\ imp.pc = "walk" /\ f \in imp.todo
    /\ imp' = [imp EXCEPT !.pc = "encrypt", !.file = f]
    /\ UNCHANGED <<tree, index, source, life, req, reb, made, budget, history>>

\* BeginFileReplacement.
ImportLease(f) ==
    /\ imp.pc = "walk" /\ f \in imp.todo
    /\ life = "free"
    /\ life' = "import"
    /\ imp' = [imp EXCEPT !.pc = "encrypt", !.file = f]
    /\ UNCHANGED <<tree, index, source, req, reb, made, budget, history>>

\* MkdirAll makes a directory that is missing, but under the name of a file
\* (slot 0), and before anything is copied.
MakeMissingDirectory ==
    stray' = IF Exists(ParentOf[imp.file]) THEN stray ELSE stray \cup {ParentOf[imp.file]}

\* EncryptSingleFileContext to a temporary file and, if the source is still the
\* file that was opened, the rename.  The lease ends here.
ImportEncrypt ==
    /\ imp.pc = "encrypt"
    /\ src[imp.file] # Nothing
    /\ LET f == imp.file IN
        /\ Stored(f, Slot(f), src[f])
        /\ superseded' = superseded \cup {Current(f)}
        /\ suspect' = IF reb.pc # "idle" /\ Held(f) THEN suspect \cup {f} ELSE suspect
        /\ imp' = [imp EXCEPT !.pc = "probe", !.content = src[f]]
    /\ MakeMissingDirectory
    /\ life' = "free"
    /\ UNCHANGED <<dirId, nextId, index, source, req, reb, made, budget, unlinked, quiet>>

\* The source is checked again, then the path is probed, without the lock.
ImportProbe ==
    /\ imp.pc = "probe"
    /\ src[imp.file] = imp.content
    /\ \E o \in {Nothing, Current(imp.file)} :
          imp' = [imp EXCEPT !.pc = "store", !.of = o]
    /\ UNCHANGED <<tree, index, source, life, req, reb, made, budget, history>>

\* removeEmptyDirs ends every import that moves its files, failed ones too; it
\* stops when the task is cancelled, and a directory may resist.
EmptyDirsGo(dirs) ==
    \E gone \in SUBSET {d \in dirs : SourceFilesIn(d) = {}} :
        /\ gone # {} => DeleteSource
        /\ srcDirs' = srcDirs \ gone

Walked == [imp EXCEPT !.pc = "walk", !.todo = @ \ {imp.file}, !.file = NoPath,
                      !.content = Nothing, !.of = Nothing, !.claimed = Nothing]

ImportStore ==
    /\ imp.pc = "store"
    /\ entry' = [entry EXCEPT ![imp.file] = Row(imp.content, imp.content, imp.of)]
    /\ imp' = IF DeleteSource THEN [imp EXCEPT !.pc = "claim", !.of = Nothing] ELSE Walked
    /\ UNCHANGED <<tree, dirRow, source, life, req, reb, made, budget, history>>

\* RemoveSourceFile moves whatever has the name now to a quarantine name.
ImportClaim ==
    /\ imp.pc = "claim"
    /\ src[imp.file] # Nothing
    /\ src' = [src EXCEPT ![imp.file] = Nothing]
    /\ imp' = [imp EXCEPT !.pc = "unlink", !.claimed = src[imp.file]]
    /\ UNCHANGED <<tree, index, srcDirs, kept, life, req, reb, made, budget, history>>

\* Mutant: the claimed file is removed without looking at it again.
BugImportUnlink ==
    /\ imp.pc = "unlink"
    /\ unlinked' = unlinked \cup {imp.claimed}
    /\ imp' = Walked
    /\ UNCHANGED <<tree, index, source, life, req, reb, made, budget, suspect,
                   superseded, quiet>>

\* It is removed only if it is the file that was encrypted.
ImportUnlink ==
    /\ imp.pc = "unlink"
    /\ imp.claimed = imp.content
    /\ unlinked' = unlinked \cup {imp.claimed}
    /\ imp' = Walked
    /\ UNCHANGED <<tree, index, source, life, req, reb, made, budget, suspect,
                   superseded, quiet>>

\* Otherwise it goes back, unless the name has been taken again; so it does
\* not when only its removal fails.  The import ends with an error, and the
\* directory of the file is not empty in either case.
ImportRestore ==
    /\ imp.pc = "unlink"
    /\ IF imp.claimed # imp.content /\ src[imp.file] = Nothing
       THEN src' = [src EXCEPT ![imp.file] = imp.claimed] /\ UNCHANGED kept
       ELSE kept' = kept \cup {imp.claimed} /\ UNCHANGED src
    /\ EmptyDirsGo(srcDirs \ {ParentOf[imp.file]})
    /\ imp' = NoImp
    /\ UNCHANGED <<tree, index, life, req, reb, made, budget, history>>

\* All children of a directory are indexed: its row says so.
ImportLeave ==
    /\ imp.pc = "walk" /\ imp.todo = {} /\ imp.dir # Root
    /\ dirRow' = [dirRow EXCEPT ![imp.dir] = "complete"]
    /\ imp' = [imp EXCEPT !.dir = Root, !.todo = imp.rest, !.rest = {}]
    /\ UNCHANGED <<tree, entry, source, life, req, reb, made, budget, history>>

ImportDone ==
    /\ imp.pc = "walk" /\ imp.todo = {} /\ imp.dir = Root
    /\ EmptyDirsGo(srcDirs)
    /\ imp' = NoImp
    /\ UNCHANGED <<tree, index, src, kept, life, req, reb, made, budget, history>>

\* Mutant: a replacement that fails keeps the lease.
BugImportAbort ==
    /\ imp.pc \notin {"idle", "unlink"}
    /\ imp' = NoImp
    /\ suspect' = IF imp.pc \in {"probe", "store"} THEN suspect \cup {imp.file} ELSE suspect
    /\ UNCHANGED <<tree, index, source, life, req, reb, made, budget, unlinked,
                   superseded, quiet>>

\* Cancelled, or any step failed: the directories it opened stay partial, and
\* a file that was renamed keeps the row of the file it replaced.
ImportAbort ==
    /\ imp.pc \notin {"idle", "unlink"}
    /\ imp' = NoImp
    /\ EmptyDirsGo(srcDirs)
    /\ life' = IF imp.pc = "encrypt" THEN "free" ELSE life
    /\ \/ imp.pc = "encrypt" /\ MakeMissingDirectory
       \/ UNCHANGED stray
    /\ suspect' = IF imp.pc \in {"probe", "store"} THEN suspect \cup {imp.file} ELSE suspect
    /\ UNCHANGED <<disk, dirId, nextId, index, src, kept, req, reb, made, budget, unlinked,
                   superseded, quiet>>

-----------------------------------------------------------------------------
\* Rebuild: every row is removed and written anew from a walk of the tree.

\* Mutant: the rebuild writes over the rows there are.
BugRebuildClear ==
    /\ reb.pc = "idle"
    /\ Spend("rebuild")
    /\ reb' = [NoReb EXCEPT !.pc = "list"]
    /\ quiet' = (life = "free" /\ imp.pc = "idle")
    /\ UNCHANGED <<tree, index, source, life, req, imp, made, suspect, unlinked, superseded>>

RebuildClear ==
    /\ reb.pc = "idle"
    /\ Spend("rebuild")
    /\ entry' = [f \in Files |-> NoEntry]
    /\ dirRow' = [d \in Walks |-> "none"]
    /\ reb' = [NoReb EXCEPT !.pc = "list"]
    /\ quiet' = (life = "free" /\ imp.pc = "idle")
    /\ UNCHANGED <<tree, source, life, req, imp, made, suspect, unlinked, superseded>>

\* ListDirectory: names with the sizes they have now.  A stray directory is
\* listed as a file, which cannot be hashed: this rebuild will fail.
RebuildList ==
    /\ reb.pc = "list"
    /\ Exists(reb.dir)
    /\ reb' = [reb EXCEPT !.pc = "row",
                 !.todo = Listed(reb.dir) \cup
                          (IF reb.dir = Root THEN {d \in Dirs : dirId[d] # 0} ELSE {}),
                 !.sizes = [f \in Files |-> IF f \in Children(reb.dir)
                                            THEN Current(f) ELSE reb.sizes[f]],
                 !.doomed = @ \/ (reb.dir = Root /\ stray # {})]
    /\ UNCHANGED <<tree, index, source, life, req, imp, made, budget, history>>

\* The row says that all children are indexed before one of them is.
RebuildDirectoryRow ==
    /\ reb.pc = "row"
    /\ dirRow' = [dirRow EXCEPT ![reb.dir] = "complete"]
    /\ reb' = [reb EXCEPT !.pc = "walk"]
    /\ UNCHANGED <<tree, entry, source, life, req, imp, made, budget, history>>

RebuildHash(f) ==
    /\ reb.pc = "walk" /\ f \in reb.todo
    /\ Current(f) # Nothing
    /\ reb' = [reb EXCEPT !.pc = "probe", !.file = f, !.hash = Current(f)]
    /\ UNCHANGED <<tree, index, source, life, req, imp, made, budget, history>>

RebuildProbe ==
    /\ reb.pc = "probe"
    /\ \E o \in {Nothing, Current(reb.file)} :
          reb' = [reb EXCEPT !.pc = "store", !.of = o]
    /\ UNCHANGED <<tree, index, source, life, req, imp, made, budget, history>>

RebuildStore ==
    /\ reb.pc = "store"
    /\ entry' = [entry EXCEPT ![reb.file] = Row(reb.hash, reb.sizes[reb.file], reb.of)]
    /\ reb' = [reb EXCEPT !.pc = "walk", !.todo = @ \ {reb.file}, !.file = NoPath,
                          !.hash = Nothing, !.of = Nothing]
    /\ UNCHANGED <<tree, dirRow, source, life, req, imp, made, budget, history>>

RebuildEnter(d) ==
    /\ reb.pc = "walk" /\ d \in reb.todo
    /\ reb' = [reb EXCEPT !.pc = "list", !.dir = d, !.rest = reb.todo \ {d}, !.todo = {}]
    /\ UNCHANGED <<tree, index, source, life, req, imp, made, budget, history>>

RebuildLeave ==
    /\ reb.pc = "walk" /\ reb.todo = {} /\ reb.dir # Root
    /\ reb' = [reb EXCEPT !.dir = Root, !.todo = reb.rest, !.rest = {}]
    /\ UNCHANGED <<tree, index, source, life, req, imp, made, budget, history>>

\* PruneFileMetadata finds nothing: metadata is only written with its row.
RebuildDone ==
    /\ reb.pc = "walk" /\ reb.todo = {} /\ reb.dir = Root /\ ~reb.doomed
    /\ reb' = NoReb
    /\ suspect' = IF quiet THEN {} ELSE suspect
    /\ UNCHANGED <<tree, index, source, life, req, imp, made, budget, unlinked,
                   superseded, quiet>>

RebuildAbort ==
    /\ reb.pc # "idle"
    /\ reb' = NoReb
    /\ suspect' = Files
    /\ UNCHANGED <<tree, index, source, life, req, imp, made, budget, unlinked,
                   superseded, quiet>>

-----------------------------------------------------------------------------
\* A downloader puts a file into the source directory, or replaces one.
SourceChanges(f) ==
    /\ made < MaxContent
    /\ made' = made + 1
    /\ ParentOf[f] = Root \/ ParentOf[f] \in srcDirs
    /\ src' = [src EXCEPT ![f] = made + 1]
    /\ UNCHANGED <<tree, index, srcDirs, kept, life, req, imp, reb, budget, history>>

\* The process ends and is started again: files, index and sources stay.
Crash ==
    /\ Spend("crash")
    /\ req' = NoReq /\ imp' = NoImp /\ reb' = NoReb
    /\ life' = "free"
    /\ \/ imp.pc = "encrypt" /\ MakeMissingDirectory
       \/ UNCHANGED stray
    /\ kept' = IF imp.pc = "unlink" THEN kept \cup {imp.claimed} ELSE kept
    /\ suspect' = IF reb.pc # "idle" THEN Files ELSE suspect \cup InFlight
    /\ UNCHANGED <<disk, dirId, nextId, index, src, srcDirs, made, unlinked, superseded,
                   quiet>>

Request ==
    \/ \E f \in Files : UploadOpen(f) \/ DeleteFile(f)
    \/ \E p \in Files \cup Dirs : DeleteOpen(p)
    \/ \E d \in Dirs : Mkdir(d)
    \/ UploadFails \/ UploadRename \/ UploadIndex \/ UploadIndexFails
    \/ MkdirIndex \/ MkdirIndexFails
    \/ DeleteRow \/ DeleteRowFails \/ DeleteFails
    \/ DeleteDirectory \/ DeleteDirectoryRow

ImportStep ==
    \/ \E d \in Dirs : ImportDirectory(d)
    \/ \E f \in Files : ImportLease(f)
    \/ ImportStart \/ ImportDirectoryRow \/ ImportEncrypt \/ ImportProbe \/ ImportStore
    \/ ImportClaim \/ ImportUnlink \/ ImportRestore
    \/ ImportLeave \/ ImportDone \/ ImportAbort

RebuildStep ==
    \/ \E f \in Files : RebuildHash(f)
    \/ \E d \in Dirs : RebuildEnter(d)
    \/ RebuildClear \/ RebuildList \/ RebuildDirectoryRow \/ RebuildProbe \/ RebuildStore
    \/ RebuildLeave \/ RebuildDone \/ RebuildAbort

Next ==
    \/ Request \/ ImportStep \/ RebuildStep
    \/ \E f \in Files : SourceChanges(f)
    \/ Crash

Spec == Init /\ [][Next]_vars

-----------------------------------------------------------------------------
\* Properties

PathOrNone == Walks \cup Files \cup {NoPath}

ReqTypeOK ==
    /\ req \in [op : {"none", "upload", "mkdir", "delete"},
                pc : {"idle", "copy", "index", "children", "row", "dirrow"},
                todo : SUBSET Files, dir : Dirs \cup {NoPath},
                file : Files \cup {NoPath}, slot : Slots, content : Contents]
    /\ (req.op = "none") = (req.pc = "idle")
    /\ req.pc \in {"copy", "row"} => req.file \in Files
    /\ req.op = "upload" => req.pc \in {"copy", "index"} /\ req.file \in Files
    /\ req.op = "mkdir" => req.pc = "index" /\ req.dir \in Dirs
    /\ req.pc = "dirrow" => req.dir \in Dirs

ImpTypeOK ==
    /\ imp \in [pc : {"idle", "walk", "opening", "encrypt", "probe", "store", "claim", "unlink"},
                dir : Walks, todo : SUBSET (Dirs \cup Files), rest : SUBSET (Dirs \cup Files),
                file : Files \cup {NoPath}, content : Contents, of : Contents, claimed : Contents]
    /\ imp.pc \in {"encrypt", "probe", "store", "claim", "unlink"} => imp.file \in Files

RebTypeOK ==
    /\ reb \in [pc : {"idle", "list", "row", "walk", "probe", "store"},
                dir : Walks, todo : SUBSET (Dirs \cup Files), rest : SUBSET (Dirs \cup Files),
                file : Files \cup {NoPath}, sizes : [Files -> Contents], hash : Contents, of : Contents,
                doomed : BOOLEAN]
    /\ reb.pc \in {"probe", "store"} => reb.file \in Files

\* The shape of the state, and that the lock is held exactly by the request at
\* work or by the import that is replacing a file (hlsLifeMu is released on
\* every way out of a handler and of the import).
TypeOK ==
    /\ disk \in [Files -> [Slots -> Contents]]
    /\ dirId \in [Walks -> Slots] /\ nextId \in Slots /\ dirId[Root] # 0
    /\ stray \subseteq Dirs
    /\ entry \in [Files -> [hash : Contents, size : Contents, of : Contents]]
    /\ dirRow \in [Walks -> {"none", "partial", "complete"}]
    /\ src \in [Files -> Contents] /\ srcDirs \subseteq Dirs /\ kept \subseteq Contents
    /\ ReqTypeOK /\ ImpTypeOK /\ RebTypeOK
    /\ life = IF req.op # "none" THEN "request"
              ELSE IF imp.pc = "encrypt" THEN "import" ELSE "free"
    /\ imp.pc = "encrypt" => req.op = "none"
    /\ made \in Contents
    /\ budget \in [{"request", "import", "rebuild", "crash", "fault"} -> Nat]
    /\ suspect \subseteq Files /\ unlinked \subseteq Contents /\ superseded \subseteq Contents
    /\ quiet \in BOOLEAN

\* The row of f is the row of what is stored, and so is its duration.
Matches(f) ==
    /\ entry[f].hash = Current(f)
    /\ entry[f].size = Current(f)
    /\ entry[f].of \in {Nothing, Current(f)}

\* Outside an operation on it, a file and its row agree (a deleted file has
\* none), in spite of all the interleavings of requests, an import and a
\* rebuild: only a failed index write, a process that ended between the two
\* stores, a directory created twice and an overlap with a reading that a
\* background walk still held can leave them apart.
IndexMatchesDisk ==
    reb.pc = "idle" => \A f \in Files \ (suspect \cup InFlight) : Matches(f)

OnDisk == {disk[f][i] : f \in Files, i \in Slots}

\* A source is removed only behind its copy: what an import has unlinked is in
\* the vault, or was replaced or deleted there by a later operation on its
\* path; also over restarts, and when a downloader puts a new file under the
\* name of the source between the check and the removal.
SourceBehindCopy == unlinked \subseteq OnDisk \cup superseded

\* The same, for a reader: what was moved into the vault can be reached at its
\* path.  (manager.go:1042 calls the removal of the source safe.)
ImportedStaysReachable ==
    unlinked \subseteq {Current(f) : f \in Files} \cup superseded

\* A rebuild that nothing overlapped leaves an index that is exactly the tree,
\* whatever state the index was in before.
RebuildRepairs ==
    [][RebuildDone /\ quiet =>
          /\ \A f \in Files : Matches(f)
          /\ \A d \in Walks : dirRow[d] = IF dirId[d] # 0 THEN "complete" ELSE "none"]_vars

\* With nothing at work a replaced file does not have the duration of the file
\* it replaced (fileindex/index.go:66, "can therefore never inherit the
\* previous file's derived data").
DerivedDataIsCurrent ==
    life = "free" /\ imp.pc = "idle" /\ reb.pc = "idle" =>
        \A f \in Files : Current(f) # Nothing => entry[f].of \in {Nothing, Current(f)}

\* What the vault shows of its files is what VaultContents promises.
Shown == INSTANCE VaultContents WITH
    content  <- [f \in Files |-> Current(f)],
    holder   <- life

ImplementsContents == Shown!ContentsSpec
=============================================================================
