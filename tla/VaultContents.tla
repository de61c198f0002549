--------------------------- MODULE VaultContents ---------------------------
(***************************************************************************)
(* What cryp promises to a reader of a vault, without how it stores files: *)
(* every path holds one whole content or none, and what a path holds is    *)
(* changed one file at a time by the one holder of the replacement lock    *)
(* (hlsLifeMu).  Two operations reach every file of a directory at once:   *)
(* its removal, which also needs the lock, and its creation, which does    *)
(* not (an import creates its directories without it) and always leaves    *)
(* the directory empty, even where one existed.                            *)
(***************************************************************************)
EXTENDS TLAPS

CONSTANTS Dirs, Files, ParentOf, Contents, Nothing

VARIABLES
    content,    \* what a reader of the path gets
    holder      \* who may change it: "free", "request" or "import"

contents == <<content, holder>>

Holders == {"request", "import"}

ContentsTypeOK ==
    content \in [Files -> Contents] /\ holder \in Holders \cup {"free"}

ContentsInit == content \in [Files -> Contents] /\ holder = "free"

Acquire(h) == holder = "free" /\ holder' = h /\ UNCHANGED content

Release == holder' = "free" /\ UNCHANGED content

\* The holder replaces or removes one file, and may let go with it.
Put(f, c) ==
    /\ holder \in Holders
    /\ content' = [content EXCEPT ![f] = c]
    /\ holder' \in {holder, "free"}

EmptyDirectory(d) ==
    /\ content' = [f \in Files |-> IF ParentOf[f] = d THEN Nothing ELSE content[f]]
    /\ holder' = holder \/ (holder = "free" /\ holder' = "request")

\* Files outside the directory stay what they are.
RemoveDirectory(d) ==
    /\ holder = "request"
    /\ content' \in [Files -> Contents]
    /\ \A f \in Files : ParentOf[f] # d => content'[f] = content[f]
    /\ UNCHANGED holder

ContentsNext ==
    \/ \E h \in Holders : Acquire(h)
    \/ Release
    \/ \E f \in Files, c \in Contents : Put(f, c)
    \/ \E d \in Dirs : EmptyDirectory(d) \/ RemoveDirectory(d)

ContentsSpec == ContentsInit /\ [][ContentsNext]_contents

\* While nobody holds the lock a file keeps its content, unless the directory
\* it is in is created anew, which leaves it without any.
UnlockedStep ==
    holder = "free" =>
        \A f \in Files : content'[f] # content[f] => content'[f] = Nothing

UnlockedFilesKeepContent == [][UnlockedStep]_contents

\* For every vault: what a reader has seen at a path stays there until somebody
\* holds the lock, or creates the directory anew.
THEOREM UnlockedContent == ContentsSpec => UnlockedFilesKeepContent
<1>1. ASSUME ContentsNext PROVE UnlockedStep
  <2>1. CASE \E h \in Holders : Acquire(h)
    BY <2>1 DEF Acquire, UnlockedStep
  <2>2. CASE Release
    BY <2>2 DEF Release, UnlockedStep
  <2>3. CASE \E f \in Files, c \in Contents : Put(f, c)
    BY <2>3 DEF Put, Holders, UnlockedStep
  <2>4. CASE \E d \in Dirs : EmptyDirectory(d)
    BY <2>4 DEF EmptyDirectory, UnlockedStep
  <2>5. CASE \E d \in Dirs : RemoveDirectory(d)
    BY <2>5 DEF RemoveDirectory, UnlockedStep
  <2>6. QED BY <1>1, <2>1, <2>2, <2>3, <2>4, <2>5 DEF ContentsNext
<1>2. ASSUME UNCHANGED contents PROVE UnlockedStep
  BY <1>2 DEF contents, UnlockedStep
<1>3. QED BY <1>1, <1>2, PTL DEF ContentsSpec, UnlockedFilesKeepContent
=============================================================================
