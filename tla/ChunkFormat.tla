---------------------------- MODULE ChunkFormat ----------------------------
(***************************************************************************)
(* One encrypted file: the writer that cuts a stream into authenticated    *)
(* chunks (internal/crypto/content.go), and the handlers that serve all of *)
(* it or a range from it (internal/api/files_content.go).                  *)
(*                                                                         *)
(* Byte i of the plaintext is the number i.  A ciphertext chunk is where   *)
(* it lies in the file, the number it is bound to as associated data and   *)
(* the plaintext bytes it holds.  Reading authenticates when what was read *)
(* is one whole chunk under its own number, and fails otherwise.  A file   *)
(* may lose its end afterwards: the format has no mark of its end.         *)
(***************************************************************************)
EXTENDS Integers, Sequences, FiniteSetsExt

CONSTANTS
    HeaderSize, ChunkNonceSize, ChunkTagSize, ChunkPayloadSize,
    MaxSize,    \* bound: bytes that are ever written
    MaxRead     \* bound: bytes that one Read or Write carries

ASSUME SizesAssumption ==
    /\ HeaderSize \in Nat \ {0}
    /\ ChunkNonceSize \in Nat \ {0} /\ ChunkTagSize \in Nat \ {0}
    /\ ChunkPayloadSize \in Nat \ {0}
    /\ MaxSize \in Nat /\ MaxRead \in Nat \ {0}

Overhead == ChunkNonceSize + ChunkTagSize
ChunkCipherSize == Overhead + ChunkPayloadSize

VARIABLES
    phase,      \* "writing" until the writer is closed, then "whole", and
                \* "damaged" once the file has lost its end
    taken,      \* bytes the writer has accepted
    buffered,   \* how many of the last of them are still in its buffer
    chunks,     \* the chunks written, in order
    size,       \* bytes of ciphertext on disk
    resp        \* the request that is being served

vars == <<phase, taken, buffered, chunks, size, resp>>

-----------------------------------------------------------------------------
\* Offsets and sizes

\* Mutant: the chunks are taken to begin at the start of the file.
BugCipherOffset(offset) == (offset \div ChunkPayloadSize) * ChunkCipherSize

\* PlaintextOffset2CipherOffset, as three functions.
CipherOffset(offset) == HeaderSize + (offset \div ChunkPayloadSize) * ChunkCipherSize
ChunkIndex(offset) == offset \div ChunkPayloadSize
SkipBytes(offset) == offset % ChunkPayloadSize

PlaintextSize2CipherSize(n) ==
    HeaderSize + (n \div ChunkPayloadSize) * ChunkCipherSize
               + (IF n % ChunkPayloadSize > 0 THEN Overhead + (n % ChunkPayloadSize) ELSE 0)

CipherSize2PlaintextSize(n) ==
    IF n <= HeaderSize THEN 0
    ELSE LET full == (n - HeaderSize) \div ChunkCipherSize
             rest == (n - HeaderSize) % ChunkCipherSize
         IN  full * ChunkPayloadSize + (IF rest < Overhead THEN 0 ELSE rest - Overhead)

Announced == CipherSize2PlaintextSize(size)

-----------------------------------------------------------------------------
\* The writer

Chunk(at, num, from, len) == [at |-> at, num |-> num, from |-> from, len |-> len]

\* Mutant: a buffer that is full is kept until the next byte comes.
BugWrite(n) ==
    /\ phase = "writing" /\ taken + n <= MaxSize
    /\ IF buffered + n <= ChunkPayloadSize
       THEN buffered' = buffered + n /\ UNCHANGED <<chunks, size>>
       ELSE /\ chunks' = Append(chunks, Chunk(size, Len(chunks), taken - buffered,
                                              ChunkPayloadSize))
            /\ buffered' = buffered + n - ChunkPayloadSize
            /\ size' = size + ChunkCipherSize
    /\ taken' = taken + n
    /\ UNCHANGED <<phase, resp>>

\* Every chunk that is full is sealed under the next number and written.
Write(n) ==
    /\ phase = "writing" /\ taken + n <= MaxSize
    /\ LET full == (buffered + n) \div ChunkPayloadSize
           first == taken - buffered
       IN
        /\ chunks' = chunks \o
             [i \in 1 .. full |-> Chunk(size + (i - 1) * ChunkCipherSize, Len(chunks) + i - 1,
                                        first + (i - 1) * ChunkPayloadSize, ChunkPayloadSize)]
        /\ size' = size + full * ChunkCipherSize
        /\ buffered' = buffered + n - full * ChunkPayloadSize
    /\ taken' = taken + n
    /\ UNCHANGED <<phase, resp>>

\* The rest goes into a short chunk; an empty buffer makes none.
Close ==
    /\ phase = "writing"
    /\ phase' = "whole"
    /\ IF buffered > 0
       THEN /\ chunks' = Append(chunks, Chunk(size, Len(chunks), taken - buffered, buffered))
            /\ size' = size + Overhead + buffered
       ELSE UNCHANGED <<chunks, size>>
    /\ buffered' = 0
    /\ UNCHANGED <<taken, resp>>

\* The file loses its end, between two requests.
LoseEnd(n) ==
    /\ phase # "writing" /\ resp.pc = "idle" /\ n < size
    /\ size' = n
    /\ phase' = "damaged"
    /\ UNCHANGED <<taken, buffered, chunks, resp>>

-----------------------------------------------------------------------------
\* Requests.  A range is "suffix" (the last `to` bytes), "open" (from `from`
\* on) or "closed" (`from` to `to`); "view" and "download" ask for all bytes.

Ranges ==
    [kind : {"suffix"}, from : {0}, to : 0 .. MaxSize + 1] \cup
    [kind : {"open"}, from : 0 .. MaxSize + 1, to : {0}] \cup
    [kind : {"closed"}, from : 0 .. MaxSize + 1, to : -1 .. MaxSize + 1]

Wholes == [kind : {"view", "download"}, from : {0}, to : {0}]

NoRange == [kind |-> "none", from |-> 0, to |-> 0]

Idle == [pc |-> "idle", asked |-> NoRange, start |-> 0, promised |-> 0, skip |-> 0, pos |-> 0,
         num |-> 0, from |-> 0, len |-> 0, offset |-> 0, done |-> FALSE, out |-> <<>>]

\* handleRangeRequest: the first and the last byte that will be served.  One
\* byte past the end is answered with the last byte.
First(r) ==
    LET s == IF r.kind = "suffix" THEN Announced - (IF r.to > Announced THEN Announced ELSE r.to)
             ELSE r.from
    IN  IF s = Announced THEN Announced - 1 ELSE s

Last(r) ==
    IF r.kind # "closed" \/ r.to >= Announced \/ r.from = Announced
    THEN Announced - 1 ELSE r.to

Satisfiable(r) ==
    /\ Announced > 0
    /\ r.kind = "suffix" => r.to > 0
    /\ First(r) < Announced /\ First(r) <= Last(r)

\* A reader is placed at the chunk of the first byte; skipped bytes are read
\* and thrown away.
RangeRequest(r) ==
    /\ resp.pc = "idle" /\ phase # "writing"
    /\ size >= HeaderSize /\ Satisfiable(r)
    /\ LET s == First(r) IN
        resp' = [Idle EXCEPT !.pc = "serving", !.asked = r, !.start = s,
                             !.promised = Last(r) - s + 1, !.skip = SkipBytes(s),
                             !.pos = CipherOffset(s), !.num = ChunkIndex(s)]
    /\ UNCHANGED <<phase, taken, buffered, chunks, size>>

\* All of the file, from its first chunk on.
WholeRequest(r) ==
    /\ resp.pc = "idle" /\ phase # "writing"
    /\ size >= HeaderSize
    /\ r.kind = "view" => Announced > 0
    /\ resp' = [Idle EXCEPT !.pc = "serving", !.asked = r, !.promised = Announced,
                            !.pos = HeaderSize]
    /\ UNCHANGED <<phase, taken, buffered, chunks, size>>

\* No content: the header cannot be read, the file is empty, or the range
\* cannot be satisfied.
Refuse(r) ==
    /\ resp.pc = "idle" /\ phase # "writing"
    /\ \/ size < HeaderSize
       \/ r.kind = "view" /\ Announced = 0
       \/ r.kind \notin {"view", "download"} /\ ~Satisfiable(r)
    /\ resp' = [Idle EXCEPT !.pc = "refused", !.asked = r]
    /\ UNCHANGED <<phase, taken, buffered, chunks, size>>

-----------------------------------------------------------------------------
\* DecryptingReader.Read, called with room for k bytes: by a LimitReader that
\* first skips and then sends at most what was promised, or until EOF.

Limited == resp.asked.kind \notin {"view", "download"}
Sent == resp.skip = 0 /\ Limited /\ Len(resp.out) = resp.promised

Room(k) ==
    IF resp.skip > 0 THEN Min({k, resp.skip})
    ELSE IF Limited THEN Min({k, resp.promised - Len(resp.out)}) ELSE k

\* The next n bytes of the buffer of reader r: skipped, or sent.
Delivered(r, n) ==
    IF r.skip > 0 THEN [r EXCEPT !.skip = @ - n, !.offset = @ + n]
    ELSE [r EXCEPT !.out = @ \o [i \in 1 .. n |-> r.from + r.offset + i - 1], !.offset = @ + n]

Serving == resp.pc = "serving" /\ ~Sent

ReadBuffered(k) ==
    /\ Serving /\ resp.offset < resp.len
    /\ resp' = Delivered(resp, Min({Room(k), resp.len - resp.offset}))
    /\ UNCHANGED <<phase, taken, buffered, chunks, size>>

NeedsChunk == Serving /\ resp.offset = resp.len

\* io.ReadFull of a chunk: how many bytes there are.
Available == IF size > resp.pos THEN Min({ChunkCipherSize, size - resp.pos}) ELSE 0

\* The chunk that these bytes are, under the number the reader is at.
Opened(n) == {c \in {chunks[i] : i \in 1 .. Len(chunks)} :
                  c.at = resp.pos /\ c.num = resp.num /\ Overhead + c.len = n}

\* A chunk that is shorter than a full one is the last.
ReadChunk(k) ==
    /\ NeedsChunk /\ ~resp.done
    /\ \E c \in Opened(Available) :
          LET r == [resp EXCEPT !.pos = @ + Available, !.num = @ + 1, !.from = c.from,
                                !.len = c.len, !.offset = 0, !.done = Available < ChunkCipherSize]
          IN  resp' = Delivered(r, Min({Room(k), c.len}))
    /\ UNCHANGED <<phase, taken, buffered, chunks, size>>

\* The end of the file: fewer bytes than were to be skipped are an error.
ReadEOF ==
    /\ NeedsChunk /\ (resp.done \/ Available = 0)
    /\ resp' = [resp EXCEPT !.done = TRUE, !.pc = IF resp.skip > 0 THEN "broken" ELSE "sent"]
    /\ UNCHANGED <<phase, taken, buffered, chunks, size>>

\* A torn chunk, or one that does not authenticate.
ReadCorrupt ==
    /\ NeedsChunk /\ ~resp.done /\ Available > 0
    /\ Opened(Available) = {}
    /\ resp' = [resp EXCEPT !.pc = "broken"]
    /\ UNCHANGED <<phase, taken, buffered, chunks, size>>

RangeSent ==
    /\ resp.pc = "serving" /\ Sent
    /\ resp' = [resp EXCEPT !.pc = "sent"]
    /\ UNCHANGED <<phase, taken, buffered, chunks, size>>

Answered ==
    /\ resp.pc \in {"sent", "broken", "refused"}
    /\ resp' = Idle
    /\ UNCHANGED <<phase, taken, buffered, chunks, size>>

-----------------------------------------------------------------------------
Init ==
    /\ phase = "writing" /\ taken = 0 /\ buffered = 0
    /\ chunks = <<>> /\ size = HeaderSize
    /\ resp = Idle

Next ==
    \/ \E n \in 1 .. MaxRead : Write(n)
    \/ Close
    \/ \E n \in 0 .. size : LoseEnd(n)
    \/ \E r \in Ranges : RangeRequest(r)
    \/ \E r \in Wholes : WholeRequest(r)
    \/ \E r \in Ranges \cup Wholes : Refuse(r)
    \/ \E k \in 1 .. MaxRead : ReadBuffered(k) \/ ReadChunk(k)
    \/ ReadEOF \/ ReadCorrupt \/ RangeSent \/ Answered

Spec == Init /\ [][Next]_vars

-----------------------------------------------------------------------------
\* Properties

\* The shape of the state; between two calls the writer never holds a full
\* chunk, and the reader never runs past its buffer.
TypeOK ==
    /\ phase \in {"writing", "whole", "damaged"}
    /\ taken \in 0 .. MaxSize /\ size \in Nat
    /\ buffered \in 0 .. ChunkPayloadSize - 1 /\ buffered <= taken
    /\ \A i \in 1 .. Len(chunks) : /\ chunks[i].num = i - 1
                                   /\ chunks[i].len \in 1 .. ChunkPayloadSize
    /\ resp.pc \in {"idle", "serving", "sent", "broken", "refused"}
    /\ resp.skip \in 0 .. ChunkPayloadSize - 1
    /\ resp.offset \in 0 .. resp.len

\* The bytes a request asks for when the file shows n bytes.
AskedFor(r, n) ==
    {i \in 0 .. n - 1 :
        \/ r.kind \in {"view", "download"}
        \/ r.kind = "suffix" /\ i >= n - r.to
        \/ r.kind = "open" /\ i >= r.from
        \/ r.kind = "closed" /\ i \in r.from .. r.to
        \/ r.kind \in {"open", "closed"} /\ r.from = n /\ i = n - 1}

\* The bytes that are in chunks a damaged file still has whole.
Readable == UNION {c.from .. c.from + c.len - 1 :
                     c \in {c \in {chunks[i] : i \in 1 .. Len(chunks)} :
                                c.at + Overhead + c.len <= size}}

SentBytes == {resp.out[i] : i \in 1 .. Len(resp.out)}

\* The sizes that listings and responses announce are those of the content.
SizesAgree ==
    /\ phase = "whole" => Announced = taken /\ size = PlaintextSize2CipherSize(taken)
    /\ phase = "damaged" => Announced <= taken

\* A response never holds a byte that was not asked for, nor one out of place,
\* nor more than it promised, and holds them all unless it is cut off.  It is
\* cut off only in a file that lost its end, and then behind all that this
\* file still has whole.  (Clients ask at chunk boundaries and past the end.)
ResponseIsExact ==
    LET wanted == AskedFor(resp.asked, Announced) IN
    /\ \A i \in 1 .. Len(resp.out) : resp.out[i] = resp.start + i - 1
    /\ SentBytes \subseteq wanted
    /\ resp.pc \in {"serving", "sent", "broken"} => resp.promised = Cardinality(wanted)
    /\ resp.pc = "sent" => SentBytes = wanted
    /\ resp.pc = "refused" => wanted = {} \/ size < HeaderSize
    /\ resp.pc = "broken" =>
          phase = "damaged" /\ wanted \cap Readable \subseteq SentBytes

ContentIsExact == SizesAgree /\ ResponseIsExact
=============================================================================
