-------------------------- MODULE ChunkFormatProofs --------------------------
(***************************************************************************)
(* Proofs about ChunkFormat for every size of header, nonce, tag, chunk    *)
(* and file: the two size formulas are inverse, the announced size is that *)
(* of the content, and the bytes of a response are in their places.        *)
(***************************************************************************)
EXTENDS ChunkFormat, SequenceTheorems, FiniteSetTheorems, TLAPS

(* Arithmetic that the provers have to be led through.                     *)

LEMMA DivMod ==
    ASSUME NEW a \in Nat, NEW b \in Nat \ {0}
    PROVE  a \div b \in Nat /\ a % b \in 0 .. b - 1 /\ a = (a \div b) * b + (a % b)
BY SMTT(20)

LEMMA Products ==
    ASSUME NEW a \in Int, NEW b \in Int, NEW c \in Int
    PROVE  /\ a * b \in Int /\ a * b = b * a
           /\ (a - b) * c = a * c - b * c
           /\ (a + b) * c = a * c + b * c
BY SMTT(20)

LEMMA ProductBound ==
    ASSUME NEW a \in Int, NEW b \in Nat \ {0}, a >= 1
    PROVE  a * b >= b
BY SMTT(20)

LEMMA ProductNat ==
    ASSUME NEW a \in Nat, NEW b \in Nat
    PROVE  a * b \in Nat
BY SMTT(20)

\* A quotient and a rest are the only ones.
LEMMA DivUnique ==
    ASSUME NEW q \in Nat, NEW b \in Nat \ {0}, NEW r \in 0 .. b - 1
    PROVE  (q * b + r) \div b = q /\ (q * b + r) % b = r
<1>. DEFINE a == q * b + r
            d == a \div b
            m == a % b
<1>1. a \in Nat
  BY ProductNat
<1>2. d \in Nat /\ m \in 0 .. b - 1 /\ a = d * b + m
  BY <1>1, DivMod
<1>. HIDE DEF d, m
<1>3. (q - d) * b = m - r /\ (d - q) * b = r - m
  BY <1>2, Products
<1>4. ~(q > d)
  BY <1>2, <1>3, ProductBound
<1>5. ~(q < d)
  BY <1>2, <1>3, ProductBound
<1>6. q = d
  BY <1>2, <1>4, <1>5
<1>7. m = r
  BY <1>2, <1>6, ProductNat
<1>. QED
  BY <1>6, <1>7 DEF d, m

\* Quotients are in the order of what is divided.
LEMMA DivMonotone ==
    ASSUME NEW a \in Nat, NEW c \in Nat, NEW b \in Nat \ {0}, a <= c
    PROVE  /\ a \div b <= c \div b
           /\ a \div b = c \div b => a % b <= c % b
<1>. DEFINE d == a \div b
            e == c \div b
            m == a % b
            n == c % b
<1>1. d \in Nat /\ e \in Nat /\ m \in 0 .. b - 1 /\ n \in 0 .. b - 1
  BY DivMod
<1>2. a = d * b + m /\ c = e * b + n
  BY DivMod
<1>. HIDE DEF d, e, m, n
<1>3. ~(d > e)
  <2>1. (d - e) * b = d * b - e * b /\ d * b \in Int /\ e * b \in Int
    BY <1>1, Products
  <2>2. d > e => (d - e) * b >= b
    BY <1>1, ProductBound
  <2>. QED
    BY <1>1, <1>2, <2>1, <2>2
<1>4. d = e => m <= n
  BY <1>1, <1>2, ProductNat
<1>. QED
  BY <1>1, <1>3, <1>4 DEF d, e, m, n

LEMMA Sizes ==
    /\ HeaderSize \in Nat \ {0} /\ Overhead \in Nat \ {0} /\ ChunkPayloadSize \in Nat \ {0}
    /\ ChunkCipherSize \in Nat \ {0} /\ ChunkCipherSize = Overhead + ChunkPayloadSize
BY SizesAssumption DEF Overhead, ChunkCipherSize

-----------------------------------------------------------------------------
(* The two size formulas.                                                  *)

\* What a last chunk of `rest` bytes of ciphertext holds.
Payload(rest) == IF rest < Overhead THEN 0 ELSE rest - Overhead

LEMMA SizeOfChunks ==
    ASSUME NEW q \in Nat, NEW r \in 0 .. ChunkCipherSize - 1
    PROVE  CipherSize2PlaintextSize(HeaderSize + (q * ChunkCipherSize + r)) =
               q * ChunkPayloadSize + Payload(r)
<1>. DEFINE x == q * ChunkCipherSize + r
<1>1. x \in Nat /\ q * ChunkCipherSize \in Nat
  BY Sizes, ProductNat
<1>2. x \div ChunkCipherSize = q /\ x % ChunkCipherSize = r
  BY Sizes, DivUnique
<1>3. HeaderSize + x - HeaderSize = x
  BY <1>1, Sizes
<1>4. CASE x > 0
  <2>1. ~(HeaderSize + x <= HeaderSize)
    BY <1>1, <1>4, Sizes
  <2>2. /\ (HeaderSize + x - HeaderSize) \div ChunkCipherSize = q
        /\ (HeaderSize + x - HeaderSize) % ChunkCipherSize = r
    BY <1>2, <1>3
  <2>3. CipherSize2PlaintextSize(HeaderSize + x) = q * ChunkPayloadSize + Payload(r)
    <3>1. CipherSize2PlaintextSize(HeaderSize + x) =
             ((HeaderSize + x - HeaderSize) \div ChunkCipherSize) * ChunkPayloadSize
               + Payload((HeaderSize + x - HeaderSize) % ChunkCipherSize)
      BY <1>1, <2>1, Sizes DEF CipherSize2PlaintextSize, Payload
    <3>. QED
      BY <2>2, <3>1, Zenon
  <2>. QED
    BY <2>3 DEF x
<1>5. CASE x = 0
  <2>1. q = 0 /\ r = 0
    <3>1. q >= 1 => q * ChunkCipherSize >= ChunkCipherSize
      BY Sizes, ProductBound
    <3>. QED
      BY <1>1, <1>5, <3>1, Sizes
  <2>2. CipherSize2PlaintextSize(HeaderSize + x) = 0
    BY <1>5, Sizes DEF CipherSize2PlaintextSize
  <2>. QED
    BY <2>1, <2>2, Sizes DEF Payload
<1>. QED
  BY <1>1, <1>4, <1>5

LEMMA SizeOfContent ==
    ASSUME NEW q \in Nat, NEW r \in 0 .. ChunkPayloadSize - 1
    PROVE  PlaintextSize2CipherSize(q * ChunkPayloadSize + r) =
               HeaderSize + (q * ChunkCipherSize + (IF r > 0 THEN Overhead + r ELSE 0))
<1>1. /\ (q * ChunkPayloadSize + r) \div ChunkPayloadSize = q
      /\ (q * ChunkPayloadSize + r) % ChunkPayloadSize = r
  BY Sizes, DivUnique
<1>2. q * ChunkCipherSize \in Nat
  BY Sizes, ProductNat
<1>. QED
  BY <1>1, <1>2, Sizes DEF PlaintextSize2CipherSize

\* The size computed for a content leads back to its length, whatever the
\* length: CipherSize2PlaintextSize undoes PlaintextSize2CipherSize.
THEOREM SizesRoundTrip ==
    \A n \in Nat : CipherSize2PlaintextSize(PlaintextSize2CipherSize(n)) = n
<1>. TAKE n \in Nat
<1>. DEFINE q == n \div ChunkPayloadSize
            r == n % ChunkPayloadSize
            s == IF r > 0 THEN Overhead + r ELSE 0
<1>1. q \in Nat /\ r \in 0 .. ChunkPayloadSize - 1 /\ n = q * ChunkPayloadSize + r
  BY Sizes, DivMod
<1>. HIDE DEF q, r
<1>2. s \in 0 .. ChunkCipherSize - 1 /\ Payload(s) = r
  BY <1>1, Sizes DEF Payload
<1>3. PlaintextSize2CipherSize(n) = HeaderSize + (q * ChunkCipherSize + s)
  BY <1>1, SizeOfContent
<1>. HIDE DEF s
<1>. QED
  BY <1>1, <1>2, <1>3, SizeOfChunks

\* A shorter file never announces a longer content.
LEMMA AnnouncedGrows ==
    ASSUME NEW m \in Nat, NEW n \in Nat, m <= n
    PROVE  CipherSize2PlaintextSize(m) <= CipherSize2PlaintextSize(n)
<1>. DEFINE P(x) == CipherSize2PlaintextSize(HeaderSize + x)
<1>1. ASSUME NEW x \in Nat
      PROVE  \E q \in Nat, r \in 0 .. ChunkCipherSize - 1 :
                /\ q = x \div ChunkCipherSize /\ r = x % ChunkCipherSize
                /\ P(x) = q * ChunkPayloadSize + Payload(r)
  <2>1. /\ x \div ChunkCipherSize \in Nat /\ x % ChunkCipherSize \in 0 .. ChunkCipherSize - 1
        /\ x = (x \div ChunkCipherSize) * ChunkCipherSize + (x % ChunkCipherSize)
    BY Sizes, DivMod
  <2>2. P(x) = (x \div ChunkCipherSize) * ChunkPayloadSize + Payload(x % ChunkCipherSize)
    BY <2>1, SizeOfChunks
  <2>. QED
    BY <2>1, <2>2
<1>2. \A r \in 0 .. ChunkCipherSize - 1 : Payload(r) \in 0 .. ChunkPayloadSize - 1
  BY Sizes DEF Payload
<1>3. ASSUME NEW x \in Nat PROVE P(x) \in Nat
  <2>1. PICK q \in Nat, r \in 0 .. ChunkCipherSize - 1 :
               P(x) = q * ChunkPayloadSize + Payload(r)
    BY <1>1
  <2>2. q * ChunkPayloadSize \in Nat
    BY Sizes, ProductNat
  <2>. QED
    BY <1>2, <2>1, <2>2
<1>4. ASSUME NEW x \in Nat, NEW y \in Nat, x <= y PROVE P(x) <= P(y)
  <2>1. PICK q \in Nat, r \in 0 .. ChunkCipherSize - 1 :
               /\ q = x \div ChunkCipherSize /\ r = x % ChunkCipherSize
               /\ P(x) = q * ChunkPayloadSize + Payload(r)
    BY <1>1
  <2>2. PICK u \in Nat, v \in 0 .. ChunkCipherSize - 1 :
               /\ u = y \div ChunkCipherSize /\ v = y % ChunkCipherSize
               /\ P(y) = u * ChunkPayloadSize + Payload(v)
    BY <1>1
  <2>3. q <= u /\ (q = u => r <= v)
    BY <1>4, <2>1, <2>2, Sizes, DivMonotone
  <2>4. /\ q * ChunkPayloadSize \in Nat /\ u * ChunkPayloadSize \in Nat
        /\ (u - q) * ChunkPayloadSize = u * ChunkPayloadSize - q * ChunkPayloadSize
    BY Sizes, ProductNat, Products
  <2>. HIDE DEF P
  <2>5. CASE q = u
    <3>1. Payload(r) <= Payload(v)
      BY <2>3, <2>5, Sizes DEF Payload
    <3>. QED
      BY <1>2, <2>1, <2>2, <2>4, <2>5, <3>1
  <2>6. CASE q < u
    <3>1. (u - q) * ChunkPayloadSize >= ChunkPayloadSize
      BY <2>6, Sizes, ProductBound
    <3>2. Payload(r) \in 0 .. ChunkPayloadSize - 1 /\ Payload(v) \in 0 .. ChunkPayloadSize - 1
      BY <1>2
    <3>. QED
      BY <2>1, <2>2, <2>4, <3>1, <3>2, Sizes
  <2>. QED
    BY <2>3, <2>5, <2>6
<1>5. \A k \in Nat : k <= HeaderSize => CipherSize2PlaintextSize(k) = 0
  BY Sizes DEF CipherSize2PlaintextSize
<1>6. \A k \in Nat : k > HeaderSize => /\ k - HeaderSize \in Nat
                                       /\ CipherSize2PlaintextSize(k) = P(k - HeaderSize)
  BY Sizes
<1>. HIDE DEF P
<1>7. CASE m <= HeaderSize
  <2>1. CipherSize2PlaintextSize(n) \in Nat
    BY <1>3, <1>5, <1>6, Sizes
  <2>. QED
    BY <1>5, <1>7, <2>1
<1>8. CASE m > HeaderSize
  BY <1>4, <1>6, <1>8, Sizes
<1>. QED
  BY <1>7, <1>8, Sizes

-----------------------------------------------------------------------------
(* Sequences.                                                              *)

LEMMA Appended ==
    ASSUME NEW S, NEW s \in Seq(S), NEW n \in Nat, NEW f \in [1 .. n -> S]
    PROVE  /\ s \o f \in Seq(S)
           /\ Len(s \o f) = Len(s) + n
           /\ \A i \in 1 .. Len(s) : (s \o f)[i] = s[i]
           /\ \A i \in 1 .. n : (s \o f)[Len(s) + i] = f[i]
<1>1. f \in Seq(S)
  BY SeqDef
<1>2. Len(f) = n
  BY <1>1, LenProperties
<1>3. Len(s) \in Nat
  BY LenProperties
<1>4. /\ s \o f \in Seq(S) /\ Len(s \o f) = Len(s) + n
      /\ \A i \in 1 .. Len(s) + n : (s \o f)[i] = IF i <= Len(s) THEN s[i] ELSE f[i - Len(s)]
  BY <1>1, <1>2, ConcatProperties
<1>5. ASSUME NEW i \in 1 .. n PROVE (s \o f)[Len(s) + i] = f[i]
  <2>1. Len(s) + i \in 1 .. Len(s) + n /\ ~(Len(s) + i <= Len(s)) /\ Len(s) + i - Len(s) = i
    BY <1>3
  <2>. QED
    BY <1>4, <2>1
<1>. QED
  BY <1>3, <1>4, <1>5

-----------------------------------------------------------------------------
(* The writer.  Chunk i lies behind i - 1 full ones and holds what follows *)
(* their content; only the last may be short.                              *)

ChunkRecords == [at : Nat, num : Nat, from : Nat, len : 1 .. ChunkPayloadSize]

WriterOK ==
    /\ phase \in {"writing", "whole", "damaged"}
    /\ taken \in 0 .. MaxSize /\ size \in Nat
    /\ buffered \in 0 .. ChunkPayloadSize - 1 /\ buffered <= taken
    /\ chunks \in Seq(ChunkRecords)

Layout ==
    \A i \in 1 .. Len(chunks) :
        /\ chunks[i].at = HeaderSize + (i - 1) * ChunkCipherSize
        /\ chunks[i].num = i - 1
        /\ chunks[i].from = (i - 1) * ChunkPayloadSize
        /\ i < Len(chunks) \/ phase = "writing" => chunks[i].len = ChunkPayloadSize

\* Where the bytes go that were taken.
Written ==
    /\ phase = "writing" => /\ size = HeaderSize + Len(chunks) * ChunkCipherSize
                            /\ taken = Len(chunks) * ChunkPayloadSize + buffered
    /\ phase # "writing" =>
          LET n == Len(chunks) IN
          IF n = 0 THEN taken = 0
          ELSE taken = (n - 1) * ChunkPayloadSize + chunks[n].len
    /\ phase = "whole" => size = PlaintextSize2CipherSize(taken)
    /\ phase = "damaged" => size <= PlaintextSize2CipherSize(taken)

WriterInv == WriterOK /\ Layout /\ Written

LEMMA SizeNat == ASSUME NEW n \in Nat PROVE PlaintextSize2CipherSize(n) \in Nat
<1>1. n \div ChunkPayloadSize \in Nat /\ n % ChunkPayloadSize \in 0 .. ChunkPayloadSize - 1
  BY Sizes, DivMod
<1>2. (n \div ChunkPayloadSize) * ChunkCipherSize \in Nat
  BY <1>1, Sizes, ProductNat
<1>. QED
  BY <1>1, <1>2, Sizes DEF PlaintextSize2CipherSize

LEMMA WriteKeeps ==
    ASSUME WriterInv, NEW n \in 1 .. MaxRead, Write(n)
    PROVE  WriterInv'
<1>. USE Sizes, SizesAssumption DEF WriterInv, WriterOK
<1>. DEFINE full == (buffered + n) \div ChunkPayloadSize
            L == Len(chunks)
            new == [i \in 1 .. full |->
                       Chunk(size + (i - 1) * ChunkCipherSize, L + i - 1,
                             taken - buffered + (i - 1) * ChunkPayloadSize, ChunkPayloadSize)]
<1>1. /\ full \in Nat /\ L \in Nat
      /\ buffered + n - full * ChunkPayloadSize \in 0 .. ChunkPayloadSize - 1
      /\ full * ChunkPayloadSize \in Nat
  <2>1. buffered + n \in Nat
    OBVIOUS
  <2>2. /\ full \in Nat /\ (buffered + n) % ChunkPayloadSize \in 0 .. ChunkPayloadSize - 1
        /\ buffered + n = full * ChunkPayloadSize + ((buffered + n) % ChunkPayloadSize)
    BY <2>1, DivMod
  <2>3. full * ChunkPayloadSize \in Nat
    BY <2>2, ProductNat
  <2>4. L \in Nat
    BY LenProperties
  <2>. HIDE DEF full
  <2>. QED
    BY <2>1, <2>2, <2>3, <2>4
<1>2. /\ phase = "writing" /\ phase' = "writing" /\ taken' = taken + n /\ taken + n <= MaxSize
      /\ chunks' = chunks \o new
      /\ size' = size + full * ChunkCipherSize
      /\ buffered' = buffered + n - full * ChunkPayloadSize
  BY DEF Write
<1>. HIDE DEF full
<1>3. /\ L * ChunkPayloadSize \in Nat /\ L * ChunkCipherSize \in Nat
      /\ full * ChunkCipherSize \in Nat
      /\ (L + full) * ChunkPayloadSize = L * ChunkPayloadSize + full * ChunkPayloadSize
      /\ (L + full) * ChunkCipherSize = L * ChunkCipherSize + full * ChunkCipherSize
  BY <1>1, ProductNat, Products
<1>4. /\ size = HeaderSize + L * ChunkCipherSize
      /\ taken = L * ChunkPayloadSize + buffered
  BY <1>2 DEF Written
<1>5. ASSUME NEW i \in 1 .. full
      PROVE  /\ new[i].at = HeaderSize + (L + i - 1) * ChunkCipherSize
             /\ new[i].num = L + i - 1
             /\ new[i].from = (L + i - 1) * ChunkPayloadSize
             /\ new[i].len = ChunkPayloadSize
             /\ new[i] \in ChunkRecords
  <2>1. /\ (i - 1) * ChunkCipherSize \in Nat /\ (i - 1) * ChunkPayloadSize \in Nat
        /\ (L + (i - 1)) * ChunkCipherSize = L * ChunkCipherSize + (i - 1) * ChunkCipherSize
        /\ (L + (i - 1)) * ChunkPayloadSize = L * ChunkPayloadSize + (i - 1) * ChunkPayloadSize
    BY <1>1, ProductNat, Products
  <2>2. L + (i - 1) = L + i - 1
    BY <1>1
  <2>3. new[i] = Chunk(size + (i - 1) * ChunkCipherSize, L + i - 1,
                       taken - buffered + (i - 1) * ChunkPayloadSize, ChunkPayloadSize)
    OBVIOUS
  <2>. HIDE DEF new
  <2>. QED
    BY <1>1, <1>3, <1>4, <2>1, <2>2, <2>3 DEF Chunk, ChunkRecords
<1>6. new \in [1 .. full -> ChunkRecords]
  BY <1>5
<1>. HIDE DEF new
<1>7. /\ chunks' \in Seq(ChunkRecords) /\ Len(chunks') = L + full
      /\ \A i \in 1 .. L : chunks'[i] = chunks[i]
      /\ \A i \in 1 .. full : chunks'[L + i] = new[i]
  <2>1. chunks \in Seq(ChunkRecords)
    OBVIOUS
  <2>. QED
    BY <1>1, <1>2, <1>6, <2>1, Appended
<1>8. WriterOK'
  BY <1>1, <1>2, <1>3, <1>4, <1>7
<1>9. Layout'
  <2>1. ASSUME NEW i \in 1 .. L + full
        PROVE  /\ chunks'[i].at = HeaderSize + (i - 1) * ChunkCipherSize
               /\ chunks'[i].num = i - 1
               /\ chunks'[i].from = (i - 1) * ChunkPayloadSize
               /\ chunks'[i].len = ChunkPayloadSize
    <3>1. CASE i <= L
      BY <1>1, <1>2, <1>7, <3>1 DEF Layout
    <3>2. CASE i > L
      <4>1. i - L \in 1 .. full /\ L + (i - L) = i /\ L + (i - L) - 1 = i - 1
        BY <1>1, <3>2
      <4>. QED
        BY <1>5, <1>7, <4>1
    <3>. QED
      BY <1>1, <3>1, <3>2
  <2>. QED
    BY <1>7, <2>1 DEF Layout
<1>10. Written'
  <2>1. size' = HeaderSize + (L + full) * ChunkCipherSize
    BY <1>1, <1>2, <1>3, <1>4
  <2>2. taken' = (L + full) * ChunkPayloadSize + buffered'
    BY <1>1, <1>2, <1>3, <1>4
  <2>. QED
    BY <1>2, <1>7, <2>1, <2>2 DEF Written
<1>. QED
  BY <1>8, <1>9, <1>10

LEMMA CloseKeeps ==
    ASSUME WriterInv, Close
    PROVE  WriterInv'
<1>. USE Sizes, SizesAssumption DEF WriterInv, WriterOK
<1>. DEFINE L == Len(chunks)
            c == Chunk(size, L, taken - buffered, buffered)
<1>1. L \in Nat
  BY LenProperties
<1>2. L * ChunkPayloadSize \in Nat /\ L * ChunkCipherSize \in Nat
  BY <1>1, ProductNat
<1>3. /\ phase = "writing" /\ phase' = "whole" /\ taken' = taken /\ buffered' = 0
      /\ size = HeaderSize + L * ChunkCipherSize
      /\ taken = L * ChunkPayloadSize + buffered
  BY DEF Close, Written
<1>4. PlaintextSize2CipherSize(taken) =
          HeaderSize + (L * ChunkCipherSize + (IF buffered > 0 THEN Overhead + buffered ELSE 0))
  BY <1>1, <1>3, SizeOfContent
<1>5. CASE buffered > 0
  <2>1. chunks' = Append(chunks, c) /\ size' = size + Overhead + buffered
    BY <1>5 DEF Close
  <2>2. c \in ChunkRecords
    BY <1>1, <1>2, <1>3, <1>5 DEF Chunk, ChunkRecords
  <2>3. /\ chunks' \in Seq(ChunkRecords) /\ Len(chunks') = L + 1
        /\ \A i \in 1 .. L : chunks'[i] = chunks[i]
        /\ chunks'[L + 1] = c
    BY <1>1, <2>1, <2>2
  <2>4. /\ c.at = HeaderSize + L * ChunkCipherSize /\ c.num = L
        /\ c.from = L * ChunkPayloadSize /\ c.len = buffered
    BY <1>2, <1>3 DEF Chunk
  <2>. HIDE DEF c
  <2>5. WriterOK'
    <3>1. buffered' \in 0 .. ChunkPayloadSize - 1 /\ buffered' <= taken' /\ size' \in Nat
      BY <1>3, <2>1
    <3>. QED
      BY <1>3, <2>3, <3>1
  <2>6. Layout'
    <3>1. ASSUME NEW i \in 1 .. L + 1
          PROVE  /\ chunks'[i].at = HeaderSize + (i - 1) * ChunkCipherSize
                 /\ chunks'[i].num = i - 1
                 /\ chunks'[i].from = (i - 1) * ChunkPayloadSize
                 /\ i < L + 1 => chunks'[i].len = ChunkPayloadSize
      <4>1. CASE i <= L
        <5>1. i \in 1 .. L /\ chunks'[i] = chunks[i]
          BY <1>1, <2>3, <4>1
        <5>. QED
          BY <1>3, <5>1 DEF Layout
      <4>2. CASE i = L + 1
        <5>1. i - 1 = L
          BY <1>1, <4>2
        <5>. QED
          BY <1>1, <2>3, <2>4, <4>2, <5>1
      <4>. QED
        BY <1>1, <4>1, <4>2
    <3>. QED
      BY <1>3, <2>3, <3>1 DEF Layout
  <2>7. Written'
    <3>1. size' = PlaintextSize2CipherSize(taken')
      BY <1>2, <1>3, <1>4, <1>5, <2>1
    <3>2. L + 1 - 1 = L /\ L + 1 # 0
      BY <1>1
    <3>3. taken' = (Len(chunks') - 1) * ChunkPayloadSize + chunks'[Len(chunks')].len
      BY <1>3, <2>3, <2>4, <3>2
    <3>. QED
      BY <1>3, <2>3, <3>1, <3>2, <3>3 DEF Written
  <2>. QED
    BY <2>5, <2>6, <2>7
<1>6. CASE buffered = 0
  <2>1. chunks' = chunks /\ size' = size
    BY <1>6 DEF Close
  <2>2. WriterOK'
    BY <1>3, <2>1
  <2>3. Layout'
    BY <1>3, <2>1 DEF Layout
  <2>4. Written'
    <3>1. size' = PlaintextSize2CipherSize(taken')
      BY <1>2, <1>3, <1>4, <1>6, <2>1
    <3>2. CASE L = 0
      BY <1>3, <1>6, <2>1, <3>1, <3>2 DEF Written
    <3>3. CASE L # 0
      <4>1. chunks[L].len = ChunkPayloadSize
        BY <1>1, <1>3, <3>3 DEF Layout
      <4>2. (L - 1) * ChunkPayloadSize = L * ChunkPayloadSize - 1 * ChunkPayloadSize
        BY <1>1, Products
      <4>. QED
        BY <1>2, <1>3, <1>6, <2>1, <3>1, <3>3, <4>1, <4>2 DEF Written
    <3>. QED
      BY <3>2, <3>3
  <2>. QED
    BY <2>2, <2>3, <2>4
<1>. QED
  BY <1>5, <1>6

LEMMA WriterStep ==
    ASSUME WriterInv, [Next]_vars
    PROVE  WriterInv'
<1>1. CASE UNCHANGED <<phase, taken, buffered, chunks, size>>
  BY <1>1 DEF WriterInv, WriterOK, Layout, Written
<1>2. ASSUME NEW n \in 0 .. size, LoseEnd(n) PROVE WriterInv'
  <2>1. /\ phase' = "damaged" /\ size' = n /\ n < size /\ UNCHANGED <<taken, buffered, chunks>>
        /\ phase \in {"whole", "damaged"} /\ size \in Nat
    BY <1>2 DEF LoseEnd, WriterInv, WriterOK
  <2>2. size <= PlaintextSize2CipherSize(taken) /\ PlaintextSize2CipherSize(taken) \in Int
    <3>1. PlaintextSize2CipherSize(taken) \in Nat
      BY SizesAssumption, SizeNat DEF WriterInv, WriterOK
    <3>. QED
      BY <2>1, <3>1 DEF WriterInv, Written
  <2>. QED
    BY <2>1, <2>2 DEF WriterInv, WriterOK, Layout, Written
<1>3. ASSUME NEW n \in 1 .. MaxRead, Write(n) PROVE WriterInv'
  BY <1>3, WriteKeeps
<1>4. CASE Close
  BY <1>4, CloseKeeps
<1>5. CASE \/ \E r \in Ranges : RangeRequest(r)
           \/ \E r \in Wholes : WholeRequest(r)
           \/ \E r \in Ranges \cup Wholes : Refuse(r)
           \/ \E k \in 1 .. MaxRead : ReadBuffered(k) \/ ReadChunk(k)
  BY <1>1, <1>5 DEF RangeRequest, WholeRequest, Refuse, ReadBuffered, ReadChunk
<1>6. CASE ReadEOF \/ ReadCorrupt \/ RangeSent \/ Answered \/ UNCHANGED vars
  BY <1>1, <1>6 DEF ReadEOF, ReadCorrupt, RangeSent, Answered, vars
<1>. QED
  BY <1>2, <1>3, <1>4, <1>5, <1>6 DEF Next

LEMMA WriterInit == Init => WriterInv
<1>. SUFFICES ASSUME Init PROVE WriterInv
  OBVIOUS
<1>1. chunks = <<>> /\ Len(chunks) = 0 /\ chunks \in Seq(ChunkRecords)
  BY DEF Init
<1>2. 0 * ChunkCipherSize = 0 /\ 0 * ChunkPayloadSize = 0
  BY Sizes
<1>. QED
  BY <1>1, <1>2, Sizes, SizesAssumption DEF Init, WriterInv, WriterOK, Layout, Written

\* What listings and responses announce is the size of the content, and after
\* a loss never more than it.
THEOREM AnnouncedSizesAgree == Spec => []SizesAgree
<1>1. WriterInv => SizesAgree
  <2>. SUFFICES ASSUME WriterInv PROVE SizesAgree
    OBVIOUS
  <2>1. taken \in Nat /\ size \in Nat
    BY DEF WriterInv, WriterOK
  <2>2. PlaintextSize2CipherSize(taken) \in Nat
    BY <2>1, SizeNat
  <2>3. CipherSize2PlaintextSize(PlaintextSize2CipherSize(taken)) = taken
    BY <2>1, SizesRoundTrip
  <2>4. phase = "damaged" => Announced <= taken
    BY <2>1, <2>2, <2>3, AnnouncedGrows DEF WriterInv, Written, Announced
  <2>. QED
    BY <2>3, <2>4 DEF WriterInv, Written, SizesAgree, Announced
<1>. QED
  BY <1>1, WriterInit, WriterStep, PTL DEF Spec

-----------------------------------------------------------------------------
(* What a request asks for is an interval, and it is the interval that the *)
(* handler computes.                                                       *)

LEMMA AnnouncedNat == ASSUME NEW n \in Nat PROVE CipherSize2PlaintextSize(n) \in Nat
<1>1. CASE n <= HeaderSize
  BY <1>1 DEF CipherSize2PlaintextSize
<1>2. CASE ~(n <= HeaderSize)
  <2>1. n - HeaderSize \in Nat
    BY <1>2, Sizes
  <2>2. /\ (n - HeaderSize) \div ChunkCipherSize \in Nat
        /\ (n - HeaderSize) % ChunkCipherSize \in 0 .. ChunkCipherSize - 1
        /\ n - HeaderSize = ((n - HeaderSize) \div ChunkCipherSize) * ChunkCipherSize
                              + ((n - HeaderSize) % ChunkCipherSize)
    BY <2>1, Sizes, DivMod
  <2>3. n = HeaderSize + (((n - HeaderSize) \div ChunkCipherSize) * ChunkCipherSize
                              + ((n - HeaderSize) % ChunkCipherSize))
    BY <2>2, Sizes
  <2>4. CipherSize2PlaintextSize(n) =
            ((n - HeaderSize) \div ChunkCipherSize) * ChunkPayloadSize
               + Payload((n - HeaderSize) % ChunkCipherSize)
    BY <2>2, <2>3, SizeOfChunks
  <2>5. /\ ((n - HeaderSize) \div ChunkCipherSize) * ChunkPayloadSize \in Nat
        /\ Payload((n - HeaderSize) % ChunkCipherSize) \in Nat
    BY <2>2, Sizes, ProductNat DEF Payload
  <2>. QED
    BY <2>4, <2>5
<1>. QED
  BY <1>1, <1>2

LEMMA SatisfiableRange ==
    ASSUME size \in Nat, NEW r \in Ranges, Satisfiable(r)
    PROVE  /\ First(r) \in Nat /\ Last(r) \in Nat
           /\ First(r) <= Last(r) /\ Last(r) < Announced
           /\ AskedFor(r, Announced) = First(r) .. Last(r)
<1>. DEFINE n == Announced
<1>1. n \in Nat
  BY AnnouncedNat DEF Announced
<1>2. n > 0 /\ First(r) < n /\ First(r) <= Last(r) /\ (r.kind = "suffix" => r.to > 0)
  BY DEF Satisfiable
<1>3. r.from \in Nat /\ r.to \in Int /\ r.kind \in {"suffix", "open", "closed"}
  BY SizesAssumption DEF Ranges
<1>4. r.kind \in {"suffix", "open"} => r.to \in Nat
  BY SizesAssumption DEF Ranges
<1>. HIDE DEF n
<1>5. CASE r.kind = "suffix"
  <2>1. First(r) = (IF r.to > n THEN 0 ELSE n - r.to) /\ Last(r) = n - 1
    BY <1>1, <1>2, <1>3, <1>5 DEF First, Last, n
  <2>. QED
    BY <1>1, <1>2, <1>3, <1>5, <2>1 DEF AskedFor, n
<1>6. CASE r.kind = "open"
  <2>1. First(r) = (IF r.from = n THEN n - 1 ELSE r.from) /\ Last(r) = n - 1
    BY <1>1, <1>2, <1>3, <1>6 DEF First, Last, n
  <2>. QED
    BY <1>1, <1>2, <1>3, <1>6, <2>1 DEF AskedFor, n
<1>7. CASE r.kind = "closed"
  <2>1. /\ First(r) = (IF r.from = n THEN n - 1 ELSE r.from)
        /\ Last(r) = (IF r.to >= n \/ r.from = n THEN n - 1 ELSE r.to)
    BY <1>1, <1>2, <1>3, <1>7 DEF First, Last, n
  <2>. QED
    BY <1>1, <1>2, <1>3, <1>7, <2>1 DEF AskedFor, n
<1>. QED
  BY <1>3, <1>5, <1>6, <1>7

LEMMA RefusedRange ==
    ASSUME size \in Nat, NEW r \in Ranges, ~Satisfiable(r)
    PROVE  AskedFor(r, Announced) = {}
<1>. DEFINE n == Announced
<1>1. n \in Nat
  BY AnnouncedNat DEF Announced
<1>2. r.from \in Nat /\ r.to \in Int /\ r.kind \in {"suffix", "open", "closed"}
  BY SizesAssumption DEF Ranges
<1>3. ~(n > 0) \/ (r.kind = "suffix" /\ ~(r.to > 0)) \/ ~(First(r) < n) \/ ~(First(r) <= Last(r))
  BY DEF Satisfiable
<1>. HIDE DEF n
<1>4. CASE r.kind = "suffix"
  <2>1. r.to \in Nat
    BY <1>4, SizesAssumption DEF Ranges
  <2>2. n > 0 /\ r.to > 0 => /\ First(r) = (IF r.to > n THEN 0 ELSE n - r.to)
                             /\ Last(r) = n - 1
    BY <1>1, <1>4, <2>1 DEF First, Last, n
  <2>. QED
    BY <1>1, <1>3, <1>4, <2>1, <2>2 DEF AskedFor, n
<1>5. CASE r.kind = "open"
  <2>1. First(r) = (IF r.from = n THEN n - 1 ELSE r.from) /\ Last(r) = n - 1
    BY <1>1, <1>2, <1>5 DEF First, Last, n
  <2>. QED
    BY <1>1, <1>2, <1>3, <1>5, <2>1 DEF AskedFor, n
<1>6. CASE r.kind = "closed"
  <2>1. /\ First(r) = (IF r.from = n THEN n - 1 ELSE r.from)
        /\ Last(r) = (IF r.to >= n \/ r.from = n THEN n - 1 ELSE r.to)
    BY <1>1, <1>2, <1>6 DEF First, Last, n
  <2>. QED
    BY <1>1, <1>2, <1>3, <1>6, <2>1 DEF AskedFor, n
<1>. QED
  BY <1>2, <1>4, <1>5, <1>6

LEMMA WholeIsAll ==
    ASSUME size \in Nat, NEW r \in Wholes
    PROVE  AskedFor(r, Announced) = 0 .. Announced - 1
<1>1. r.kind \in {"view", "download"} /\ Announced \in Nat
  BY AnnouncedNat DEF Wholes, Announced
<1>. QED
  BY <1>1 DEF AskedFor

-----------------------------------------------------------------------------
(* The reader.  At any time the bytes that were skipped and sent are all   *)
(* the bytes from the first one asked for up to the reader's place.        *)

Responses ==
    [pc : {"idle", "serving", "sent", "broken", "refused"},
     asked : Ranges \cup Wholes \cup {NoRange}, start : Nat, promised : Nat,
     skip : 0 .. ChunkPayloadSize - 1, pos : Nat, num : Nat, from : Nat,
     len : 0 .. ChunkPayloadSize, offset : Nat, done : BOOLEAN, out : Seq(Nat)]

Started(r) == r.pc \in {"serving", "sent", "broken"}

Place(r) == IF r.len = 0 THEN r.num * ChunkPayloadSize ELSE r.from + r.offset

\* What was asked for, and what the handler made of it.
Asked(r) ==
    /\ Started(r) =>
          /\ r.asked \in Ranges \cup Wholes
          /\ r.asked \in Ranges =>
                /\ Satisfiable(r.asked) /\ r.start = First(r.asked)
                /\ r.promised = Last(r.asked) - First(r.asked) + 1
          /\ r.asked \in Wholes => r.start = 0 /\ r.promised = Announced
    /\ r.pc = "refused" =>
          \/ size < HeaderSize
          \/ r.asked \in Wholes /\ Announced = 0
          \/ r.asked \in Ranges /\ ~Satisfiable(r.asked)
    /\ ~Started(r) => r.out = <<>>
    /\ r.pc = "idle" => r = Idle
    /\ r.pc # "idle" => phase # "writing"

InOrder(r) ==
    Started(r) =>
        /\ Place(r) + r.skip = r.start + Len(r.out)
        /\ r.skip > 0 \/ r.len = 0 => r.out = <<>>
        /\ \A i \in 1 .. Len(r.out) : r.out[i] = r.start + i - 1
        /\ Len(r.out) <= r.promised

\* The chunk in the buffer is the one before the reader's position.
AtChunk(r) ==
    r.pc = "serving" =>
        /\ r.len = 0 => /\ ~r.done /\ r.offset = 0
                        /\ r.pos = HeaderSize + r.num * ChunkCipherSize
        /\ r.len > 0 =>
              /\ r.num \in 1 .. Len(chunks)
              /\ r.from = (r.num - 1) * ChunkPayloadSize
              /\ r.done <=> r.len < ChunkPayloadSize
              /\ r.pos = HeaderSize + (r.num - 1) * ChunkCipherSize + (Overhead + r.len)
              /\ r.pos <= size
              /\ r.done => size <= r.pos

\* A response that ended has sent all it promised, or all there was.
Ended(r) ==
    /\ r.pc = "sent" => Len(r.out) = r.promised
    /\ r.pc = "broken" =>
          /\ phase = "damaged"
          /\ \A i \in 1 .. Len(chunks) :
                chunks[i].at + Overhead + chunks[i].len <= size =>
                    chunks[i].from + chunks[i].len <= r.start + Len(r.out)

ReaderOK(r) ==
    /\ r \in Responses /\ r.offset <= r.len
    /\ Asked(r) /\ InOrder(r) /\ AtChunk(r) /\ Ended(r)

ReaderInv == ReaderOK(resp)

\* The file does not change under a request.
LEMMA Unmoved ==
    ASSUME UNCHANGED <<phase, chunks, size>>, NEW r, resp' = r, ReaderOK(r)
    PROVE  ReaderInv'
<1>1. Announced' = Announced
  BY DEF Announced
<1>2. \A x : Satisfiable(x)' <=> Satisfiable(x)
  BY <1>1 DEF Satisfiable, First, Last
<1>3. \A x : First(x)' = First(x) /\ Last(x)' = Last(x)
  BY <1>1 DEF First, Last
<1>4. Asked(r)'
  BY <1>1, <1>2, <1>3 DEF ReaderOK, Asked, Started
<1>5. InOrder(r)' /\ AtChunk(r)' /\ Ended(r)'
  BY DEF ReaderOK, InOrder, AtChunk, Ended, Started, Place
<1>. QED
  BY <1>4, <1>5 DEF ReaderOK, ReaderInv

LEMMA MinOfTwo ==
    ASSUME NEW a \in Int, NEW b \in Int
    PROVE  Min({a, b}) \in {a, b} /\ Min({a, b}) <= a /\ Min({a, b}) <= b
<1>1. \E x \in {a, b} : \A y \in {a, b} : x <= y
  OBVIOUS
<1>2. Min({a, b}) \in {a, b} /\ \A y \in {a, b} : Min({a, b}) <= y
  BY <1>1 DEF Min
<1>. QED
  BY <1>2

\* A file that reaches to the end of a chunk announces its bytes.
LEMMA ChunkEnd ==
    ASSUME NEW q \in Nat, NEW l \in 0 .. ChunkPayloadSize, size \in Nat
    PROVE  LET end == HeaderSize + q * ChunkCipherSize + (IF l = 0 THEN 0 ELSE Overhead + l) IN
           /\ end <= size => q * ChunkPayloadSize + l <= Announced
           /\ size <= end => Announced <= q * ChunkPayloadSize + l
<1>. DEFINE end == HeaderSize + q * ChunkCipherSize + (IF l = 0 THEN 0 ELSE Overhead + l)
<1>1. q * ChunkCipherSize \in Nat /\ q * ChunkPayloadSize \in Nat
  BY Sizes, ProductNat
<1>2. end \in Nat
  BY <1>1, Sizes
<1>3. CipherSize2PlaintextSize(end) = q * ChunkPayloadSize + l
  <2>1. CASE l < ChunkPayloadSize
    <3>. DEFINE r == IF l = 0 THEN 0 ELSE Overhead + l
    <3>1. r \in 0 .. ChunkCipherSize - 1 /\ Payload(r) = l
      BY <2>1, Sizes DEF Payload
    <3>2. end = HeaderSize + (q * ChunkCipherSize + r)
      BY <1>1, <3>1, Sizes
    <3>. HIDE DEF r, end
    <3>. QED
      BY <3>1, <3>2, SizeOfChunks
  <2>2. CASE l = ChunkPayloadSize
    <3>1. /\ (q + 1) * ChunkCipherSize = q * ChunkCipherSize + 1 * ChunkCipherSize
          /\ (q + 1) * ChunkPayloadSize = q * ChunkPayloadSize + 1 * ChunkPayloadSize
      BY Sizes, Products
    <3>2. end = HeaderSize + ((q + 1) * ChunkCipherSize + 0)
      BY <1>1, <2>2, <3>1, Sizes
    <3>3. 0 \in 0 .. ChunkCipherSize - 1 /\ Payload(0) = 0 /\ q + 1 \in Nat
      BY Sizes DEF Payload
    <3>. HIDE DEF end
    <3>4. CipherSize2PlaintextSize(end) = (q + 1) * ChunkPayloadSize + Payload(0)
      BY <3>2, <3>3, SizeOfChunks
    <3>. QED
      BY <1>1, <2>2, <3>1, <3>3, <3>4, Sizes
  <2>. QED
    BY <2>1, <2>2, Sizes
<1>. HIDE DEF end
<1>4. end <= size => q * ChunkPayloadSize + l <= Announced
  BY <1>2, <1>3, AnnouncedGrows DEF Announced
<1>5. size <= end => Announced <= q * ChunkPayloadSize + l
  BY <1>2, <1>3, AnnouncedGrows DEF Announced
<1>. QED
  BY <1>4, <1>5 DEF end

\* Bytes that are sent come behind those sent before.
LEMMA Extended ==
    ASSUME NEW out \in Seq(Nat), NEW n \in Nat, NEW start \in Nat,
           NEW new \in [1 .. n -> Nat], \A i \in 1 .. Len(out) : out[i] = start + i - 1,
           \A i \in 1 .. n : new[i] = start + (Len(out) + i) - 1
    PROVE  /\ out \o new \in Seq(Nat) /\ Len(out \o new) = Len(out) + n
           /\ \A i \in 1 .. Len(out) + n : (out \o new)[i] = start + i - 1
<1>2. Len(out) \in Nat
  BY LenProperties
<1>4. /\ out \o new \in Seq(Nat) /\ Len(out \o new) = Len(out) + n
      /\ \A i \in 1 .. Len(out) : (out \o new)[i] = out[i]
      /\ \A i \in 1 .. n : (out \o new)[Len(out) + i] = new[i]
  BY Appended
<1>5. ASSUME NEW i \in 1 .. Len(out) + n PROVE (out \o new)[i] = start + i - 1
  <2>1. CASE i \in 1 .. Len(out)
    BY <1>4, <2>1
  <2>2. CASE i \notin 1 .. Len(out)
    <3>1. i - Len(out) \in 1 .. n /\ Len(out) + (i - Len(out)) = i
      BY <1>2, <2>2
    <3>. QED
      BY <1>4, <3>1
  <2>. QED
    BY <2>1, <2>2
<1>. QED
  BY <1>4, <1>5

\* Bytes that are delivered are skipped or sent in their order.
LEMMA DeliveredInOrder ==
    ASSUME NEW r \in Responses, NEW n \in Nat,
           r.len > 0, r.offset + n <= r.len, r.skip > 0 => n <= r.skip /\ r.out = <<>>,
           r.from + r.offset + r.skip = r.start + Len(r.out),
           \A i \in 1 .. Len(r.out) : r.out[i] = r.start + i - 1
    PROVE  LET d == Delivered(r, n) IN
           /\ d \in Responses /\ d.offset <= d.len
           /\ d.pc = r.pc /\ d.asked = r.asked /\ d.start = r.start /\ d.promised = r.promised
           /\ d.pos = r.pos /\ d.num = r.num /\ d.from = r.from /\ d.len = r.len
           /\ d.done = r.done
           /\ d.from + d.offset + d.skip = d.start + Len(d.out)
           /\ d.skip > 0 => d.out = <<>>
           /\ \A i \in 1 .. Len(d.out) : d.out[i] = d.start + i - 1
           /\ Len(d.out) = Len(r.out) + (IF r.skip > 0 THEN 0 ELSE n)
<1>. DEFINE d == Delivered(r, n)
<1>1. /\ r.start \in Nat /\ r.from \in Nat /\ r.offset \in Nat
      /\ r.len \in 0 .. ChunkPayloadSize /\ r.skip \in 0 .. ChunkPayloadSize - 1
      /\ r.out \in Seq(Nat)
  BY DEF Responses
<1>2. Len(r.out) \in Nat
  BY <1>1, LenProperties
<1>3. CASE r.skip > 0
  <2>1. d = [r EXCEPT !.skip = r.skip - n, !.offset = r.offset + n]
    BY <1>3 DEF Delivered
  <2>. HIDE DEF d
  <2>2. r.skip - n \in 0 .. ChunkPayloadSize - 1 /\ r.offset + n \in Nat
    BY <1>1, <1>3, Sizes
  <2>3. /\ d \in Responses
        /\ d.pc = r.pc /\ d.asked = r.asked /\ d.start = r.start /\ d.promised = r.promised
        /\ d.pos = r.pos /\ d.num = r.num /\ d.from = r.from /\ d.len = r.len
        /\ d.done = r.done /\ d.out = r.out
        /\ d.skip = r.skip - n /\ d.offset = r.offset + n
    BY <2>1, <2>2 DEF Responses
  <2>. QED
    BY <1>1, <1>2, <1>3, <2>3 DEF d
<1>4. CASE ~(r.skip > 0)
  <2>1. PICK out \in Seq(Nat), start \in Nat, next \in Nat :
               /\ out = r.out /\ start = r.start /\ next = r.from + r.offset
               /\ next = start + Len(out)
    <3>1. r.skip = 0
      BY <1>1, <1>4, Sizes
    <3>2. r.from + r.offset \in Nat /\ r.from + r.offset = r.start + Len(r.out)
      BY <1>1, <1>2, <3>1
    <3>. QED
      BY <1>1, <3>2
  <2>. DEFINE new == [i \in 1 .. n |-> next + i - 1]
  <2>2. new \in [1 .. n -> Nat] /\ \A i \in 1 .. n : new[i] = start + (Len(out) + i) - 1
    <3>1. Len(out) \in Nat
      BY LenProperties
    <3>. QED
      BY <2>1, <3>1
  <2>3. d = [r EXCEPT !.out = out \o new, !.offset = r.offset + n]
    BY <1>4, <2>1 DEF Delivered
  <2>. HIDE DEF d, new
  <2>4. \A i \in 1 .. Len(out) : out[i] = start + i - 1
    BY <2>1
  <2>5. /\ out \o new \in Seq(Nat) /\ Len(out \o new) = Len(out) + n
        /\ \A i \in 1 .. Len(out) + n : (out \o new)[i] = start + i - 1
    BY <2>2, <2>4, Extended
  <2>6. /\ d \in Responses
        /\ d.pc = r.pc /\ d.asked = r.asked /\ d.start = r.start /\ d.promised = r.promised
        /\ d.pos = r.pos /\ d.num = r.num /\ d.from = r.from /\ d.len = r.len
        /\ d.done = r.done /\ d.skip = r.skip
        /\ d.out = out \o new /\ d.offset = r.offset + n
    <3>1. r.offset + n \in Nat
      BY <1>1
    <3>. QED
      BY <2>3, <2>5, <3>1 DEF Responses
  <2>7. d.from + d.offset + d.skip = d.start + Len(d.out)
    <3>1. Len(d.out) = Len(out) + n /\ Len(out) \in Nat
      BY <2>5, <2>6, LenProperties
    <3>2. d.from + d.offset + d.skip = next + n
      <4>1. PICK from \in Nat, offset \in Nat : from = r.from /\ offset = r.offset
        BY <1>1
      <4>2. next = from + offset
        BY <2>1, <4>1
      <4>3. d.from = from /\ d.offset = offset + n /\ d.skip = 0
        BY <1>1, <1>4, <2>6, <4>1, Sizes
      <4>. QED
        BY <4>2, <4>3
    <3>3. d.start = start
      BY <2>1, <2>6
    <3>. QED
      BY <2>1, <3>1, <3>2, <3>3
  <2>8. \A i \in 1 .. Len(d.out) : d.out[i] = d.start + i - 1
    BY <2>1, <2>5, <2>6
  <2>. QED
    BY <1>1, <1>4, <2>1, <2>5, <2>6, <2>7, <2>8, Sizes DEF d
<1>. QED
  BY <1>3, <1>4

-----------------------------------------------------------------------------
(* Where the chunks of a file end, and what the reader finds there.        *)

LEMMA ProductMonotone ==
    ASSUME NEW a \in Int, NEW b \in Int, NEW c \in Nat \ {0}, a <= b
    PROVE  a * c <= b * c
<1>1. /\ (b - a) * c = b * c - a * c
      /\ a * c \in Int /\ b * c \in Int
  BY Products
<1>2. b - a >= 1 => (b - a) * c >= c
  BY ProductBound
<1>. QED
  BY <1>1, <1>2

LEMMA ProductNext ==
    ASSUME NEW a \in Int, NEW c \in Int
    PROVE  (a + 1) * c = a * c + c
BY Products

\* Where a chunk that is not empty ends, by the length of the content to there.
LEMMA ContentEnds ==
    ASSUME NEW q \in Nat, NEW l \in 1 .. ChunkPayloadSize
    PROVE  PlaintextSize2CipherSize(q * ChunkPayloadSize + l) =
               HeaderSize + q * ChunkCipherSize + (Overhead + l)
<1>1. q * ChunkPayloadSize \in Nat /\ q * ChunkCipherSize \in Nat
  BY Sizes, ProductNat
<1>2. CASE l < ChunkPayloadSize
  <2>1. l \in 0 .. ChunkPayloadSize - 1 /\ l > 0
    BY <1>2, Sizes
  <2>2. PlaintextSize2CipherSize(q * ChunkPayloadSize + l) =
            HeaderSize + (q * ChunkCipherSize + (IF l > 0 THEN Overhead + l ELSE 0))
    BY <2>1, SizeOfContent
  <2>. QED
    BY <1>1, <2>1, <2>2, Sizes
<1>3. CASE l = ChunkPayloadSize
  <2>1. /\ (q + 1) * ChunkPayloadSize = q * ChunkPayloadSize + ChunkPayloadSize
        /\ (q + 1) * ChunkCipherSize = q * ChunkCipherSize + ChunkCipherSize
    BY Sizes, ProductNext
  <2>2. q + 1 \in Nat /\ 0 \in 0 .. ChunkPayloadSize - 1
    BY Sizes
  <2>3. PlaintextSize2CipherSize((q + 1) * ChunkPayloadSize + 0) =
            HeaderSize + ((q + 1) * ChunkCipherSize + 0)
    BY <2>2, SizeOfContent
  <2>4. (q + 1) * ChunkPayloadSize + 0 = q * ChunkPayloadSize + l
    BY <1>1, <1>3, <2>1, Sizes
  <2>5. PlaintextSize2CipherSize(q * ChunkPayloadSize + l) =
            HeaderSize + ((q + 1) * ChunkCipherSize + 0)
    BY <2>3, <2>4
  <2>. QED
    BY <1>1, <1>3, <2>1, <2>5, Sizes
<1>. QED
  BY <1>2, <1>3, Sizes

\* Where the chunks of a file end that was closed.
LEMMA FileEnds ==
    WriterInv /\ phase # "writing" =>
        LET n == Len(chunks) IN
        /\ n = 0 => size <= HeaderSize
        /\ n > 0 => LET end == HeaderSize + (n - 1) * ChunkCipherSize
                                          + (Overhead + chunks[n].len)
                    IN  size <= end /\ (phase = "whole" => size = end)
<1>. DEFINE n == Len(chunks)
<1>0. SUFFICES ASSUME WriterInv, phase # "writing"
      PROVE  /\ n = 0 => size <= HeaderSize
             /\ n > 0 => LET end == HeaderSize + (n - 1) * ChunkCipherSize
                                               + (Overhead + chunks[n].len)
                         IN  size <= end /\ (phase = "whole" => size = end)
  OBVIOUS
<1>1. n \in Nat /\ chunks \in Seq(ChunkRecords) /\ taken \in Nat /\ size \in Nat
  BY <1>0, LenProperties, SizesAssumption DEF WriterInv, WriterOK
<1>2. size <= PlaintextSize2CipherSize(taken)
      /\ (phase = "whole" => size = PlaintextSize2CipherSize(taken))
  BY <1>0, <1>1 DEF WriterInv, WriterOK, Written
<1>3. CASE n = 0
  <2>1. taken = 0
    BY <1>0, <1>3 DEF WriterInv, Written
  <2>2. 0 = 0 * ChunkPayloadSize + 0 /\ 0 \in 0 .. ChunkPayloadSize - 1 /\ 0 * ChunkCipherSize = 0
    BY Sizes
  <2>3. PlaintextSize2CipherSize(0 * ChunkPayloadSize + 0) = HeaderSize + (0 * ChunkCipherSize + 0)
    BY <2>2, SizeOfContent
  <2>4. PlaintextSize2CipherSize(taken) = HeaderSize
    BY <2>1, <2>2, <2>3, Sizes
  <2>. QED
    BY <1>2, <1>3, <2>4
<1>4. CASE n > 0
  <2>1. chunks[n] \in ChunkRecords
    BY <1>1, <1>4
  <2>2. PICK l \in 1 .. ChunkPayloadSize : l = chunks[n].len
    BY <2>1 DEF ChunkRecords
  <2>3. taken = (n - 1) * ChunkPayloadSize + l
    BY <1>0, <1>4, <2>2 DEF WriterInv, Written
  <2>4. n - 1 \in Nat
    BY <1>1, <1>4
  <2>5. PlaintextSize2CipherSize(taken) = HeaderSize + (n - 1) * ChunkCipherSize + (Overhead + l)
    BY <2>3, <2>4, ContentEnds
  <2>. QED
    BY <1>2, <1>4, <2>2, <2>5
<1>. QED
  BY <1>1, <1>3, <1>4

\* The next chunk is read whole when the file reaches to its end, and in a
\* file that has not lost its end there is one wherever there are bytes.
LEMMA NextChunk ==
    /\ WriterInv /\ phase # "writing"
    /\ resp.num \in Nat /\ resp.pos = HeaderSize + resp.num * ChunkCipherSize
    => LET i == resp.num + 1 IN
       /\ i \in 1 .. Len(chunks) /\ chunks[i].at + Overhead + chunks[i].len <= size =>
             Opened(Available) # {}
       /\ phase = "whole" /\ Available > 0 => Opened(Available) # {}
<1>. DEFINE n == Len(chunks)
            i == resp.num + 1
<1>0. SUFFICES ASSUME WriterInv, phase # "writing",
                      resp.num \in Nat, resp.pos = HeaderSize + resp.num * ChunkCipherSize
      PROVE  /\ i \in 1 .. n /\ chunks[i].at + Overhead + chunks[i].len <= size =>
                   Opened(Available) # {}
             /\ phase = "whole" /\ Available > 0 => Opened(Available) # {}
  OBVIOUS
<1>1. n \in Nat /\ i \in Nat \ {0} /\ chunks \in Seq(ChunkRecords) /\ size \in Nat
  BY <1>0, LenProperties DEF WriterInv, WriterOK
<1>2. PICK pos \in Nat : pos = resp.pos
  BY <1>0, Sizes, ProductNat
<1>3. ASSUME i \in 1 .. n
      PROVE  /\ chunks[i].at = pos /\ chunks[i].num = resp.num
             /\ \E l \in 1 .. ChunkPayloadSize :
                   l = chunks[i].len /\ (i < n => l = ChunkPayloadSize)
  <2>1. i - 1 = resp.num /\ chunks[i] \in ChunkRecords
    BY <1>0, <1>1, <1>3
  <2>. QED
    BY <1>0, <1>2, <1>3, <2>1 DEF WriterInv, Layout, ChunkRecords
<1>4. Available = IF size > pos THEN Min({ChunkCipherSize, size - pos}) ELSE 0
  BY <1>2 DEF Available
\* How far the file reaches at most, and exactly when it is whole.
<1>5. /\ n = 0 => size <= HeaderSize
      /\ n > 0 => \E before \in Nat, l \in 1 .. ChunkPayloadSize :
                    /\ before = (n - 1) * ChunkCipherSize /\ l = chunks[n].len
                    /\ size <= HeaderSize + before + (Overhead + l)
                    /\ phase = "whole" => size = HeaderSize + before + (Overhead + l)
  <2>1. n > 0 => /\ chunks[n] \in ChunkRecords
                 /\ n - 1 \in Nat
    BY <1>1
  <2>2. n > 0 => (n - 1) * ChunkCipherSize \in Nat /\ chunks[n].len \in 1 .. ChunkPayloadSize
    BY <2>1, Sizes, ProductNat DEF ChunkRecords
  <2>. QED
    BY <1>0, <2>2, FileEnds
<1>6. ASSUME i \in 1 .. n, chunks[i].at + Overhead + chunks[i].len <= size
      PROVE  Opened(Available) # {}
  <2>1. PICK l \in 1 .. ChunkPayloadSize :
               l = chunks[i].len /\ (i < n => l = ChunkPayloadSize)
    BY <1>3, <1>6
  <2>2. chunks[i].at = pos /\ chunks[i].num = resp.num
    BY <1>3, <1>6
  <2>3. size - pos \in Int /\ size > pos /\ size - pos >= Overhead + l
    BY <1>1, <1>6, <2>1, <2>2, Sizes
  <2>4. /\ Available \in {ChunkCipherSize, size - pos}
        /\ Available <= ChunkCipherSize /\ Available <= size - pos
    <3>1. PICK room \in Int : room = size - pos
      BY <2>3
    <3>2. Available = Min({ChunkCipherSize, room})
      BY <1>4, <2>3, <3>1
    <3>3. ChunkCipherSize \in Int
      BY Sizes
    <3>4. /\ Min({ChunkCipherSize, room}) \in {ChunkCipherSize, room}
          /\ Min({ChunkCipherSize, room}) <= ChunkCipherSize /\ Min({ChunkCipherSize, room}) <= room
      BY <3>1, <3>3, MinOfTwo
    <3>. QED
      BY <3>1, <3>2, <3>4
  <2>5. Available = Overhead + l
    <3>1. CASE i < n
      BY <2>1, <2>3, <2>4, <3>1, Sizes
    <3>2. CASE i = n
      <4>1. size <= pos + (Overhead + l)
        BY <1>0, <1>1, <1>2, <1>5, <2>1, <3>2
      <4>2. size - pos = Overhead + l
        BY <1>1, <2>3, <4>1, Sizes
      <4>. QED
        BY <2>1, <2>4, <4>2, Sizes
    <3>. QED
      BY <1>1, <1>6, <3>1, <3>2
  <2>6. chunks[i] \in Opened(Available)
    BY <1>2, <1>6, <2>1, <2>2, <2>5 DEF Opened
  <2>. QED
    BY <2>6
<1>7. ASSUME phase = "whole", Available > 0
      PROVE  i \in 1 .. n /\ chunks[i].at + Overhead + chunks[i].len <= size
  <2>1. size > pos
    BY <1>4, <1>7
  <2>2. PICK here \in Nat : here = resp.num * ChunkCipherSize /\ pos = HeaderSize + here
    BY <1>0, <1>2, Sizes, ProductNat
  <2>3. n > 0
    BY <1>1, <1>5, <2>1, <2>2, Sizes
  <2>4. PICK before \in Nat, l \in 1 .. ChunkPayloadSize :
               /\ before = (n - 1) * ChunkCipherSize /\ l = chunks[n].len
               /\ size = HeaderSize + before + (Overhead + l)
    BY <1>5, <1>7, <2>3
  <2>5. ~(resp.num > n - 1)
    <3>1. resp.num > n - 1 => before + ChunkCipherSize <= here
      <4>1. (n - 1 + 1) * ChunkCipherSize = before + ChunkCipherSize
        BY <1>1, <2>4, Sizes, ProductNext
      <4>2. ASSUME resp.num > n - 1 PROVE (n - 1 + 1) * ChunkCipherSize <= here
        <5>1. n - 1 + 1 \in Int /\ resp.num \in Int /\ n - 1 + 1 <= resp.num
          BY <1>0, <1>1, <4>2
        <5>2. (n - 1 + 1) * ChunkCipherSize <= resp.num * ChunkCipherSize
          BY <5>1, Sizes, ProductMonotone
        <5>. QED
          BY <2>2, <5>2
      <4>. QED
        BY <4>1, <4>2
    <3>2. /\ pos = HeaderSize + here
          /\ size = HeaderSize + before + (Overhead + l)
      BY <2>2, <2>4
    <3>. QED
      BY <2>1, <3>1, <3>2, Sizes
  <2>6. i \in 1 .. n
    BY <1>0, <1>1, <2>5
  <2>7. CASE i < n
    <3>1. chunks[i].len = ChunkPayloadSize
      BY <1>3, <2>6, <2>7
    <3>2. here + ChunkCipherSize <= before
      <4>1. (resp.num + 1) * ChunkCipherSize = here + ChunkCipherSize
        BY <1>0, <2>2, Sizes, ProductNext
      <4>2. (resp.num + 1) * ChunkCipherSize <= (n - 1) * ChunkCipherSize
        <5>1. resp.num + 1 \in Int /\ n - 1 \in Int /\ resp.num + 1 <= n - 1
          BY <1>0, <1>1, <2>7
        <5>. QED
          BY <5>1, Sizes, ProductMonotone
      <4>. QED
        BY <2>4, <4>1, <4>2
    <3>3. chunks[i].at = pos
      BY <1>3, <2>6
    <3>4. /\ pos = HeaderSize + here
          /\ size = HeaderSize + before + (Overhead + l)
      BY <2>2, <2>4
    <3>5. pos + Overhead + ChunkPayloadSize <= size
      BY <3>2, <3>4, Sizes
    <3>. QED
      BY <2>6, <3>1, <3>3, <3>5
  <2>8. CASE i = n
    <3>1. chunks[i].at = pos /\ chunks[i].len = l
      BY <1>3, <2>4, <2>6, <2>8
    <3>2. before = here
      BY <1>0, <2>2, <2>4, <2>8
    <3>3. /\ pos = HeaderSize + here
          /\ size = HeaderSize + before + (Overhead + l)
      BY <2>2, <2>4
    <3>4. pos + Overhead + l <= size
      BY <3>2, <3>3, Sizes
    <3>. QED
      BY <2>6, <3>1, <3>4
  <2>. QED
    BY <1>1, <2>6, <2>7, <2>8
<1>. QED
  BY <1>6, <1>7

-----------------------------------------------------------------------------
(* The reader's steps.                                                     *)

LEMMA ReaderFacts ==
    ReaderInv /\ resp.pc = "serving" =>
        /\ resp \in Responses /\ resp.offset <= resp.len
        /\ resp.num \in Nat /\ resp.pos \in Nat /\ resp.offset \in Nat /\ resp.start \in Nat
        /\ resp.promised \in Nat /\ resp.skip \in Nat /\ resp.from \in Nat
        /\ resp.len \in 0 .. ChunkPayloadSize /\ Len(resp.out) \in Nat
        /\ Place(resp) \in Nat
        /\ resp.asked \in Ranges <=> Limited
        /\ resp.asked \in Ranges \cup Wholes
<1>. SUFFICES ASSUME ReaderInv, resp.pc = "serving" PROVE
        /\ resp \in Responses /\ resp.offset <= resp.len
        /\ resp.num \in Nat /\ resp.pos \in Nat /\ resp.offset \in Nat /\ resp.start \in Nat
        /\ resp.promised \in Nat /\ resp.skip \in Nat /\ resp.from \in Nat
        /\ resp.len \in 0 .. ChunkPayloadSize /\ Len(resp.out) \in Nat
        /\ Place(resp) \in Nat
        /\ resp.asked \in Ranges <=> Limited
        /\ resp.asked \in Ranges \cup Wholes
  OBVIOUS
<1>1. resp \in Responses /\ resp.offset <= resp.len
  BY DEF ReaderInv, ReaderOK
<1>2. /\ resp.num \in Nat /\ resp.pos \in Nat /\ resp.offset \in Nat /\ resp.start \in Nat
      /\ resp.promised \in Nat /\ resp.skip \in Nat /\ resp.from \in Nat
      /\ resp.len \in 0 .. ChunkPayloadSize /\ resp.out \in Seq(Nat)
  BY <1>1, Sizes DEF Responses
<1>3. Len(resp.out) \in Nat
  BY <1>2, LenProperties
<1>4. Place(resp) \in Nat
  BY <1>2, Sizes, ProductNat DEF Place
<1>5. resp.asked \in Ranges \cup Wholes
  BY DEF ReaderInv, ReaderOK, Asked, Started
<1>6. resp.asked \in Ranges <=> Limited
  BY <1>5 DEF Limited, Ranges, Wholes
<1>. QED
  BY <1>1, <1>2, <1>3, <1>4, <1>5, <1>6

\* Where the reader is before it reads a chunk.
LEMMA BeforeChunk ==
    ReaderInv /\ NeedsChunk /\ ~resp.done =>
        /\ resp.pos = HeaderSize + resp.num * ChunkCipherSize
        /\ Place(resp) = resp.num * ChunkPayloadSize
<1>0. SUFFICES ASSUME ReaderInv, NeedsChunk, ~resp.done
               PROVE  /\ resp.pos = HeaderSize + resp.num * ChunkCipherSize
                      /\ Place(resp) = resp.num * ChunkPayloadSize
  OBVIOUS
<1>1. resp.pc = "serving" /\ resp.offset = resp.len
  BY <1>0 DEF NeedsChunk, Serving
<1>2. CASE resp.len = 0
  BY <1>0, <1>1, <1>2 DEF ReaderInv, ReaderOK, AtChunk, Place
<1>3. CASE resp.len > 0
  <2>1. /\ resp.from = (resp.num - 1) * ChunkPayloadSize
        /\ resp.pos = HeaderSize + (resp.num - 1) * ChunkCipherSize + (Overhead + resp.len)
        /\ ~(resp.len < ChunkPayloadSize) /\ resp.num - 1 \in Nat
    <3>1. /\ resp.num \in 1 .. Len(chunks) /\ resp.num \in Nat
          /\ resp.from = (resp.num - 1) * ChunkPayloadSize
          /\ resp.pos = HeaderSize + (resp.num - 1) * ChunkCipherSize + (Overhead + resp.len)
          /\ ~(resp.len < ChunkPayloadSize)
      BY <1>0, <1>1, <1>3, ReaderFacts DEF ReaderInv, ReaderOK, AtChunk
    <3>2. resp.num - 1 \in Nat
      BY <3>1
    <3>. QED
      BY <3>1, <3>2
  <2>2. resp.len = ChunkPayloadSize
    BY <1>0, <1>1, <2>1, ReaderFacts, Sizes
  <2>3. /\ (resp.num - 1 + 1) * ChunkPayloadSize = (resp.num - 1) * ChunkPayloadSize + ChunkPayloadSize
        /\ (resp.num - 1 + 1) * ChunkCipherSize = (resp.num - 1) * ChunkCipherSize + ChunkCipherSize
    BY <2>1, Sizes, ProductNext
  <2>4. resp.num - 1 + 1 = resp.num
    BY <1>0, <1>1, ReaderFacts
  <2>5. Place(resp) = resp.num * ChunkPayloadSize
    BY <1>1, <1>3, <2>1, <2>2, <2>3, <2>4 DEF Place
  <2>6. PICK before \in Nat : before = (resp.num - 1) * ChunkCipherSize
    BY <2>1, Sizes, ProductNat
  <2>7. resp.pos = HeaderSize + before + (Overhead + ChunkPayloadSize)
    BY <2>1, <2>2, <2>6
  <2>8. resp.num * ChunkCipherSize = before + ChunkCipherSize
    BY <2>3, <2>4, <2>6
  <2>9. HeaderSize + before + (Overhead + ChunkPayloadSize) = HeaderSize + (before + ChunkCipherSize)
    BY Sizes
  <2>. QED
    BY <2>5, <2>7, <2>8, <2>9
<1>. QED
  BY <1>0, <1>1, <1>2, <1>3, ReaderFacts

\* At the end of the file there is nothing announced behind the reader.
LEMMA AtEOF ==
    WriterInv /\ ReaderInv /\ NeedsChunk /\ (resp.done \/ Available = 0) =>
        Announced <= Place(resp)
<1>0. SUFFICES ASSUME WriterInv, ReaderInv, NeedsChunk, resp.done \/ Available = 0
               PROVE  Announced <= Place(resp)
  OBVIOUS
<1>1. resp.pc = "serving" /\ resp.offset = resp.len /\ size \in Nat
  BY <1>0 DEF NeedsChunk, Serving, WriterInv, WriterOK
<1>2. CASE ~resp.done
  <2>1. PICK room \in Int : room = size - resp.pos
    BY <1>0, <1>1, ReaderFacts
  <2>2. ~(size > resp.pos)
    <3>1. ASSUME size > resp.pos PROVE FALSE
      <4>1. room > 0 /\ Available = Min({ChunkCipherSize, room})
        BY <1>0, <1>1, <2>1, <3>1, ReaderFacts DEF Available
      <4>2. ChunkCipherSize \in Int
        BY Sizes
      <4>3. Min({ChunkCipherSize, room}) \in {ChunkCipherSize, room}
        BY <4>2, MinOfTwo
      <4>. QED
        BY <1>0, <1>2, <4>1, <4>3, Sizes
    <3>. QED
      BY <3>1
  <2>3. PICK q \in Nat : q = resp.num
    BY <1>0, <1>1, ReaderFacts
  <2>4. resp.pos = HeaderSize + q * ChunkCipherSize + 0 /\ Place(resp) = q * ChunkPayloadSize + 0
    <3>1. resp.pos = HeaderSize + q * ChunkCipherSize /\ Place(resp) = q * ChunkPayloadSize
      BY <1>0, <1>2, <2>3, BeforeChunk
    <3>2. resp.pos \in Nat /\ Place(resp) \in Nat
      BY <1>0, <1>1, ReaderFacts
    <3>3. resp.pos + 0 = resp.pos /\ Place(resp) + 0 = Place(resp)
      BY <3>2
    <3>. QED
      BY <3>1, <3>3
  <2>5. size <= resp.pos
    BY <1>0, <1>1, <2>2, ReaderFacts
  <2>6. size <= HeaderSize + q * ChunkCipherSize + (IF 0 = 0 THEN 0 ELSE Overhead + 0) =>
            Announced <= q * ChunkPayloadSize + 0
    BY <1>1, ChunkEnd, Sizes
  <2>. QED
    BY <2>4, <2>5, <2>6
<1>3. CASE resp.done
  <2>1. resp.len > 0
    BY <1>0, <1>1, <1>3, ReaderFacts DEF ReaderInv, ReaderOK, AtChunk
  <2>2. /\ resp.num \in 1 .. Len(chunks)
        /\ resp.from = (resp.num - 1) * ChunkPayloadSize
        /\ resp.pos = HeaderSize + (resp.num - 1) * ChunkCipherSize + (Overhead + resp.len)
        /\ size <= resp.pos
    BY <1>0, <1>1, <1>3, <2>1 DEF ReaderInv, ReaderOK, AtChunk
  <2>3. PICK q \in Nat, l \in 0 .. ChunkPayloadSize : q = resp.num - 1 /\ l = resp.len
    BY <1>0, <1>1, <2>2, ReaderFacts
  <2>4. size <= HeaderSize + q * ChunkCipherSize + (IF l = 0 THEN 0 ELSE Overhead + l) =>
            Announced <= q * ChunkPayloadSize + l
    BY <1>1, ChunkEnd
  <2>5. Place(resp) = q * ChunkPayloadSize + l
    BY <1>1, <2>1, <2>2, <2>3 DEF Place
  <2>. QED
    BY <2>1, <2>2, <2>3, <2>4, <2>5
<1>. QED
  BY <1>2, <1>3

\* A chunk that lies in the file is part of what is announced.
LEMMA InAnnounced ==
    ASSUME size \in Nat, NEW r \in Responses, r.pc = "serving", AtChunk(r), r.len > 0
    PROVE  r.from + r.len <= Announced
<1>1. /\ r.num \in 1 .. Len(chunks) /\ r.num \in Nat
      /\ r.from = (r.num - 1) * ChunkPayloadSize
      /\ r.pos = HeaderSize + (r.num - 1) * ChunkCipherSize + (Overhead + r.len)
      /\ r.pos <= size
  BY DEF AtChunk, Responses
<1>2. PICK q \in Nat, l \in 0 .. ChunkPayloadSize : q = r.num - 1 /\ l = r.len
  BY <1>1 DEF Responses
<1>3. HeaderSize + q * ChunkCipherSize + (IF l = 0 THEN 0 ELSE Overhead + l) <= size =>
          q * ChunkPayloadSize + l <= Announced
  BY ChunkEnd
<1>. QED
  BY <1>1, <1>2, <1>3

\* Delivering some of the buffer keeps a response in order.
LEMMA DeliveredOK ==
    ASSUME size \in Nat, NEW r \in Responses, NEW n \in Nat,
           r.pc = "serving", r.len > 0, r.offset + n <= r.len, r.skip > 0 => n <= r.skip,
           Asked(r), InOrder(r), AtChunk(r),
           r.skip = 0 /\ r.asked \in Ranges => Len(r.out) + n <= r.promised
    PROVE  ReaderOK(Delivered(r, n))
<1>. DEFINE d == Delivered(r, n)
<1>1. /\ r.skip > 0 => r.out = <<>>
      /\ r.from + r.offset + r.skip = r.start + Len(r.out)
      /\ \A i \in 1 .. Len(r.out) : r.out[i] = r.start + i - 1
      /\ Len(r.out) <= r.promised
  BY Sizes DEF InOrder, Started, Place, Responses
<1>2. /\ d \in Responses /\ d.offset <= d.len
      /\ d.pc = r.pc /\ d.asked = r.asked /\ d.start = r.start /\ d.promised = r.promised
      /\ d.pos = r.pos /\ d.num = r.num /\ d.from = r.from /\ d.len = r.len
      /\ d.done = r.done
      /\ d.from + d.offset + d.skip = d.start + Len(d.out)
      /\ d.skip > 0 => d.out = <<>>
      /\ \A i \in 1 .. Len(d.out) : d.out[i] = d.start + i - 1
      /\ Len(d.out) = Len(r.out) + (IF r.skip > 0 THEN 0 ELSE n)
  BY <1>1, DeliveredInOrder
<1>. HIDE DEF d
<1>3. Asked(d)
  BY <1>2 DEF Asked, Started
<1>4. AtChunk(d)
  BY <1>2 DEF AtChunk
<1>5. Ended(d)
  BY <1>2 DEF Ended
<1>6. Len(d.out) <= d.promised
  <2>1. CASE r.skip > 0
    <3>1. Len(d.out) = Len(r.out) + 0 /\ Len(r.out) \in Nat
      BY <1>2, <2>1, LenProperties DEF Responses
    <3>2. Len(d.out) = Len(r.out)
      BY <3>1
    <3>. QED
      BY <1>1, <1>2, <3>2
  <2>2. CASE r.skip = 0 /\ r.asked \in Ranges
    <3>1. Len(d.out) = Len(r.out) + n
      BY <1>2, <2>2
    <3>. QED
      BY <1>2, <2>2, <3>1
  <2>3. CASE r.skip = 0 /\ r.asked \notin Ranges
    <3>1. r.start = 0 /\ r.promised = Announced
      BY <2>3 DEF Asked, Started
    <3>2. d.from + d.len <= Announced
      BY <1>2, <1>4, InAnnounced
    <3>3. Len(d.out) \in Nat /\ d.skip \in Nat /\ d.from \in Nat /\ d.offset \in Nat /\ d.len \in Nat
      BY <1>2, Sizes, LenProperties DEF Responses
    <3>4. PICK s \in Nat, l \in Nat, f \in Nat, o \in Nat, m \in Nat :
              s = d.skip /\ l = Len(d.out) /\ f = d.from /\ o = d.offset /\ m = d.len
      BY <3>3
    <3>5. f + o + s = 0 + l /\ o <= m /\ f + m <= Announced
      BY <1>2, <3>1, <3>2, <3>4
    <3>6. Announced \in Nat
      BY AnnouncedNat DEF Announced
    <3>7. l <= Announced
      <4>1. o + s >= 0
        OBVIOUS
      <4>2. l = f + o + s
        BY <3>5
      <4>3. r.skip = 0 => s = 0
        <5>1. d.skip = r.skip
          BY <2>3 DEF d, Delivered
        <5>. QED
          BY <3>4, <5>1
      <4>. QED
        BY <2>3, <3>5, <3>6, <4>2, <4>3
    <3>. QED
      BY <1>2, <3>1, <3>4, <3>7
  <2>. QED
    BY <2>1, <2>2, <2>3, Sizes DEF Responses
<1>7. InOrder(d)
  <2>1. d.len # 0
    BY <1>2, Sizes DEF Responses
  <2>2. Place(d) = d.from + d.offset
    BY <2>1 DEF Place
  <2>. QED
    BY <1>2, <1>6, <2>1, <2>2 DEF InOrder
<1>. QED
  BY <1>2, <1>3, <1>4, <1>5, <1>7 DEF ReaderOK, d

\* A reader is asked for no more than is left to skip, or to send.
LEMMA RoomLeft ==
    ASSUME NEW k \in Nat
    PROVE  ReaderInv /\ resp.pc = "serving" =>
               /\ Room(k) \in Nat
               /\ resp.skip > 0 => Room(k) <= resp.skip
               /\ resp.skip = 0 /\ Limited => Len(resp.out) + Room(k) <= resp.promised
<1>0. SUFFICES ASSUME ReaderInv, resp.pc = "serving"
               PROVE  /\ Room(k) \in Nat
                      /\ resp.skip > 0 => Room(k) <= resp.skip
                      /\ resp.skip = 0 /\ Limited => Len(resp.out) + Room(k) <= resp.promised
  OBVIOUS
<1>1. resp.skip \in Nat /\ Len(resp.out) \in Nat /\ resp.promised \in Nat
  BY <1>0, ReaderFacts
<1>2. Len(resp.out) <= resp.promised
  BY <1>0 DEF ReaderInv, ReaderOK, InOrder, Started
<1>3. PICK skip \in Nat, left \in Nat : skip = resp.skip /\ left = resp.promised - Len(resp.out)
  BY <1>1, <1>2
<1>4. /\ Min({k, skip}) \in {k, skip} /\ Min({k, skip}) <= skip
      /\ Min({k, left}) \in {k, left} /\ Min({k, left}) <= left
  BY MinOfTwo
<1>5. Room(k) = IF skip > 0 THEN Min({k, skip}) ELSE IF Limited THEN Min({k, left}) ELSE k
  BY <1>3 DEF Room
<1>6. PICK room \in Nat : room = Room(k)
  BY <1>4, <1>5
<1>7. skip > 0 => room <= skip
  BY <1>4, <1>5, <1>6
<1>8. skip = 0 /\ Limited => room <= left
  BY <1>4, <1>5, <1>6
<1>9. skip = 0 /\ Limited => Len(resp.out) + room <= resp.promised
  BY <1>1, <1>3, <1>8
<1>. QED
  BY <1>3, <1>6, <1>7, <1>9

LEMMA ReadBufferedKeeps ==
    ASSUME WriterInv, ReaderInv, NEW k \in 1 .. MaxRead, ReadBuffered(k)
    PROVE  ReaderInv'
<1>1. resp.pc = "serving" /\ resp.offset < resp.len /\ UNCHANGED <<phase, chunks, size>>
  BY DEF ReadBuffered, Serving
<1>2. PICK room \in Nat : /\ room = Room(k)
                          /\ resp.skip > 0 => room <= resp.skip
                          /\ resp.skip = 0 /\ Limited => Len(resp.out) + room <= resp.promised
  BY <1>1, RoomLeft, SizesAssumption
<1>3. PICK rest \in Nat : rest = resp.len - resp.offset
  BY <1>1, ReaderFacts
<1>4. Min({room, rest}) \in {room, rest} /\ Min({room, rest}) <= room /\ Min({room, rest}) <= rest
  BY MinOfTwo
<1>5. PICK n \in Nat : n = Min({room, rest}) /\ n <= room /\ n <= rest
  BY <1>4
<1>6. resp' = Delivered(resp, n)
  BY <1>2, <1>3, <1>5 DEF ReadBuffered
<1>7. ReaderOK(Delivered(resp, n))
  <2>1. /\ resp \in Responses /\ Asked(resp) /\ InOrder(resp) /\ AtChunk(resp)
        /\ size \in Nat
    BY DEF ReaderInv, ReaderOK, WriterInv, WriterOK
  <2>2. resp.len > 0 /\ resp.offset + n <= resp.len
    BY <1>1, <1>3, <1>5, ReaderFacts
  <2>3. resp.skip > 0 => n <= resp.skip
    BY <1>1, <1>2, <1>5, ReaderFacts
  <2>4. resp.skip = 0 /\ resp.asked \in Ranges => Len(resp.out) + n <= resp.promised
    BY <1>1, <1>2, <1>5, ReaderFacts
  <2>. QED
    BY <1>1, <2>1, <2>2, <2>3, <2>4, DeliveredOK
<1>. QED
  BY <1>1, <1>6, <1>7, Unmoved

LEMMA ReadChunkKeeps ==
    ASSUME WriterInv, ReaderInv, NEW k \in 1 .. MaxRead, ReadChunk(k)
    PROVE  ReaderInv'
<1>1. /\ NeedsChunk /\ ~resp.done /\ UNCHANGED <<phase, chunks, size>>
      /\ resp.pc = "serving"
  BY DEF ReadChunk, NeedsChunk, Serving
<1>2. PICK c \in Opened(Available) :
          LET r == [resp EXCEPT !.pos = @ + Available, !.num = @ + 1, !.from = c.from,
                                !.len = c.len, !.offset = 0, !.done = Available < ChunkCipherSize]
          IN  resp' = Delivered(r, Min({Room(k), c.len}))
  BY DEF ReadChunk
<1>3. PICK i \in 1 .. Len(chunks) : c = chunks[i]
  BY <1>2 DEF Opened
<1>4. /\ c.at = resp.pos /\ c.num = resp.num /\ Overhead + c.len = Available
  BY <1>2 DEF Opened
<1>5. /\ c.at = HeaderSize + (i - 1) * ChunkCipherSize /\ c.num = i - 1
      /\ c.from = (i - 1) * ChunkPayloadSize
      /\ c.len \in 1 .. ChunkPayloadSize /\ i - 1 \in Nat
  <2>1. chunks[i] \in ChunkRecords
    BY <1>3 DEF WriterInv, WriterOK
  <2>2. i - 1 \in Nat
    BY <1>3
  <2>. QED
    BY <1>3, <2>1, <2>2 DEF WriterInv, Layout, ChunkRecords
<1>6. PICK q \in Nat, l \in 1 .. ChunkPayloadSize : q = i - 1 /\ l = c.len
  BY <1>5
<1>7. resp.num = q /\ i = q + 1 /\ Available = Overhead + l /\ size \in Nat
  BY <1>3, <1>4, <1>5, <1>6 DEF WriterInv, WriterOK
<1>8. PICK room \in Nat : /\ room = Room(k)
                          /\ resp.skip > 0 => room <= resp.skip
                          /\ resp.skip = 0 /\ Limited => Len(resp.out) + room <= resp.promised
  <2>1. k \in Nat
    BY SizesAssumption
  <2>. QED
    BY <1>1, <2>1, RoomLeft
<1>9. PICK n \in Nat : n = Min({room, l}) /\ n <= room /\ n <= l
  <2>1. Min({room, l}) \in {room, l} /\ Min({room, l}) <= room /\ Min({room, l}) <= l
    <3>1. room \in Int /\ l \in Int
      BY Sizes
    <3>. QED
      BY <3>1, MinOfTwo
  <2>2. Min({room, l}) \in Nat
    BY <2>1, Sizes
  <2>. QED
    BY <2>1, <2>2
<1>. DEFINE r == [resp EXCEPT !.pos = @ + Available, !.num = @ + 1, !.from = c.from,
                              !.len = c.len, !.offset = 0, !.done = Available < ChunkCipherSize]
<1>10. resp' = Delivered(r, n)
  BY <1>2, <1>6, <1>8, <1>9
<1>11. /\ resp.pos + Available \in Nat /\ resp.num + 1 \in Nat /\ c.from \in Nat
       /\ c.len \in 0 .. ChunkPayloadSize /\ 0 \in Nat
       /\ (Available < ChunkCipherSize) \in BOOLEAN
  <2>1. c.from \in Nat
    BY <1>5, Sizes, ProductNat
  <2>2. Available \in Nat /\ resp.pos \in Nat /\ resp.num \in Nat
    BY <1>1, <1>7, ReaderFacts, Sizes
  <2>3. c.len \in 0 .. ChunkPayloadSize
    BY <1>5, Sizes
  <2>. QED
    BY <2>1, <2>2, <2>3
<1>12. /\ r \in Responses /\ r.pc = "serving" /\ r.asked = resp.asked
       /\ r.start = resp.start /\ r.promised = resp.promised /\ r.skip = resp.skip
       /\ r.out = resp.out /\ r.num = i /\ r.from = c.from /\ r.len = l /\ r.offset = 0
       /\ r.pos = resp.pos + Available /\ r.done = (Available < ChunkCipherSize)
  <2>1. resp \in Responses
    BY DEF ReaderInv, ReaderOK
  <2>2. resp.num + 1 = i
    BY <1>7
  <2>. QED
    BY <1>1, <1>6, <1>11, <2>1, <2>2 DEF Responses
<1>. HIDE DEF r
<1>13. PICK pos \in Nat : pos = resp.pos
  BY <1>1, ReaderFacts
<1>14. /\ pos + (Overhead + l) <= size
       /\ Overhead + l < ChunkCipherSize => size <= pos + (Overhead + l)
  <2>1. Overhead + l > 0
    BY Sizes
  <2>2. size > pos /\ Available = Min({ChunkCipherSize, size - pos})
    BY <1>7, <1>13, <2>1 DEF Available
  <2>3. PICK rest \in Int : rest = size - pos
    BY <1>7
  <2>4. ChunkCipherSize \in Int
    BY Sizes
  <2>5. /\ Min({ChunkCipherSize, rest}) \in {ChunkCipherSize, rest}
        /\ Min({ChunkCipherSize, rest}) <= rest
    BY <2>4, MinOfTwo
  <2>6. Overhead + l \in {ChunkCipherSize, rest} /\ Overhead + l <= rest
    BY <1>7, <2>2, <2>3, <2>5
  <2>. QED
    BY <1>7, <2>3, <2>6, Sizes
<1>15. Asked(r)
  BY <1>1, <1>12 DEF ReaderInv, ReaderOK, Asked, Started
<1>16. AtChunk(r)
  <2>1. r.done <=> r.len < ChunkPayloadSize
    <3>1. Overhead + l < ChunkCipherSize <=> l < ChunkPayloadSize
      BY Sizes
    <3>2. r.done <=> Overhead + l < ChunkCipherSize
      BY <1>7, <1>12
    <3>. QED
      BY <1>12, <3>1, <3>2
  <2>2. r.pos = HeaderSize + (i - 1) * ChunkCipherSize + (Overhead + r.len)
    BY <1>4, <1>5, <1>7, <1>12
  <2>3. r.pos = pos + (Overhead + l)
    BY <1>7, <1>12, <1>13
  <2>4. r.done => Overhead + l < ChunkCipherSize
    BY <1>7, <1>12
  <2>5. r.from = (i - 1) * ChunkPayloadSize /\ r.len # 0 /\ i \in 1 .. Len(chunks)
    BY <1>3, <1>5, <1>12
  <2>. QED
    BY <1>12, <1>14, <2>1, <2>2, <2>3, <2>4, <2>5 DEF AtChunk
<1>17. InOrder(r)
  <2>1. Place(resp) = q * ChunkPayloadSize
    BY <1>1, <1>7, BeforeChunk
  <2>2. r.from = q * ChunkPayloadSize
    BY <1>5, <1>6, <1>12
  <2>3. Place(r) = Place(resp)
    <3>1. Place(r) = r.from + 0 /\ r.from \in Nat
      BY <1>11, <1>12 DEF Place
    <3>. QED
      BY <2>1, <2>2, <3>1
  <2>4. /\ Place(resp) + resp.skip = resp.start + Len(resp.out)
        /\ resp.skip > 0 \/ resp.len = 0 => resp.out = <<>>
        /\ \A j \in 1 .. Len(resp.out) : resp.out[j] = resp.start + j - 1
        /\ Len(resp.out) <= resp.promised
    BY <1>1 DEF ReaderInv, ReaderOK, InOrder, Started
  <2>. QED
    BY <1>12, <2>3, <2>4 DEF InOrder
<1>18. r.offset + n <= r.len /\ r.len > 0
  BY <1>9, <1>12
<1>19. r.skip > 0 => n <= r.skip
  BY <1>1, <1>8, <1>9, <1>12, ReaderFacts
<1>20. r.skip = 0 /\ r.asked \in Ranges => Len(r.out) + n <= r.promised
  BY <1>1, <1>8, <1>9, <1>12, ReaderFacts
<1>21. ReaderOK(Delivered(r, n))
  BY <1>7, <1>12, <1>15, <1>16, <1>17, <1>18, <1>19, <1>20, DeliveredOK
<1>. QED
  BY <1>1, <1>10, <1>21, Unmoved

LEMMA ReadEOFKeeps ==
    ASSUME WriterInv, ReaderInv, ReadEOF
    PROVE  ReaderInv'
<1>1. /\ NeedsChunk /\ (resp.done \/ Available = 0) /\ UNCHANGED <<phase, chunks, size>>
      /\ resp.pc = "serving" /\ size \in Nat
  BY DEF ReadEOF, NeedsChunk, Serving, WriterInv, WriterOK
<1>2. PICK place \in Nat, skip \in Nat, start \in Nat, sent \in Nat, promised \in Nat :
          /\ place = Place(resp) /\ skip = resp.skip /\ start = resp.start
          /\ sent = Len(resp.out) /\ promised = resp.promised
  BY <1>1, ReaderFacts
<1>3. Announced \in Nat /\ Announced <= place
  BY <1>1, <1>2, AtEOF, AnnouncedNat DEF Announced
<1>4. place + skip = start + sent /\ sent <= promised
  BY <1>1, <1>2 DEF ReaderInv, ReaderOK, InOrder, Started
<1>5. start + promised <= Announced
  <2>1. CASE resp.asked \in Ranges
    <3>1. PICK r \in Ranges : r = resp.asked
      BY <2>1
    <3>2. Satisfiable(r) /\ start = First(r) /\ promised = Last(r) - First(r) + 1
      BY <1>1, <1>2, <3>1 DEF ReaderInv, ReaderOK, Asked, Started
    <3>3. First(r) \in Nat /\ Last(r) \in Nat /\ Last(r) < Announced
      BY <1>1, <3>2, SatisfiableRange
    <3>. QED
      BY <1>3, <3>2, <3>3
  <2>2. CASE resp.asked \in Wholes
    <3>1. start = 0 /\ promised = Announced
      BY <1>1, <1>2, <2>2 DEF ReaderInv, ReaderOK, Asked, Started
    <3>. QED
      BY <1>3, <3>1
  <2>. QED
    BY <1>1, <2>1, <2>2, ReaderFacts
<1>6. skip = 0 /\ sent = promised
  BY <1>3, <1>4, <1>5
<1>7. PICK d : d = [resp EXCEPT !.done = TRUE, !.pc = "sent"]
  OBVIOUS
<1>8. resp' = d
  BY <1>2, <1>6, <1>7 DEF ReadEOF
<1>9. resp \in Responses
  BY DEF ReaderInv, ReaderOK
<1>10. /\ d \in Responses /\ d.pc = "sent" /\ d.asked = resp.asked /\ d.start = resp.start
       /\ d.promised = resp.promised /\ d.skip = resp.skip /\ d.num = resp.num
       /\ d.from = resp.from /\ d.len = resp.len /\ d.offset = resp.offset /\ d.out = resp.out
  BY <1>7, <1>9 DEF Responses
<1>11. ReaderOK(d)
  <2>1. Asked(d)
    BY <1>1, <1>10 DEF ReaderInv, ReaderOK, Asked, Started
  <2>2. InOrder(d)
    BY <1>1, <1>10 DEF ReaderInv, ReaderOK, InOrder, Started, Place
  <2>3. AtChunk(d) /\ Ended(d)
    BY <1>2, <1>6, <1>10 DEF AtChunk, Ended
  <2>. QED
    BY <1>10, <2>1, <2>2, <2>3 DEF ReaderInv, ReaderOK
<1>. QED
  BY <1>1, <1>8, <1>11, Unmoved

LEMMA ReadCorruptKeeps ==
    ASSUME WriterInv, ReaderInv, ReadCorrupt
    PROVE  ReaderInv'
<1>1. /\ NeedsChunk /\ ~resp.done /\ Available > 0 /\ Opened(Available) = {}
      /\ UNCHANGED <<phase, chunks, size>>
      /\ resp.pc = "serving" /\ size \in Nat
  BY DEF ReadCorrupt, NeedsChunk, Serving, WriterInv, WriterOK
<1>2. phase # "writing" /\ phase \in {"writing", "whole", "damaged"}
  BY <1>1 DEF ReaderInv, ReaderOK, Asked, WriterInv, WriterOK
<1>3. PICK q \in Nat : q = resp.num
  BY <1>1, ReaderFacts
<1>4. /\ resp.pos = HeaderSize + q * ChunkCipherSize
      /\ Place(resp) = q * ChunkPayloadSize
  BY <1>1, <1>3, BeforeChunk
<1>5. /\ ~(/\ q + 1 \in 1 .. Len(chunks)
           /\ chunks[q + 1].at + Overhead + chunks[q + 1].len <= size)
      /\ phase # "whole"
  BY <1>1, <1>2, <1>3, <1>4, NextChunk
<1>6. PICK skip \in Nat, start \in Nat, sent \in Nat :
          skip = resp.skip /\ start = resp.start /\ sent = Len(resp.out)
  BY <1>1, ReaderFacts
<1>7. q * ChunkPayloadSize + skip = start + sent
  BY <1>1, <1>4, <1>6 DEF ReaderInv, ReaderOK, InOrder, Started
<1>8. \* Behind the reader no chunk is whole, since the next one is not.
      ASSUME NEW j \in 1 .. Len(chunks), chunks[j].at + Overhead + chunks[j].len <= size
      PROVE  chunks[j].from + chunks[j].len <= start + sent
  <2>1. PICK n \in Nat : n = Len(chunks)
    BY LenProperties DEF WriterInv, WriterOK
  <2>2. \A i \in 1 .. n : /\ chunks[i].at = HeaderSize + (i - 1) * ChunkCipherSize
                          /\ chunks[i].from = (i - 1) * ChunkPayloadSize
                          /\ chunks[i].len \in 1 .. ChunkPayloadSize
                          /\ i < n => chunks[i].len = ChunkPayloadSize
    <3>1. \A i \in 1 .. n : chunks[i] \in ChunkRecords
      BY <2>1 DEF WriterInv, WriterOK
    <3>. QED
      BY <2>1, <3>1 DEF WriterInv, Layout, ChunkRecords
  <2>3. PICK l \in 1 .. ChunkPayloadSize, b \in Nat, f \in Nat :
            /\ l = chunks[j].len /\ b = (j - 1) * ChunkCipherSize /\ f = (j - 1) * ChunkPayloadSize
    <3>1. j - 1 \in Nat
      OBVIOUS
    <3>. QED
      BY <2>1, <2>2, <3>1, Sizes, ProductNat
  <2>4. HeaderSize + b + Overhead + l <= size
    BY <1>8, <2>1, <2>2, <2>3
  <2>5. ~(j > q + 1)
    <3>1. ASSUME j > q + 1 PROVE FALSE
      <4>1. q + 1 \in 1 .. n /\ q + 1 < n /\ q + 1 <= j - 1 /\ q + 1 \in Int /\ j - 1 \in Int
        BY <2>1, <3>1
      <4>2. PICK here \in Nat : here = q * ChunkCipherSize
        BY Sizes, ProductNat
      <4>3. (q + 1) * ChunkCipherSize = here + ChunkCipherSize
        BY <4>2, Sizes, ProductNext
      <4>4. (q + 1) * ChunkCipherSize <= (j - 1) * ChunkCipherSize
        BY <4>1, Sizes, ProductMonotone
      <4>5. here + ChunkCipherSize <= b
        BY <2>3, <4>3, <4>4
      <4>6. chunks[q + 1].at = HeaderSize + here /\ chunks[q + 1].len = ChunkPayloadSize
        <5>1. q + 1 - 1 = q
          OBVIOUS
        <5>. QED
          BY <2>2, <4>1, <4>2, <5>1
      <4>7. HeaderSize + here + Overhead + ChunkPayloadSize <= size
        BY <1>1, <2>4, <4>5, Sizes
      <4>. QED
        BY <1>5, <2>1, <4>1, <4>6, <4>7
    <3>. QED
      BY <3>1
  <2>6. j # q + 1
    BY <1>5, <1>8, <2>1
  <2>7. j <= q /\ j \in Int
    BY <2>5, <2>6
  <2>8. j * ChunkPayloadSize <= q * ChunkPayloadSize
    BY <2>7, Sizes, ProductMonotone
  <2>9. j * ChunkPayloadSize = f + ChunkPayloadSize
    <3>1. (j - 1 + 1) * ChunkPayloadSize = f + ChunkPayloadSize
      BY <2>3, <2>7, Sizes, ProductNext
    <3>2. j - 1 + 1 = j
      OBVIOUS
    <3>. QED
      BY <3>1, <3>2
  <2>10. PICK p \in Nat : p = q * ChunkPayloadSize
    BY Sizes, ProductNat
  <2>11. f + ChunkPayloadSize <= p /\ p + skip = start + sent
    BY <1>7, <2>8, <2>9, <2>10
  <2>12. f + l <= start + sent
    BY <2>11, Sizes
  <2>. QED
    BY <2>1, <2>2, <2>3, <2>12
<1>9. PICK d : d = [resp EXCEPT !.pc = "broken"]
  OBVIOUS
<1>10. resp' = d
  BY <1>9 DEF ReadCorrupt
<1>11. resp \in Responses
  BY DEF ReaderInv, ReaderOK
<1>12. /\ d \in Responses /\ d.pc = "broken" /\ d.asked = resp.asked /\ d.start = resp.start
       /\ d.promised = resp.promised /\ d.skip = resp.skip /\ d.num = resp.num
       /\ d.from = resp.from /\ d.len = resp.len /\ d.offset = resp.offset /\ d.out = resp.out
  BY <1>9, <1>11 DEF Responses
<1>13. ReaderOK(d)
  <2>1. Asked(d)
    BY <1>1, <1>12 DEF ReaderInv, ReaderOK, Asked, Started
  <2>2. InOrder(d)
    BY <1>1, <1>12 DEF ReaderInv, ReaderOK, InOrder, Started, Place
  <2>3. AtChunk(d) /\ Ended(d)
    BY <1>2, <1>5, <1>6, <1>8, <1>12 DEF AtChunk, Ended
  <2>. QED
    BY <1>12, <2>1, <2>2, <2>3 DEF ReaderInv, ReaderOK
<1>. QED
  BY <1>1, <1>10, <1>13, Unmoved

LEMMA IdleFacts ==
    /\ Idle \in Responses /\ Idle.pc = "idle" /\ Idle.out = <<>> /\ Len(Idle.out) = 0
    /\ Idle.start = 0 /\ Idle.promised = 0 /\ Idle.skip = 0 /\ Idle.pos = 0 /\ Idle.num = 0
    /\ Idle.from = 0 /\ Idle.len = 0 /\ Idle.offset = 0 /\ Idle.done = FALSE
BY Sizes DEF Idle, Responses

LEMMA RequestKeeps ==
    ASSUME WriterInv, ReaderInv, \/ \E r \in Ranges : RangeRequest(r)
                                 \/ \E r \in Wholes : WholeRequest(r)
                                 \/ \E r \in Ranges \cup Wholes : Refuse(r)
    PROVE  ReaderInv'
<1>1. size \in Nat /\ Announced \in Nat
  BY AnnouncedNat DEF WriterInv, WriterOK, Announced
<1>2. "serving" \in {"idle", "serving", "sent", "broken", "refused"}
      /\ "refused" \in {"idle", "serving", "sent", "broken", "refused"}
  OBVIOUS
<1>3. ASSUME NEW r \in Ranges, RangeRequest(r) PROVE ReaderInv'
  <2>1. Satisfiable(r) /\ phase # "writing" /\ UNCHANGED <<phase, chunks, size>>
    BY <1>3 DEF RangeRequest
  <2>2. PICK s \in Nat, e \in Nat : s = First(r) /\ e = Last(r) /\ s <= e /\ e < Announced
    BY <1>1, <2>1, SatisfiableRange
  <2>3. PICK q \in Nat, m \in 0 .. ChunkPayloadSize - 1 :
            q = s \div ChunkPayloadSize /\ m = s % ChunkPayloadSize
            /\ s = q * ChunkPayloadSize + m
    BY Sizes, DivMod
  <2>4. PICK d : d = [Idle EXCEPT !.pc = "serving", !.asked = r, !.start = s,
                                  !.promised = e - s + 1, !.skip = m,
                                  !.pos = HeaderSize + q * ChunkCipherSize, !.num = q]
    OBVIOUS
  <2>5. resp' = d
    BY <1>3, <2>2, <2>3, <2>4 DEF RangeRequest, SkipBytes, CipherOffset, ChunkIndex
  <2>6. e - s + 1 \in Nat /\ HeaderSize + q * ChunkCipherSize \in Nat
    BY <2>2, Sizes, ProductNat
  <2>7. /\ d \in Responses /\ d.pc = "serving" /\ d.asked = r /\ d.start = s
        /\ d.promised = e - s + 1 /\ d.skip = m /\ d.num = q /\ d.len = 0 /\ d.offset = 0
        /\ d.done = FALSE /\ d.out = <<>> /\ d.pos = HeaderSize + q * ChunkCipherSize
    BY <1>2, <2>4, <2>6, IdleFacts DEF Responses
  <2>8. Asked(d)
    <3>1. r \notin Wholes
      BY DEF Ranges, Wholes
    <3>. QED
      BY <2>1, <2>2, <2>7, <3>1 DEF Asked, Started
  <2>9. InOrder(d)
    <3>1. Len(d.out) = 0 /\ Place(d) + d.skip = s + 0
      BY <2>3, <2>7 DEF Place
    <3>. QED
      BY <2>6, <2>7, <3>1 DEF InOrder
  <2>10. AtChunk(d) /\ Ended(d)
    BY <2>7 DEF AtChunk, Ended
  <2>11. ReaderOK(d)
    BY <2>7, <2>8, <2>9, <2>10 DEF ReaderOK
  <2>. QED
    BY <2>1, <2>5, <2>11, Unmoved
<1>4. ASSUME NEW r \in Wholes, WholeRequest(r) PROVE ReaderInv'
  <2>1. phase # "writing" /\ UNCHANGED <<phase, chunks, size>>
    BY <1>4 DEF WholeRequest
  <2>2. PICK d : d = [Idle EXCEPT !.pc = "serving", !.asked = r, !.promised = Announced,
                                  !.pos = HeaderSize]
    OBVIOUS
  <2>3. resp' = d
    BY <1>4, <2>2 DEF WholeRequest
  <2>4. /\ d \in Responses /\ d.pc = "serving" /\ d.asked = r /\ d.start = 0
        /\ d.promised = Announced /\ d.skip = 0 /\ d.num = 0 /\ d.len = 0 /\ d.offset = 0
        /\ d.done = FALSE /\ d.out = <<>> /\ d.pos = HeaderSize
    BY <1>1, <1>2, <2>2, Sizes, IdleFacts DEF Responses
  <2>5. 0 * ChunkCipherSize = 0 /\ 0 * ChunkPayloadSize = 0 /\ HeaderSize + 0 = HeaderSize
    BY Sizes
  <2>6. Asked(d)
    <3>1. r \notin Ranges
      BY DEF Ranges, Wholes
    <3>. QED
      BY <2>1, <2>4, <3>1 DEF Asked, Started
  <2>7. InOrder(d)
    <3>1. Len(d.out) = 0 /\ Place(d) + d.skip = 0
      BY <2>4, <2>5 DEF Place
    <3>. QED
      BY <1>1, <2>4, <3>1 DEF InOrder
  <2>8. AtChunk(d) /\ Ended(d)
    BY <2>4, <2>5 DEF AtChunk, Ended
  <2>9. ReaderOK(d)
    BY <2>4, <2>6, <2>7, <2>8 DEF ReaderOK
  <2>. QED
    BY <2>1, <2>3, <2>9, Unmoved
<1>5. ASSUME NEW r \in Ranges \cup Wholes, Refuse(r) PROVE ReaderInv'
  <2>1. phase # "writing" /\ UNCHANGED <<phase, chunks, size>>
    BY <1>5 DEF Refuse
  <2>2. PICK d : d = [Idle EXCEPT !.pc = "refused", !.asked = r]
    OBVIOUS
  <2>3. resp' = d
    BY <1>5, <2>2 DEF Refuse
  <2>4. /\ d \in Responses /\ d.pc = "refused" /\ d.asked = r /\ d.out = <<>>
        /\ d.len = 0 /\ d.offset = 0
    BY <1>2, <2>2, IdleFacts DEF Responses
  <2>5. \/ size < HeaderSize
        \/ r \in Wholes /\ Announced = 0
        \/ r \in Ranges /\ ~Satisfiable(r)
    <3>1. r.kind = "view" => r \in Wholes
      BY DEF Ranges, Wholes
    <3>2. r.kind \notin {"view", "download"} => r \in Ranges
      BY DEF Ranges, Wholes
    <3>. QED
      BY <1>5, <3>1, <3>2 DEF Refuse
  <2>6. Asked(d)
    BY <2>1, <2>4, <2>5 DEF Asked, Started
  <2>7. InOrder(d) /\ AtChunk(d) /\ Ended(d)
    BY <2>4 DEF InOrder, Started, AtChunk, Ended
  <2>8. ReaderOK(d)
    BY <2>4, <2>6, <2>7 DEF ReaderOK
  <2>. QED
    BY <2>1, <2>3, <2>8, Unmoved
<1>. QED
  BY <1>3, <1>4, <1>5

LEMMA IdleOK == ReaderOK(Idle)
<1>1. Idle \in Responses /\ Idle.pc = "idle" /\ Idle.out = <<>> /\ Idle.offset <= Idle.len
  BY IdleFacts
<1>. QED
  BY <1>1 DEF ReaderOK, Asked, InOrder, AtChunk, Ended, Started

LEMMA IdleKeeps ==
    resp' = Idle => ReaderInv'
<1>1. Idle \in Responses /\ Idle.pc = "idle" /\ Idle.out = <<>> /\ Idle.offset <= Idle.len
  BY IdleFacts
<1>2. SUFFICES ASSUME resp' = Idle PROVE ReaderInv'
  OBVIOUS
<1>3. Asked(Idle)' /\ InOrder(Idle)' /\ AtChunk(Idle)' /\ Ended(Idle)'
  BY <1>1 DEF Asked, InOrder, AtChunk, Ended, Started
<1>. QED
  BY <1>1, <1>2, <1>3 DEF ReaderInv, ReaderOK

LEMMA RangeSentKeeps ==
    ASSUME WriterInv, ReaderInv, RangeSent
    PROVE  ReaderInv'
<1>1. /\ resp.pc = "serving" /\ Len(resp.out) = resp.promised
      /\ UNCHANGED <<phase, chunks, size>>
  BY DEF RangeSent, Sent
<1>2. PICK d : d = [resp EXCEPT !.pc = "sent"]
  OBVIOUS
<1>3. resp' = d /\ resp \in Responses
  BY <1>2 DEF RangeSent, ReaderInv, ReaderOK
<1>4. /\ d \in Responses /\ d.pc = "sent" /\ d.asked = resp.asked /\ d.start = resp.start
      /\ d.promised = resp.promised /\ d.skip = resp.skip /\ d.num = resp.num
      /\ d.from = resp.from /\ d.len = resp.len /\ d.offset = resp.offset /\ d.out = resp.out
  BY <1>2, <1>3 DEF Responses
<1>5. Asked(d)
  BY <1>1, <1>4 DEF ReaderInv, ReaderOK, Asked, Started
<1>6. InOrder(d)
  BY <1>1, <1>4 DEF ReaderInv, ReaderOK, InOrder, Started, Place
<1>7. AtChunk(d) /\ Ended(d)
  BY <1>1, <1>4 DEF AtChunk, Ended
<1>8. ReaderOK(d)
  BY <1>4, <1>5, <1>6, <1>7 DEF ReaderInv, ReaderOK
<1>. QED
  BY <1>1, <1>3, <1>8, Unmoved

LEMMA ReaderStep ==
    ASSUME WriterInv, ReaderInv, [Next]_vars
    PROVE  ReaderInv'
<1>1. CASE resp' = resp /\ resp = Idle
  BY <1>1, IdleKeeps
<1>2. CASE (\E n \in 1 .. MaxRead : Write(n)) \/ Close
  <2>1. phase = "writing" /\ resp' = resp
    BY <1>2 DEF Write, Close
  <2>2. resp = Idle
    BY <2>1 DEF ReaderInv, ReaderOK, Asked
  <2>. QED
    BY <1>1, <2>1, <2>2
<1>3. CASE \E n \in 0 .. size : LoseEnd(n)
  BY <1>1, <1>3 DEF LoseEnd, ReaderInv, ReaderOK, Asked
<1>4. CASE \/ \E r \in Ranges : RangeRequest(r)
           \/ \E r \in Wholes : WholeRequest(r)
           \/ \E r \in Ranges \cup Wholes : Refuse(r)
  BY <1>4, RequestKeeps
<1>5. CASE \E k \in 1 .. MaxRead : ReadBuffered(k) \/ ReadChunk(k)
  BY <1>5, ReadBufferedKeeps, ReadChunkKeeps
<1>6. CASE ReadEOF \/ ReadCorrupt \/ RangeSent
  BY <1>6, ReadEOFKeeps, ReadCorruptKeeps, RangeSentKeeps
<1>7. CASE Answered
  BY <1>7, IdleKeeps DEF Answered
<1>8. CASE UNCHANGED vars
  BY <1>8, Unmoved DEF vars, ReaderInv
<1>. QED
  BY <1>2, <1>3, <1>4, <1>5, <1>6, <1>7, <1>8 DEF Next

-----------------------------------------------------------------------------
(* What the invariants say of a response.                                  *)

Inv == WriterInv /\ ReaderInv

LEMMA Invariance == Spec => []Inv
<1>1. Init => Inv
  BY WriterInit, IdleOK DEF Init, Inv, ReaderInv
<1>2. Inv /\ [Next]_vars => Inv'
  BY WriterStep, ReaderStep DEF Inv
<1>. QED
  BY <1>1, <1>2, PTL DEF Spec

\* The state has its shape: the writer never holds a full chunk, its chunks are
\* numbered from 0 and none is empty, and the reader never runs past its buffer.
THEOREM TypeCorrect == Spec => []TypeOK
<1>1. Inv => TypeOK
  <2>. SUFFICES ASSUME Inv PROVE TypeOK
    OBVIOUS
  <2>1. \A i \in 1 .. Len(chunks) : /\ chunks[i].num = i - 1
                                    /\ chunks[i].len \in 1 .. ChunkPayloadSize
    <3>1. \A i \in 1 .. Len(chunks) : chunks[i] \in ChunkRecords
      BY DEF Inv, WriterInv, WriterOK
    <3>. QED
      BY <3>1 DEF Inv, WriterInv, Layout, ChunkRecords
  <2>2. /\ resp.pc \in {"idle", "serving", "sent", "broken", "refused"}
        /\ resp.skip \in 0 .. ChunkPayloadSize - 1
        /\ resp.offset \in 0 .. resp.len
    BY Sizes DEF Inv, ReaderInv, ReaderOK, Responses
  <2>. QED
    BY <2>1, <2>2 DEF Inv, WriterInv, WriterOK, TypeOK
<1>. QED
  BY <1>1, Invariance, PTL

LEMMA Exact == Inv => ResponseIsExact
<1>0. SUFFICES ASSUME Inv PROVE ResponseIsExact
  OBVIOUS
<1>. DEFINE wanted == AskedFor(resp.asked, Announced)
<1>1. size \in Nat /\ Announced \in Nat /\ resp \in Responses
  BY <1>0, AnnouncedNat DEF Inv, WriterInv, WriterOK, ReaderInv, ReaderOK, Announced
<1>2. CASE ~Started(resp)
  <2>1. resp.out = <<>>
    BY <1>0, <1>2 DEF Inv, ReaderInv, ReaderOK, Asked
  <2>2. Len(resp.out) = 0 /\ SentBytes = {}
    BY <2>1 DEF SentBytes
  <2>3. resp.pc = "refused" => wanted = {} \/ size < HeaderSize
    <3>1. CASE resp.asked \in Wholes /\ Announced = 0
      BY <1>1, <3>1, WholeIsAll
    <3>2. CASE resp.asked \in Ranges /\ ~Satisfiable(resp.asked)
      BY <1>1, <3>2, RefusedRange
    <3>. QED
      BY <1>0, <3>1, <3>2 DEF Inv, ReaderInv, ReaderOK, Asked
  <2>. QED
    BY <1>2, <2>2, <2>3 DEF ResponseIsExact, Started
<1>3. CASE Started(resp)
  <2>1. PICK start \in Nat, promised \in Nat, sent \in Nat :
            start = resp.start /\ promised = resp.promised /\ sent = Len(resp.out)
    BY <1>1, LenProperties DEF Responses
  <2>2. sent <= promised /\ \A i \in 1 .. sent : resp.out[i] = start + i - 1
    BY <1>0, <1>3, <2>1 DEF Inv, ReaderInv, ReaderOK, InOrder
  <2>3. wanted = start .. start + promised - 1
    <3>1. CASE resp.asked \in Ranges
      <4>1. PICK r \in Ranges : r = resp.asked
        BY <3>1
      <4>2. Satisfiable(r) /\ start = First(r) /\ promised = Last(r) - First(r) + 1
        BY <1>0, <1>3, <2>1, <4>1 DEF Inv, ReaderInv, ReaderOK, Asked
      <4>3. PICK e \in Nat : e = Last(r) /\ AskedFor(r, Announced) = start .. e
        BY <1>1, <4>2, SatisfiableRange
      <4>4. e = start + promised - 1
        BY <4>2, <4>3
      <4>. QED
        BY <4>1, <4>3, <4>4
    <3>2. CASE resp.asked \in Wholes
      <4>1. start = 0 /\ promised = Announced
        BY <1>0, <1>3, <2>1, <3>2 DEF Inv, ReaderInv, ReaderOK, Asked
      <4>2. wanted = 0 .. Announced - 1
        BY <1>1, <3>2, WholeIsAll
      <4>. QED
        BY <4>1, <4>2
    <3>. QED
      BY <1>0, <1>3, <3>1, <3>2 DEF Inv, ReaderInv, ReaderOK, Asked
  <2>4. SentBytes = start .. start + sent - 1
    <3>1. SentBytes = {start + i - 1 : i \in 1 .. sent}
      BY <2>1, <2>2 DEF SentBytes
    <3>2. ASSUME NEW x \in start .. start + sent - 1 PROVE x \in {start + i - 1 : i \in 1 .. sent}
      <4>1. x - start + 1 \in 1 .. sent /\ x = start + (x - start + 1) - 1
        OBVIOUS
      <4>. QED
        BY <4>1
    <3>3. \A i \in 1 .. sent : start + i - 1 \in start .. start + sent - 1
      OBVIOUS
    <3>4. {start + i - 1 : i \in 1 .. sent} = start .. start + sent - 1
      BY <3>2, <3>3
    <3>. QED
      BY <3>1, <3>4
  <2>5. Cardinality(wanted) = promised
    <3>1. PICK e \in Int : e = start + promised - 1
      OBVIOUS
    <3>2. Cardinality(start .. e) = IF start > e THEN 0 ELSE e - start + 1
      BY FS_Interval
    <3>. QED
      BY <2>3, <3>1, <3>2
  <2>6. resp.pc = "sent" => SentBytes = wanted
    BY <1>0, <2>1, <2>3, <2>4 DEF Inv, ReaderInv, ReaderOK, Ended
  <2>7. ASSUME resp.pc = "broken", NEW x \in wanted \cap Readable PROVE x \in SentBytes
    <3>1. PICK i \in 1 .. Len(chunks) :
              /\ chunks[i].at + Overhead + chunks[i].len <= size
              /\ x \in chunks[i].from .. chunks[i].from + chunks[i].len - 1
      BY <2>7 DEF Readable
    <3>2. chunks[i].from + chunks[i].len <= start + sent
      BY <1>0, <2>1, <2>7, <3>1 DEF Inv, ReaderInv, ReaderOK, Ended
    <3>3. chunks[i] \in ChunkRecords
      BY <1>0 DEF Inv, WriterInv, WriterOK
    <3>4. chunks[i].from \in Nat /\ chunks[i].len \in Nat
      BY <3>3, Sizes DEF ChunkRecords
    <3>5. x \in start .. start + promised - 1
      BY <2>3, <2>7
    <3>. QED
      BY <2>4, <3>1, <3>2, <3>4, <3>5
  <2>8. SentBytes \subseteq wanted
    BY <2>2, <2>3, <2>4
  <2>9. resp.pc = "broken" => phase = "damaged"
    BY <1>0 DEF Inv, ReaderInv, ReaderOK, Ended
  <2>. HIDE DEF wanted
  <2>10. resp.pc # "refused"
    BY <1>3 DEF Started
  <2>11. /\ \A i \in 1 .. Len(resp.out) : resp.out[i] = resp.start + i - 1
         /\ resp.promised = Cardinality(wanted)
    BY <2>1, <2>2, <2>5
  <2>. QED
    BY <2>6, <2>7, <2>8, <2>9, <2>10, <2>11 DEF ResponseIsExact, wanted
<1>. QED
  BY <1>2, <1>3

\* Whatever is asked for, of whatever file: the bytes of a response are those
\* asked for, in their places, and all of them unless the file lost its end.
THEOREM ContentExact == Spec => []ContentIsExact
<1>1. Inv => ResponseIsExact
  BY Exact
<1>. QED
  BY <1>1, Invariance, AnnouncedSizesAgree, PTL DEF ContentIsExact
=============================================================================
