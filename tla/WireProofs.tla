------------------------------ MODULE WireProofs ------------------------------
(***************************************************************************)
(* The arithmetic of Wire for every file, chunk size and limit that the    *)
(* assumption on the constants allows: the numbers of protocol.rs do.      *)
(***************************************************************************)
EXTENDS Wire, FiniteSetTheorems, TLAPS

\* Division and remainder.
LEMMA DivMod ==
  ASSUME NEW a \in Nat, NEW b \in Nat \ {0}
  PROVE  /\ a \div b \in Nat /\ a % b \in 0..(b - 1)
         /\ a = b * (a \div b) + (a % b)
  <1>1. b \in Nat /\ b > 0
    OBVIOUS
  <1>2. a \div b \in Nat
    BY <1>1
  <1>3. a % b \in 0..(b - 1)
    BY <1>1
  <1>4. a = b * (a \div b) + (a % b)
    BY <1>1
  <1> QED
    BY <1>2, <1>3, <1>4

LEMMA Quotient ==
  ASSUME NEW a \in Nat, NEW b \in Nat \ {0}
  PROVE  \E q \in Nat, r \in 0..(b - 1) : a = b * q + r
  <1>1. a \div b \in Nat /\ a % b \in 0..(b - 1)
    BY DivMod
  <1> WITNESS a \div b \in Nat, a % b \in 0..(b - 1)
  <1> QED
    BY DivMod

\* q * b increases with q.
LEMMA TimesMonotone ==
  ASSUME NEW b \in Nat, NEW p \in Nat, NEW q \in Nat, p <= q
  PROVE  p * b \in Nat /\ q * b \in Nat /\ p * b <= q * b
  <1>1. PICK d \in Nat : q = p + d
    <2>1. q - p \in Nat /\ q = p + (q - p)
      OBVIOUS
    <2> QED
      BY <2>1
  <1>2. q * b = p * b + d * b /\ d * b \in Nat /\ p * b \in Nat
    BY <1>1
  <1> QED
    BY <1>2

\* DivCeil is the least number of pieces of b that cover a.
LEMMA CeilCovers ==
  ASSUME NEW a \in Nat, NEW b \in Nat \ {0}
  PROVE  /\ DivCeil(a, b) \in Nat
         /\ a <= DivCeil(a, b) * b
         /\ \A q \in Nat : q < DivCeil(a, b) => q * b < a
         /\ \A q \in Nat : q * b < a => q < DivCeil(a, b)
  <1> DEFINE d == a \div b
  <1> DEFINE r == a % b
  <1>1. d \in Nat /\ r \in 0..(b - 1) /\ a = b * d + r
    BY DivMod
  <1>2. DivCeil(a, b) = d + (IF r = 0 THEN 0 ELSE 1)
    BY DEF DivCeil
  <1> HIDE DEF d, r
  <1>3. DivCeil(a, b) \in Nat
    BY <1>1, <1>2
  <1>4. d * b = b * d /\ (d + 1) * b = b * d + b
    BY <1>1
  <1>5. a <= DivCeil(a, b) * b
    <2>1. CASE r = 0
      BY <2>1, <1>1, <1>2, <1>4
    <2>2. CASE r # 0
      <3>1. DivCeil(a, b) = d + 1 /\ r <= b
        BY <2>2, <1>1, <1>2
      <3>2. DivCeil(a, b) * b = b * d + b
        BY <3>1, <1>4
      <3> QED
        BY <3>1, <3>2, <1>1
    <2> QED
      BY <2>1, <2>2
  <1>6. ASSUME NEW q \in Nat, q < DivCeil(a, b) PROVE q * b < a
    <2>1. CASE r = 0
      <3>1. q + 1 <= d /\ a = d * b
        BY <2>1, <1>1, <1>2, <1>4, <1>6
      <3>2. (q + 1) * b <= d * b
        BY <3>1, <1>1, TimesMonotone
      <3>3. (q + 1) * b = q * b + b /\ q * b \in Nat
        OBVIOUS
      <3> QED
        BY <3>1, <3>2, <3>3, <1>1
    <2>2. CASE r # 0
      <3>1. q <= d
        BY <2>2, <1>1, <1>2, <1>6
      <3>2. q * b <= d * b /\ q * b \in Nat
        BY <3>1, <1>1, TimesMonotone
      <3> QED
        BY <2>2, <3>2, <1>1, <1>4
    <2> QED
      BY <2>1, <2>2
  <1>7. ASSUME NEW q \in Nat, q * b < a PROVE q < DivCeil(a, b)
    <2> SUFFICES ASSUME DivCeil(a, b) <= q PROVE FALSE
      BY <1>3
    <2>1. DivCeil(a, b) * b <= q * b
      BY <1>3, TimesMonotone
    <2>2. DivCeil(a, b) * b \in Nat /\ q * b \in Nat
      BY <1>3, TimesMonotone
    <2> QED
      BY <2>1, <2>2, <1>5, <1>7
  <1> QED
    BY <1>3, <1>5, <1>6, <1>7

LEMMA BelowCeil ==
  ASSUME NEW a \in Nat, NEW b \in Nat \ {0}, NEW q \in Nat
  PROVE  q < DivCeil(a, b) <=> q * b < a
  BY CeilCovers

-----------------------------------------------------------------------------
(* Chunks *)

Offers == [size : Nat, chunkSize : Nat, verifies : BOOLEAN]

LEMMA AcceptedFacts ==
  ASSUME NEW i \in Offers, Accepted(i)
  PROVE  /\ i.size \in Nat /\ i.chunkSize \in Nat \ {0} /\ i.verifies \in BOOLEAN
         /\ i.chunkSize <= LargestChunk(i.verifies)
         /\ Total(i) \in Nat /\ Total(i) <= MaxTotalChunks
  <1>1. i.size \in Nat /\ i.chunkSize \in Nat \ {0} /\ i.verifies \in BOOLEAN
    BY DEF Offers, Accepted, ValidChunkSize
  <1> QED
    BY <1>1, CeilCovers DEF Accepted, ValidChunkSize, Total

\* A chunk of the file is inside it, has at least one byte and no more than
\* chunk_size.
LEMMA ChunkInFile ==
  ASSUME NEW i \in Offers, Accepted(i), NEW q \in 0 .. (Total(i) - 1)
  PROVE  /\ Offset(i, q) \in Nat /\ Offset(i, q) < i.size
         /\ Expected(i, q) \in 1..i.chunkSize
         /\ Offset(i, q) + Expected(i, q) <= i.size
  <1>1. i.size \in Nat /\ i.chunkSize \in Nat \ {0} /\ Total(i) \in Nat
    BY AcceptedFacts
  <1>2. q \in Nat /\ q < Total(i)
    BY <1>1
  <1>3. q * i.chunkSize < i.size
    BY <1>1, <1>2, CeilCovers DEF Total
  <1>4. q * i.chunkSize \in Nat
    BY <1>1, <1>2, TimesMonotone
  <1> QED
    BY <1>1, <1>3, <1>4 DEF Offset, Expected, Least

\* Every byte of an accepted file is in a chunk of it ...
LEMMA ByteInChunk ==
  ASSUME NEW i \in Offers, Accepted(i), NEW x \in 0 .. (i.size - 1)
  PROVE  \E q \in 0 .. (Total(i) - 1) : x \in Positions(i, q)
  <1>1. i.size \in Nat /\ i.chunkSize \in Nat \ {0} /\ Total(i) \in Nat
    BY AcceptedFacts
  <1>2. x \in Nat /\ x < i.size
    BY <1>1
  <1>3. \E q \in Nat, r \in 0..(i.chunkSize - 1) : x = i.chunkSize * q + r
    BY <1>1, <1>2, Quotient
  <1>4. PICK q \in Nat, r \in 0..(i.chunkSize - 1) : x = i.chunkSize * q + r
    BY <1>3
  <1>5. i.chunkSize * q = q * i.chunkSize /\ q * i.chunkSize \in Nat
    BY <1>1
  <1>6. q * i.chunkSize < i.size
    BY <1>1, <1>2, <1>4, <1>5
  <1>7. q \in 0 .. (Total(i) - 1)
    BY <1>1, <1>6, BelowCeil DEF Total
  <1>8. Offset(i, q) = q * i.chunkSize
    BY DEF Offset
  <1>9. Expected(i, q) = Least(i.size - q * i.chunkSize, i.chunkSize)
    BY <1>8 DEF Expected
  <1>10. x >= Offset(i, q) /\ x < Offset(i, q) + Expected(i, q)
    BY <1>1, <1>2, <1>4, <1>5, <1>6, <1>8, <1>9 DEF Least
  <1>11. Offset(i, q) \in Nat /\ Expected(i, q) \in Nat
    BY <1>1, <1>7, ChunkInFile
  <1>12. x \in Positions(i, q)
    BY <1>2, <1>10, <1>11 DEF Positions
  <1> QED
    BY <1>7, <1>12

\* ... and only in one.
LEMMA ChunksDisjoint ==
  ASSUME NEW i \in Offers, Accepted(i),
         NEW p \in 0 .. (Total(i) - 1), NEW q \in 0 .. (Total(i) - 1), p < q
  PROVE  Positions(i, p) \cap Positions(i, q) = {}
  <1>1. i.chunkSize \in Nat \ {0} /\ Total(i) \in Nat
    BY AcceptedFacts
  <1>2. (p + 1) * i.chunkSize <= q * i.chunkSize /\ p * i.chunkSize \in Nat
    BY <1>1, TimesMonotone
  <1>3. (p + 1) * i.chunkSize = p * i.chunkSize + i.chunkSize
    BY <1>1
  <1>4. Expected(i, p) \in 1..i.chunkSize /\ Expected(i, q) \in 1..i.chunkSize
    BY ChunkInFile
  <1>5. Offset(i, p) + Expected(i, p) <= Offset(i, q) /\ Offset(i, p) \in Nat /\ Offset(i, q) \in Nat
    BY <1>1, <1>2, <1>3, <1>4, ChunkInFile DEF Offset
  <1> QED
    BY <1>1, <1>4, <1>5 DEF Positions

\* The bytes of an accepted file are the bytes of its chunks.
THEOREM ChunksTile ==
  ASSUME NEW i \in Offers, Accepted(i)
  PROVE  UNION {Positions(i, q) : q \in 0 .. (Total(i) - 1)} = 0 .. (i.size - 1)
  <1>1. ASSUME NEW q \in 0 .. (Total(i) - 1) PROVE Positions(i, q) \subseteq 0 .. (i.size - 1)
    <2>1. i.size \in Nat /\ i.chunkSize \in Nat
      BY AcceptedFacts
    <2> QED
      BY <2>1, ChunkInFile DEF Positions
  <1> QED
    BY <1>1, ByteInChunk

-----------------------------------------------------------------------------
(* Datagrams *)

\* What fits in the field is what is read from it.
LEMMA ModSmall ==
  ASSUME NEW a \in Nat, NEW b \in Nat, a < b
  PROVE  a % b = a
  <1>1. b \in Nat \ {0}
    OBVIOUS
  <1>2. PICK q \in Nat : a = b * q + (a % b)
    BY <1>1, DivMod
  <1>3. a % b \in Nat
    BY <1>1, DivMod
  <1>4. q = 0
    <2> SUFFICES ASSUME q >= 1 PROVE FALSE
      OBVIOUS
    <2>1. 1 * b <= q * b /\ q * b = b * q /\ 1 * b = b
      BY TimesMonotone
    <2> QED
      BY <2>1, <1>2, <1>3
  <1> QED
    BY <1>2, <1>3, <1>4

\* Dividing undoes multiplying.
LEMMA DivTimes ==
  ASSUME NEW a \in Nat, NEW b \in Nat \ {0}
  PROVE  (a * b) \div b = a
  <1>1. a * b \in Nat
    BY TimesMonotone
  <1>2. PICK q \in Nat, r \in 0..(b - 1) : (a * b) \div b = q /\ a * b = b * q + r
    BY <1>1, DivMod
  <1>3. q * b = b * q /\ q * b \in Nat
    OBVIOUS
  <1>4. ~(q < a)
    <2> SUFFICES ASSUME q + 1 <= a PROVE FALSE
      OBVIOUS
    <2>1. (q + 1) * b <= a * b
      BY TimesMonotone
    <2>2. (q + 1) * b = q * b + b
      OBVIOUS
    <2> QED
      BY <2>1, <2>2, <1>1, <1>2, <1>3
  <1>5. ~(a < q)
    <2> SUFFICES ASSUME a + 1 <= q PROVE FALSE
      OBVIOUS
    <2>1. (a + 1) * b <= q * b
      BY TimesMonotone
    <2>2. (a + 1) * b = a * b + b
      OBVIOUS
    <2> QED
      BY <2>1, <2>2, <1>1, <1>2, <1>3
  <1> QED
    BY <1>2, <1>4, <1>5

LEMMA Limits ==
  /\ MaxChunkSize \in Nat /\ HeaderSize + MaxChunkSize = MaxUdpPayload
  /\ MaxChunkSize < LenRange /\ LenRange \in Nat
  /\ MaxNacks \in Nat \ {0} /\ MaxNacks * SequenceBytes <= MaxChunkSize
  /\ SequenceBytes \in Nat \ {0} /\ HeaderSize \in Nat
  <1>1. /\ MaxChunkSize \in Nat /\ HeaderSize + MaxChunkSize = MaxUdpPayload
        /\ MaxChunkSize < LenRange /\ LenRange \in Nat
        /\ SequenceBytes \in Nat \ {0} /\ HeaderSize \in Nat /\ SequenceBytes <= MaxChunkSize
    BY WireAssumption DEF MaxChunkSize
  <1>2. PICK q \in Nat, r \in 0..(SequenceBytes - 1) :
            MaxNacks = q /\ MaxChunkSize = SequenceBytes * q + r
    BY <1>1, DivMod DEF MaxNacks
  <1>3. q * SequenceBytes = SequenceBytes * q /\ SequenceBytes * q \in Nat
    BY <1>1, <1>2
  <1>4. q # 0
    BY <1>1, <1>2
  <1>5. q * SequenceBytes <= MaxChunkSize
    BY <1>1, <1>2, <1>3
  <1> QED
    BY <1>1, <1>2, <1>4, <1>5

\* A DATA of an accepted transfer goes into a UDP datagram and its length field
\* says how long it is.
LEMMA ChunkFits ==
  ASSUME NEW i \in Offers, Accepted(i), NEW q \in 0 .. (Total(i) - 1)
  PROVE  LET payload == DataPayload(i, Expected(i, q))
         IN HeaderSize + payload <= MaxUdpPayload /\ Parsed(payload) = payload
  <1> DEFINE payload == DataPayload(i, Expected(i, q))
  <1>1. Expected(i, q) \in Nat /\ Expected(i, q) <= LargestChunk(i.verifies)
    <2>1. LargestChunk(i.verifies) \in Int
      BY Limits, WireAssumption DEF LargestChunk
    <2>2. i.chunkSize \in Nat /\ i.chunkSize <= LargestChunk(i.verifies)
      BY AcceptedFacts
    <2>3. Expected(i, q) \in 1..i.chunkSize
      BY ChunkInFile
    <2> QED
      BY <2>1, <2>2, <2>3
  <1>2. payload \in Nat /\ payload <= MaxChunkSize
    BY <1>1, Limits, WireAssumption DEF DataPayload, LargestChunk
  <1> HIDE DEF payload
  <1>3. payload % LenRange = payload
    BY <1>2, Limits, ModSmall
  <1>4. Parsed(payload) = payload
    BY <1>3 DEF Parsed, PayloadLen
  <1> QED
    BY <1>2, <1>4, Limits DEF payload

-----------------------------------------------------------------------------
(* NACKs *)

\* A batch of a list of n numbers is in one datagram, and heard whole.
LEMMA BatchHeard ==
  ASSUME NEW n \in Nat, NEW k \in Batches(n)
  PROVE  /\ HeaderSize + NackPayload(n, k) <= MaxUdpPayload
         /\ HeardOf(n, k) = Batch(n, k)
  <1> DEFINE B == BatchLen(n, k)
  <1>1. DivCeil(n, MaxNacks) \in Nat
    BY Limits, CeilCovers
  <1>2. k \in Nat /\ k < DivCeil(n, MaxNacks)
    BY <1>1 DEF Batches
  <1>3. k * MaxNacks < n
    BY <1>2, Limits, BelowCeil
  <1>4. (k + 1) * MaxNacks = k * MaxNacks + MaxNacks /\ k * MaxNacks \in Nat
    BY <1>2, Limits
  <1>5. B \in Nat /\ B <= MaxNacks /\ k * MaxNacks + B = Least((k + 1) * MaxNacks, n)
    BY <1>3, <1>4, Limits DEF BatchLen, Least
  <1> HIDE DEF B
  <1>6. B * SequenceBytes <= MaxNacks * SequenceBytes /\ B * SequenceBytes \in Nat
        /\ MaxNacks * SequenceBytes \in Nat
    BY <1>5, Limits, TimesMonotone
  <1>7. NackPayload(n, k) = B * SequenceBytes
    BY DEF NackPayload, B
  <1>8. NackPayload(n, k) \in Nat /\ NackPayload(n, k) <= MaxChunkSize
    BY <1>6, <1>7, Limits
  <1>9. HeaderSize + NackPayload(n, k) <= MaxUdpPayload
    BY <1>8, Limits
  <1>10. Parsed(NackPayload(n, k)) = B * SequenceBytes
    <2>1. NackPayload(n, k) < LenRange
      BY <1>8, Limits
    <2> QED
      BY <2>1, <1>7, <1>8, Limits, ModSmall DEF Parsed, PayloadLen
  <1>11. Parsed(NackPayload(n, k)) \div SequenceBytes = B
    BY <1>10, <1>5, Limits, DivTimes
  <1>12. Least(BatchLen(n, k), Parsed(NackPayload(n, k)) \div SequenceBytes) = B
    BY <1>11 DEF Least, B
  <1>13. HeardOf(n, k) = Batch(n, k)
    BY <1>5, <1>12 DEF HeardOf, Batch
  <1> QED
    BY <1>9, <1>13

\* The batches are the list.
LEMMA BatchesCover ==
  ASSUME NEW n \in Nat
  PROVE  UNION {Batch(n, k) : k \in Batches(n)} = 1..n
  <1>1. ASSUME NEW x \in 1..n PROVE \E k \in Batches(n) : x \in Batch(n, k)
    <2>1. x - 1 \in Nat /\ x - 1 < n
      OBVIOUS
    <2>2. PICK k \in Nat, r \in 0..(MaxNacks - 1) : x - 1 = MaxNacks * k + r
      BY <2>1, Limits, Quotient
    <2>3. MaxNacks * k = k * MaxNacks /\ k * MaxNacks \in Nat
      BY Limits
    <2>4. k * MaxNacks < n
      BY <2>1, <2>2, <2>3, Limits
    <2>5. k < DivCeil(n, MaxNacks) /\ DivCeil(n, MaxNacks) \in Nat
      BY <2>4, Limits, BelowCeil, CeilCovers
    <2>6. (k + 1) * MaxNacks = k * MaxNacks + MaxNacks
      BY Limits
    <2>7. x \in Batch(n, k)
      BY <2>1, <2>2, <2>3, <2>6, Limits DEF Batch, Least
    <2> QED
      BY <2>5, <2>7 DEF Batches
  <1>2. ASSUME NEW k \in Batches(n) PROVE Batch(n, k) \subseteq 1..n
    <2>1. k \in Nat
      BY Limits, CeilCovers DEF Batches
    <2>2. k * MaxNacks \in Nat /\ (k + 1) * MaxNacks \in Nat
      BY <2>1, Limits, TimesMonotone
    <2> QED
      BY <2>2 DEF Batch, Least
  <1> QED
    BY <1>1, <1>2

-----------------------------------------------------------------------------
(* The bitmap *)

\* The bits of the chunks are in the words, and differ.
LEMMA BitsOfChunks ==
  ASSUME NEW t \in Nat
  PROVE  /\ \A q \in 0..(t - 1) : WordOf(q) \in Words(t) /\ BitOf(q) \in 0..(BitsPerWord - 1)
         /\ \A p, q \in 0..(t - 1) : WordOf(p) = WordOf(q) /\ BitOf(p) = BitOf(q) => p = q
  <1>1. BitsPerWord \in Nat \ {0}
    BY WireAssumption
  <1>2. ASSUME NEW q \in 0..(t - 1)
        PROVE  WordOf(q) \in Words(t) /\ BitOf(q) \in 0..(BitsPerWord - 1)
    <2> q \in Nat
      OBVIOUS
    <2>1. /\ q \div BitsPerWord \in Nat /\ q % BitsPerWord \in 0..(BitsPerWord - 1)
          /\ q = BitsPerWord * (q \div BitsPerWord) + (q % BitsPerWord)
      BY <1>1, DivMod
    <2>2. PICK w \in Nat : w = q \div BitsPerWord
      BY <2>1
    <2>3. w * BitsPerWord = BitsPerWord * w /\ w * BitsPerWord \in Nat
      BY <1>1
    <2>4. w * BitsPerWord < t
      BY <1>1, <2>1, <2>2, <2>3
    <2>5. w < DivCeil(t, BitsPerWord) /\ DivCeil(t, BitsPerWord) \in Nat
      BY <1>1, <2>4, BelowCeil, CeilCovers
    <2>6. w \in Words(t)
      BY <2>5 DEF Words
    <2> QED
      BY <2>1, <2>2, <2>6 DEF WordOf, BitOf
  <1>3. ASSUME NEW p \in 0..(t - 1), NEW q \in 0..(t - 1),
               WordOf(p) = WordOf(q), BitOf(p) = BitOf(q)
        PROVE  p = q
    <2>1. p \in Nat /\ q \in Nat
      OBVIOUS
    <2>2. p = BitsPerWord * (p \div BitsPerWord) + (p % BitsPerWord)
      BY <1>1, <2>1, DivMod
    <2>3. q = BitsPerWord * (q \div BitsPerWord) + (q % BitsPerWord)
      BY <1>1, <2>1, DivMod
    <2> QED
      BY <2>2, <2>3, <1>3 DEF WordOf, BitOf
  <1> QED
    BY <1>2, <1>3

-----------------------------------------------------------------------------
(* The transfer *)

Marked == {q \in Chunks : IsReceived(q)}

\* The count is the number of the bits that are set.
CountInv == open => count = Cardinality(Marked)

WireInv == WireTypeOK /\ WrittenAsMarked /\ CountInv

LEMMA OpenFacts ==
  ASSUME WireTypeOK, open
  PROVE  /\ init \in Offers /\ Accepted(init) /\ Total(init) \in Nat
         /\ Chunks = 0 .. (Total(init) - 1)
         /\ words \in [Words(Total(init)) -> SUBSET (0 .. (BitsPerWord - 1))]
  <1>1. init \in Offers /\ Accepted(init)
    BY WireAssumption DEF WireTypeOK, Offers
  <1> QED
    BY <1>1, AcceptedFacts DEF WireTypeOK, Chunks

LEMMA InitWire == Init => WireInv
  <1> SUFFICES ASSUME Init PROVE WireInv
    OBVIOUS
  <1>1. ~open /\ open \in BOOLEAN /\ count = 0 /\ written = {}
    BY DEF Init
  <1>2. init \in [size : Sizes, chunkSize : ChunkSizes, verifies : BOOLEAN]
    BY DEF Init
  <1>3. WrittenAsMarked /\ CountInv
    BY <1>1 DEF WrittenAsMarked, CountInv
  <1>4. WireTypeOK
    BY <1>1, <1>2 DEF WireTypeOK
  <1> QED
    BY <1>3, <1>4 DEF WireInv

LEMMA OpensKeeps == ASSUME WireInv, Opens PROVE WireInv'
  <1>1. /\ open' = TRUE /\ init' = init /\ count' = 0 /\ written' = {}
        /\ words' = [w \in Words(Total(init)) |-> {}]
        /\ Accepted(init)
    BY DEF WireInv, WireTypeOK, Opens
  <1>2. Total(init)' = Total(init) /\ Accepted(init)'
    BY <1>1 DEF Total, Accepted
  <1>3. WireTypeOK'
    BY <1>1, <1>2 DEF WireInv, WireTypeOK
  <1>4. Marked' = {}
    <2> SUFFICES ASSUME NEW q \in Chunks', IsReceived(q)' PROVE FALSE
      BY DEF Marked
    <2>1. init \in Offers
      BY WireAssumption DEF WireInv, WireTypeOK, Offers
    <2>2. Total(init) \in Nat /\ q \in 0 .. (Total(init) - 1)
      BY <1>1, <1>2, <2>1, AcceptedFacts DEF Chunks
    <2>3. WordOf(q) \in Words(Total(init))
      BY <2>2, BitsOfChunks
    <2> QED
      BY <1>1, <2>3 DEF IsReceived
  <1>5. UNION {Positions(init', q) : q \in Marked'} = {}
    BY <1>4
  <1>6. WrittenAsMarked'
    BY <1>1, <1>5 DEF WrittenAsMarked, Marked
  <1>7. CountInv'
    BY <1>1, <1>4, FS_EmptySet DEF CountInv
  <1> QED
    BY <1>3, <1>6, <1>7 DEF WireInv

\* Storing a chunk marks that chunk and no other.
LEMMA StoresMarks ==
  ASSUME WireInv, NEW q \in 0..MaxTotalChunks, NEW n \in 0..MaxChunkSize, Stores(q, n)
  PROVE  /\ q \in Chunks /\ q \notin Marked
         /\ Marked' = Marked \cup {q}
         /\ words' \in [Words(Total(init)) -> SUBSET (0 .. (BitsPerWord - 1))]
  <1>1. /\ init \in Offers /\ Accepted(init) /\ Total(init) \in Nat
        /\ Chunks = 0 .. (Total(init) - 1)
        /\ words \in [Words(Total(init)) -> SUBSET (0 .. (BitsPerWord - 1))]
    BY OpenFacts DEF WireInv, Stores
  <1>2. q \in Chunks /\ ~IsReceived(q)
    BY <1>1, WireAssumption DEF Stores, Storable
  <1>3. q \notin Marked
    BY <1>2 DEF Marked
  <1>4. WordOf(q) \in Words(Total(init)) /\ BitOf(q) \in 0 .. (BitsPerWord - 1)
    BY <1>1, <1>2, BitsOfChunks
  <1>5. /\ words' = [words EXCEPT ![WordOf(q)] = @ \cup {BitOf(q)}]
        /\ init' = init
    BY DEF Stores
  <1>6. Chunks' = Chunks
    BY <1>5 DEF Chunks, Total
  <1>7. ASSUME NEW p \in Chunks PROVE IsReceived(p)' <=> IsReceived(p) \/ p = q
    <2>1. WordOf(p) \in Words(Total(init))
      BY <1>1, BitsOfChunks
    <2>2. WordOf(p) = WordOf(q) /\ BitOf(p) = BitOf(q) => p = q
      BY <1>1, <1>2, BitsOfChunks
    <2>3. IsReceived(p)' <=> BitOf(p) \in words'[WordOf(p)]
      BY DEF IsReceived
    <2>4. CASE WordOf(p) = WordOf(q)
      <3>1. words'[WordOf(p)] = words[WordOf(p)] \cup {BitOf(q)}
        BY <1>1, <1>4, <1>5, <2>4
      <3> QED
        BY <2>2, <2>3, <2>4, <3>1 DEF IsReceived
    <2>5. CASE WordOf(p) # WordOf(q)
      <3>1. words'[WordOf(p)] = words[WordOf(p)]
        BY <1>1, <1>4, <1>5, <2>1, <2>5
      <3> QED
        BY <2>3, <2>5, <3>1 DEF IsReceived
    <2> QED
      BY <2>4, <2>5
  <1>8. Marked' = Marked \cup {q}
    BY <1>2, <1>6, <1>7 DEF Marked
  <1>9. words' \in [Words(Total(init)) -> SUBSET (0 .. (BitsPerWord - 1))]
    BY <1>1, <1>4, <1>5
  <1> QED
    BY <1>2, <1>3, <1>8, <1>9

LEMMA StoresKeeps ==
  ASSUME WireInv, NEW q \in 0..MaxTotalChunks, NEW n \in 0..MaxChunkSize, Stores(q, n)
  PROVE  WireInv'
  <1>1. /\ open /\ open' = open /\ init' = init /\ count' = count + 1
        /\ written' = written \cup (Offset(init, q) .. (Offset(init, q) + n - 1))
        /\ n = Expected(init, q)
    BY DEF Stores, Storable
  <1>2. /\ q \in Chunks /\ q \notin Marked /\ Marked' = Marked \cup {q}
        /\ words' \in [Words(Total(init)) -> SUBSET (0 .. (BitsPerWord - 1))]
    BY StoresMarks
  <1>3. Total(init)' = Total(init) /\ Accepted(init)' = Accepted(init)
    BY <1>1 DEF Total, Accepted
  <1>4. WireTypeOK'
    BY <1>1, <1>2, <1>3 DEF WireInv, WireTypeOK
  <1>5. written' = written \cup Positions(init, q)
    BY <1>1 DEF Positions
  <1>6. written = UNION {Positions(init, p) : p \in Marked}
    BY <1>1 DEF WireInv, WrittenAsMarked, Marked
  <1>7. written' = UNION {Positions(init, p) : p \in Marked'}
    BY <1>2, <1>5, <1>6
  <1>8. WrittenAsMarked'
    BY <1>1, <1>7 DEF WrittenAsMarked, Marked
  <1>9. CountInv'
    <2>1. Total(init) \in Nat /\ Chunks = 0 .. (Total(init) - 1)
      BY <1>1, OpenFacts DEF WireInv
    <2>2. IsFiniteSet(Marked)
      <3>1. IsFiniteSet(Chunks)
        BY <2>1, FS_Interval
      <3>2. Marked \in SUBSET Chunks
        BY DEF Marked
      <3> QED
        BY <3>1, <3>2, FS_Subset
    <2>3. Cardinality(Marked') = Cardinality(Marked) + 1
      BY <1>2, <2>2, FS_AddElement
    <2> QED
      BY <1>1, <2>3 DEF CountInv, WireInv
  <1> QED
    BY <1>4, <1>8, <1>9 DEF WireInv

\* The bitmap, the count and what is written of the file agree in every state.
THEOREM WireInvariant == Spec => []WireInv
  <1>1. ASSUME WireInv, [Next]_vars PROVE WireInv'
    <2>1. CASE Opens
      BY <2>1, <1>1, OpensKeeps
    <2>2. CASE \E q \in 0..MaxTotalChunks, n \in 0..MaxChunkSize : Stores(q, n)
      BY <2>2, <1>1, StoresKeeps
    <2>3. CASE UNCHANGED vars
      <3>1. /\ init' = init /\ open' = open /\ words' = words /\ count' = count
            /\ written' = written
        BY <2>3 DEF vars
      <3> QED
        BY <3>1, <1>1 DEF WireInv, WireTypeOK, WrittenAsMarked, CountInv, Marked, Chunks,
            IsReceived, Total, Accepted
    <2> QED
      BY <2>1, <2>2, <2>3, <1>1 DEF Next
  <1> QED
    BY <1>1, InitWire, PTL DEF Spec

\* init is what the INIT said, and a ReceiveState has a bitmap of as many words
\* as its chunks need.
THEOREM WireTypes == Spec => []WireTypeOK
  BY WireInvariant, PTL DEF WireInv

\* What is written of the file is what is marked.
THEOREM MarkedIsWritten == Spec => []WrittenAsMarked
  BY WireInvariant, PTL DEF WireInv

\* Every DATA of an accepted transfer goes into a UDP datagram, and its length
\* field is exact.
THEOREM DatagramsFit == Spec => []DataFits
  <1>1. ASSUME WireInv PROVE DataFits
    BY <1>1, OpenFacts, ChunkFits DEF WireInv, DataFits
  <1> QED
    BY <1>1, WireInvariant, PTL

\* NACKs of any number of chunks are sent in datagrams and heard whole.
THEOREM NacksAreHeard == Spec => []NacksHeard
  <1>1. ASSUME WireInv PROVE NacksHeard
    <2> SUFFICES ASSUME open, NEW n \in 1..Total(init)
                 PROVE  /\ \A k \in Batches(n) :
                               HeaderSize + NackPayload(n, k) <= MaxUdpPayload
                        /\ UNION {HeardOf(n, k) : k \in Batches(n)} = 1..n
      BY DEF NacksHeard
    <2>1. n \in Nat
      BY <1>1, OpenFacts DEF WireInv
    <2>2. \A k \in Batches(n) : /\ HeaderSize + NackPayload(n, k) <= MaxUdpPayload
                                /\ HeardOf(n, k) = Batch(n, k)
      BY <2>1, BatchHeard
    <2>3. UNION {HeardOf(n, k) : k \in Batches(n)} = UNION {Batch(n, k) : k \in Batches(n)}
      BY <2>2
    <2> QED
      BY <2>1, <2>2, <2>3, BatchesCover
  <1> QED
    BY <1>1, WireInvariant, PTL

\* Every chunk has a bit of its own, in a word that was allocated.
THEOREM BitsAreApart == Spec => []BitsApart
  <1>1. ASSUME WireInv PROVE BitsApart
    <2> SUFFICES ASSUME open
                 PROVE  /\ \A q \in Chunks : WordOf(q) \in DOMAIN words
                        /\ \A p, q \in Chunks :
                               WordOf(p) = WordOf(q) /\ BitOf(p) = BitOf(q) => p = q
      BY DEF BitsApart
    <2>1. /\ Total(init) \in Nat /\ Chunks = 0 .. (Total(init) - 1)
          /\ DOMAIN words = Words(Total(init))
      BY <1>1, OpenFacts DEF WireInv
    <2> QED
      BY <2>1, BitsOfChunks
  <1> QED
    BY <1>1, WireInvariant, PTL

\* A transfer whose count is full has all bytes of its file, and no others.
THEOREM FullIsComplete == Spec => []FullIsAll
  <1>1. ASSUME WireInv PROVE FullIsAll
    <2> SUFFICES ASSUME open, count = Total(init) PROVE written = 0 .. (init.size - 1)
      BY DEF FullIsAll
    <2>1. /\ init \in Offers /\ Accepted(init) /\ Total(init) \in Nat
          /\ Chunks = 0 .. (Total(init) - 1)
      BY <1>1, OpenFacts DEF WireInv
    <2>2. IsFiniteSet(Chunks) /\ Cardinality(Chunks) = Total(init)
      BY <2>1, FS_Interval
    <2>3. Marked \in SUBSET Chunks
      BY DEF Marked
    <2>4. Cardinality(Marked) = Cardinality(Chunks)
      BY <1>1, <2>2 DEF WireInv, CountInv
    <2>5. Marked = Chunks
      BY <2>2, <2>3, <2>4, FS_Subset
    <2>6. written = UNION {Positions(init, q) : q \in Marked}
      BY <1>1 DEF WireInv, WrittenAsMarked, Marked
    <2> QED
      BY <2>1, <2>5, <2>6, ChunksTile
  <1> QED
    BY <1>1, WireInvariant, PTL

-----------------------------------------------------------------------------
(* Pace *)

\* A limit of `limit' bytes a second holds limit \div c chunks of c bytes.
LEMMA RateKept ==
  ASSUME NEW limit \in Nat, NEW c \in Nat \ {0}, NEW max \in Nat \ {0}, NEW rate,
         rate = IF limit \div c < 1 THEN 1 ELSE Least(limit \div c, max)
  PROVE  /\ rate \in 1..max
         /\ rate * c <= limit \/ (rate = 1 /\ limit < c)
         /\ rate = max \/ limit < (rate + 1) * c
  <1> DEFINE d == limit \div c
  <1>1. d \in Nat /\ \E r \in 0..(c - 1) : limit = c * d + r
    BY DivMod
  <1>2. rate = IF d < 1 THEN 1 ELSE Least(d, max)
    OBVIOUS
  <1> HIDE DEF d
  <1>3. c * d = d * c /\ (d + 1) * c = d * c + c /\ d * c \in Nat
    BY <1>1
  <1>4. d * c <= limit /\ limit < (d + 1) * c
    BY <1>1, <1>3
  <1>5. CASE d < 1
    <2>1. d = 0 /\ rate = 1 /\ d * c = 0 /\ (d + 1) * c = c
      BY <1>1, <1>2, <1>5
    <2>2. limit < c /\ c <= (rate + 1) * c
      BY <1>4, <2>1
    <2> QED
      BY <2>1, <2>2
  <1>6. CASE d >= 1
    <2>1. rate \in 1..max /\ rate <= d /\ (rate = max \/ rate = d)
      BY <1>1, <1>2, <1>6 DEF Least
    <2>2. rate * c <= d * c /\ rate * c \in Nat
      BY <1>1, <2>1, TimesMonotone
    <2> QED
      BY <1>3, <1>4, <2>1, <2>2
  <1> QED
    BY <1>1, <1>5, <1>6

\* A bandwidth limit is kept and used, as far as whole chunks allow.
THEOREM PaceIsKept == Spec => []PaceKept
  <1>1. ASSUME WireInv PROVE PaceKept
    <2> SUFFICES ASSUME open, NEW bw \in Bandwidths \ {0}
                 PROVE  LET rate  == PacketsPerSecond(bw, init.chunkSize)
                            limit == bw * BytesPerKib
                        IN /\ rate \in 1..MaxRate
                           /\ rate * init.chunkSize <= limit \/ (rate = 1 /\ limit < init.chunkSize)
                           /\ rate = MaxRate \/ limit < (rate + 1) * init.chunkSize
      BY DEF PaceKept
    <2>1. init.chunkSize \in Nat \ {0}
      BY <1>1, OpenFacts, AcceptedFacts DEF WireInv, Offers
    <2>2. bw \in Nat \ {0} /\ BytesPerKib \in Nat /\ MaxRate \in Nat \ {0}
      BY WireAssumption
    <2>3. bw * BytesPerKib \in Nat
      BY <2>2
    <2> QED
      BY <2>1, <2>2, <2>3, RateKept DEF PacketsPerSecond
  <1> QED
    BY <1>1, WireInvariant, PTL
=============================================================================
