--------------------------------- MODULE Wire ---------------------------------
(***************************************************************************)
(* The arithmetic of a transfer: how a file is cut into chunks, how chunks *)
(* and NACKs are fitted into datagrams, where a chunk goes in the file and *)
(* in the bitmap, and how fast chunks are sent (src/lib/protocol.rs;       *)
(* run_send, send_one and send_delay of src/lib/send.rs; parse_init, store *)
(* and emit_nacks of src/lib/recv.rs).                                     *)
(*                                                                         *)
(* A transfer is opened by an INIT whose fields may be anything, and DATA  *)
(* may carry any chunk number and any number of bytes: headers are not     *)
(* protected, and the source may change while it is sent.                  *)
(***************************************************************************)
EXTENDS Integers, FiniteSets

CONSTANTS
    MaxUdpPayload,      \* 65507
    HeaderSize,         \* 7
    SequenceBytes,      \* 4
    DigestSize,         \* SHA256_DIGEST_SIZE, 32
    LenRange,           \* payload_len is a u16: 2^16 values
    MaxTotalChunks,     \* 2^24
    BitsPerWord,        \* BITMAP_BITS_PER_WORD, 64
    BytesPerKib,        \* 1024
    MaxRate,            \* u32::MAX
    Sizes,              \* bound: the sizes an INIT names
    ChunkSizes,         \* bound: the chunk sizes an INIT names
    Bandwidths          \* bound: the values of --bw, in KiB/s

ASSUME WireAssumption ==
    /\ {HeaderSize, SequenceBytes, DigestSize, BitsPerWord, BytesPerKib, MaxRate}
           \subseteq Nat \ {0}
    /\ MaxUdpPayload \in Nat /\ LenRange \in Nat /\ MaxTotalChunks \in Nat
    /\ HeaderSize + SequenceBytes <= MaxUdpPayload
    /\ MaxUdpPayload - HeaderSize < LenRange
    /\ Sizes \subseteq Nat /\ ChunkSizes \subseteq Nat /\ Bandwidths \subseteq Nat

VARIABLES
    init,               \* the size, chunk_size and version (verifying?) of the INIT
    open,               \* there is a ReceiveState
    words,              \* received: words[w] is the set of the bits set in word w
    count,              \* count
    written             \* the positions of the file that were written

vars == <<init, open, words, count, written>>

Least(a, b) == IF a <= b THEN a ELSE b

-----------------------------------------------------------------------------
(* Chunks *)

\* Mutant of DivCeil: the last, shorter chunk is forgotten.
DivFloor(a, b) == a \div b

DivCeil(a, b) == a \div b + (IF a % b = 0 THEN 0 ELSE 1)

MaxChunkSize == MaxUdpPayload - HeaderSize

\* Mutant of LargestChunk: no room is left for the hash.
LargestOf(verifies) == MaxChunkSize

LargestChunk(verifies) == MaxChunkSize - (IF verifies THEN DigestSize ELSE 0)

\* validate_chunk_size
ValidChunkSize(c, verifies) == c # 0 /\ c <= LargestChunk(verifies)

Total(i) == DivCeil(i.size, i.chunkSize)

\* What run_send and parse_init ask of a transfer.
Accepted(i) == ValidChunkSize(i.chunkSize, i.verifies) /\ Total(i) <= MaxTotalChunks

\* Where chunk q is in the file, and how many bytes it has.
Offset(i, q) == q * i.chunkSize

Expected(i, q) == Least(i.size - Offset(i, q), i.chunkSize)

Positions(i, q) == Offset(i, q) .. (Offset(i, q) + Expected(i, q) - 1)

-----------------------------------------------------------------------------
(* Datagrams *)

\* The payload of the DATA for n bytes, after the hash if there is one.
DataPayload(i, n) == n + (IF i.verifies THEN DigestSize ELSE 0)

\* Mutant of MaxNacks: the header is not counted.
MaxNacksBare == MaxUdpPayload \div SequenceBytes

MaxNacks == MaxChunkSize \div SequenceBytes

\* emit_nacks cuts a list of n numbers into batches; batch k has these places
\* of it.
Batches(n) == 0 .. (DivCeil(n, MaxNacks) - 1)
Batch(n, k) == (k * MaxNacks + 1) .. Least((k + 1) * MaxNacks, n)
BatchLen(n, k) == Least((k + 1) * MaxNacks, n) - k * MaxNacks
NackPayload(n, k) == BatchLen(n, k) * SequenceBytes

\* payload_len as the header carries it: a u16.
PayloadLen(payload) == payload % LenRange

\* parse_packet: the payload that is taken from a datagram of that payload.
Parsed(payload) == PayloadLen(payload)

\* decode_nack_payload: the places of batch k that are heard, of the count in
\* the header and the whole numbers in the payload the fewer.
HeardOf(n, k) ==
    (k * MaxNacks + 1) ..
        (k * MaxNacks + Least(BatchLen(n, k), Parsed(NackPayload(n, k)) \div SequenceBytes))

-----------------------------------------------------------------------------
(* The bitmap *)

WordOf(q) == q \div BitsPerWord
BitOf(q) == q % BitsPerWord

\* Mutant of Words: a last word that is not full is forgotten.
WordsFull(total) == 0 .. (total \div BitsPerWord - 1)

Words(total) == 0 .. (DivCeil(total, BitsPerWord) - 1)

IsReceived(q) == BitOf(q) \in words[WordOf(q)]

-----------------------------------------------------------------------------
(* Pace *)

\* Mutant of PacketsPerSecond: what is left of a chunk counts as one.
PacketsRounded(bw, c) ==
    IF bw = 0 THEN 0 ELSE Least(DivCeil(bw * BytesPerKib, c), MaxRate)

\* send_delay: the chunks sent in a second (0: unlimited).
PacketsPerSecond(bw, c) ==
    IF bw = 0 THEN 0
    ELSE LET rate == (bw * BytesPerKib) \div c
         IN IF rate < 1 THEN 1 ELSE Least(rate, MaxRate)

-----------------------------------------------------------------------------
(* The transfer *)

\* An INIT that is refused opens nothing.
Opens ==
    /\ ~open
    /\ Accepted(init)
    /\ open' = TRUE
    /\ words' = [w \in Words(Total(init)) |-> {}]
    /\ UNCHANGED <<init, count, written>>

\* Mutant of Storable: the length is not compared.
StorableAnyLength(q, n) == q < Total(init) /\ ~IsReceived(q)

\* store: a chunk of the file, not stored yet, of the expected length.
Storable(q, n) == q < Total(init) /\ ~IsReceived(q) /\ n = Expected(init, q)

Stores(q, n) ==
    /\ open
    /\ Storable(q, n)
    /\ written' = written \cup (Offset(init, q) .. (Offset(init, q) + n - 1))
    /\ words' = [words EXCEPT ![WordOf(q)] = @ \cup {BitOf(q)}]
    /\ count' = count + 1
    /\ UNCHANGED <<init, open>>

Init ==
    /\ init \in [size : Sizes, chunkSize : ChunkSizes, verifies : BOOLEAN]
    /\ open = FALSE
    /\ words = <<>>
    /\ count = 0
    /\ written = {}

Next == \/ Opens
        \/ \E q \in 0..MaxTotalChunks, n \in 0..MaxChunkSize : Stores(q, n)

Spec == Init /\ [][Next]_vars

-----------------------------------------------------------------------------
(* Properties *)

Chunks == 0 .. (Total(init) - 1)

WireTypeOK ==
    /\ init \in [size : Sizes, chunkSize : ChunkSizes, verifies : BOOLEAN]
    /\ open \in BOOLEAN
    /\ open => /\ Accepted(init)
               /\ words \in [Words(Total(init)) -> SUBSET (0 .. (BitsPerWord - 1))]
    /\ ~open => count = 0 /\ written = {}
    /\ count \in Nat

\* What a sender makes of an accepted transfer goes into a UDP datagram, and
\* its u16 length field says how much it is.
DataFits ==
    open => \A q \in Chunks :
        LET payload == DataPayload(init, Expected(init, q))
        IN HeaderSize + payload <= MaxUdpPayload /\ Parsed(payload) = payload

\* However many chunks are missing, each batch of NACKs goes into a datagram
\* and between them all of the list is heard.
NacksHeard ==
    open => \A n \in 1..Total(init) :
        /\ \A k \in Batches(n) : HeaderSize + NackPayload(n, k) <= MaxUdpPayload
        /\ UNION {HeardOf(n, k) : k \in Batches(n)} = 1..n

\* Every chunk has a bit of its own in the bitmap that was allocated.
BitsApart ==
    open => /\ \A q \in Chunks : WordOf(q) \in DOMAIN words
            /\ \A p, q \in Chunks : WordOf(p) = WordOf(q) /\ BitOf(p) = BitOf(q) => p = q

\* What is written is what the bitmap says, and no byte beyond the file.
WrittenAsMarked ==
    open => written = UNION {Positions(init, q) : q \in {p \in Chunks : IsReceived(p)}}

\* When the count says that all chunks are in, every byte of the file has been
\* written and none beyond it.
FullIsAll == open /\ count = Total(init) => written = 0 .. (init.size - 1)

\* A bandwidth limit, in bytes of the file, is kept, and used but for less than
\* one chunk a second (u32::MAX chunks at the most); only a limit with no room
\* for a chunk is exceeded, by the one that is sent.  The rate is a divisor,
\* hence never 0.
PaceKept ==
    open => \A bw \in Bandwidths \ {0} :
        LET rate  == PacketsPerSecond(bw, init.chunkSize)
            limit == bw * BytesPerKib
        IN /\ rate \in 1..MaxRate
           /\ rate * init.chunkSize <= limit \/ (rate = 1 /\ limit < init.chunkSize)
           /\ rate = MaxRate \/ limit < (rate + 1) * init.chunkSize
=============================================================================
