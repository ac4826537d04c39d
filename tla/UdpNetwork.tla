----------------------------- MODULE UdpNetwork -----------------------------
(***************************************************************************)
(* The datagrams udpcp exchanges and the UDP network that carries them.    *)
(*                                                                         *)
(* A datagram to the receiver is a record                                  *)
(*     [from, typ, seq, body]                                              *)
(* whose body is NoBody or <<owner, chunk, state>>: the bytes of chunk     *)
(* `chunk' of sender `owner', as they were when the source was hashed      *)
(* ("good"), changed in the source since ("stale"), or damaged on the way  *)
(* ("garbled"); that of an INIT is NoBody, or garbled: its SHA-256 is      *)
(* damaged.  What else an INIT says is its header (Announced).  A datagram *)
(* to a sender is a record [typ, seqs], seqs being the chunk numbers a     *)
(* NACK lists.                                                             *)
(*                                                                         *)
(* Datagrams travel in sets, so they overtake each other freely.  With     *)
(* "duplicate" in Env a delivered datagram also stays: it may be delivered *)
(* again, late, or (by never being delivered) lost.  Without it a datagram *)
(* is delivered at most once and at most MaxLosses datagrams are lost.     *)
(***************************************************************************)
EXTENDS Integers, Sequences, FiniteSets

CONSTANTS
    Senders,        \* the udpcp send processes, each with an address of its own
    NoSender,       \* no address: the receiver's sender is None
    Total,          \* Total[s]: the chunks of the file s sends
    ShortTail,      \* the senders whose last chunk is shorter than chunk_size
    Paths,          \* the final paths the receiver may write
    Path,           \* Path[s]: the final path the receiver derives for s's file
    NoFile,         \* a path at which there is no file
    Misread,        \* bound: the headers that a damaged INIT may announce
    Env,            \* what the environment may do, a subset of Hazards
    MaxLosses       \* bound: datagrams lost or repeated without "duplicate"

\* What an INIT announces.  Of a length only matters whether it is that of a
\* chunk of the chunk size, that of a short last chunk, or neither.
Lengths == {"full", "tail", "other"}
Headers == [path : Paths, total : Nat, chunk : Lengths, last : Lengths]

Hazards == {"duplicate",  \* datagrams are duplicated, delayed and lost freely
            "garble",     \* the payload of a DATA or the hash in an INIT is damaged
            "misannounce",\* the version, name, size or chunk size in an INIT is damaged
            "misnumber",  \* the seq field or a NACK entry is damaged
            "mistype",    \* one bit of the type byte is flipped
            "edit",       \* a source file changes while it is sent
            "ioerror",    \* a socket or file operation fails
            "nospace",    \* the tmp file is created but cannot be sized
            "unremovable",\* the tmp file cannot be removed
            "crash",      \* the receiver is killed, and may be started again
            "stop",       \* SIGINT or SIGTERM stops the receiver
            "repeat"}     \* an INIT of before arrives again

ASSUME SendersAssumption == NoSender \notin Senders /\ IsFiniteSet(Senders)
ASSUME FilesAssumption == /\ Total \in [Senders -> Nat]
                          /\ ShortTail \subseteq Senders
                          /\ Path \in [Senders -> Paths]
                          /\ Misread \subseteq Headers
ASSUME EnvAssumption == /\ Env \subseteq Hazards
                        /\ MaxLosses \in Nat
                        /\ Env \cap {"garble", "misnumber", "mistype"} # {}
                               => "duplicate" \in Env

VARIABLES
    toReceiver,     \* the datagrams under way to the receiver
    toSender,       \* toSender[s]: the datagrams under way to sender s
    losses          \* the datagrams lost or repeated so far (without "duplicate")

netVars == <<toReceiver, toSender, losses>>

-----------------------------------------------------------------------------
(* The datagrams. *)

Chunks(s) == 0 .. (Total[s] - 1)

\* What the INIT of s says besides the hash: the path, the number of chunks and
\* the lengths of the last one and of the others.
Announced(s) == [path  |-> Path[s],
                 total |-> Total[s],
                 chunk |-> "full",
                 last  |-> IF s \in ShortTail THEN "tail" ELSE "full"]

\* The length of chunk q of a file announced so.
LengthIn(h, q) == IF q = h.total - 1 THEN h.last ELSE h.chunk

NoBody == <<NoSender, 0, "none">>

Body(s, q, state) == <<s, q, state>>

Bodies == (Senders \cup {NoSender}) \X Nat \X {"none", "good", "stale", "garbled"}

\* The wire values of PacketType.
TypeCode == [INIT |-> 1, ACK |-> 2, DATA |-> 3, DONE |-> 4,
             NACK |-> 5, FIN |-> 6, FIN_ACK |-> 7]
PacketTypes == {"INIT", "ACK", "DATA", "DONE", "NACK", "FIN", "FIN_ACK"}

ReceiverDatagrams == [from : Senders, typ : PacketTypes, seq : Nat, body : Bodies]
SenderDatagrams   == [typ : PacketTypes, seqs : SUBSET Nat]

InitOf(s)   == [from |-> s, typ |-> "INIT", seq |-> 0, body |-> NoBody]
Data(s, q, state) == [from |-> s, typ |-> "DATA", seq |-> q, body |-> Body(s, q, state)]
Done(s)    == [from |-> s, typ |-> "DONE", seq |-> Total[s], body |-> NoBody]
FinAck(s)  == [from |-> s, typ |-> "FIN_ACK", seq |-> 0, body |-> NoBody]
Ack        == [typ |-> "ACK", seqs |-> {}]
Fin        == [typ |-> "FIN", seqs |-> {}]
Nack(seqs) == [typ |-> "NACK", seqs |-> seqs]

\* The file s was asked to send, as it was when its SHA-256 was taken; what a
\* freshly sized tmp file holds (set_len fills it with zeros).
FileOf(s) == [q \in Chunks(s) |-> Body(s, q, "good")]
Blank(n)  == [q \in 0..(n - 1) |-> NoBody]

ASSUME NoFileAssumption == /\ \A s \in Senders : NoFile \notin {FileOf(s), Blank(Total[s])}
                           /\ \A h \in Misread : NoFile # Blank(h.total)

-----------------------------------------------------------------------------
(* Damage.  Nothing protects the header of a datagram, nor the payload of an INIT. *)

\* The headers an INIT of s may announce when it arrives.
HeadersFrom(s) == {Announced(s)} \cup {h \in Misread : "misannounce" \in Env}

OneBitApart(t, u) ==
    \E bit \in {1, 2, 4} :
        \/ TypeCode[u] = TypeCode[t] + bit /\ (TypeCode[t] \div bit) % 2 = 0
        \/ TypeCode[t] = TypeCode[u] + bit /\ (TypeCode[u] \div bit) % 2 = 0

DamagedToReceiver(m) ==
    {d \in {[m EXCEPT !.body = <<m.body[1], m.body[2], "garbled">>]} :
         "garble" \in Env /\ m.typ \in {"INIT", "DATA"}}
    \cup {d \in {[m EXCEPT !.seq = q] : q \in 0..Total[m.from]} :
         "misnumber" \in Env /\ m.typ = "DATA"}
    \cup {d \in {[m EXCEPT !.typ = t] : t \in PacketTypes} :
         "mistype" \in Env /\ OneBitApart(m.typ, d.typ)}

\* A NACK whose count is damaged loses its tail; a damaged entry names
\* another chunk, or one the file does not have.
DamagedToSender(s, m) ==
    {d \in {Nack(listed) : listed \in SUBSET (0..Total[s])} :
         "misnumber" \in Env /\ m.typ = "NACK" /\ Cardinality(d.seqs \ m.seqs) <= 1}
    \cup {d \in {[m EXCEPT !.typ = t] : t \in PacketTypes} :
         "mistype" \in Env /\ OneBitApart(m.typ, d.typ)}

ArrivingAtReceiver == toReceiver \cup UNION {DamagedToReceiver(m) : m \in toReceiver}
ArrivingAt(s) == toSender[s] \cup UNION {DamagedToSender(s, m) : m \in toSender[s]}

-----------------------------------------------------------------------------
(* Sending, delivering and losing. *)

Remaining(net, m) == IF "duplicate" \in Env THEN net ELSE net \ {m}

\* The receiver takes m from the network and sends `replies' to sender s.
ReceiverTakes(m) == toReceiver' = Remaining(toReceiver, m)
ReceiverReplies(s, replies) == toSender' = [toSender EXCEPT ![s] = @ \cup replies]

\* Sender s takes m from the network; sender s sends `out'.
SenderTakes(s, m) == toSender' = [toSender EXCEPT ![s] = Remaining(@, m)]
SenderSends(out) == toReceiver' = toReceiver \cup out

NetInit == /\ toReceiver = {}
           /\ toSender = [s \in Senders |-> {}]
           /\ losses = 0

\* The network drops a datagram.
Lose == /\ "duplicate" \notin Env
        /\ losses < MaxLosses
        /\ losses' = losses + 1
        /\ \/ \E m \in toReceiver : toReceiver' = toReceiver \ {m}
              /\ UNCHANGED toSender
           \/ \E s \in Senders : \E m \in toSender[s] :
                  toSender' = [toSender EXCEPT ![s] = @ \ {m}]
              /\ UNCHANGED toReceiver

\* A copy of m, sent before, turns up.
Repeat(m) == /\ "repeat" \in Env
             /\ losses < MaxLosses
             /\ losses' = losses + 1
             /\ toReceiver' = toReceiver \cup {m}
             /\ UNCHANGED toSender

NetTypeOK == /\ toReceiver \subseteq ReceiverDatagrams
             /\ DOMAIN toSender = Senders
             /\ \A s \in Senders : toSender[s] \subseteq SenderDatagrams
             /\ losses \in 0..MaxLosses
=============================================================================
