------------------------------ MODULE Receiver ------------------------------
(***************************************************************************)
(* udpcp recv (src/lib/recv.rs): receive_loop, the transfer it has open    *)
(* (ReceiveState) and the file system it writes to.  Every operator is one *)
(* turn of a loop: the whole handling of one datagram or one timeout.      *)
(***************************************************************************)
EXTENDS UdpNetwork

CONSTANTS
    Serve,          \* --serve: go back to listening after a transfer
    Verify,         \* --verify was given to the senders: protocol version 2
    MaxNacks,       \* MAX_NACKS_PER_PACKET
    TmpOf           \* TmpOf[p]: the sibling tmp of p, p.tmp

ASSUME ReceiverAssumption == /\ Serve \in BOOLEAN
                             /\ Verify \in BOOLEAN
                             /\ MaxNacks \in Nat \ {0}
ASSUME TmpAssumption == /\ DOMAIN TmpOf = Paths
                        /\ \A p \in Paths : TmpOf[p] # p
                        /\ \A p, q \in Paths : TmpOf[p] = TmpOf[q] => p = q

\* No file is sent to the tmp of another: nobody sends x and x.tmp.  An
\* assumption of some of the theorems, not of the model.
Apart == \A p, q \in Paths : TmpOf[p] # q

Names == Paths \cup {TmpOf[p] : p \in Paths}

VARIABLES
    rpc,            \* where the receiver is
    from,           \* the address it is bound to: the sender of the open transfer
    header,         \* what its INIT announced, as it was read
    meta,           \* the hash in that INIT: as it was sent ("none"), or "garbled"
    received,       \* ReceiveState.received: the bitmap of the chunks stored
    count,          \* ReceiveState.count
    frontier,       \* ReceiveState.frontier: one past the highest chunk stored
    disk,           \* disk[n]: the file of that name
    saved           \* history: the senders whose file was renamed into place

diskVars == <<disk, saved>>
recvVars == <<rpc, from, header, meta, received, count, frontier, diskVars>>

\* The file at p.tmp, and the file at p.
tmp == [p \in Paths |-> disk[TmpOf[p]]]
final == [p \in Paths |-> disk[p]]

\* No transfer is open, so no INIT is remembered.
NoHeader == [path |-> NoFile, total |-> 0, chunk |-> "other", last |-> "other"]

RecvPhases == {"listening", "receiving", "linger", "exited", "down"}

RecvInit == /\ rpc = "listening"
            /\ from = NoSender
            /\ header = NoHeader
            /\ meta = "none"
            /\ received = {}
            /\ count = 0
            /\ frontier = 0
            /\ disk = [n \in Names |-> NoFile]
            /\ saved = {}

\* ReceiveState is dropped (its memory; the files are the caller's matter).
ForgetTransfer(next, sender) ==
    /\ rpc' = next
    /\ from' = sender
    /\ header' = NoHeader
    /\ meta' = "none"
    /\ received' = {}
    /\ count' = 0
    /\ frontier' = 0

\* Where a transfer that is over, one way or the other, leaves the receiver:
\* reset_listening may fail, which ends receive_loop.
NextUp == IF Serve THEN {"listening"} \cup {next \in {"exited"} : "ioerror" \in Env}
          ELSE {"exited"}

-----------------------------------------------------------------------------
(* The files *)

\* `file' is what the tmp of p holds now.
WriteTmp(p, file) == disk' = [disk EXCEPT ![TmpOf[p]] = file]

RenameTmp(p) == disk' = [disk EXCEPT ![p] = disk[TmpOf[p]], ![TmpOf[p]] = NoFile]

\* The tmp of p, which holds `file', is removed; an error of that is ignored.
DropTmp(p, file) == \/ WriteTmp(p, NoFile)
                    \/ "unremovable" \in Env /\ WriteTmp(p, file)

\* Mutants of Abandon: tmp stays; the final file is removed with it; the
\* receiver stays bound to the sender.
AbandonKeepingTmp(p, file) ==
    /\ \E next \in NextUp : ForgetTransfer(next, NoSender)
    /\ WriteTmp(p, file)
    /\ UNCHANGED saved
AbandonWithFinal(p, file) ==
    /\ \E next \in NextUp : ForgetTransfer(next, NoSender)
    /\ disk' = [disk EXCEPT ![p] = NoFile, ![TmpOf[p]] = NoFile]
    /\ UNCHANGED saved
AbandonStillBound(p, file) ==
    /\ \E next \in NextUp : ForgetTransfer(next, from)
    /\ DropTmp(p, file)
    /\ UNCHANGED saved

\* abandon_transfer: the transfer that writes `file' to the tmp of p is
\* dropped, and the tmp with it.
Abandon(p, file) ==
    /\ \E next \in NextUp : ForgetTransfer(next, NoSender)
    /\ DropTmp(p, file)
    /\ UNCHANGED saved

\* The open transfer is abandoned.
AbandonOpen == Abandon(header.path, tmp[header.path])

-----------------------------------------------------------------------------
(* INIT *)

\* Mutant of Heard: anyone is heard.
HeardAll(m) == TRUE

\* Once bound to a sender the receiver hears nobody else.
Heard(m) == from = NoSender \/ m.from = from
FromSender(m) == rpc = "receiving" /\ Heard(m)

\* Mutant of Sized: a tmp file that is there already is not emptied.
SizedOnly(h) == IF tmp[h.path] \in {NoFile, <<>>} THEN Blank(h.total) ELSE tmp[h.path]

\* File::create and set_len
Sized(h) == Blank(h.total)

\* A transfer is opened by m, whose header is read as h.
TransferOf(m, h) ==
    /\ rpc' = "receiving"
    /\ from' = m.from
    /\ header' = h
    /\ meta' = m.body[3]
    /\ received' = {}
    /\ count' = 0
    /\ frontier' = 0

\* Mutants of InitOpens: an INIT opens a transfer whether or not one is open;
\* the final file is opened for writing instead of tmp.
InitReopens(m) ==
    /\ rpc \in {"listening", "receiving"}
    /\ Heard(m)
    /\ m.typ = "INIT"
    /\ ReceiverTakes(m)
    /\ ReceiverReplies(m.from, {Ack})
    /\ TransferOf(m, Announced(m.from))
    /\ WriteTmp(Path[m.from], Sized(Announced(m.from)))
    /\ UNCHANGED <<saved, losses>>
InitOpensInPlace(m) ==
    /\ rpc = "listening"
    /\ Heard(m)
    /\ m.typ = "INIT"
    /\ m.body[1] = NoSender
    /\ ReceiverTakes(m)
    /\ ReceiverReplies(m.from, {Ack})
    /\ \E h \in HeadersFrom(m.from) :
           /\ TransferOf(m, h)
           /\ disk' = [disk EXCEPT ![TmpOf[h.path]] = Sized(h), ![h.path] = Sized(h)]
    /\ UNCHANGED <<saved, losses>>

\* ReceiveState::new opens the transfer that the INIT announces, or that is
\* read from it: tmp is created, or emptied, and sized.  The ACK goes out.
InitOpens(m) ==
    /\ rpc = "listening"
    /\ Heard(m)
    /\ m.typ = "INIT"
    /\ m.body[1] = NoSender
    /\ ReceiverTakes(m)
    /\ ReceiverReplies(m.from, {Ack})
    /\ \E h \in HeadersFrom(m.from) : TransferOf(m, h) /\ WriteTmp(h.path, Sized(h))
    /\ UNCHANGED <<saved, losses>>

\* A payload that does not parse (that of a DATA, or a damaged one), or a tmp
\* file that cannot be created: bad init.
InitRejected(m) ==
    /\ rpc = "listening"
    /\ Heard(m)
    /\ m.typ = "INIT"
    /\ m.body[1] # NoSender \/ {"misannounce", "ioerror"} \cap Env # {}
    /\ ReceiverTakes(m)
    /\ UNCHANGED <<recvVars, toSender, losses>>

\* The tmp file is created, but set_len fails: bad init.
InitCannotSize(m) ==
    /\ rpc = "listening"
    /\ Heard(m)
    /\ m.typ = "INIT"
    /\ m.body[1] = NoSender
    /\ "nospace" \in Env
    /\ ReceiverTakes(m)
    /\ \E h \in HeadersFrom(m.from) : WriteTmp(h.path, <<>>)
    /\ UNCHANGED <<rpc, from, header, meta, received, count, frontier, saved, toSender, losses>>

\* An INIT of the sender whose transfer is open: its ACK was lost, or is late.
InitAgain(m) ==
    /\ FromSender(m)
    /\ m.typ = "INIT"
    /\ ReceiverTakes(m)
    /\ ReceiverReplies(from, {Ack})
    /\ UNCHANGED <<recvVars, losses>>

\* The ACK cannot be sent: the transfer, just opened or open, is abandoned.
InitUnanswered(m) ==
    /\ "ioerror" \in Env
    /\ Heard(m)
    /\ m.typ = "INIT"
    /\ \/ rpc = "receiving" /\ AbandonOpen
       \/ /\ rpc = "listening"
          /\ m.body[1] = NoSender
          /\ \E h \in HeadersFrom(m.from) : Abandon(h.path, Sized(h))
    /\ ReceiverTakes(m)
    /\ UNCHANGED <<toSender, losses>>

-----------------------------------------------------------------------------
(* DATA *)

\* Mutant of Verified: the hash before the body is not looked at.
VerifiedNever(m) == TRUE

\* verified_body: version 2 drops a body that does not match the hash before
\* it; the hash does not cover the seq field.
Verified(m) == Verify => m.body[3] # "garbled"

\* The chunks of the file that was announced.
Slots == 0 .. (header.total - 1)

\* A body has the length of the chunk it was read from, NoBody that of none.
HasLengthOf(body, q) ==
    body[1] # NoSender /\ LengthIn(Announced(body[1]), body[2]) = LengthIn(header, q)

\* Mutant of Storable: a chunk stored already is written again.
StorableAgain(m) == Verified(m) /\ m.seq < header.total /\ HasLengthOf(m.body, m.seq)

\* What accept_data stores: a verified body of the right length for a chunk
\* of the file not stored yet.
Storable(m) == /\ Verified(m)
               /\ m.seq < header.total
               /\ m.seq \notin received
               /\ HasLengthOf(m.body, m.seq)

\* Mutant of FrontierWith: the frontier follows the last chunk, not the highest.
FrontierAt(q) == q + 1

FrontierWith(q) == IF q + 1 > frontier THEN q + 1 ELSE frontier

DataStored(m) ==
    /\ FromSender(m)
    /\ m.typ = "DATA"
    /\ Storable(m)
    /\ ReceiverTakes(m)
    /\ WriteTmp(header.path, [tmp[header.path] EXCEPT ![m.seq] = m.body])
    /\ received' = received \cup {m.seq}
    /\ count' = count + 1
    /\ frontier' = FrontierWith(m.seq)
    /\ UNCHANGED <<rpc, from, header, meta, saved, toSender, losses>>

DataUnwritable(m) ==
    /\ "ioerror" \in Env
    /\ FromSender(m)
    /\ m.typ = "DATA"
    /\ Storable(m)
    /\ ReceiverTakes(m)
    /\ AbandonOpen
    /\ UNCHANGED <<toSender, losses>>

\* Mutant of DataIgnored: the chunk is marked before its length is compared.
DataMarked(m) ==
    /\ FromSender(m)
    /\ m.typ = "DATA"
    /\ ~Storable(m)
    /\ ReceiverTakes(m)
    /\ received' = received \cup ({m.seq} \cap Slots)
    /\ UNCHANGED <<rpc, from, header, meta, count, frontier, diskVars, toSender, losses>>

DataIgnored(m) ==
    /\ FromSender(m)
    /\ m.typ = "DATA"
    /\ ~Storable(m)
    /\ ReceiverTakes(m)
    /\ UNCHANGED <<recvVars, toSender, losses>>

-----------------------------------------------------------------------------
(* NACKs *)

\* collect_missing
Missing(upto) == {q \in Slots : q < upto /\ q \notin received}

\* emit_nacks cuts the ascending list of what is missing into batches.
Batch(lost, k) == {q \in lost : Cardinality({r \in lost : r < q}) \div MaxNacks = k}
Nacks(lost, batches) == {Nack(Batch(lost, k)) : k \in batches}
Batches(lost) == 0 .. ((Cardinality(lost) - 1) \div MaxNacks)

\* The NACKs of all that is missing below `upto'.
SendNacks(upto) == ReceiverReplies(from, Nacks(Missing(upto), Batches(Missing(upto))))

\* Sending a batch fails, with the batches before it sent.
NackFails(upto) ==
    /\ "ioerror" \in Env
    /\ \E k \in Batches(Missing(upto)) :
           ReceiverReplies(from, Nacks(Missing(upto), 0..(k - 1)))
    /\ AbandonOpen

-----------------------------------------------------------------------------
(* DONE *)

\* Mutant of Full: the last chunk is in.
FullByFrontier == frontier = header.total

Full == count = header.total

\* handle_done with chunks missing: NACK them all.
DoneIncomplete(m) ==
    /\ FromSender(m)
    /\ m.typ = "DONE"
    /\ ~Full
    /\ ReceiverTakes(m)
    /\ \/ SendNacks(header.total) /\ UNCHANGED recvVars
       \/ NackFails(header.total)
    /\ UNCHANGED losses

\* Mutant of HashMatches: the tmp file is not read back.
HashTrusted == meta = "none"

\* finalize: the hash of the tmp file is the one INIT announced.
HashMatches == meta = "none" /\ tmp[header.path] = FileOf(from)

\* finalize succeeds: tmp is renamed into place, FIN is sent (best effort)
\* and the receiver lingers.
DoneSaves(m) ==
    /\ FromSender(m)
    /\ m.typ = "DONE"
    /\ Full
    /\ HashMatches
    /\ ReceiverTakes(m)
    /\ RenameTmp(header.path)
    /\ saved' = saved \cup {from}
    /\ ForgetTransfer("linger", from)
    /\ \/ ReceiverReplies(from, {Fin})
       \/ "ioerror" \in Env /\ UNCHANGED toSender
    /\ UNCHANGED losses

\* Mutant of DoneFails: the sender is told FIN all the same.
DoneFailsUnnoticed(m) ==
    /\ FromSender(m)
    /\ m.typ = "DONE"
    /\ Full
    /\ ~HashMatches \/ "ioerror" \in Env
    /\ ReceiverTakes(m)
    /\ ReceiverReplies(from, {Fin})
    /\ AbandonOpen
    /\ UNCHANGED losses

\* finalize fails: the hash differs, or sync, read or rename fails.
DoneFails(m) ==
    /\ FromSender(m)
    /\ m.typ = "DONE"
    /\ Full
    /\ ~HashMatches \/ "ioerror" \in Env
    /\ ReceiverTakes(m)
    /\ AbandonOpen
    /\ UNCHANGED <<toSender, losses>>

-----------------------------------------------------------------------------
(* linger *)

LeaveLinger == /\ \E next \in NextUp : ForgetTransfer(next, NoSender)
               /\ UNCHANGED diskVars

FinAckArrives(m) ==
    /\ rpc = "linger"
    /\ Heard(m)
    /\ m.typ = "FIN_ACK"
    /\ ReceiverTakes(m)
    /\ LeaveLinger
    /\ UNCHANGED <<toSender, losses>>

\* Mutants of DoneInLinger: any DONE is answered when no transfer is open; none is.
DoneAnytime(m) ==
    /\ rpc \in {"listening", "linger"}
    /\ Heard(m)
    /\ m.typ = "DONE"
    /\ ReceiverTakes(m)
    /\ ReceiverReplies(m.from, {Fin})
    /\ UNCHANGED <<recvVars, losses>>
DoneUnanswered(m) ==
    /\ rpc = "linger"
    /\ Heard(m)
    /\ m.typ = "DONE"
    /\ ReceiverTakes(m)
    /\ UNCHANGED <<recvVars, toSender, losses>>

\* The sender missed the FIN: send it again (best effort) and wait on.
DoneInLinger(m) ==
    /\ rpc = "linger"
    /\ Heard(m)
    /\ m.typ = "DONE"
    /\ ReceiverTakes(m)
    /\ \/ ReceiverReplies(from, {Fin})
       \/ "ioerror" \in Env /\ UNCHANGED toSender
    /\ UNCHANGED <<recvVars, losses>>

\* The linger window closes, or reading the socket fails.
LingerEnds ==
    /\ rpc = "linger"
    /\ LeaveLinger
    /\ UNCHANGED netVars

-----------------------------------------------------------------------------
\* A datagram taken and dropped: no transfer is open for it, it is from
\* another address, or nothing is done with its type.
DatagramDropped(m) ==
    /\ \/ ~Heard(m)
       \/ rpc = "listening" /\ m.typ # "INIT"
       \/ FromSender(m) /\ m.typ \notin {"INIT", "DATA", "DONE"}
       \/ rpc = "linger" /\ Heard(m) /\ m.typ \notin {"FIN_ACK", "DONE"}
       \/ rpc \in {"exited", "down"}
    /\ ReceiverTakes(m)
    /\ UNCHANGED <<recvVars, toSender, losses>>

\* on_idle_tick: a gap below the frontier is older than the holdoff.
GapTimer ==
    /\ rpc = "receiving"
    /\ count < frontier
    /\ \/ SendNacks(frontier) /\ UNCHANGED recvVars
       \/ NackFails(frontier)
    /\ UNCHANGED <<toReceiver, losses>>

\* on_idle_tick: nothing from the sender for idle_timeout.
IdleTimeout ==
    /\ rpc = "receiving"
    /\ AbandonOpen
    /\ UNCHANGED netVars

\* SIGINT or SIGTERM shuts the socket down, or reading it or setting its
\* timeout fails: receive_loop returns and Drop removes the tmp file.
Stop ==
    /\ {"stop", "ioerror"} \cap Env # {}
    /\ rpc \in {"listening", "receiving", "linger"}
    /\ ForgetTransfer("exited", NoSender)
    /\ IF rpc = "receiving" THEN DropTmp(header.path, tmp[header.path]) ELSE UNCHANGED disk
    /\ UNCHANGED <<saved, netVars>>

\* The receiver is killed: the disk stays as it is.  It may be run again.
Crash ==
    /\ "crash" \in Env
    /\ rpc \in {"listening", "receiving", "linger"}
    /\ ForgetTransfer("down", NoSender)
    /\ UNCHANGED <<diskVars, netVars>>

Restart ==
    /\ rpc = "down"
    /\ ForgetTransfer("listening", NoSender)
    /\ UNCHANGED <<diskVars, netVars>>

-----------------------------------------------------------------------------
\* What the receiver does on a datagram.
ReceiverReceives(m) == \/ InitOpens(m)
                       \/ InitRejected(m)
                       \/ InitCannotSize(m)
                       \/ InitAgain(m)
                       \/ InitUnanswered(m)
                       \/ DataStored(m)
                       \/ DataUnwritable(m)
                       \/ DataIgnored(m)
                       \/ DoneIncomplete(m)
                       \/ DoneSaves(m)
                       \/ DoneFails(m)
                       \/ FinAckArrives(m)
                       \/ DoneInLinger(m)
                       \/ DatagramDropped(m)

RecvTypeOK ==
    /\ rpc \in RecvPhases
    /\ IF rpc \in {"receiving", "linger"} THEN from \in Senders ELSE from = NoSender
    /\ meta \in {"none", "good", "stale", "garbled"}
    /\ rpc # "receiving" => received = {} /\ count = 0 /\ frontier = 0 /\ meta = "none"
    /\ IF rpc = "receiving" THEN header \in HeadersFrom(from) ELSE header = NoHeader
    /\ rpc = "receiving" => /\ received \subseteq Slots
                            /\ tmp[header.path] \in [Slots -> Bodies]
    /\ count \in Nat /\ frontier \in Nat
    /\ DOMAIN disk = Names
    /\ saved \subseteq Senders
=============================================================================
