---------------------------- MODULE UdpcpSafety -----------------------------
(***************************************************************************)
(* What a transfer guarantees, for every instance of Udpcp: files appear   *)
(* whole, a success report is true and udpcp implements FileDelivery; the  *)
(* open transfer is kept until it is over, agrees with its tmp file, and   *)
(* stores what its sender read.  Each theorem names, as assumptions on Env *)
(* and on the names of the tmp files, what it does not survive.            *)
(***************************************************************************)
EXTENDS UdpcpTypes

-----------------------------------------------------------------------------
(* The steps that matter. *)

\* Every step leaves the disk alone, or writes one tmp, or is finalize.
LEMMA DiskSteps ==
    ASSUME SystemInv, [Next]_vars
    PROVE  \/ UNCHANGED <<disk, saved>>
           \/ UNCHANGED saved /\ \E p \in Paths : \E file : WriteTmp(p, file)
           \/ \E m \in ArrivingAtReceiver : DoneSaves(m) /\ UNCHANGED sendVars
<1> DEFINE Wrote == UNCHANGED saved /\ \E p \in Paths : \E file : WriteTmp(p, file)
<1>1. ASSUME NEW p \in Paths, NEW file, Abandon(p, file) PROVE Wrote
  BY <1>1, AbandonLeaves DEF DropTmp
<1>2. ASSUME rpc = "receiving", AbandonOpen PROVE Wrote
  BY <1>1, <1>2, OpenHeader DEF AbandonOpen, SystemInv, TypeOK
<1> HIDE DEF Wrote
<1>3. ASSUME NEW m \in ArrivingAtReceiver, Deliver(m)
      PROVE  UNCHANGED <<disk, saved>> \/ Wrote \/ (DoneSaves(m) /\ UNCHANGED sendVars)
  <2>1. m.from \in Senders
    BY ArrivingTyped DEF SystemInv, TypeOK, ReceiverDatagrams
  <2>2. CASE DoneSaves(m)
    BY <1>3, <2>2 DEF Deliver
  <2>3. CASE InitOpens(m) \/ InitCannotSize(m)
    <3>1. UNCHANGED saved /\ \E h \in HeadersFrom(m.from) : \E file : WriteTmp(h.path, file)
      BY <2>3 DEF InitOpens, InitCannotSize
    <3> QED BY <2>1, <3>1, HeadersTyped DEF Wrote
  <2>4. CASE InitUnanswered(m)
    BY <1>1, <1>2, <2>1, <2>4, HeadersTyped DEF InitUnanswered
  <2>5. CASE DataStored(m)
    <3>1. rpc = "receiving" /\ UNCHANGED saved /\ \E file : WriteTmp(header.path, file)
      BY <2>5 DEF DataStored, FromSender
    <3> QED BY <3>1, OpenHeader DEF Wrote, SystemInv, TypeOK
  <2>6. CASE DataUnwritable(m) \/ DoneFails(m)
    BY <1>2, <2>6 DEF DataUnwritable, DoneFails, FromSender
  <2>7. CASE DoneIncomplete(m)
    BY <1>2, <2>7 DEF DoneIncomplete, NackFails, FromSender, recvVars, diskVars
  <2>8. CASE FinAckArrives(m)
    BY <2>8, LingerLeaves DEF FinAckArrives
  <2>9. CASE InitRejected(m) \/ InitAgain(m) \/ DataIgnored(m) \/ DoneInLinger(m) \/ DatagramDropped(m)
    BY <2>9 DEF InitRejected, InitAgain, DataIgnored, DoneInLinger, DatagramDropped, recvVars, diskVars
  <2> QED BY <1>3, <2>2, <2>3, <2>4, <2>5, <2>6, <2>7, <2>8, <2>9 DEF Deliver, ReceiverReceives
<1>4. CASE ReceiverTimer
  <2>1. CASE GapTimer
    BY <1>2, <2>1 DEF GapTimer, NackFails, recvVars, diskVars, Wrote
  <2>2. CASE IdleTimeout
    BY <1>2, <2>2 DEF IdleTimeout, Wrote
  <2>3. CASE LingerEnds
    BY <2>3, LingerLeaves DEF LingerEnds
  <2> QED BY <1>4, <2>1, <2>2, <2>3 DEF ReceiverTimer, Wrote
<1>5. CASE ReceiverUpset
  <2>1. CASE Stop
    BY <2>1, OpenHeader DEF Stop, DropTmp, Wrote, SystemInv, TypeOK
  <2>2. CASE Crash \/ Restart
    BY <2>2 DEF Crash, Restart, diskVars
  <2> QED BY <1>5, <2>1, <2>2 DEF ReceiverUpset, Wrote
<1>6. CASE NetworkStep \/ UNCHANGED vars \/ \E s \in Senders : SenderStep(s) \/ SenderUpset(s)
  BY <1>6 DEF NetworkStep, SenderStep, SenderUpset, vars, recvVars, diskVars
<1> QED BY <1>3, <1>4, <1>5, <1>6 DEF Next, Wrote

\* What finalize does: the file the sender was asked to send gets to the path
\* that was read from its INIT.
LEMMA SavingStep ==
    ASSUME SystemInv, NEW m, DoneSaves(m)
    PROVE  /\ rpc = "receiving" /\ from \in Senders
           /\ rpc' = "linger" /\ from' = from
           /\ saved' = saved \cup {from}
           /\ header.path \in Paths /\ tmp[header.path] = FileOf(from)
           /\ header.path = Path[from] \/ "misannounce" \in Env
           /\ header.total = Total[from]
           /\ Apart => /\ tmp' = [tmp EXCEPT ![header.path] = NoFile]
                       /\ final' = [final EXCEPT ![header.path] = FileOf(from)]
<1>1. /\ rpc = "receiving" /\ rpc' = "linger" /\ from' = from /\ saved' = saved \cup {from}
      /\ tmp[header.path] = FileOf(from) /\ RenameTmp(header.path)
  BY DEF DoneSaves, HashMatches, FromSender, ForgetTransfer
<1>2. from \in Senders /\ header \in HeadersFrom(from) /\ header.path \in Paths /\ DOMAIN disk = Names
  BY <1>1, OpenHeader DEF SystemInv, TypeOK, RecvTypeOK
<1>3. header.path = Path[from] \/ "misannounce" \in Env
  <2>1. Announced(from).path = Path[from]
    BY DEF Announced
  <2> QED BY <1>2, <2>1, HeadersTyped
<1>4. Apart => /\ tmp' = [tmp EXCEPT ![header.path] = NoFile]
              /\ final' = [final EXCEPT ![header.path] = tmp[header.path]]
  BY <1>1, <1>2, TmpRenamed
<1>5. header.total = Total[from]
  <2>1. DOMAIN tmp[header.path] = Slots
    BY <1>1 DEF SystemInv, TypeOK, RecvTypeOK
  <2>2. Slots = Chunks(from)
    BY <1>1, <2>1 DEF FileOf
  <2> QED BY <1>1, <1>2, <2>2, OpenHeader, ChunksNat DEF SystemInv, TypeOK
<1> QED BY <1>1, <1>2, <1>3, <1>4, <1>5

\* Final files, apart from the tmps, change in one step only, finalize.
LEMMA StoreSteps ==
    ASSUME Apart, SystemInv, [Next]_vars
    PROVE  \/ UNCHANGED <<final, saved>>
           \/ /\ rpc = "receiving" /\ from \in Senders
              /\ rpc' = "linger" /\ from' = from
              /\ saved' = saved \cup {from}
              /\ header.path \in Paths
              /\ header.path = Path[from] \/ "misannounce" \in Env
              /\ final' = [final EXCEPT ![header.path] = FileOf(from)]
              /\ UNCHANGED sendVars
<1>1. CASE UNCHANGED <<disk, saved>>
  BY <1>1 DEF final
<1>2. ASSUME NEW p \in Paths, NEW file, WriteTmp(p, file) PROVE UNCHANGED final
  BY <1>2, TmpWritten DEF SystemInv, TypeOK, RecvTypeOK
<1> QED BY <1>1, <1>2, DiskSteps, SavingStep

\* The set of saved senders only grows.
LEMMA SavedGrows ==
    ASSUME SystemInv, [Next]_vars
    PROVE  saved \subseteq saved'
BY DiskSteps, SavingStep

\* A transfer open after a step was open before with the same memory and tmp
\* file, or has just been opened, or has just stored a chunk.
LEMMA SessionSteps ==
    ASSUME SystemInv, [Next]_vars, rpc' = "receiving"
    PROVE  \/ UNCHANGED <<rpc, from, header, received, count, frontier, disk>>
           \/ \E m \in ArrivingAtReceiver : InitOpens(m) \/ DataStored(m)
<1>1. ASSUME NEW p, NEW file, Abandon(p, file) PROVE FALSE
  BY <1>1, AbandonLeaves
<1>2. ~AbandonOpen /\ ~LeaveLinger
  BY <1>1, LingerLeaves DEF AbandonOpen
<1>3. ASSUME NEW m \in ArrivingAtReceiver, Deliver(m), ~InitOpens(m), ~DataStored(m)
      PROVE  UNCHANGED <<rpc, from, header, received, count, frontier, disk>>
  <2>1. CASE DoneIncomplete(m)
    BY <1>2, <2>1 DEF DoneIncomplete, NackFails, recvVars, diskVars
  <2>2. CASE InitRejected(m) \/ InitAgain(m) \/ DataIgnored(m) \/ DoneInLinger(m) \/ DatagramDropped(m)
    BY <2>2 DEF InitRejected, InitAgain, DataIgnored, DoneInLinger, DatagramDropped, recvVars, diskVars
  <2>3. CASE InitUnanswered(m) \/ DataUnwritable(m) \/ DoneFails(m)
    BY <1>1, <1>2, <2>3 DEF InitUnanswered, DataUnwritable, DoneFails
  <2>4. CASE InitCannotSize(m)
    BY <2>4 DEF InitCannotSize
  <2>5. CASE DoneSaves(m) \/ FinAckArrives(m)
    BY <1>2, <2>5 DEF DoneSaves, FinAckArrives, ForgetTransfer
  <2> QED BY <1>3, <2>1, <2>2, <2>3, <2>4, <2>5 DEF Deliver, ReceiverReceives
<1>4. CASE ReceiverTimer
  BY <1>2, <1>4 DEF ReceiverTimer, GapTimer, NackFails, IdleTimeout, LingerEnds, recvVars, diskVars
<1>5. CASE ReceiverUpset
  BY <1>5 DEF ReceiverUpset, Stop, Crash, Restart, ForgetTransfer
<1>6. CASE NetworkStep \/ UNCHANGED vars \/ \E s \in Senders : SenderStep(s) \/ SenderUpset(s)
  BY <1>6 DEF NetworkStep, SenderStep, SenderUpset, vars, recvVars, diskVars
<1>7. CASE \E m \in ArrivingAtReceiver : Deliver(m)
  BY <1>3, <1>7
<1> QED BY <1>4, <1>5, <1>6, <1>7 DEF Next

-----------------------------------------------------------------------------
(* Files appear whole and stay. *)

FilesInv == SystemInv /\ FinalIsWhole

LEMMA FilesStep == Apart /\ FilesInv /\ [Next]_vars => FilesInv'
<1> SUFFICES ASSUME Apart, FilesInv, [Next]_vars PROVE FilesInv'
  OBVIOUS
<1> USE DEF FilesInv
<1>1. SystemInv'
  BY SystemStep
<1>2. \A s : FileOf(s)' = FileOf(s)
  BY DEF FileOf, Chunks, Body
<1>3. CASE UNCHANGED <<final, saved>>
  BY <1>1, <1>2, <1>3 DEF FinalIsWhole
<1>4. CASE /\ from \in Senders
           /\ saved' = saved \cup {from}
           /\ header.path \in Paths
           /\ header.path = Path[from] \/ "misannounce" \in Env
           /\ final' = [final EXCEPT ![header.path] = FileOf(from)]
  <2>1. DOMAIN final = Paths
    BY DEF final
  <2>2. /\ final'[header.path] = FileOf(from)
        /\ \A p \in Paths : p # header.path => final'[p] = final[p]
    BY <1>4, <2>1
  <2>3. from \in saved' /\ saved \subseteq saved'
    BY <1>4
  <2>4. FinalIsWhole'
    <3> SUFFICES ASSUME NEW p \in Paths
                 PROVE  final'[p] = NoFile
                        \/ \E s \in saved' : final'[p] = FileOf(s) /\ (Path[s] = p \/ "misannounce" \in Env)
      BY <1>2 DEF FinalIsWhole
    <3>1. CASE p = header.path
      BY <1>4, <2>2, <2>3, <3>1
    <3>2. CASE p # header.path
      BY <2>2, <2>3, <3>2 DEF FinalIsWhole
    <3> QED BY <3>1, <3>2
  <2> QED BY <1>1, <2>4
<1> QED BY <1>3, <1>4, StoreSteps

LEMMA FilesInit == Init => FilesInv
<1>1. Init => \A p \in Paths : final[p] = NoFile
  BY DEF Init, RecvInit, final, Names
<1> QED BY <1>1, SystemInit DEF FilesInv, FinalIsWhole

\* Whatever happens to datagrams, source files, disk and receiver, a file at a
\* final path is at every moment the whole file of one sender, of that name
\* unless the name in its INIT was damaged; provided no file is sent to the tmp
\* of another (Apart).
THEOREM FilesWhole ==
    ASSUME Apart
    PROVE  Spec => []FinalIsWhole
<1>1. FilesInv /\ [Next]_vars => FilesInv'
  BY FilesStep
<1>2. FilesInv => FinalIsWhole
  BY DEF FilesInv
<1> QED BY <1>1, <1>2, FilesInit, PTL DEF Spec

-----------------------------------------------------------------------------
(* A success report is true. *)

\* A sender whose file was saved finds at its path a whole file of that name.
SavedStay ==
    \A s \in saved : \E r \in saved : Path[r] = Path[s] /\ final[Path[s]] = FileOf(r)

\* The environments in which a success report is true: no bit is flipped in the
\* type of a datagram, and no INIT announces another file.
Reliable == {"mistype", "misannounce"} \cap Env = {}

LEMMA SavedStep ==
    ASSUME Apart, Reliable, SystemInv, SavedStay, [Next]_vars
    PROVE  SavedStay'
<1>1. \A s : FileOf(s)' = FileOf(s)
  BY DEF FileOf, Chunks, Body
<1>2. CASE UNCHANGED <<final, saved>>
  BY <1>1, <1>2 DEF SavedStay
<1>3. CASE /\ from \in Senders
           /\ saved' = saved \cup {from}
           /\ header.path = Path[from] \/ "misannounce" \in Env
           /\ final' = [final EXCEPT ![header.path] = FileOf(from)]
  <2>1. DOMAIN final = Paths /\ saved \subseteq Senders /\ header.path = Path[from]
    BY <1>3 DEF final, SystemInv, TypeOK, RecvTypeOK, Reliable
  <2>2. \A s \in Senders : Path[s] \in Paths
    BY FilesAssumption
  <2>3. /\ final'[Path[from]] = FileOf(from)
        /\ \A p \in Paths : p # Path[from] => final'[p] = final[p]
    BY <1>3, <2>1, <2>2
  <2>4. from \in saved' /\ saved \subseteq saved'
    BY <1>3
  <2> SUFFICES ASSUME NEW s \in saved'
               PROVE  \E r \in saved' : Path[r] = Path[s] /\ final'[Path[s]] = FileOf(r)
    BY <1>1 DEF SavedStay
  <2>5. CASE Path[s] = Path[from]
    BY <2>3, <2>4, <2>5
  <2>6. CASE Path[s] # Path[from]
    <3>1. s \in saved /\ Path[s] \in Paths
      BY <1>3, <2>1, <2>2, <2>6
    <3>2. PICK r \in saved : Path[r] = Path[s] /\ final[Path[s]] = FileOf(r)
      BY <3>1 DEF SavedStay
    <3> QED BY <2>3, <2>4, <2>6, <3>1, <3>2
  <2> QED BY <2>5, <2>6
<1> QED BY <1>2, <1>3, StoreSteps

\* Where the news that the file of s is saved can be.
NewsIsTrue ==
    /\ \A s \in Senders : \A m \in toSender[s] : m.typ = "FIN" => s \in saved
    /\ rpc = "linger" => from \in saved
    /\ \A s \in Senders : phase[s] = "completed" => s \in saved

TruthInv == SystemInv /\ SavedStay /\ NewsIsTrue

\* Damage makes a FIN of another datagram only by flipping a bit of its type.
LEMMA FinIsSent ==
    ASSUME "mistype" \notin Env, NEW s \in Senders, NEW m \in ArrivingAt(s), SawFin(m)
    PROVE  m \in toSender[s]
<1>1. ASSUME NEW o \in toSender[s], m \in DamagedToSender(s, o) PROVE FALSE
  BY <1>1 DEF DamagedToSender, SawFin, Nack
<1> QED BY <1>1 DEF ArrivingAt

\* ACKs and NACKs bring no FIN.
LEMMA NoFinReply ==
    ASSUME SystemInv, NEW t, NEW out, ReceiverReplies(t, out), \A d \in out : d.typ # "FIN",
           NEW s \in Senders, NEW m \in toSender'[s], m.typ = "FIN"
    PROVE  m \in toSender[s]
BY DEF ReceiverReplies, SystemInv, TypeOK, NetTypeOK

LEMMA NacksAreNacks ==
    \A lost, ks : \A d \in Nacks(lost, ks) : d.typ # "FIN"
BY DEF Nacks, Nack

\* A FIN is sent to a sender whose file is saved, and so is one to come.
LEMMA FinStep ==
    ASSUME SystemInv, [Next]_vars, NEW s \in Senders, NEW m \in toSender'[s], m.typ = "FIN"
    PROVE  m \in toSender[s] \/ (s = from /\ (rpc = "linger" \/ from \in saved'))
<1>1. CASE UNCHANGED toSender
  BY <1>1
<1>2. ASSUME NEW t \in Senders, SenderStep(t) \/ SenderUpset(t) PROVE m \in toSender[s]
  <2>1. UNCHANGED toSender \/ \E d : SenderTakes(t, d)
    BY <1>2 DEF SenderStep, SenderUpset, SenderReceives, Accepted, DrainFin, DrainNack, FeedbackFin,
                FeedbackNack, IgnoreFeedback, Complete, SenderProceeds, OfferFile, HandshakeFails,
                SendChunk, DrainEnd, SendDone, SenderTimeout, HandshakeTimeout, FeedbackTimeout,
                SenderFails, EditSource, netVars
  <2> QED BY <2>1 DEF SenderTakes, Remaining, SystemInv, TypeOK, NetTypeOK
<1>3. ASSUME NEW d \in ArrivingAtReceiver, Deliver(d)
      PROVE  m \in toSender[s] \/ (s = from /\ (rpc = "linger" \/ from \in saved'))
  <2>1. CASE DoneSaves(d) \/ DoneInLinger(d)
    BY <2>1 DEF DoneSaves, DoneInLinger, ReceiverReplies, SystemInv, TypeOK, NetTypeOK
  <2>2. CASE InitOpens(d) \/ InitAgain(d)
    BY <2>2, NoFinReply DEF InitOpens, InitAgain, Ack
  <2>3. CASE DoneIncomplete(d)
    BY <2>3, NacksAreNacks, NoFinReply DEF DoneIncomplete, SendNacks, NackFails
  <2>4. CASE UNCHANGED toSender
    BY <2>4
  <2> QED BY <1>3, <2>1, <2>2, <2>3, <2>4
          DEF Deliver, ReceiverReceives, InitRejected, InitCannotSize, InitUnanswered,
              DataStored, DataUnwritable, DataIgnored, DoneFails, FinAckArrives, DatagramDropped
<1>4. CASE ReceiverTimer
  BY <1>4, NacksAreNacks, NoFinReply DEF ReceiverTimer, GapTimer, IdleTimeout, LingerEnds,
                                         SendNacks, NackFails, netVars
<1>5. CASE ReceiverUpset
  BY <1>1, <1>5 DEF ReceiverUpset, Stop, Crash, Restart, netVars
<1>6. CASE NetworkStep
  BY <1>6 DEF NetworkStep, Lose, Repeat, SystemInv, TypeOK, NetTypeOK
<1> QED BY <1>1, <1>2, <1>3, <1>4, <1>5, <1>6 DEF Next, vars, netVars

\* The receiver lingers only after finalize has renamed the file into place.
LEMMA LingerStep ==
    ASSUME SystemInv, [Next]_vars, rpc' = "linger"
    PROVE  /\ from' = from
           /\ \/ rpc = "linger" /\ UNCHANGED disk
              \/ \E m \in ArrivingAtReceiver : DoneSaves(m)
<1> DEFINE Goal == /\ from' = from
                   /\ \/ rpc = "linger" /\ UNCHANGED disk
                      \/ \E m \in ArrivingAtReceiver : DoneSaves(m)
<1>a. ASSUME NEW p, NEW file, Abandon(p, file) PROVE FALSE
  BY <1>a, AbandonLeaves
<1>b. ~AbandonOpen /\ ~LeaveLinger
  BY <1>a, LingerLeaves DEF AbandonOpen
<1>1. ASSUME NEW m \in ArrivingAtReceiver, Deliver(m) PROVE Goal
  <2>1. CASE DoneSaves(m)
    BY <2>1 DEF DoneSaves, ForgetTransfer
  <2>2. CASE DoneIncomplete(m)
    BY <1>b, <2>2 DEF DoneIncomplete, NackFails, recvVars, diskVars
  <2>3. CASE InitUnanswered(m) \/ DataUnwritable(m) \/ DoneFails(m) \/ FinAckArrives(m)
    BY <1>a, <1>b, <2>3 DEF InitUnanswered, DataUnwritable, DoneFails, FinAckArrives
  <2>4. CASE InitOpens(m) \/ InitCannotSize(m) \/ DataStored(m)
    BY <2>4 DEF InitOpens, TransferOf, InitCannotSize, DataStored, FromSender
  <2>5. CASE InitRejected(m) \/ InitAgain(m) \/ DataIgnored(m) \/ DoneInLinger(m) \/ DatagramDropped(m)
    BY <2>5 DEF InitRejected, InitAgain, DataIgnored, DoneInLinger, DatagramDropped, recvVars, diskVars
  <2> QED BY <1>1, <2>1, <2>2, <2>3, <2>4, <2>5 DEF Deliver, ReceiverReceives
<1>2. CASE ReceiverTimer \/ ReceiverUpset
  BY <1>b, <1>2 DEF ReceiverTimer, GapTimer, NackFails, IdleTimeout, LingerEnds,
              ReceiverUpset, Stop, Crash, Restart, ForgetTransfer, recvVars, diskVars
<1>3. CASE NetworkStep \/ UNCHANGED vars \/ \E s \in Senders : SenderStep(s) \/ SenderUpset(s)
  BY <1>3 DEF NetworkStep, SenderStep, SenderUpset, vars, recvVars, diskVars
<1> QED BY <1>1, <1>2, <1>3 DEF Next

\* A sender reports success on a FIN that was sent to it, and in no other way.
LEMMA CompletedStep ==
    ASSUME SystemInv, [Next]_vars, "mistype" \notin Env,
           NEW s \in Senders, phase'[s] = "completed"
    PROVE  phase[s] = "completed" \/ \E m \in toSender[s] : m.typ = "FIN"
<1>1. CASE UNCHANGED sendVars
  BY <1>1 DEF sendVars
<1>2. ASSUME NEW t \in Senders, SenderStep(t) \/ SenderUpset(t)
      PROVE  phase[s] = "completed" \/ \E m \in toSender[s] : m.typ = "FIN"
  <2>1. CASE \E m \in ArrivingAt(t) : DrainFin(t, m) \/ FeedbackFin(t, m)
    <3>1. CASE s = t
      BY <2>1, <3>1, FinIsSent DEF DrainFin, FeedbackFin, SawFin
    <3>2. CASE s # t
      BY <2>1, <3>2 DEF DrainFin, FeedbackFin, Complete, Goto, SystemInv, TypeOK, SenderTypeOK
    <3> QED BY <3>1, <3>2
  <2>2. CASE UNCHANGED phase
    BY <2>2
  <2>3. ASSUME NEW p, Goto(t, p), p # "completed" PROVE phase[s] = "completed"
    BY <2>3 DEF Goto, SystemInv, TypeOK, SenderTypeOK
  <2>4. CASE SendChunk(t) \/ FeedbackTimeout(t)
    BY <2>3, <2>4 DEF SendChunk, FeedbackTimeout
  <2>5. CASE \/ \E m : Accepted(t, m)
             \/ OfferFile(t) \/ HandshakeFails(t) \/ HandshakeTimeout(t)
             \/ DrainEnd(t) \/ SendDone(t) \/ SenderFails(t)
    BY <2>3, <2>5 DEF Accepted, OfferFile, HandshakeFails, HandshakeTimeout, DrainEnd, SendDone,
                      SenderFails
  <2>6. CASE \/ \E m : DrainNack(t, m) \/ FeedbackNack(t, m) \/ IgnoreFeedback(t, m)
             \/ \E q \in Chunks(t) : EditSource(t, q)
    BY <2>2, <2>6 DEF DrainNack, FeedbackNack, IgnoreFeedback, EditSource, sendVars
  <2> QED BY <1>2, <2>1, <2>4, <2>5, <2>6
          DEF SenderStep, SenderUpset, SenderReceives, SenderProceeds, SenderTimeout
<1> QED BY <1>1, <1>2 DEF Next, vars, Deliver, ReceiverTimer, ReceiverUpset, NetworkStep

LEMMA NewsStep ==
    ASSUME "mistype" \notin Env, SystemInv, NewsIsTrue, [Next]_vars
    PROVE  NewsIsTrue'
<1>1. SystemInv' /\ saved \subseteq saved'
  BY SystemStep, SavedGrows
<1>2. ASSUME NEW s \in Senders, NEW m \in toSender'[s], m.typ = "FIN" PROVE s \in saved'
  BY <1>1, <1>2, FinStep DEF NewsIsTrue
<1>3. ASSUME rpc' = "linger" PROVE from' \in saved'
  BY <1>1, <1>3, LingerStep, SavingStep DEF NewsIsTrue
<1>4. ASSUME NEW s \in Senders, phase'[s] = "completed" PROVE s \in saved'
  BY <1>1, <1>4, CompletedStep DEF NewsIsTrue
<1> QED BY <1>2, <1>3, <1>4 DEF NewsIsTrue

LEMMA TruthStep == Apart /\ Reliable /\ TruthInv /\ [Next]_vars => TruthInv'
BY SystemStep, SavedStep, NewsStep DEF TruthInv, Reliable

LEMMA TruthInit == Init => TruthInv
BY SystemInit DEF Init, NetInit, SendInit, RecvInit, TruthInv, SavedStay, NewsIsTrue

\* A success report is true, whatever is lost, repeated, delayed, edited or
\* misnumbered, whatever damage the hashes look for, and whatever fails or
\* crashes: provided no type byte is damaged (which may make a FIN of an ACK),
\* no INIT is damaged besides its hash (the file may get to another name), and
\* no file is sent to the tmp of another (which may take it away).
THEOREM SuccessIsTrue ==
    ASSUME Apart, Reliable
    PROVE  Spec => []CompletedMeansSaved
<1>1. TruthInv => CompletedMeansSaved
  BY DEF TruthInv, SystemInv, TypeOK, RecvTypeOK, SavedStay, NewsIsTrue, CompletedMeansSaved
<1>2. TruthInv /\ [Next]_vars => TruthInv'
  BY TruthStep
<1> QED BY <1>1, <1>2, TruthInit, PTL DEF Spec

-----------------------------------------------------------------------------
(* udpcp implements FileDelivery. *)

\* A sender that has reported does nothing more: its phase changes before.
LEMMA PhaseSteps ==
    ASSUME [Next]_vars
    PROVE  UNCHANGED phase \/ \E s \in Senders : \E p : Goto(s, p) /\ ~Terminated(s)
<1>1. ASSUME NEW s \in Senders, SenderStep(s) \/ SenderUpset(s)
      PROVE  UNCHANGED phase \/ \E p : Goto(s, p) /\ ~Terminated(s)
  <2>1. CASE \E m : DrainFin(s, m) \/ FeedbackFin(s, m)
    BY <2>1 DEF DrainFin, FeedbackFin, Complete, Terminated
  <2>2. CASE SendChunk(s) \/ FeedbackTimeout(s)
    BY <2>2 DEF SendChunk, FeedbackTimeout, Terminated
  <2>3. CASE \/ \E m : Accepted(s, m)
             \/ OfferFile(s) \/ HandshakeFails(s) \/ HandshakeTimeout(s)
             \/ DrainEnd(s) \/ SendDone(s) \/ SenderFails(s)
    BY <2>3 DEF Accepted, OfferFile, HandshakeFails, HandshakeTimeout, DrainEnd, SendDone,
                SenderFails, Terminated
  <2>4. CASE \/ \E m : DrainNack(s, m) \/ FeedbackNack(s, m) \/ IgnoreFeedback(s, m)
             \/ \E q \in Chunks(s) : EditSource(s, q)
    BY <2>4 DEF DrainNack, FeedbackNack, IgnoreFeedback, EditSource, sendVars
  <2> QED BY <1>1, <2>1, <2>2, <2>3, <2>4
          DEF SenderStep, SenderUpset, SenderReceives, SenderProceeds, SenderTimeout
<1>2. CASE UNCHANGED sendVars
  BY <1>2 DEF sendVars
<1> QED BY <1>1, <1>2 DEF Next, vars, Deliver, ReceiverTimer, ReceiverUpset, NetworkStep

LEMMA PromiseInit == Init => Promise!Init
BY DEF Init, NetInit, SendInit, RecvInit, Promise!Init, Outcome, Terminated, final, Names

\* Every step saves a file, reports the outcome of one sender, or shows nothing.
LEMMA PromiseStep ==
    ASSUME Apart, Reliable, TruthInv, [Next]_vars
    PROVE  [Promise!Next]_(Promise!vars)
<1> DEFINE Content == [s \in Senders |-> FileOf(s)]
<1>1. SystemInv /\ phase \in [Senders -> Phases]
  BY DEF TruthInv, SystemInv, TypeOK, SenderTypeOK
<1>2. CASE /\ from \in Senders
           /\ saved' = saved \cup {from}
           /\ final' = [final EXCEPT ![Path[from]] = FileOf(from)]
           /\ UNCHANGED sendVars
  <2>1. Outcome' = Outcome
    BY <1>2 DEF sendVars, Outcome, Terminated
  <2>2. Content[from] = FileOf(from)
    BY <1>2
  <2>3. Promise!Save(from)
    BY <1>2, <2>1, <2>2 DEF Promise!Save
  <2> QED BY <1>2, <2>3 DEF Promise!Next
<1>3. CASE UNCHANGED <<final, saved>> /\ UNCHANGED phase
  <2>1. Outcome' = Outcome
    BY <1>3 DEF Outcome, Terminated
  <2> QED BY <1>3, <2>1 DEF Promise!vars
<1>4. ASSUME UNCHANGED <<final, saved>>, NEW s \in Senders, NEW p, Goto(s, p), ~Terminated(s)
      PROVE  [Promise!Next]_(Promise!vars)
  <2>1. /\ phase' = [phase EXCEPT ![s] = p] /\ phase'[s] = p
        /\ \A t \in Senders : t # s => phase'[t] = phase[t]
    BY <1>1, <1>4 DEF Goto
  <2>2. Outcome[s] = "running"
    BY <1>4 DEF Outcome
  <2>3. CASE p \in {"completed", "failed"}
    <3>1. Outcome' = [Outcome EXCEPT ![s] = p]
      BY <2>1, <2>3 DEF Outcome, Terminated
    <3>2. Promise!Report(s, p)
      BY <1>4, <2>2, <3>1 DEF Promise!Report
    <3>3. p = "completed" => s \in saved
      BY <1>1, <1>4, <2>1, CompletedStep DEF Terminated, TruthInv, NewsIsTrue, Reliable
    <3> QED BY <2>3, <3>2, <3>3 DEF Promise!Next, Promise!Succeed, Promise!GiveUp
  <2>4. CASE p \notin {"completed", "failed"}
    <3>1. Outcome' = Outcome
      BY <1>4, <2>1, <2>4 DEF Outcome, Terminated
    <3> QED BY <1>4, <3>1 DEF Promise!vars
  <2> QED BY <2>3, <2>4
<1>5. header.path = Path[from] \/ "misannounce" \in Env => header.path = Path[from]
  BY DEF Reliable
<1> QED BY <1>1, <1>2, <1>3, <1>4, <1>5, StoreSteps, PhaseSteps

\* The system implements FileDelivery, under the assumptions of SuccessIsTrue:
\* files appear whole and at once, and a sender reports once, and success only
\* for a file that has appeared.
THEOREM PromiseKept ==
    ASSUME Apart, Reliable
    PROVE  Spec => KeepsPromise
<1>1. TruthInv /\ [Next]_vars => TruthInv'
  BY TruthStep
<1>2. TruthInv /\ [Next]_vars => [Promise!Next]_(Promise!vars)
  BY PromiseStep
<1> QED BY <1>1, <1>2, TruthInit, PromiseInit, PTL DEF Spec, KeepsPromise, Promise!Spec


-----------------------------------------------------------------------------
(* A transfer is kept. *)

\* The receiver turns to another sender, or starts over, only after it has let
\* go of the sender it had (see SessionKept), in every environment.
THEOREM SessionsKept == Spec => SessionKept
<1>1. ASSUME SystemInv, SystemInv', [Next]_vars, from # NoSender, from' # NoSender
      PROVE  /\ from' = from
             /\ rpc = "linger" => rpc' = "linger"
             /\ rpc' = "receiving" => received \subseteq received'
  <2>1. rpc \in {"receiving", "linger"} /\ rpc' \in {"receiving", "linger"}
    BY <1>1 DEF SystemInv, TypeOK, RecvTypeOK
  <2>2. CASE rpc' = "linger"
    BY <1>1, <2>2, LingerStep
  <2>3. CASE rpc' = "receiving"
    BY <1>1, <2>1, <2>3, SessionSteps DEF InitOpens, DataStored, FromSender
  <2> QED BY <2>1, <2>2, <2>3
<1>2. SystemInv /\ SystemInv' /\ [Next]_vars =>
          [from # NoSender => \/ from' = NoSender
                              \/ from' = from /\ (rpc = "linger" => rpc' = "linger")
                                              /\ (rpc' = "receiving" => received \subseteq received')]_vars
  BY <1>1
<1> QED BY <1>2, SystemCorrect, PTL DEF Spec, SessionKept

\* A chunk once stored is never written again while the transfer is open
\* (see StoredChunksStay), whatever arrives.
THEOREM ChunksStay == Spec => StoredChunksStay
<1>1. ASSUME SystemInv, [Next]_vars, rpc = "receiving", rpc' = "receiving", NEW q \in received
      PROVE  q \in received' /\ tmp'[header.path][q] = tmp[header.path][q]
  <2>1. CASE UNCHANGED <<received, disk>>
    BY <2>1 DEF tmp
  <2>2. ASSUME NEW m, DataStored(m)
        PROVE  q \in received' /\ tmp'[header.path][q] = tmp[header.path][q]
    <3>1. q # m.seq /\ q \in received'
      BY <2>2 DEF DataStored, Storable
    <3>2. /\ q \in Slots /\ tmp[header.path] \in [Slots -> Bodies] /\ DOMAIN disk = Names
          /\ header.path \in Paths
      BY <1>1, OpenHeader DEF SystemInv, TypeOK, RecvTypeOK
    <3>3. DOMAIN tmp = Paths
      BY DEF tmp
    <3>4. tmp' = [tmp EXCEPT ![header.path] = [tmp[header.path] EXCEPT ![m.seq] = m.body]]
      BY <2>2, <3>2, TmpWritten DEF DataStored
    <3> QED BY <3>1, <3>2, <3>3, <3>4
  <2> QED BY <1>1, <2>1, <2>2, SessionSteps DEF InitOpens
<1>2. SystemInv /\ [Next]_vars =>
          [rpc = "receiving" /\ rpc' = "receiving" =>
               \A q \in received : q \in received' /\ tmp'[header.path][q] = tmp[header.path][q]]_vars
  BY <1>1
<1> QED BY <1>2, SystemCorrect, PTL DEF Spec, StoredChunksStay

-----------------------------------------------------------------------------
(* Memory and tmp file agree. *)

\* Damage changes what a datagram carries, not whose it is.
BodiesOwned == \A m \in toReceiver : m.body[1] \in {NoSender, m.from}

AgreeInv == SystemInv /\ BodiesOwned /\ SessionAgrees

LEMMA ArrivingOwned ==
    ASSUME SystemInv, BodiesOwned, NEW d \in ArrivingAtReceiver
    PROVE  d.body[1] \in {NoSender, d.from}
<1>1. CASE d \in toReceiver
  BY <1>1 DEF BodiesOwned
<1>2. ASSUME NEW m \in toReceiver, d \in DamagedToReceiver(m)
      PROVE  d.body[1] \in {NoSender, d.from}
  <2>1. m \in ReceiverDatagrams /\ m.body[1] \in {NoSender, m.from}
    BY DEF BodiesOwned, SystemInv, TypeOK, NetTypeOK
  <2>2. CASE d = [m EXCEPT !.body = <<m.body[1], m.body[2], "garbled">>]
    BY <2>1, <2>2 DEF ReceiverDatagrams
  <2>3. CASE \/ \E q \in 0..Total[m.from] : d = [m EXCEPT !.seq = q]
             \/ \E t \in PacketTypes : d = [m EXCEPT !.typ = t]
    BY <2>1, <2>3 DEF ReceiverDatagrams
  <2> QED BY <1>2, <2>2, <2>3 DEF DamagedToReceiver
<1> QED BY <1>1, <1>2 DEF ArrivingAtReceiver

\* What is new under way to the receiver was sent in this step.
LEMMA SentSteps ==
    ASSUME SystemInv, [Next]_vars, NEW m \in toReceiver', m \notin toReceiver
    PROVE  \E s \in Senders :
               \/ m \in {InitOf(s), Done(s), FinAck(s)}
               \/ SendChunk(s) /\ m = Data(s, Head(pending[s]), SourceState(s, Head(pending[s])))
<1>1. ASSUME NEW s \in Senders, SenderStep(s) \/ SenderUpset(s)
      PROVE  \/ m \in {InitOf(s), Done(s), FinAck(s)}
             \/ SendChunk(s) /\ m = Data(s, Head(pending[s]), SourceState(s, Head(pending[s])))
  <2>1. CASE OfferFile(s) \/ SendDone(s) \/ SendChunk(s)
    BY <2>1 DEF OfferFile, SendDone, SendChunk, SenderSends
  <2>2. CASE \E d : DrainFin(s, d) \/ FeedbackFin(s, d)
    BY <2>2 DEF DrainFin, FeedbackFin, Complete, SenderSends
  <2>3. CASE UNCHANGED toReceiver
    BY <2>3
  <2> QED BY <1>1, <2>1, <2>2, <2>3
          DEF SenderStep, SenderUpset, SenderReceives, Accepted, DrainNack, FeedbackNack,
              IgnoreFeedback, SenderProceeds, HandshakeFails, DrainEnd, SenderTimeout,
              HandshakeTimeout, FeedbackTimeout, SenderFails, EditSource, netVars
<1>2. CASE \E d \in ArrivingAtReceiver : Deliver(d)
  <2>1. \E d : ReceiverTakes(d)
    BY <1>2 DEF Deliver, ReceiverReceives, InitOpens, InitRejected, InitCannotSize, InitAgain,
          InitUnanswered, DataStored, DataUnwritable, DataIgnored, DoneIncomplete, DoneSaves,
          DoneFails, FinAckArrives, DoneInLinger, DatagramDropped
  <2> QED BY <2>1 DEF ReceiverTakes, Remaining
<1>3. CASE ReceiverTimer \/ ReceiverUpset \/ UNCHANGED vars
  BY <1>3 DEF ReceiverTimer, GapTimer, IdleTimeout, LingerEnds, ReceiverUpset, Stop, Crash, Restart,
              vars, netVars
<1>4. CASE NetworkStep
  BY <1>4 DEF NetworkStep, Lose, Repeat
<1> QED BY <1>1, <1>2, <1>3, <1>4 DEF Next

\* A chunk is stored: the bitmap, the count, the frontier and the file all take it up.
LEMMA StoredAgrees ==
    ASSUME SystemInv, SessionAgrees, NEW m, m.body[1] \in {NoSender, m.from}, m.seq \in Nat,
           DataStored(m)
    PROVE  SessionAgrees'
<1> DEFINE file == tmp[header.path]
<1>1. /\ from \in Senders /\ UNCHANGED <<from, header>> /\ received \subseteq Slots
      /\ file \in [Slots -> Bodies] /\ header.path \in Paths /\ DOMAIN tmp = Paths
      /\ header.total \in Nat /\ frontier \in Nat /\ count = Cardinality(received)
  BY OpenHeader
     DEF DataStored, FromSender, SessionAgrees, SystemInv, TypeOK, RecvTypeOK, tmp
<1>2. /\ m.from = from /\ m.body[1] = from /\ m.seq \in Slots /\ m.seq \notin received
  BY <1>1, SendersAssumption
     DEF DataStored, FromSender, Heard, Storable, HasLengthOf, Slots
<1>3. m.body # NoBody
  BY <1>1, <1>2, SendersAssumption DEF NoBody
<1>4. tmp'[header.path] = [file EXCEPT ![m.seq] = m.body]
  <2>1. tmp' = [tmp EXCEPT ![header.path] = [file EXCEPT ![m.seq] = m.body]]
    BY <1>1, TmpWritten DEF DataStored, SystemInv, TypeOK, RecvTypeOK
  <2> QED BY <1>1, <2>1
<1>5. \A q \in Slots : tmp'[header.path][q] = IF q = m.seq THEN m.body ELSE file[q]
  BY <1>1, <1>4
<1>6. received' = received \cup {m.seq} /\ count' = count + 1 /\ rpc' = rpc /\ rpc = "receiving"
  BY DEF DataStored, FromSender
<1> HIDE DEF file
<1>7. \A q \in Slots : q \in received' <=> tmp'[header.path][q] # NoBody
  BY <1>1, <1>2, <1>3, <1>5, <1>6 DEF SessionAgrees, file
<1>8. \A q \in received' : tmp'[header.path][q][1] = from
  <2>1. \A q \in received : file[q][1] = from
    BY <1>6 DEF SessionAgrees, file
  <2> QED BY <1>1, <1>2, <1>5, <1>6, <2>1
<1>9. count' = Cardinality(received')
  <2>1. IsFiniteSet(received)
    BY <1>1, <1>6, OpenHeader, FS_Subset DEF SystemInv, TypeOK
  <2> QED BY <1>1, <1>2, <1>6, <2>1, FS_AddElement
<1>10. (\A q \in received' : q < frontier') /\ (frontier' = 0 \/ frontier' - 1 \in received')
  <2>1. (\A q \in received : q < frontier) /\ (frontier = 0 \/ frontier - 1 \in received)
    BY <1>6 DEF SessionAgrees
  <2>2. (\A q \in received : q \in Nat) /\ m.seq \in Nat
    BY <1>1, <1>2, <1>6, OpenHeader DEF SystemInv, TypeOK
  <2>3. frontier' = IF m.seq + 1 > frontier THEN m.seq + 1 ELSE frontier
    BY DEF DataStored, FrontierWith
  <2> QED BY <1>1, <1>6, <2>1, <2>2, <2>3
<1>11. Slots' = Slots /\ NoBody' = NoBody
  BY <1>1 DEF Slots, NoBody
<1> QED BY <1>1, <1>7, <1>8, <1>9, <1>10, <1>11 DEF SessionAgrees

LEMMA OpenedAgrees ==
    ASSUME SystemInv, NEW m \in ReceiverDatagrams, InitOpens(m)
    PROVE  SessionAgrees'
<1>1. PICK h \in HeadersFrom(m.from) : TransferOf(m, h) /\ WriteTmp(h.path, Blank(h.total))
  BY DEF InitOpens, Sized
<1>2. h.path \in Paths /\ DOMAIN tmp = Paths
  BY HeadersTyped DEF ReceiverDatagrams, tmp
<1>3. tmp'[h.path] = Blank(h.total)
  BY <1>1, <1>2, TmpWritten DEF SystemInv, TypeOK, RecvTypeOK
<1>4. \A q \in 0..(h.total - 1) : tmp'[h.path][q] = NoBody
  BY <1>3 DEF Blank
<1>5. header' = h /\ received' = {} /\ count' = 0 /\ frontier' = 0
  BY <1>1 DEF TransferOf
<1>6. Cardinality({}) = 0
  BY FS_EmptySet
<1> QED BY <1>4, <1>5, <1>6 DEF SessionAgrees, Slots, NoBody

LEMMA AgreeStep == AgreeInv /\ [Next]_vars => AgreeInv'
<1> SUFFICES ASSUME AgreeInv, [Next]_vars PROVE AgreeInv'
  OBVIOUS
<1> USE DEF AgreeInv
<1>1. SystemInv'
  BY SystemStep
<1>2. BodiesOwned'
  <2>1. ASSUME NEW m \in toReceiver', m \notin toReceiver PROVE m.body[1] \in {NoSender, m.from}
    BY <2>1, SentSteps DEF InitOf, Done, FinAck, Data, NoBody, Body
  <2> QED BY <2>1 DEF BodiesOwned
<1>3. SessionAgrees'
  <2>1. CASE rpc' # "receiving"
    BY <2>1 DEF SessionAgrees
  <2>2. CASE UNCHANGED <<rpc, from, header, received, count, frontier, disk>>
    BY <2>2 DEF SessionAgrees, Slots, tmp, NoBody
  <2>3. ASSUME NEW m \in ArrivingAtReceiver, InitOpens(m) \/ DataStored(m) PROVE SessionAgrees'
    <3>1. m \in ReceiverDatagrams /\ m.seq \in Nat
      BY ArrivingTyped DEF SystemInv, TypeOK, ReceiverDatagrams
    <3>2. m.body[1] \in {NoSender, m.from}
      BY ArrivingOwned
    <3> QED BY <2>3, <3>1, <3>2, OpenedAgrees, StoredAgrees
  <2> QED BY <2>1, <2>2, <2>3, SessionSteps
<1> QED BY <1>1, <1>2, <1>3

LEMMA AgreeInit == Init => AgreeInv
BY SystemInit DEF Init, NetInit, RecvInit, AgreeInv, BodiesOwned, SessionAgrees

\* The bitmap, the count, the frontier and the tmp file of an open transfer
\* agree (see SessionAgrees), in every environment, damage included.
THEOREM SessionsAgree == Spec => []SessionAgrees
<1>1. AgreeInv => SessionAgrees
  BY DEF AgreeInv
<1> QED BY <1>1, AgreeInit, AgreeStep, PTL DEF Spec

-----------------------------------------------------------------------------
(* What is stored is what was read. *)

\* What the sender of m may have read for chunk q.
Readings(s, q) == {Body(s, q, "good")} \cup (IF "edit" \in Env THEN {Body(s, q, "stale")} ELSE {})

\* The environments in which a DATA datagram that passes for undamaged is undamaged.
Detectable == {"misnumber", "mistype"} \cap Env = {} /\ ("garble" \in Env => Verify)

DataTrue == \A m \in toReceiver : m.typ = "DATA" => m.body \in Readings(m.from, m.seq)
StoredTrue == rpc = "receiving" => \A q \in received : tmp[header.path][q] \in Readings(from, q)
SourceTrue == "edit" \notin Env => \A s \in Senders : edited[s] = {}

ReadInv == AgreeInv /\ DataTrue /\ StoredTrue /\ SourceTrue

\* A DATA that arrives and passes verified_body carries what its sender read.
LEMMA ArrivingTrue ==
    ASSUME Detectable, SystemInv, DataTrue,
           NEW d \in ArrivingAtReceiver, d.typ = "DATA", Verified(d)
    PROVE  d.body \in Readings(d.from, d.seq)
<1>1. CASE d \in toReceiver
  BY <1>1 DEF DataTrue
<1>2. ASSUME NEW m \in toReceiver, d \in DamagedToReceiver(m)
      PROVE  FALSE
  <2>1. d = [m EXCEPT !.body = <<m.body[1], m.body[2], "garbled">>] /\ "garble" \in Env
    BY <1>2 DEF DamagedToReceiver, Detectable
  <2>2. m \in ReceiverDatagrams
    BY DEF SystemInv, TypeOK, NetTypeOK
  <2>3. d.body[3] = "garbled"
    BY <2>1, <2>2 DEF ReceiverDatagrams
  <2> QED BY <2>1, <2>3 DEF Verified, Detectable
<1> QED BY <1>1, <1>2 DEF ArrivingAtReceiver

LEMMA ReadStep == Detectable /\ ReadInv /\ [Next]_vars => ReadInv'
<1> SUFFICES ASSUME Detectable, ReadInv, [Next]_vars PROVE ReadInv'
  OBVIOUS
<1> USE DEF ReadInv
<1>1. AgreeInv' /\ SystemInv
  BY AgreeStep DEF AgreeInv
<1>2. \A s, q : Readings(s, q)' = Readings(s, q)
  BY DEF Readings, Body
<1>3. DataTrue'
  <2>1. ASSUME NEW m \in toReceiver', m \notin toReceiver, m.typ = "DATA"
        PROVE  m.body \in Readings(m.from, m.seq)
    <3>1. PICK s \in Senders : m = Data(s, Head(pending[s]), SourceState(s, Head(pending[s])))
      BY <1>1, <2>1, SentSteps DEF InitOf, Done, FinAck
    <3> DEFINE q == Head(pending[s])
    <3>2. m.from = s /\ m.seq = q /\ m.body = Body(s, q, SourceState(s, q))
      BY <3>1 DEF Data
    <3> QED BY <3>2 DEF Readings, SourceState, SourceTrue
  <2> QED BY <1>2, <2>1 DEF DataTrue
<1>4. SourceTrue'
  BY DEF SourceTrue, Next, vars, sendVars, SenderStep, SenderUpset, SenderReceives, Accepted,
         DrainFin, DrainNack, FeedbackFin, FeedbackNack, IgnoreFeedback, Complete, SenderProceeds,
         OfferFile, HandshakeFails, SendChunk, DrainEnd, SendDone, SenderTimeout, HandshakeTimeout,
         FeedbackTimeout, SenderFails, EditSource, Deliver, ReceiverTimer, ReceiverUpset, NetworkStep
<1>5. StoredTrue'
  <2>1. CASE rpc' # "receiving"
    BY <2>1 DEF StoredTrue
  <2>2. CASE UNCHANGED <<rpc, from, header, received, disk>>
    BY <1>2, <2>2 DEF StoredTrue, tmp
  <2>3. ASSUME NEW m \in ArrivingAtReceiver, InitOpens(m) PROVE StoredTrue'
    BY <2>3 DEF InitOpens, TransferOf, StoredTrue
  <2>4. ASSUME NEW m \in ArrivingAtReceiver, DataStored(m) PROVE StoredTrue'
    <3>1. /\ from \in Senders /\ received \subseteq Slots /\ header.path \in Paths
          /\ tmp[header.path] \in [Slots -> Bodies] /\ DOMAIN tmp = Paths /\ header.total \in Nat
      BY <1>1, <2>4, OpenHeader DEF DataStored, FromSender, SystemInv, TypeOK, RecvTypeOK, tmp
    <3>2. m.seq \in Slots /\ m.from = from /\ m.body \in Readings(from, m.seq)
      <4>1. m \in ReceiverDatagrams
        BY <1>1, ArrivingTyped DEF SystemInv, TypeOK
      <4>2. m.from = from
        BY <2>4, <3>1, SendersAssumption DEF DataStored, FromSender, Heard
      <4> QED BY <1>1, <2>4, <3>1, <4>1, <4>2, ArrivingTrue
              DEF DataStored, Storable, Slots, ReceiverDatagrams
    <3>3. tmp'[header.path] = [tmp[header.path] EXCEPT ![m.seq] = m.body]
      <4>1. tmp' = [tmp EXCEPT ![header.path] = [tmp[header.path] EXCEPT ![m.seq] = m.body]]
        BY <1>1, <2>4, <3>1, TmpWritten DEF DataStored, SystemInv, TypeOK, RecvTypeOK
      <4> QED BY <3>1, <4>1
    <3>4. \A q \in received' : tmp'[header.path][q] \in Readings(from, q)
      BY <2>4, <3>1, <3>2, <3>3 DEF DataStored, FromSender, StoredTrue
    <3> QED BY <1>2, <2>4, <3>4 DEF StoredTrue, DataStored
  <2> QED BY <1>1, <2>1, <2>2, <2>3, <2>4, SessionSteps
<1> QED BY <1>1, <1>3, <1>4, <1>5

LEMMA ReadInit == Init => ReadInv
BY AgreeInit DEF Init, NetInit, SendInit, RecvInit, ReadInv, DataTrue, StoredTrue, SourceTrue

\* A transfer with as many chunks stored as the file has is whole.
LEMMA WholeLemma ==
    ASSUME ReadInv, {"edit", "misannounce"} \cap Env = {}
    PROVE  FullMeansWhole
<1> SUFFICES ASSUME rpc = "receiving", Full PROVE tmp[header.path] = FileOf(from)
  BY DEF FullMeansWhole
<1>0. from \in Senders /\ header = Announced(from)
  BY OpenHeader, HeadersTyped DEF ReadInv, AgreeInv, SystemInv, TypeOK
<1>1. /\ from \in Senders /\ received \subseteq Chunks(from) /\ header.total = Total[from]
      /\ tmp[header.path] \in [Chunks(from) -> Bodies] /\ count = Cardinality(received)
  <2>1. Slots = Chunks(from) /\ header.total = Total[from]
    BY <1>0 DEF Announced, Slots, Chunks
  <2> QED BY <1>0, <2>1 DEF ReadInv, AgreeInv, SessionAgrees, SystemInv, TypeOK, RecvTypeOK
<1>2. Cardinality(received) = Cardinality(Chunks(from)) /\ IsFiniteSet(Chunks(from))
  BY <1>1, ChunksNat DEF Full
<1>3. received = Chunks(from)
  BY <1>1, <1>2, FS_Subset
<1>4. \A q \in Chunks(from) : tmp[header.path][q] = Body(from, q, "good")
  BY <1>3 DEF ReadInv, StoredTrue, Readings
<1> QED BY <1>1, <1>4 DEF FileOf

\* A tmp file with every chunk in is the sender's file (see FullMeansWhole),
\* whatever is lost, repeated or reordered, and whatever crashes or fails: if
\* the source is not edited, no datagram is damaged in its header nor an INIT
\* besides its hash, and a DATA only under --verify.
THEOREM FullIsWhole ==
    ASSUME Detectable, {"edit", "misannounce"} \cap Env = {}
    PROVE  Spec => []FullMeansWhole
<1>1. ReadInv /\ [Next]_vars => ReadInv'
  BY ReadStep
<1>2. ReadInv => FullMeansWhole
  BY WholeLemma
<1> QED BY <1>1, <1>2, ReadInit, PTL DEF Spec

\* With --verify every chunk stored is what the sender read for it (see
\* VerifyDetects), unless a seq field or a type byte is damaged, which the hash
\* does not cover.
THEOREM VerifyWorks ==
    ASSUME {"misnumber", "mistype"} \cap Env = {}
    PROVE  Spec => []VerifyDetects
<1>1. CASE Verify
  <2>1. ReadInv /\ [Next]_vars => ReadInv'
    BY <1>1, ReadStep DEF Detectable
  <2>2. ReadInv => VerifyDetects
    BY DEF ReadInv, StoredTrue, Readings, VerifyDetects
  <2> QED BY <2>1, <2>2, ReadInit, PTL DEF Spec
<1>2. CASE ~Verify
  <2>1. VerifyDetects
    BY <1>2 DEF VerifyDetects
  <2> QED BY <2>1, PTL
<1> QED BY <1>1, <1>2

-----------------------------------------------------------------------------
(* No tmp file is left behind. *)

\* A transfer that is dropped takes its tmp file, the only one there is, with it.
LEMMA NothingLeft ==
    ASSUME NoTmpLeftBehind, NEW p \in Paths,
           rpc = "receiving" => p = header.path,
           tmp' = [tmp EXCEPT ![p] = NoFile]
    PROVE  NoTmpLeftBehind'
<1>1. \A q \in Paths : q # p => tmp[q] = NoFile
  BY DEF NoTmpLeftBehind
<1>2. DOMAIN tmp = Paths
  BY DEF tmp
<1>3. \A q \in Paths : tmp'[q] = NoFile
  BY <1>1, <1>2
<1> QED BY <1>3 DEF NoTmpLeftBehind

\* Writing the tmp of a transfer that is then open leaves no other.
LEMMA OneWritten ==
    ASSUME NoTmpLeftBehind, NEW p \in Paths, NEW file,
           rpc = "receiving" => p = header.path,
           rpc' = "receiving", header'.path = p,
           tmp' = [tmp EXCEPT ![p] = file]
    PROVE  NoTmpLeftBehind'
<1>1. \A q \in Paths : q # p => tmp[q] = NoFile
  BY DEF NoTmpLeftBehind
<1>2. DOMAIN tmp = Paths
  BY DEF tmp
<1>3. \A q \in Paths : q # p => tmp'[q] = NoFile
  BY <1>1, <1>2
<1> QED BY <1>3 DEF NoTmpLeftBehind

\* The environments in which a transfer can always remove its tmp file.
Removable == {"crash", "nospace", "unremovable"} \cap Env = {}

LEMMA TmpStep ==
    Apart /\ Removable /\ SystemInv /\ NoTmpLeftBehind /\ [Next]_vars => NoTmpLeftBehind'
<1> SUFFICES ASSUME Apart, Removable, SystemInv, NoTmpLeftBehind, [Next]_vars
             PROVE  NoTmpLeftBehind'
  OBVIOUS
<1>1. DOMAIN disk = Names /\ (rpc = "receiving" => header.path \in Paths)
  BY OpenHeader DEF SystemInv, TypeOK, RecvTypeOK
<1>2. CASE UNCHANGED <<rpc, header, disk>>
  BY <1>2 DEF NoTmpLeftBehind, tmp
<1>3. CASE UNCHANGED disk /\ rpc # "receiving"
  BY <1>3 DEF NoTmpLeftBehind, tmp
<1>4. ASSUME NEW p \in Paths, rpc = "receiving" => p = header.path, NEW file, DropTmp(p, file)
      PROVE  NoTmpLeftBehind'
  BY <1>1, <1>4, TmpDropped, NothingLeft DEF Removable
<1>5. ASSUME rpc = "receiving", AbandonOpen PROVE NoTmpLeftBehind'
  BY <1>1, <1>4, <1>5, AbandonLeaves DEF AbandonOpen
<1>6. ASSUME NEW m \in ArrivingAtReceiver, Deliver(m) PROVE NoTmpLeftBehind'
  <2>1. m.from \in Senders
    BY ArrivingTyped DEF SystemInv, TypeOK, ReceiverDatagrams
  <2>2. CASE InitOpens(m)
    <3>1. PICK h \in HeadersFrom(m.from) : TransferOf(m, h) /\ WriteTmp(h.path, Sized(h))
      BY <2>2 DEF InitOpens
    <3>2. h.path \in Paths /\ rpc # "receiving" /\ rpc' = "receiving" /\ header'.path = h.path
      BY <2>1, <2>2, <3>1, HeadersTyped DEF InitOpens, TransferOf
    <3> QED BY <1>1, <3>1, <3>2, TmpWritten, OneWritten
  <2>3. CASE DataStored(m)
    <3>1. /\ rpc = "receiving" /\ rpc' = "receiving" /\ UNCHANGED header
          /\ WriteTmp(header.path, [tmp[header.path] EXCEPT ![m.seq] = m.body])
      BY <2>3 DEF DataStored, FromSender
    <3>2. tmp' = [tmp EXCEPT ![header.path] = [tmp[header.path] EXCEPT ![m.seq] = m.body]]
      BY <1>1, <3>1, TmpWritten
    <3> QED BY <1>1, <3>1, <3>2, OneWritten
  <2>4. CASE DoneSaves(m)
    <3>1. header.path \in Paths /\ tmp' = [tmp EXCEPT ![header.path] = NoFile]
      BY <2>4, SavingStep
    <3> QED BY <3>1, NothingLeft
  <2>5. CASE InitUnanswered(m)
    <3>1. CASE rpc = "receiving" /\ AbandonOpen
      BY <1>5, <3>1
    <3>2. CASE rpc = "listening" /\ \E h \in HeadersFrom(m.from) : Abandon(h.path, Sized(h))
      BY <1>4, <2>1, <3>2, AbandonLeaves, HeadersTyped
    <3> QED BY <2>5, <3>1, <3>2 DEF InitUnanswered
  <2>6. CASE DataUnwritable(m) \/ DoneFails(m)
    BY <1>5, <2>6 DEF DataUnwritable, DoneFails, FromSender
  <2>7. CASE DoneIncomplete(m)
    BY <1>2, <1>5, <2>7 DEF DoneIncomplete, NackFails, FromSender, recvVars, diskVars
  <2>8. CASE FinAckArrives(m)
    BY <1>3, <2>8, LingerLeaves DEF FinAckArrives
  <2>9. ~InitCannotSize(m)
    BY DEF InitCannotSize, Removable
  <2> QED BY <1>2, <1>6, <2>2, <2>3, <2>4, <2>5, <2>6, <2>7, <2>8, <2>9
          DEF Deliver, ReceiverReceives, InitRejected, InitAgain, DataIgnored,
              DoneInLinger, DatagramDropped, recvVars, diskVars
<1>7. CASE ReceiverTimer
  BY <1>2, <1>3, <1>5, <1>7, LingerLeaves
     DEF ReceiverTimer, GapTimer, NackFails, IdleTimeout, LingerEnds, recvVars, diskVars
<1>8. CASE ReceiverUpset
  BY <1>1, <1>3, <1>4, <1>8 DEF ReceiverUpset, Stop, Crash, Restart, diskVars, Removable, ForgetTransfer
<1>9. CASE NetworkStep \/ UNCHANGED vars \/ \E s \in Senders : SenderStep(s) \/ SenderUpset(s)
  BY <1>2, <1>9 DEF NetworkStep, SenderStep, SenderUpset, vars, recvVars, diskVars
<1> QED BY <1>6, <1>7, <1>8, <1>9 DEF Next

\* There is a tmp file only while the transfer that writes it is open (see
\* NoTmpLeftBehind), whatever arrives, is damaged or fails, or stops the
\* receiver: unless it is killed, a tmp file is created that cannot be sized
\* (see the run nospace) or cannot be removed; provided no file is sent to the
\* tmp of another.
THEOREM TmpRemoved ==
    ASSUME Apart, Removable
    PROVE  Spec => []NoTmpLeftBehind
<1>1. Init => NoTmpLeftBehind
  BY DEF Init, RecvInit, NoTmpLeftBehind, tmp, Names
<1>2. SystemInv /\ NoTmpLeftBehind /\ [Next]_vars => NoTmpLeftBehind'
  BY TmpStep
<1> QED BY <1>1, <1>2, SystemCorrect, PTL DEF Spec

-----------------------------------------------------------------------------
(* The receiver writes, then renames. *)

Writing == IF rpc = "receiving" THEN {from} ELSE {}

Replacing == INSTANCE WriteThenRename
                 WITH Content <- [s \in Senders |-> FileOf(s)],
                      writing <- Writing

LEMMA ReplacingInit == Init => Replacing!Init
BY DEF Init, RecvInit, Replacing!Init, Writing, tmp, final, Names

\* Dropping the tmp of the open transfer closes it.
LEMMA DropCloses ==
    ASSUME Apart, SystemInv, rpc = "receiving", rpc' # "receiving", header = Announced(from),
           DropTmp(header.path, tmp[header.path])
    PROVE  Replacing!Next
<1>1. from \in Senders /\ header.path = Path[from] /\ Path[from] \in Paths /\ DOMAIN disk = Names
  BY FilesAssumption DEF Announced, SystemInv, TypeOK, RecvTypeOK
<1>2. DOMAIN tmp = Paths
  BY DEF tmp
<1>3. /\ tmp' \in {tmp, [tmp EXCEPT ![Path[from]] = NoFile]}
      /\ UNCHANGED final
  <2>1. DropTmp(Path[from], tmp[Path[from]])
    BY <1>1
  <2>2. [tmp EXCEPT ![Path[from]] = tmp[Path[from]]] = tmp
    BY DEF tmp
  <2> QED BY <1>1, <2>1, <2>2, TmpDropped
<1>4. Replacing!Closes(from)
  BY <1>3 DEF Writing, Replacing!Closes
<1> QED BY <1>1, <1>4 DEF Replacing!Next

\* Writing the tmp of a sender while no transfer is open opens one, perhaps for
\* nothing.
LEMMA WriteOpens ==
    ASSUME Apart, SystemInv, rpc # "receiving", NEW s \in Senders, NEW file, WriteTmp(Path[s], file),
           rpc' # "receiving" \/ from' = s
    PROVE  Replacing!Next
<1>1. Path[s] \in Paths /\ DOMAIN disk = Names
  BY FilesAssumption DEF SystemInv, TypeOK, RecvTypeOK
<1>2. DOMAIN tmp = Paths
  BY DEF tmp
<1>3. tmp' = [tmp EXCEPT ![Path[s]] = file] /\ UNCHANGED final
  BY <1>1, TmpWritten
<1>4. tmp' = [tmp EXCEPT ![Path[s]] = tmp'[Path[s]]]
  BY <1>1, <1>2, <1>3
<1>5. Writing = {} /\ Writing' \in {{}, {s}}
  BY DEF Writing
<1>6. Replacing!Opens(s)
  BY <1>3, <1>4, <1>5 DEF Replacing!Opens, Replacing!Touches
<1> QED BY <1>6 DEF Replacing!Next

LEMMA ReplacingStep ==
    ASSUME Apart, "misannounce" \notin Env, SystemInv, [Next]_vars
    PROVE  [Replacing!Next]_(Replacing!vars)
<1> DEFINE Goal == [Replacing!Next]_(Replacing!vars)
<1> SUFFICES Goal
  OBVIOUS
<1>1. /\ DOMAIN disk = Names
      /\ rpc = "receiving" => from \in Senders /\ header = Announced(from) /\ header.path = Path[from]
  <2>1. DOMAIN disk = Names /\ (rpc = "receiving" => from \in Senders /\ header \in HeadersFrom(from))
    BY OpenHeader DEF SystemInv, TypeOK, RecvTypeOK
  <2>2. Announced(from).path = Path[from]
    BY DEF Announced
  <2> QED BY <2>1, <2>2, HeadersTyped
<1>2. CASE UNCHANGED <<rpc, from, disk>>
  BY <1>2 DEF Writing, Replacing!vars, tmp, final
<1>3. CASE UNCHANGED disk /\ rpc # "receiving" /\ rpc' # "receiving"
  BY <1>3 DEF Writing, Replacing!vars, tmp, final
<1>4. ASSUME rpc = "receiving", AbandonOpen PROVE Goal
  BY <1>1, <1>4, AbandonLeaves, DropCloses DEF AbandonOpen
<1>5. ASSUME NEW m \in ArrivingAtReceiver, Deliver(m) PROVE Goal
  <2>1. m.from \in Senders
    BY ArrivingTyped DEF SystemInv, TypeOK, ReceiverDatagrams
  <2>2. \A h \in HeadersFrom(m.from) : h.path = Path[m.from]
    <3>1. Announced(m.from).path = Path[m.from]
      BY DEF Announced
    <3> QED BY <2>1, <3>1, HeadersTyped
  <2>3. CASE InitOpens(m)
    <3>1. /\ rpc # "receiving" /\ from' = m.from
          /\ \E file : WriteTmp(Path[m.from], file)
      BY <2>2, <2>3 DEF InitOpens, TransferOf
    <3> QED BY <2>1, <3>1, WriteOpens
  <2>4. CASE InitCannotSize(m)
    <3>1. rpc # "receiving" /\ rpc' = rpc /\ WriteTmp(Path[m.from], <<>>)
      BY <2>2, <2>4 DEF InitCannotSize
    <3> QED BY <2>1, <3>1, WriteOpens
  <2>5. CASE DataStored(m)
    <3>1. /\ rpc = "receiving" /\ UNCHANGED <<rpc, from>>
          /\ WriteTmp(Path[from], [tmp[header.path] EXCEPT ![m.seq] = m.body])
      BY <1>1, <2>5 DEF DataStored, FromSender
    <3>2. Path[from] \in Paths /\ DOMAIN tmp = Paths
      BY <1>1, <3>1, FilesAssumption DEF tmp
    <3>3. PICK file : tmp' = [tmp EXCEPT ![Path[from]] = file] /\ UNCHANGED final
      BY <1>1, <3>1, <3>2, TmpWritten
    <3>4. tmp' = [tmp EXCEPT ![Path[from]] = tmp'[Path[from]]]
      BY <3>2, <3>3
    <3>5. Writing = {from} /\ Writing' = Writing
      BY <3>1 DEF Writing
    <3>6. Replacing!Writes(from)
      BY <3>3, <3>4, <3>5 DEF Replacing!Writes, Replacing!Touches
    <3> QED BY <1>1, <3>1, <3>6 DEF Replacing!Next
  <2>6. CASE DoneSaves(m)
    <3>1. /\ rpc = "receiving" /\ rpc' = "linger" /\ tmp[Path[from]] = FileOf(from)
          /\ final' = [final EXCEPT ![Path[from]] = tmp[Path[from]]]
          /\ tmp' = [tmp EXCEPT ![Path[from]] = NoFile]
      BY <1>1, <2>6, SavingStep
    <3>2. Replacing!Saves(from)
      BY <1>1, <3>1 DEF Replacing!Saves, Writing
    <3> QED BY <1>1, <3>1, <3>2 DEF Replacing!Next
  <2>7. CASE InitUnanswered(m)
    <3>1. CASE rpc = "receiving" /\ AbandonOpen
      BY <1>4, <3>1
    <3>2. CASE rpc = "listening" /\ \E h \in HeadersFrom(m.from) : Abandon(h.path, Sized(h))
      <4>1. rpc' # "receiving" /\ \E file : WriteTmp(Path[m.from], file)
        BY <2>2, <3>2, AbandonLeaves DEF DropTmp
      <4> QED BY <2>1, <3>2, <4>1, WriteOpens
    <3> QED BY <2>7, <3>1, <3>2 DEF InitUnanswered
  <2>8. CASE DataUnwritable(m) \/ DoneFails(m)
    BY <1>4, <2>8 DEF DataUnwritable, DoneFails, FromSender
  <2>9. CASE DoneIncomplete(m)
    BY <1>2, <1>4, <2>9 DEF DoneIncomplete, NackFails, FromSender, recvVars, diskVars
  <2>10. CASE FinAckArrives(m)
    BY <1>3, <2>10, LingerLeaves DEF FinAckArrives
  <2> QED BY <1>2, <1>5, <2>3, <2>4, <2>5, <2>6, <2>7, <2>8, <2>9, <2>10
          DEF Deliver, ReceiverReceives, InitRejected, InitAgain, DataIgnored, DoneInLinger,
              DatagramDropped, recvVars, diskVars
<1>6. CASE ReceiverTimer
  BY <1>2, <1>3, <1>4, <1>6, LingerLeaves
     DEF ReceiverTimer, GapTimer, NackFails, IdleTimeout, LingerEnds, recvVars, diskVars
<1>7. CASE ReceiverUpset
  <2>1. CASE rpc # "receiving"
    BY <1>3, <1>7, <2>1 DEF ReceiverUpset, Stop, Crash, Restart, ForgetTransfer, diskVars
  <2>2. CASE rpc = "receiving" /\ Stop
    BY <1>1, <2>2, DropCloses DEF Stop, ForgetTransfer
  <2>3. CASE rpc = "receiving" /\ Crash
    <3>1. rpc' # "receiving" /\ UNCHANGED <<tmp, final>>
      BY <2>3 DEF Crash, ForgetTransfer, diskVars, tmp, final
    <3>2. Replacing!Closes(from)
      BY <2>3, <3>1 DEF Replacing!Closes, Writing
    <3> QED BY <1>1, <2>3, <3>2 DEF Replacing!Next
  <2> QED BY <1>7, <2>1, <2>2, <2>3 DEF ReceiverUpset, Restart
<1>8. CASE NetworkStep \/ UNCHANGED vars \/ \E s \in Senders : SenderStep(s) \/ SenderUpset(s)
  BY <1>2, <1>8 DEF NetworkStep, SenderStep, SenderUpset, vars, recvVars, diskVars
<1> QED BY <1>5, <1>6, <1>7, <1>8 DEF Next

\* The receiver implements WriteThenRename: it writes only the tmp file of its
\* open transfer, and that reaches the final path whole or not at all; provided
\* no file is sent to the tmp of another and no INIT announces another file.
THEOREM ReceiverReplaces ==
    ASSUME Apart, "misannounce" \notin Env
    PROVE  Spec => Replacing!Spec
<1>1. SystemInv /\ [Next]_vars => [Replacing!Next]_(Replacing!vars)
  BY ReplacingStep
<1> QED BY <1>1, SystemCorrect, ReplacingInit, PTL DEF Spec, Replacing!Spec
=============================================================================
