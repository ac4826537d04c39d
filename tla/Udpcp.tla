------------------------------- MODULE Udpcp --------------------------------
(***************************************************************************)
(* udpcp: the senders, the receiver and the network between them, the      *)
(* properties of a transfer, and the fairness under which it ends.         *)
(***************************************************************************)
EXTENDS Sender, Receiver

CONSTANT
    Timely          \* timeouts are long against the time a datagram takes

ASSUME TimelyAssumption == Timely \in BOOLEAN

vars == <<netVars, sendVars, recvVars>>

Init == NetInit /\ SendInit /\ RecvInit

-----------------------------------------------------------------------------
(* With Timely, the defaults of protocol.rs hold: a datagram under way and *)
(* its answer arrive within the 3 s the sender waits (RETRANSMIT_TIMEOUT); *)
(* the receiver waits 5 of those for a DONE (LINGER_RETRANSMIT_CYCLES) and *)
(* 10 for anything (RECEIVER_IDLE_TIMEOUT), so it gives up only on a       *)
(* sender that has ended; and the sender's 0.5 s NACK collection is over   *)
(* before the receiver NACKs a gap again (NACK_REISSUE_INTERVAL, 3 s).     *)

Unread(s) == {m \in toReceiver : m.from = s}
Quiet(s) == Unread(s) = {} /\ toSender[s] = {}
Silent(s) == Unread(s) = {} /\ Terminated(s)
Collecting(s) == phase[s] = "feedback" /\ missing[s] # <<>>

SenderStep(s) ==
    /\ \/ \E m \in ArrivingAt(s) : SenderReceives(s, m)
       \/ SenderProceeds(s)
       \/ (Timely => Quiet(s)) /\ SenderTimeout(s)
    /\ UNCHANGED recvVars

SenderUpset(s) ==
    /\ SenderFails(s) \/ \E q \in Chunks(s) : EditSource(s, q)
    /\ UNCHANGED recvVars

Deliver(m) == ReceiverReceives(m) /\ UNCHANGED sendVars

ReceiverTimer ==
    /\ \/ GapTimer /\ (Timely => ~Collecting(from))
       \/ (IdleTimeout \/ LingerEnds) /\ (Timely => Silent(from))
    /\ UNCHANGED sendVars

ReceiverUpset == (Stop \/ Crash \/ Restart) /\ UNCHANGED sendVars

NetworkStep ==
    /\ Lose \/ \E s \in Senders : attempt[s] > 0 /\ Repeat(InitOf(s))
    /\ UNCHANGED <<sendVars, recvVars>>

Next == \/ \E s \in Senders : SenderStep(s) \/ SenderUpset(s)
        \/ \E m \in ArrivingAtReceiver : Deliver(m)
        \/ ReceiverTimer
        \/ ReceiverUpset
        \/ NetworkStep

Spec == Init /\ [][Next]_vars

\* What the threads and the network do sooner or later: a sender that can
\* send does, timers fire, a datagram that is not lost is delivered.
Fairness ==
    /\ \A s \in Senders :
           /\ WF_vars(SenderProceeds(s) /\ UNCHANGED recvVars)
           /\ WF_vars((Timely => Quiet(s)) /\ SenderTimeout(s) /\ UNCHANGED recvVars)
           /\ WF_vars((\E m \in ArrivingAt(s) : SenderReceives(s, m)) /\ UNCHANGED recvVars)
           /\ \A m \in {InitOf(s), Done(s), FinAck(s)} \cup {Data(s, q, "good") : q \in Chunks(s)} :
                  WF_vars(m \in toReceiver /\ Deliver(m))
    /\ WF_vars((IdleTimeout \/ LingerEnds) /\ (Timely => Silent(from)) /\ UNCHANGED sendVars)

FairSpec == Spec /\ Fairness

-----------------------------------------------------------------------------
(* Safety *)

TypeOK == NetTypeOK /\ SenderTypeOK /\ RecvTypeOK

\* The queue of a blast and the set that guards it never disagree, and no
\* chunk is queued twice: otherwise `total_chunks - pending.len()' in
\* send_pending underflows, and chunks are sent that nobody asked for.  At the
\* end of a pass nothing is queued.
QueueInv ==
    \A s \in Senders :
        /\ ListedIn(pending[s]) = queued[s]
        /\ Distinct(pending[s])
        /\ queued[s] \subseteq Chunks(s)
        /\ Len(pending[s]) <= Total[s]
        /\ Distinct(missing[s])
        /\ ListedIn(missing[s]) \subseteq Chunks(s)
        /\ phase[s] = "feedback" => queued[s] = {}

\* A sender that reports success (TransferEvent::Completed) can count on a
\* whole file at its path: its own, or that of a sender of the same name whose
\* file came later.  Lost, repeated and delayed datagrams, a receiver that is
\* killed, or a session opened again by a stale INIT do not take it away.
CompletedMeansSaved ==
    \A s \in Senders : phase[s] = "completed" =>
        /\ s \in saved
        /\ \E r \in saved : Path[r] = Path[s] /\ final[Path[s]] = FileOf(r)

\* A file at a final path is, at every moment, the whole file one sender was
\* asked to send, whatever happens to datagrams, source or receiver: readers
\* never see a partial or mixed file.  It is at the path of that sender, unless
\* the name in its INIT was damaged, which nothing detects.
FinalIsWhole ==
    \A p \in Paths : final[p] = NoFile
        \/ \E s \in saved : /\ final[p] = FileOf(s)
                            /\ Path[s] = p \/ "misannounce" \in Env

\* What the open transfer keeps in memory agrees with its tmp file: the bitmap
\* marks exactly the chunks written since the file was sized, count is their
\* number and frontier one past the highest; and they came from its sender.
SessionAgrees ==
    rpc = "receiving" =>
        /\ \A q \in Slots : q \in received <=> tmp[header.path][q] # NoBody
        /\ \A q \in received : tmp[header.path][q][1] = from
        /\ count = Cardinality(received)
        /\ \A q \in received : q < frontier
        /\ frontier = 0 \/ frontier - 1 \in received

\* Once every chunk is in, the tmp file is the sender's file, chunk by chunk:
\* reordering, repetition and sessions before this one put no chunk in a wrong
\* place.  (A damaged DATA may, unless --verify catches it, and a damaged INIT
\* may announce another number of chunks.)
FullMeansWhole ==
    rpc = "receiving" /\ Full => tmp[header.path] = FileOf(from)

\* With --verify a damaged DATA datagram is noticed: what is stored for a chunk
\* is what the sender read for it.
VerifyDetects ==
    Verify /\ rpc = "receiving" =>
        \A q \in received : tmp[header.path][q] \in {Body(from, q, "good"), Body(from, q, "stale")}

\* The receiver leaves no tmp file behind: there is one only while the
\* transfer that writes it is open.
NoTmpLeftBehind ==
    \A p \in Paths : tmp[p] # NoFile => rpc = "receiving" /\ header.path = p

\* A chunk stored stays as it was stored while the transfer is open, even if
\* other copies of it arrive that differ.
StoredChunksStay ==
    [][rpc = "receiving" /\ rpc' = "receiving" =>
           \A q \in received : q \in received' /\ tmp'[header.path][q] = tmp[header.path][q]]_vars

\* The receiver lets go of a sender only to listen again, or to stop: it never
\* turns to another sender, or starts the transfer over, while one is open.
SessionKept ==
    [][from # NoSender => \/ from' = NoSender
                          \/ from' = from /\ (rpc = "linger" => rpc' = "linger")
                                          /\ (rpc' = "receiving" => received \subseteq received')]_vars

\* What each sender has reported.
Outcome == [s \in Senders |-> IF Terminated(s) THEN phase[s] ELSE "running"]

Promise == INSTANCE FileDelivery
               WITH Content   <- [s \in Senders |-> FileOf(s)],
                    store     <- final,
                    delivered <- saved,
                    outcome   <- Outcome

\* udpcp keeps the promise of FileDelivery: every step of it is a step of
\* FileDelivery or changes nothing of what FileDelivery speaks of.
KeepsPromise == Promise!Spec

-----------------------------------------------------------------------------
(* Liveness, under FairSpec *)

\* A sender always ends, with success or with an error.
SenderEnds == \A s \in Senders : <>Terminated(s)

\* With timely timeouts and enough attempts and passes for the datagrams that
\* are lost, every sender succeeds.
SenderSucceeds == \A s \in Senders : <>(phase[s] = "completed")

\* A serving receiver comes back to listening after every transfer, unless it is
\* stopped: no sender, ended or not, keeps it for good.
ServesAgain ==
    rpc \in {"receiving", "linger"} ~> rpc \in {"listening", "exited"} /\ from = NoSender
=============================================================================
