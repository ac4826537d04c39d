------------------------------- MODULE Sender -------------------------------
(***************************************************************************)
(* udpcp send (src/lib/send.rs): handshake, blast, end-of-pass feedback.   *)
(* Every operator describes one step of sender s; a step is what run_send  *)
(* does between two points at which it looks at its socket.                *)
(***************************************************************************)
EXTENDS UdpNetwork

CONSTANTS
    DrainInterval,  \* FEEDBACK_DRAIN_INTERVAL: chunks sent between two looks at the socket
    MaxAttempts,    \* --handshake-attempts
    MaxPasses       \* --retransmit-passes

ASSUME SenderAssumption == /\ DrainInterval \in Nat \ {0}
                           /\ MaxAttempts \in Nat
                           /\ MaxPasses \in Nat

VARIABLES
    phase,          \* where run_send is
    attempt,        \* INITs sent
    pass,           \* the pass of the blast loop
    pending,        \* Blast.pending: the chunks to send, in order
    queued,         \* Blast.queued: the same chunks, as a set
    sinceDrain,     \* send_pending's since_drain
    missing,        \* the chunks NACKed in this collect_feedback, in order
    edited          \* the chunks that changed in the source since it was hashed

sendVars == <<phase, attempt, pass, pending, queued, sinceDrain, missing, edited>>

Phases == {"start", "handshake", "blasting", "draining", "feedback", "completed", "failed"}
Terminated(s) == phase[s] \in {"completed", "failed"}

SendInit == /\ phase = [s \in Senders |-> "start"]
            /\ attempt = [s \in Senders |-> 0]
            /\ pass = [s \in Senders |-> 0]
            /\ pending = [s \in Senders |-> <<>>]
            /\ queued = [s \in Senders |-> {}]
            /\ sinceDrain = [s \in Senders |-> 0]
            /\ missing = [s \in Senders |-> <<>>]
            /\ edited = [s \in Senders |-> {}]

Goto(s, p) == phase' = [phase EXCEPT ![s] = p]

ListedIn(seq) == {seq[i] : i \in DOMAIN seq}
Distinct(seq) == \A i, j \in DOMAIN seq : seq[i] = seq[j] => i = j

\* The elements of a finite set of numbers in ascending order: the only
\* element of Ascending(S).  A NACK lists chunks in this order.
Ascending(S) ==
    {e \in [1..Cardinality(S) -> S] :
        /\ \A q \in S : \E i \in DOMAIN e : e[i] = q
        /\ \A i, j \in DOMAIN e : i < j => e[i] < e[j]}

-----------------------------------------------------------------------------
(* SendSession::handshake *)

\* One turn of the attempts loop: send INIT, then wait for an ACK.
OfferFile(s) ==
    /\ phase[s] = "start"
    /\ attempt[s] < MaxAttempts
    /\ attempt' = [attempt EXCEPT ![s] = @ + 1]
    /\ Goto(s, "handshake")
    /\ SenderSends({InitOf(s)})
    /\ UNCHANGED <<pass, pending, queued, sinceDrain, missing, edited, toSender, losses>>

HandshakeTimeout(s) ==
    /\ phase[s] = "handshake"
    /\ Goto(s, "start")
    /\ UNCHANGED <<attempt, pass, pending, queued, sinceDrain, missing, edited, netVars>>

HandshakeFails(s) ==
    /\ phase[s] = "start"
    /\ attempt[s] = MaxAttempts
    /\ Goto(s, "failed")
    /\ UNCHANGED <<attempt, pass, pending, queued, sinceDrain, missing, edited, netVars>>

\* The ACK ends the handshake; Blast::new queues every chunk.
Accepted(s, m) ==
    /\ phase[s] = "handshake"
    /\ m.typ = "ACK"
    /\ SenderTakes(s, m)
    /\ Goto(s, "blasting")
    /\ pass' = [pass EXCEPT ![s] = 1]
    /\ pending' = [pending EXCEPT ![s] = [i \in 1..Total[s] |-> i - 1]]
    /\ queued' = [queued EXCEPT ![s] = Chunks(s)]
    /\ UNCHANGED <<attempt, sinceDrain, missing, edited, toReceiver, losses>>

-----------------------------------------------------------------------------
(* SendSession::send_pending and Blast::drain_feedback *)

\* Mutant of DrainDue: one chunk more between two looks at the socket.
DrainDueLate(s) == sinceDrain[s] + 1 > DrainInterval

DrainDue(s) == sinceDrain[s] + 1 >= DrainInterval

\* What s reads for chunk q: "stale" if the source has changed there.
SourceState(s, q) == IF q \in edited[s] THEN "stale" ELSE "good"

\* Pop the next chunk, read it from the source and send it; look at the
\* socket after every DrainInterval chunks.
SendChunk(s) ==
    /\ phase[s] = "blasting"
    /\ pending[s] # <<>>
    /\ LET q == Head(pending[s])
       IN /\ pending' = [pending EXCEPT ![s] = Tail(@)]
          /\ queued' = [queued EXCEPT ![s] = @ \ {q}]
          /\ SenderSends({Data(s, q, SourceState(s, q))})
          /\ sinceDrain' = [sinceDrain EXCEPT ![s] = IF DrainDue(s) THEN 0 ELSE @ + 1]
          /\ Goto(s, IF DrainDue(s) THEN "draining" ELSE "blasting")
    /\ UNCHANGED <<attempt, pass, missing, edited, toSender, losses>>

\* Mutant of SawFin: whatever is no NACK is taken for the FIN.
SawAnswer(m) == m.typ # "NACK"

SawFin(m) == m.typ = "FIN"

\* The FIN says the file is saved: answer FIN_ACK (best effort: it may be
\* lost) and succeed.
Complete(s, m) ==
    /\ SenderTakes(s, m)
    /\ \E sent \in {{}, {FinAck(s)}} :
           /\ sent = {} => "ioerror" \in Env
           /\ SenderSends(sent)
    /\ Goto(s, "completed")
    /\ UNCHANGED <<attempt, pass, pending, queued, sinceDrain, missing, edited, losses>>

DrainFin(s, m) ==
    /\ phase[s] = "draining"
    /\ SawFin(m)
    /\ Complete(s, m)

\* Mutants of Fresh: the answer of queued.insert is ignored; chunk_exists is left out.
FreshOrNot(s, seqs, have) == seqs \cap Chunks(s)
FreshAnyNumber(s, seqs, have) == seqs \ have

\* What enqueue takes of `seqs': chunks the file has, not among those it has already.
Fresh(s, seqs, have) == (seqs \cap Chunks(s)) \ have

\* enqueue: what a NACK lists goes to the back of the queue, unless the file
\* has no such chunk or it is queued already.
DrainNack(s, m) ==
    /\ phase[s] = "draining"
    /\ m.typ = "NACK"
    /\ SenderTakes(s, m)
    /\ LET fresh == Fresh(s, m.seqs, queued[s])
       IN /\ queued' = [queued EXCEPT ![s] = @ \cup fresh]
          /\ \E e \in Ascending(fresh) : pending' = [pending EXCEPT ![s] = @ \o e]
    /\ UNCHANGED <<phase, attempt, pass, sinceDrain, missing, edited, toReceiver, losses>>

\* The socket would block: what is still under way is seen next time.
DrainEnd(s) ==
    /\ phase[s] = "draining"
    /\ Goto(s, "blasting")
    /\ UNCHANGED <<attempt, pass, pending, queued, sinceDrain, missing, edited, netVars>>

-----------------------------------------------------------------------------
(* The blast loop of run_send and collect_feedback *)

\* Everything queued is sent: announce the end of the pass.
SendDone(s) ==
    /\ phase[s] = "blasting"
    /\ pending[s] = <<>>
    /\ SenderSends({Done(s)})
    /\ Goto(s, "feedback")
    /\ sinceDrain' = [sinceDrain EXCEPT ![s] = 0]
    /\ missing' = [missing EXCEPT ![s] = <<>>]
    /\ UNCHANGED <<attempt, pass, pending, queued, edited, toSender, losses>>

FeedbackFin(s, m) ==
    /\ phase[s] = "feedback"
    /\ SawFin(m)
    /\ Complete(s, m)

\* Collect a NACK.  dedup keeps the first of equal entries and enqueue skips
\* chunks the file does not have; both are applied here as the entries come.
FeedbackNack(s, m) ==
    /\ phase[s] = "feedback"
    /\ m.typ = "NACK"
    /\ SenderTakes(s, m)
    /\ \E e \in Ascending(Fresh(s, m.seqs, ListedIn(missing[s]))) :
           missing' = [missing EXCEPT ![s] = @ \o e]
    /\ UNCHANGED <<phase, attempt, pass, pending, queued, sinceDrain, edited, toReceiver, losses>>

\* Mutant of FeedbackTimeout: a pass in which nothing was NACKed does not count.
FeedbackTimeoutUncounted(s) ==
    /\ phase[s] = "feedback"
    /\ pass' = [pass EXCEPT ![s] = IF missing[s] = <<>> THEN @ ELSE @ + 1]
    /\ IF pass[s] + 1 > MaxPasses /\ missing[s] # <<>>
       THEN /\ Goto(s, "failed")
            /\ UNCHANGED <<pending, queued>>
       ELSE /\ Goto(s, "blasting")
            /\ pending' = [pending EXCEPT ![s] = @ \o missing[s]]
            /\ queued' = [queued EXCEPT ![s] = @ \cup ListedIn(missing[s])]
    /\ missing' = [missing EXCEPT ![s] = <<>>]
    /\ UNCHANGED <<attempt, sinceDrain, edited, netVars>>

\* No feedback for a while: next pass, with what was NACKed queued again
\* (nothing is queued at this point), or give up.
FeedbackTimeout(s) ==
    /\ phase[s] = "feedback"
    /\ pass' = [pass EXCEPT ![s] = @ + 1]
    /\ IF pass[s] + 1 > MaxPasses
       THEN /\ Goto(s, "failed")
            /\ UNCHANGED <<pending, queued>>
       ELSE /\ Goto(s, "blasting")
            /\ pending' = [pending EXCEPT ![s] = @ \o missing[s]]
            /\ queued' = [queued EXCEPT ![s] = @ \cup ListedIn(missing[s])]
    /\ missing' = [missing EXCEPT ![s] = <<>>]
    /\ UNCHANGED <<attempt, sinceDrain, edited, netVars>>

-----------------------------------------------------------------------------
\* A datagram of no interest where it is read: anything but an ACK in the
\* handshake, anything but FIN and NACK afterwards.
IgnoreFeedback(s, m) ==
    /\ \/ phase[s] = "handshake" /\ m.typ # "ACK"
       \/ phase[s] \in {"draining", "feedback"} /\ m.typ \notin {"FIN", "NACK"}
    /\ SenderTakes(s, m)
    /\ UNCHANGED <<sendVars, toReceiver, losses>>

\* A socket or file operation fails: run_send returns the error.
SenderFails(s) ==
    /\ "ioerror" \in Env
    /\ ~Terminated(s)
    /\ Goto(s, "failed")
    /\ UNCHANGED <<attempt, pass, pending, queued, sinceDrain, missing, edited, netVars>>

\* Another process rewrites chunk q of the source after it was hashed.
EditSource(s, q) ==
    /\ "edit" \in Env
    /\ ~Terminated(s)
    /\ q \notin edited[s]
    /\ edited' = [edited EXCEPT ![s] = @ \cup {q}]
    /\ UNCHANGED <<phase, attempt, pass, pending, queued, sinceDrain, missing, netVars>>

\* What run_send does on a datagram.
SenderReceives(s, m) == \/ Accepted(s, m)
                        \/ DrainFin(s, m)
                        \/ DrainNack(s, m)
                        \/ FeedbackFin(s, m)
                        \/ FeedbackNack(s, m)
                        \/ IgnoreFeedback(s, m)

\* What it does of its own accord, and on a timeout.
SenderProceeds(s) == OfferFile(s) \/ HandshakeFails(s) \/ SendChunk(s) \/ DrainEnd(s) \/ SendDone(s)
SenderTimeout(s)  == HandshakeTimeout(s) \/ FeedbackTimeout(s)

SenderTypeOK ==
    /\ phase \in [Senders -> Phases]
    /\ attempt \in [Senders -> 0..MaxAttempts]
    /\ pass \in [Senders -> Nat]
    /\ pending \in [Senders -> Seq(Nat)]
    /\ queued \in [Senders -> SUBSET Nat]
    /\ sinceDrain \in [Senders -> 0..(DrainInterval - 1)]
    /\ missing \in [Senders -> Seq(Nat)]
    /\ \A s \in Senders : edited[s] \subseteq Chunks(s)
=============================================================================
