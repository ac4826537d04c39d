------------------------------- MODULE Reports -------------------------------
(***************************************************************************)
(* Udpcp with what every process tells its user: each step of a sender or  *)
(* the receiver together with the events it reports (src/lib/send.rs,      *)
(* src/lib/recv.rs, src/lib/report.rs).                                    *)
(***************************************************************************)
EXTENDS Udpcp, Reporter

CONSTANT
    Recv            \* the receiving process

\* With "duplicate" the network takes no steps of its own.
ASSUME RecvAssumption == Recv \notin Senders /\ "duplicate" \in Env

VARIABLES
    progressDone,   \* Blast.progress_done
    sent,           \* history: the chunks sent at least once
    reporter        \* reporter[p]: the reporter of process p and what it printed

reportVars == <<progressDone, sent, reporter>>
allVars == <<vars, reportVars>>

Processes == Senders \cup {Recv}

Says(p, e) == reporter' = [reporter EXCEPT ![p] = Shows(@, e)]
SaysTwo(p, d, e) == reporter' = [reporter EXCEPT ![p] = Shows(Shows(@, d), e)]
SaysThree(p, c, d, e) == reporter' = [reporter EXCEPT ![p] = Shows(Shows(Shows(@, c), d), e)]

\* announce_pass: a pass over no chunks is not announced.
PassOf(queue) == IF queue # <<>> THEN Event("pass") ELSE Nothing

-----------------------------------------------------------------------------
(* The sender *)

\* Mutants of DoneNow: progress falls back when chunks are queued again; a
\* chunk sent again counts again.
DoneFallsBack(s) == Total[s] - Len(pending'[s])
DoneCounted(s) == progressDone[s] + 1

\* Blast.progress_done after a chunk was popped and sent.
DoneNow(s) == LET done == Total[s] - Len(pending'[s])
              IN IF done > progressDone[s] THEN done ELSE progressDone[s]

ReportsSending(s) ==
    /\ \E m \in ArrivingAt(s) : Accepted(s, m)
    /\ SaysTwo(s, Event("sending"), PassOf(pending'[s]))
    /\ UNCHANGED <<progressDone, sent>>

ReportsChunk(s) ==
    /\ SendChunk(s)
    /\ progressDone' = [progressDone EXCEPT ![s] = DoneNow(s)]
    /\ sent' = [sent EXCEPT ![s] = @ \cup {Head(pending[s])}]
    /\ Says(s, ProgressEvent(progressDone'[s], Total[s]))

ReportsCompleted(s) ==
    /\ \E m \in ArrivingAt(s) : DrainFin(s, m) \/ FeedbackFin(s, m)
    /\ Says(s, Event("completed"))
    /\ UNCHANGED <<progressDone, sent>>

\* The next pass, or run_send returns the error that main prints.
ReportsPass(s) ==
    /\ Timely => Quiet(s)
    /\ FeedbackTimeout(s)
    /\ Says(s, IF Terminated(s)' THEN ExitError ELSE PassOf(pending'[s]))
    /\ UNCHANGED <<progressDone, sent>>

ReportsError(s) ==
    /\ HandshakeFails(s) \/ SenderFails(s)
    /\ Says(s, ExitError)
    /\ UNCHANGED <<progressDone, sent>>

SendsQuietly(s) ==
    /\ \/ OfferFile(s) \/ DrainEnd(s) \/ SendDone(s)
       \/ (Timely => Quiet(s)) /\ HandshakeTimeout(s)
       \/ \E m \in ArrivingAt(s) : DrainNack(s, m) \/ FeedbackNack(s, m) \/ IgnoreFeedback(s, m)
       \/ \E q \in Chunks(s) : EditSource(s, q)
    /\ UNCHANGED reportVars

SenderReports(s) ==
    /\ \/ ReportsSending(s) \/ ReportsChunk(s) \/ ReportsCompleted(s)
       \/ ReportsPass(s) \/ ReportsError(s) \/ SendsQuietly(s)
    /\ UNCHANGED recvVars

-----------------------------------------------------------------------------
(* The receiver *)

\* Mutant of Abandoned: a serving receiver does not report the failure.
AbandonedSilently == Nothing

\* abandon_transfer: a serving receiver reports the failure and listens, any
\* other returns the error, which main prints.
Abandoned == IF Serve THEN Event("failed") ELSE ExitError

\* reset_listening: a serving receiver listens again, or reports the error that
\* keeps it from that.
Listening == IF Serve THEN Event("listening") ELSE Nothing
Listens == IF Serve /\ rpc' # "listening" THEN ExitError ELSE Listening

\* Mutant of StoredNow: the chunks up to the frontier count as done.
FrontierDone == frontier'

\* ReceiveState.count, as the progress event carries it.
StoredNow == count'

ReportsInit(m) ==
    \/ InitOpens(m) /\ Says(Recv, Event("receiving"))
    \/ (InitRejected(m) \/ InitCannotSize(m)) /\ Says(Recv, Event("bad_init"))
    \/ InitAgain(m) /\ UNCHANGED reporter
    \/ /\ InitUnanswered(m)
       /\ SaysThree(Recv, IF rpc = "listening" THEN Event("receiving") ELSE Nothing,
                    Abandoned, Listens)

ReportsData(m) ==
    \/ DataStored(m) /\ Says(Recv, ProgressEvent(StoredNow, header.total))
    \/ DataUnwritable(m) /\ SaysTwo(Recv, Abandoned, Listens)
    \/ DataIgnored(m) /\ UNCHANGED reporter

\* Mutant of ReportsSaved: Saved is reported before the hash is compared.
ReportsSavedEarly(m) ==
    \/ DoneSaves(m) /\ Says(Recv, Event("saved"))
    \/ DoneFails(m) /\ SaysThree(Recv, Event("saved"), Abandoned, Listens)

\* handle_done with every chunk in: finalize reports Saved after the rename.
ReportsSaved(m) ==
    \/ DoneSaves(m) /\ Says(Recv, Event("saved"))
    \/ DoneFails(m) /\ SaysTwo(Recv, Abandoned, Listens)

ReportsMissing(m) ==
    /\ DoneIncomplete(m)
    /\ IF rpc' = "receiving" THEN Says(Recv, Event("missing"))
       ELSE SaysThree(Recv, Event("missing"), Abandoned, Listens)

ReportsLinger(m) ==
    \/ FinAckArrives(m) /\ Says(Recv, Listens)
    \/ (DoneInLinger(m) \/ DatagramDropped(m)) /\ UNCHANGED reporter

ReportsTimeout ==
    \/ /\ Timely => ~Collecting(from)
       /\ GapTimer
       /\ IF rpc' = "receiving" THEN UNCHANGED reporter ELSE SaysTwo(Recv, Abandoned, Listens)
    \/ (Timely => Silent(from)) /\ IdleTimeout /\ SaysTwo(Recv, Abandoned, Listens)
    \/ (Timely => Silent(from)) /\ LingerEnds /\ Says(Recv, Listens)

\* The socket fails.  When reading it does, linger just ends and the receiver,
\* if it serves, listens once more before receive_loop returns; when setting its
\* timeout does, linger returns that error.  A signal kills the process before
\* main could print.
ReportsStop ==
    /\ Stop
    /\ \E listened \in {Nothing, Listening}, last \in {Nothing, ExitError} :
           /\ listened = Listening \/ (rpc = "linger" /\ last = ExitError)
           /\ last = Nothing => "stop" \in Env \/ (rpc = "linger" /\ ~Serve)
           /\ last = ExitError => "ioerror" \in Env
           /\ SaysTwo(Recv, IF rpc = "linger" THEN listened ELSE Nothing, last)

\* Another process, with a reporter of its own.
ReportsRestart ==
    /\ Restart
    /\ reporter' = [reporter EXCEPT ![Recv] = Shows(NewReporter, Event("listening"))]

ReceiverReports ==
    /\ \/ \E m \in ArrivingAtReceiver :
              \/ ReportsInit(m) \/ ReportsData(m) \/ ReportsSaved(m)
              \/ ReportsMissing(m) \/ ReportsLinger(m)
       \/ ReportsTimeout \/ ReportsStop \/ ReportsRestart
       \/ Crash /\ UNCHANGED reporter
    /\ UNCHANGED <<sendVars, progressDone, sent>>

-----------------------------------------------------------------------------
ReportsStart ==
    /\ Init
    /\ progressDone = [s \in Senders |-> 0]
    /\ sent = [s \in Senders |-> {}]
    /\ reporter = [p \in Processes |->
                      IF p = Recv THEN Shows(NewReporter, Event("listening")) ELSE NewReporter]

ReportsNext == ReceiverReports \/ \E s \in Senders : SenderReports(s)

ReportsSpec == ReportsStart /\ [][ReportsNext]_allVars

-----------------------------------------------------------------------------
(* Properties *)

\* A script can follow the JSON lines by their order alone, whatever fails: a
\* transfer that was announced ends with exactly one `saved' or `failed' line
\* before the receiver listens again or takes another one.
StreamReadable == \A p \in Processes : reporter[p].seen # "lost"

\* ... and the last milestone it has read is the truth: `receiving' while a
\* transfer is open, `saved' when the file is at its path, `completed' when
\* and only when a receiver has saved the file.
StreamTrue ==
    Jsonl =>
        LET seen == reporter[Recv].seen IN
        /\ rpc = "listening" => seen = "listening"
        /\ rpc = "receiving" => seen = "receiving"
        /\ rpc = "linger" => seen = "saved" /\ final[Path[from]] = FileOf(from)
        /\ rpc = "exited" => seen \in {"listening", "receiving", "saved", "failed"}
        /\ \A s \in Senders : /\ reporter[s].seen = "completed" <=> phase[s] = "completed"
                              /\ reporter[s].seen = "completed" => s \in saved

\* Within a transfer the percentages only rise, so that no percentage has two
\* lines (README: "throttled to one line per whole percent"): chunks that are
\* queued again do not turn the sender's progress back.  With --progress those
\* of at least one chunk have risen to 100 at its success, at both ends: a FIN
\* finds no sender that has not blasted every chunk, and a serving receiver
\* does not remember the percentage of the transfer before.
PercentsRise ==
    \A p \in Processes :
        LET r == reporter[p]
            chunks == IF p = Recv THEN (IF from = NoSender THEN 0 ELSE Total[from]) ELSE Total[p]
        IN /\ \A i, j \in DOMAIN r.pcts : i < j => r.pcts[i] < r.pcts[j]
           /\ Jsonl /\ Progress /\ r.seen \in {"saved", "completed"} /\ chunks > 0 =>
                  r.pcts # <<>> /\ r.pcts[Len(r.pcts)] = 100

\* What is shown has been done: the sender's progress counts chunks that have
\* been sent (send_pending subtracts a queue to which NACKs add), the
\* receiver's chunks that are on disk.
ProgressHonest ==
    /\ \A s \in Senders : progressDone[s] <= Cardinality(sent[s])
    /\ rpc = "receiving" /\ reporter[Recv].pcts # <<>> =>
           reporter[Recv].pcts[Len(reporter[Recv].pcts)] = Percent(count, header.total)

\* bar_active says whether the cursor is behind a bar: "so the next status
\* line starts cleanly".
BarOwned ==
    \A p \in Processes :
        /\ reporter[p].screen # "torn"
        /\ reporter[p].bar <=> reporter[p].screen \in {"bar", "glued"}
=============================================================================
