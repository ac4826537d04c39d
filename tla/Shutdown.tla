------------------------------ MODULE Shutdown -------------------------------
(***************************************************************************)
(* How udpcp recv ends (src/lib/recv.rs: run_receive,                      *)
(* install_shutdown_handler; src/main.rs).  SIGINT and SIGTERM go to a     *)
(* thread of their own, which notes the signal and shuts the socket down;  *)
(* the main thread finds its read failed, leaves receive_loop and, if a    *)
(* signal was noted, raises it again.                                      *)
(*                                                                         *)
(* A step of the main thread is one recv_from, or what it does until the   *)
(* next.  What a datagram says is reduced to what may come of it.  tmp is   *)
(* the file of a ReceiveState: what is left behind when there never is one *)
(* (set_len) is Receiver's business.                                       *)
(***************************************************************************)
EXTENDS Integers, Sequences

CONSTANTS
    MaxArrivals,    \* bound: datagrams that arrive
    MaxSignals      \* bound: signals that are sent

ASSUME ShutdownAssumption == MaxArrivals \in Nat /\ MaxSignals \in Nat

VARIABLES
    serve,          \* --serve, which never changes
    main,           \* where the main thread is
    hand,           \* what it handles: a datagram, or a read timeout ("tick")
    open,           \* receive_loop has a ReceiveState
    tmp,            \* its tmp file is on disk
    saved,          \* a file was renamed into place
    result,         \* what receive_loop returned: "none", "ok", "error"
    cause,          \* history: what the error came from: "shutdown", "unset" (the
                    \* read timeout could not be set) or "other"
    thread,         \* where the signal thread is
    caught,         \* the handler has a signal for the thread
    signal,         \* SHUTDOWN_SIGNAL is not 0
    socket,         \* "up" or "shut"
    queue,          \* the datagrams in the socket buffer
    interrupts,     \* a read in progress is interrupted by a handler
    arrivals, signals,  \* the bounds' counters
    exit            \* how the process ended: "running", "success", "failure", "signal"

mainVars == <<main, hand, open, tmp, saved, result, cause, exit>>
threadVars == <<thread, caught, signal>>
envVars == <<serve, arrivals, signals>>
vars == <<mainVars, threadVars, socket, queue, interrupts, envVars>>

Datagrams == {"INIT", "DATA", "DONE", "FIN_ACK"}
Running == exit = "running"
Lives(where) == Running /\ main = where

-----------------------------------------------------------------------------
(* The main thread *)

\* run_receive binds the socket and installs the handler; receive_loop starts.
Installs ==
    /\ Lives("starting")
    /\ main' = "reading"
    /\ thread' = "waiting"
    /\ UNCHANGED <<hand, open, tmp, saved, result, cause, exit, caught, signal, socket, queue,
                   interrupts, envVars>>

\* receive_loop returns: its ReceiveState is dropped, and the tmp file with it.
Returns(how, why) ==
    /\ main' = "returned"
    /\ result' = how
    /\ cause' = why
    /\ open' = FALSE
    /\ tmp' = FALSE
    /\ hand' = "none"

GoesOn(next) == main' = next /\ hand' = "none" /\ UNCHANGED <<result, cause>>

\* abandon_transfer
Abandons(why) ==
    IF serve THEN GoesOn("reading") /\ open' = FALSE /\ tmp' = FALSE
             ELSE Returns("error", why)

\* recv_from returns a datagram, or times out while a transfer is open.
Reads ==
    /\ Lives("reading")
    /\ \/ queue # <<>> /\ hand' = Head(queue) /\ queue' = Tail(queue)
       \/ queue = <<>> /\ socket = "up" /\ open /\ hand' = "tick" /\ UNCHANGED queue
    /\ main' = "handling"
    /\ UNCHANGED <<open, tmp, saved, result, cause, exit, threadVars, socket, interrupts, envVars>>

\* ErrorKind::Interrupted: read again.
Interrupted ==
    /\ Running /\ main \in {"reading", "lingering"}
    /\ interrupts
    /\ interrupts' = FALSE
    /\ UNCHANGED <<mainVars, threadVars, socket, queue, envVars>>

Drained == socket = "shut" /\ queue = <<>>

\* Mutant of ReadFails: a serving receiver abandons the transfer and goes on.
ReadFailsServing ==
    /\ Lives("reading")
    /\ Drained
    /\ IF serve THEN GoesOn("reading") /\ open' = FALSE /\ tmp' = FALSE
       ELSE Returns("error", "shutdown")
    /\ UNCHANGED <<saved, exit, threadVars, socket, queue, interrupts, envVars>>

\* Any other error of recv_from ends receive_loop, serving or not: the socket
\* is shut down and nothing is left to read, ...
ReadFails ==
    /\ Lives("reading")
    /\ Drained /\ Returns("error", "shutdown")
    /\ UNCHANGED <<saved, exit, threadVars, socket, queue, interrupts, envVars>>

\* ... or reading fails of itself.
ReadBreaks ==
    /\ Lives("reading")
    /\ Returns("error", "other")
    /\ UNCHANGED <<saved, exit, threadVars, socket, queue, interrupts, envVars>>

\* A send fails once the socket is shut down.
Why == IF socket = "shut" THEN "shutdown" ELSE "other"
Sends == socket = "up"

Stays == GoesOn("reading") /\ UNCHANGED <<open, tmp>>

\* INIT opens a transfer unless one is open or the payload is bad; the ACK
\* that cannot be sent abandons it.
HandlesInit ==
    /\ hand = "INIT"
    /\ \/ ~open /\ Stays
       \/ Sends /\ GoesOn("reading") /\ open' = TRUE /\ tmp' = TRUE
       \/ Abandons(Why)
    /\ UNCHANGED saved

\* A write, a NACK, the idle timeout, or finalize may abandon the transfer.
MayAbandon == Stays \/ (open /\ Abandons(Why))

HandlesData == hand \in {"DATA", "FIN_ACK"} /\ MayAbandon /\ UNCHANGED saved
HandlesTick == /\ hand = "tick"
               /\ \/ Stays
                  \/ Abandons(Why)
               /\ UNCHANGED saved

\* DONE: NACKs, a failed finalize, or the file is saved and the FIN goes out
\* if it can.
HandlesDone ==
    /\ hand = "DONE"
    /\ \/ (~open \/ Sends) /\ Stays /\ UNCHANGED saved
       \/ open /\ Abandons(Why) /\ UNCHANGED saved
       \/ /\ open
          /\ saved' = TRUE /\ tmp' = FALSE /\ open' = FALSE
          /\ GoesOn("lingering")

Handles ==
    /\ Lives("handling")
    /\ HandlesInit \/ HandlesData \/ HandlesTick \/ HandlesDone
    /\ UNCHANGED <<exit, threadVars, socket, queue, interrupts, envVars>>

\* After linger: listen again, or return.
AfterLinger == IF serve THEN Stays ELSE Returns("ok", "none")

\* linger: a datagram that is no FIN_ACK (a FIN that cannot be sent is let go).
LingerReads ==
    /\ Lives("lingering")
    /\ queue # <<>>
    /\ queue' = Tail(queue)
    /\ IF Head(queue) = "FIN_ACK" THEN AfterLinger ELSE UNCHANGED <<main, hand, open, tmp, result, cause>>
    /\ UNCHANGED <<saved, exit, threadVars, socket, interrupts, envVars>>

\* Mutant of LingerEnds: an error of the read ends receive_loop.
LingerFails ==
    /\ Lives("lingering")
    /\ Returns("error", IF Drained THEN "shutdown" ELSE "other")
    /\ UNCHANGED <<saved, exit, threadVars, socket, queue, interrupts, envVars>>

\* The window closes; an error of the read closes it too.
LingerEnds ==
    /\ Lives("lingering")
    /\ AfterLinger
    /\ UNCHANGED <<saved, exit, threadVars, socket, queue, interrupts, envVars>>

\* The read timeout cannot be set: while a transfer is open, in linger, or when
\* a serving receiver listens again.  That error ends receive_loop, a file saved
\* or not.
TimeoutUnset ==
    /\ Running
    /\ main = "lingering" \/ (main = "reading" /\ (open \/ serve))
    /\ Returns("error", "unset")
    /\ UNCHANGED <<saved, exit, threadVars, socket, queue, interrupts, envVars>>

\* run_receive: the signal that was noted is raised again and ends the
\* process; otherwise the result is the exit status.
Ends ==
    /\ Lives("returned")
    /\ exit' = IF signal THEN "signal" ELSE IF result = "ok" THEN "success" ELSE "failure"
    /\ UNCHANGED <<main, hand, open, tmp, saved, result, cause, threadVars, socket, queue,
                   interrupts, envVars>>

MainStep == \/ Installs \/ Reads \/ Interrupted \/ ReadFails \/ Handles
            \/ LingerReads \/ LingerEnds \/ Ends

-----------------------------------------------------------------------------
(* The signal thread *)

ShutsSocket == socket' = "shut" /\ UNCHANGED <<mainVars, queue, interrupts, envVars>>

\* For the mutants: the socket is shut down first and the signal noted
\* afterwards; the thread raises the signal itself.
ShutsFirst == /\ Running /\ thread = "waiting" /\ caught
              /\ thread' = "noted"
              /\ ShutsSocket
              /\ UNCHANGED <<caught, signal>>
NotesLast == /\ Running /\ thread = "noted"
             /\ thread' = "done" /\ signal' = TRUE
             /\ UNCHANGED <<mainVars, caught, socket, queue, interrupts, envVars>>
RaisesItself == /\ Running /\ thread = "noted"
                /\ thread' = "done"
                /\ exit' = "signal"
                /\ UNCHANGED <<main, hand, open, tmp, saved, result, cause, caught, signal, socket,
                               queue, interrupts, envVars>>

\* SHUTDOWN_SIGNAL.store
Notes ==
    /\ Running /\ thread = "waiting" /\ caught
    /\ thread' = "noted"
    /\ signal' = TRUE
    /\ UNCHANGED <<mainVars, caught, socket, queue, interrupts, envVars>>

\* libc::shutdown
Shuts ==
    /\ Running /\ thread = "noted"
    /\ thread' = "done"
    /\ ShutsSocket
    /\ UNCHANGED <<caught, signal>>

\* Mutant of ThreadStep: the socket is shut down first.
ThreadShutsFirst == ShutsFirst \/ NotesLast

ThreadStep == Notes \/ Shuts

-----------------------------------------------------------------------------
(* The environment *)

\* A signal: before the handler is installed it kills the process; the first
\* one after is the thread's; the others do nothing.  It may interrupt a read.
Signal ==
    /\ Running /\ signals < MaxSignals
    /\ signals' = signals + 1
    /\ IF main = "starting" THEN exit' = "signal" /\ UNCHANGED <<caught, interrupts>>
       ELSE /\ caught' = TRUE
            /\ \/ UNCHANGED interrupts
               \/ main \in {"reading", "lingering"} /\ interrupts' = TRUE
            /\ UNCHANGED exit
    /\ UNCHANGED <<main, hand, open, tmp, saved, result, cause, thread, signal, socket, queue, serve, arrivals>>

Arrives ==
    /\ Running /\ main # "starting" /\ arrivals < MaxArrivals
    /\ arrivals' = arrivals + 1
    /\ \E d \in Datagrams : queue' = Append(queue, d)
    /\ UNCHANGED <<mainVars, threadVars, socket, interrupts, serve, signals>>

-----------------------------------------------------------------------------
Init ==
    /\ serve \in BOOLEAN
    /\ main = "starting" /\ hand = "none"
    /\ open = FALSE /\ tmp = FALSE /\ saved = FALSE
    /\ result = "none" /\ cause = "none"
    /\ thread = "absent" /\ caught = FALSE /\ signal = FALSE
    /\ socket = "up" /\ queue = <<>> /\ interrupts = FALSE
    /\ arrivals = 0 /\ signals = 0
    /\ exit = "running"

Next == MainStep \/ ReadBreaks \/ TimeoutUnset \/ ThreadStep \/ Signal \/ Arrives

Spec == Init /\ [][Next]_vars

\* The scheduler runs both threads.  A blocked read is no step, and no system
\* call need fail.
FairSpec == Spec /\ WF_vars(MainStep) /\ WF_vars(ThreadStep)

-----------------------------------------------------------------------------
(* Properties *)

ShutdownTypeOK ==
    /\ serve \in BOOLEAN
    /\ main \in {"starting", "reading", "handling", "lingering", "returned"}
    /\ hand \in Datagrams \cup {"none", "tick"}
    /\ open \in BOOLEAN /\ tmp \in BOOLEAN /\ saved \in BOOLEAN
    /\ caught \in BOOLEAN /\ signal \in BOOLEAN /\ interrupts \in BOOLEAN
    /\ result \in {"none", "ok", "error"} /\ cause \in {"none", "shutdown", "unset", "other"}
    /\ thread \in {"absent", "waiting", "noted", "done"}
    /\ socket \in {"up", "shut"}
    /\ queue \in Seq(Datagrams) /\ Len(queue) <= MaxArrivals
    /\ exit \in {"running", "success", "failure", "signal"}
    /\ main = "handling" <=> hand # "none"
    /\ main = "returned" <=> result # "none"

\* "The error that ended receive_loop was our own socket shutdown; re-raise the
\* signal so the exit status reads killed-by-signal, not socket error": an
\* error that comes of the shutdown is never the exit status, whatever the
\* main thread was doing when the signal came.
ExitTrue == exit = "failure" => cause # "shutdown"

\* "the loop exits and ReceiveState's Drop removes the .tmp file": however the
\* process ends, no tmp file stays (if it can be removed).
TmpGone == ~Running => ~tmp

\* A receiver of one file that has saved it does not fail afterwards for what it
\* reads, cannot read or cannot send during linger, nor for the shutdown of its
\* socket: only for a read timeout that cannot be set.
LingerHarmless == ~serve /\ saved /\ exit = "failure" => cause = "unset"

\* A signal ends the process, though the first is the only one that is heard
\* and the receiver may be anywhere, with datagrams still to read: as many as
\* arrived, of which there are finitely many.
SignalEnds == caught ~> ~Running
=============================================================================
