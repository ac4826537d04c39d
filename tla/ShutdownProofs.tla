---------------------------- MODULE ShutdownProofs ----------------------------
(***************************************************************************)
(* The safety properties of Shutdown, for every bound, serving or not.     *)
(*                                                                         *)
(* The argument for ExitTrue is the order of the thread's two steps: the   *)
(* socket is shut only when the signal has been noted, so an error that    *)
(* comes of the shutdown finds it noted when the process ends.  The one    *)
(* for TmpGone: a tmp file belongs to an open ReceiveState, which there is *)
(* none of when receive_loop lingers or has returned.                      *)
(***************************************************************************)
EXTENDS Shutdown, TLAPS

QueueBounded ==
    /\ arrivals \in Nat /\ arrivals <= MaxArrivals
    /\ Len(queue) <= arrivals

\* What the thread has done so far.
ThreadInv ==
    /\ thread = "noted" => signal
    /\ socket = "shut" => signal
    /\ cause = "shutdown" => socket = "shut"

\* Where the process may end, and with what.
FilesInv ==
    /\ tmp => open
    /\ open => main \in {"reading", "handling"}
    /\ ~Running => main \in {"starting", "returned"}
    /\ exit \in {"success", "failure"} => main = "returned"
    /\ exit = "failure" => result = "error" /\ ~signal

\* A receiver of one file that has saved it lingers, and returns well unless
\* its read timeout cannot be set.
SavedInv == ~serve /\ saved => \/ main = "lingering"
                               \/ main = "returned" /\ (result = "ok" \/ cause = "unset")

ShutdownInv == ShutdownTypeOK /\ QueueBounded /\ ThreadInv /\ FilesInv /\ SavedInv

-----------------------------------------------------------------------------
\* Init of Shutdown satisfies the inductive invariant.
LEMMA InitShutdown == Init => ShutdownInv
  <1> SUFFICES ASSUME Init PROVE ShutdownInv
    OBVIOUS
  <1>1. queue \in Seq(Datagrams) /\ Len(queue) = 0 /\ MaxArrivals \in Nat
    BY ShutdownAssumption DEF Init, ShutdownAssumption
  <1>5. Len(queue) <= MaxArrivals
    BY <1>1
  <1>6. hand \in Datagrams \cup {"none", "tick"}
    BY DEF Init
  <1>2. ShutdownTypeOK
    BY <1>1, <1>5, <1>6, Zenon DEF Init, ShutdownTypeOK
  <1>3. QueueBounded
    BY <1>1 DEF Init, QueueBounded
  <1>4. ThreadInv /\ FilesInv /\ SavedInv
    BY DEF Init, ThreadInv, FilesInv, SavedInv, Running
  <1> QED
    BY <1>2, <1>3, <1>4 DEF ShutdownInv

\* What an action of the main thread that reads nothing leaves in place.
LEMMA QueueStays ==
    QueueBounded /\ UNCHANGED <<queue, arrivals>> => QueueBounded'
  BY DEF QueueBounded

\* Taking the head of the queue keeps it bounded and typed.
LEMMA Dequeued ==
  ASSUME ShutdownTypeOK, QueueBounded, queue # <<>>, queue' = Tail(queue), UNCHANGED arrivals
  PROVE  /\ QueueBounded'
         /\ queue' \in Seq(Datagrams) /\ Len(queue') <= MaxArrivals
         /\ Head(queue) \in Datagrams
  <1>1. queue \in Seq(Datagrams) /\ arrivals \in Nat /\ MaxArrivals \in Nat
    BY ShutdownAssumption DEF ShutdownTypeOK, QueueBounded, ShutdownAssumption
  <1>2. Len(queue') = Len(queue) - 1 /\ queue' \in Seq(Datagrams) /\ Head(queue) \in Datagrams
    BY <1>1
  <1> QED
    BY <1>1, <1>2 DEF QueueBounded, ShutdownTypeOK

LEMMA InstallsStep == ShutdownInv /\ Installs => ShutdownInv'
  BY DEF Installs, ShutdownInv, ShutdownTypeOK, QueueBounded, ThreadInv, FilesInv, SavedInv,
         Lives, Running, envVars

LEMMA ReadsStep == ShutdownInv /\ Reads => ShutdownInv'
  <1> SUFFICES ASSUME ShutdownInv, Reads PROVE ShutdownInv'
    OBVIOUS
  <1>1. CASE queue # <<>> /\ hand' = Head(queue) /\ queue' = Tail(queue)
    <2>1. /\ QueueBounded'
          /\ queue' \in Seq(Datagrams) /\ Len(queue') <= MaxArrivals /\ hand' \in Datagrams
      BY <1>1, Dequeued DEF ShutdownInv, Reads, envVars
    <2> QED
      BY <2>1 DEF Reads, ShutdownInv, ShutdownTypeOK, ThreadInv, FilesInv, SavedInv, Lives,
                  Running, threadVars, envVars, Datagrams
  <1>2. CASE hand' = "tick" /\ UNCHANGED queue
    BY <1>2 DEF Reads, ShutdownInv, ShutdownTypeOK, QueueBounded, ThreadInv, FilesInv, SavedInv,
                Lives, Running, threadVars, envVars, Datagrams
  <1> QED
    BY <1>1, <1>2 DEF Reads

LEMMA InterruptedStep == ShutdownInv /\ Interrupted => ShutdownInv'
  <1> SUFFICES ASSUME ShutdownInv, Interrupted PROVE ShutdownInv'
    OBVIOUS
  <1>1. ShutdownTypeOK'
    <2>1. /\ main' = main /\ hand' = hand /\ result' = result /\ cause' = cause
          /\ exit' = exit /\ thread' = thread /\ socket' = socket /\ queue' = queue
      BY DEF Interrupted, mainVars, threadVars
    <2>2. /\ open' = open /\ tmp' = tmp /\ saved' = saved /\ caught' = caught
          /\ signal' = signal /\ serve' = serve /\ interrupts' = FALSE
      BY DEF Interrupted, mainVars, threadVars, envVars
    <2>3. ShutdownTypeOK
      BY DEF ShutdownInv
    <2>4. /\ serve' \in BOOLEAN /\ open' \in BOOLEAN /\ tmp' \in BOOLEAN /\ saved' \in BOOLEAN
          /\ caught' \in BOOLEAN /\ signal' \in BOOLEAN /\ interrupts' \in BOOLEAN
      BY <2>2, <2>3 DEF ShutdownTypeOK
    <2>5. queue' \in Seq(Datagrams) /\ Len(queue') <= MaxArrivals
      BY <2>1, <2>3 DEF ShutdownTypeOK
    <2> QED
      BY <2>1, <2>3, <2>4, <2>5, Zenon DEF ShutdownTypeOK
  <1>2. QueueBounded'
    BY DEF Interrupted, Running, mainVars, threadVars, envVars, ShutdownInv, QueueBounded
  <1>3. ThreadInv'
    BY DEF Interrupted, Running, mainVars, threadVars, envVars, ShutdownInv, ThreadInv
  <1>4. FilesInv'
    BY DEF Interrupted, Running, mainVars, threadVars, envVars, ShutdownInv, FilesInv
  <1>5. SavedInv'
    BY DEF Interrupted, Running, mainVars, threadVars, envVars, ShutdownInv, SavedInv
  <1> QED
    BY <1>1, <1>2, <1>3, <1>4, <1>5 DEF ShutdownInv

\* receive_loop returns with an error.
LEMMA ReadFailsStep == ShutdownInv /\ (ReadFails \/ ReadBreaks \/ TimeoutUnset) => ShutdownInv'
  <1> SUFFICES ASSUME ShutdownInv, ReadFails \/ ReadBreaks \/ TimeoutUnset PROVE ShutdownInv'
    OBVIOUS
  <1>1. ShutdownTypeOK'
    BY DEF ReadFails, ReadBreaks, TimeoutUnset, Drained, Returns, Lives, Running, threadVars, envVars, ShutdownInv, ShutdownTypeOK
  <1>2. QueueBounded'
    BY DEF ReadFails, ReadBreaks, TimeoutUnset, Drained, Returns, Lives, Running, threadVars, envVars, ShutdownInv, QueueBounded
  <1>3. ThreadInv'
    BY DEF ReadFails, ReadBreaks, TimeoutUnset, Drained, Returns, Lives, Running, threadVars, envVars, ShutdownInv, ThreadInv
  <1>4. FilesInv'
    BY DEF ReadFails, ReadBreaks, TimeoutUnset, Drained, Returns, Lives, Running, threadVars, envVars, ShutdownInv, FilesInv
  <1>5. SavedInv'
    BY DEF ReadFails, ReadBreaks, TimeoutUnset, Drained, Returns, Lives, Running, threadVars, envVars, ShutdownInv, SavedInv
  <1> QED
    BY <1>1, <1>2, <1>3, <1>4, <1>5 DEF ShutdownInv

\* What a handler comes to, whatever it handled: it stays, it opens a
\* transfer, it abandons one, or it has saved the file and lingers.
LEMMA HandlesComesTo ==
  ASSUME ShutdownInv, Handles
  PROVE  \/ Stays /\ UNCHANGED saved
         \/ GoesOn("reading") /\ open' = TRUE /\ tmp' = TRUE /\ UNCHANGED saved
         \/ Abandons(Why) /\ UNCHANGED saved
         \/ GoesOn("lingering") /\ open' = FALSE /\ tmp' = FALSE /\ saved' = TRUE
  BY DEF Handles, HandlesInit, HandlesData, HandlesTick, HandlesDone, MayAbandon

LEMMA HandlesStep == ShutdownInv /\ Handles => ShutdownInv'
  <1> SUFFICES ASSUME ShutdownInv, Handles PROVE ShutdownInv'
    OBVIOUS
  <1> USE DEF ShutdownInv, ShutdownTypeOK, QueueBounded, ThreadInv, FilesInv, SavedInv, Handles,
              Lives, Running, threadVars, envVars
  <1>1. CASE Stays /\ UNCHANGED saved
    BY <1>1 DEF Stays, GoesOn
  <1>2. CASE GoesOn("reading") /\ open' = TRUE /\ tmp' = TRUE /\ UNCHANGED saved
    BY <1>2 DEF GoesOn
  <1>3. CASE Abandons(Why) /\ UNCHANGED saved
    BY <1>3 DEF Abandons, GoesOn, Returns, Why
  <1>4. CASE GoesOn("lingering") /\ open' = FALSE /\ tmp' = FALSE /\ saved' = TRUE
    BY <1>4 DEF GoesOn
  <1> QED
    BY <1>1, <1>2, <1>3, <1>4, HandlesComesTo

\* After linger nothing is open, and a receiver of one file returns well.
LEMMA AfterLingerStep ==
  ASSUME ShutdownInv, Lives("lingering"), AfterLinger,
         UNCHANGED <<serve, saved, exit, threadVars, socket>>,
         queue' \in Seq(Datagrams), Len(queue') <= MaxArrivals, QueueBounded',
         interrupts' \in BOOLEAN
  PROVE  ShutdownInv'
  <1> USE DEF ShutdownInv, ShutdownTypeOK, ThreadInv, FilesInv, SavedInv, Lives, Running,
              threadVars, AfterLinger
  <1>1. CASE serve
    BY <1>1 DEF Stays, GoesOn
  <1>2. CASE ~serve
    BY <1>2 DEF Returns
  <1> QED
    BY <1>1, <1>2

LEMMA LingerReadsStep == ShutdownInv /\ LingerReads => ShutdownInv'
  <1> SUFFICES ASSUME ShutdownInv, LingerReads PROVE ShutdownInv'
    OBVIOUS
  <1>1. QueueBounded' /\ queue' \in Seq(Datagrams) /\ Len(queue') <= MaxArrivals
    BY Dequeued DEF ShutdownInv, LingerReads, envVars
  <1>2. CASE AfterLinger
    BY <1>1, <1>2, AfterLingerStep DEF LingerReads, ShutdownInv, ShutdownTypeOK, envVars
  <1>3. CASE UNCHANGED <<main, hand, open, tmp, result, cause>>
    BY <1>1, <1>3 DEF LingerReads, ShutdownInv, ShutdownTypeOK, ThreadInv, FilesInv, SavedInv,
                      Lives, Running, threadVars, envVars
  <1> QED
    BY <1>2, <1>3 DEF LingerReads

LEMMA LingerEndsStep == ShutdownInv /\ LingerEnds => ShutdownInv'
  <1> SUFFICES ASSUME ShutdownInv, LingerEnds PROVE ShutdownInv'
    OBVIOUS
  <1>1. QueueBounded' /\ queue' \in Seq(Datagrams) /\ Len(queue') <= MaxArrivals
    BY DEF ShutdownInv, ShutdownTypeOK, QueueBounded, LingerEnds, envVars
  <1> QED
    BY <1>1, AfterLingerStep DEF LingerEnds, ShutdownInv, ShutdownTypeOK, envVars

LEMMA EndsStep == ShutdownInv /\ Ends => ShutdownInv'
  BY DEF Ends, ShutdownInv, ShutdownTypeOK, QueueBounded, ThreadInv, FilesInv, SavedInv, Lives,
         Running, threadVars, envVars

LEMMA ThreadSteps == ShutdownInv /\ ThreadStep => ShutdownInv'
  <1> SUFFICES ASSUME ShutdownInv, ThreadStep PROVE ShutdownInv'
    OBVIOUS
  <1>1. ShutdownTypeOK'
    BY DEF ThreadStep, Notes, Shuts, ShutsSocket, Running, mainVars, envVars, ShutdownInv, ShutdownTypeOK
  <1>2. QueueBounded'
    BY DEF ThreadStep, Notes, Shuts, ShutsSocket, Running, mainVars, envVars, ShutdownInv, QueueBounded
  <1>3. ThreadInv'
    BY DEF ThreadStep, Notes, Shuts, ShutsSocket, Running, mainVars, envVars, ShutdownInv, ThreadInv
  <1>4. FilesInv'
    BY DEF ThreadStep, Notes, Shuts, ShutsSocket, Running, mainVars, envVars, ShutdownInv, FilesInv
  <1>5. SavedInv'
    BY DEF ThreadStep, Notes, Shuts, ShutsSocket, Running, mainVars, envVars, ShutdownInv, SavedInv
  <1> QED
    BY <1>1, <1>2, <1>3, <1>4, <1>5 DEF ShutdownInv

LEMMA SignalStep == ShutdownInv /\ Signal => ShutdownInv'
  <1> SUFFICES ASSUME ShutdownInv, Signal PROVE ShutdownInv'
    OBVIOUS
  <1>1. ShutdownTypeOK'
    <2>1. interrupts' \in BOOLEAN /\ caught' \in BOOLEAN /\ UNCHANGED main
      BY DEF Signal, ShutdownInv, ShutdownTypeOK
    <2>2. exit' \in {"running", "success", "failure", "signal"}
      BY DEF Signal, Running, ShutdownInv, ShutdownTypeOK
    <2>3. UNCHANGED <<serve, hand, open, tmp, saved, result, cause, thread, signal, socket, queue>>
      BY DEF Signal
    <2> QED
      BY <2>1, <2>2, <2>3 DEF ShutdownInv, ShutdownTypeOK
  <1>2. QueueBounded'
    BY DEF Signal, Running, ShutdownInv, QueueBounded
  <1>3. ThreadInv'
    BY DEF Signal, Running, ShutdownInv, ThreadInv
  <1>4. FilesInv'
    BY DEF Signal, Running, ShutdownInv, FilesInv
  <1>5. SavedInv'
    BY DEF Signal, Running, ShutdownInv, SavedInv
  <1> QED
    BY <1>1, <1>2, <1>3, <1>4, <1>5 DEF ShutdownInv

LEMMA ArrivesStep == ShutdownInv /\ Arrives => ShutdownInv'
  <1> SUFFICES ASSUME ShutdownInv, Arrives PROVE ShutdownInv'
    OBVIOUS
  <1>1. PICK d \in Datagrams : queue' = Append(queue, d)
    BY DEF Arrives
  <1>2. Len(queue') = Len(queue) + 1 /\ queue' \in Seq(Datagrams)
    BY <1>1 DEF ShutdownInv, ShutdownTypeOK
  <1>3. QueueBounded' /\ Len(queue') <= MaxArrivals
    BY <1>2, ShutdownAssumption
    DEF ShutdownAssumption, ShutdownInv, ShutdownTypeOK, QueueBounded, Arrives
  <1> QED
    BY <1>2, <1>3 DEF Arrives, ShutdownInv, ShutdownTypeOK, ThreadInv, FilesInv, SavedInv,
                      Running, mainVars, threadVars

\* Every step keeps the inductive invariant.
LEMMA StepShutdown == ShutdownInv /\ [Next]_vars => ShutdownInv'
  <1> SUFFICES ASSUME ShutdownInv, [Next]_vars PROVE ShutdownInv'
    OBVIOUS
  <1>1. CASE MainStep
    BY <1>1, InstallsStep, ReadsStep, InterruptedStep, ReadFailsStep, HandlesStep,
       LingerReadsStep, LingerEndsStep, EndsStep DEF MainStep
  <1>2. CASE ReadBreaks \/ TimeoutUnset \/ ThreadStep \/ Signal \/ Arrives
    BY <1>2, ReadFailsStep, ThreadSteps, SignalStep, ArrivesStep
  <1>3. CASE UNCHANGED vars
    BY <1>3 DEF vars, mainVars, threadVars, envVars, ShutdownInv, ShutdownTypeOK, QueueBounded,
                ThreadInv, FilesInv, SavedInv, Running
  <1> QED
    BY <1>1, <1>2, <1>3 DEF Next

-----------------------------------------------------------------------------
\* The inductive invariant holds of every behaviour.
THEOREM ShutdownInvariant == Spec => []ShutdownInv
  BY InitShutdown, StepShutdown, PTL DEF Spec

\* Every variable keeps its type and the main thread its place.
THEOREM ShutdownTypes == Spec => []ShutdownTypeOK
  <1>1. ShutdownInv => ShutdownTypeOK
    BY DEF ShutdownInv
  <1> QED
    BY <1>1, ShutdownInvariant, PTL

\* An error that comes of the shutdown is never the exit status (run_receive).
THEOREM ExitIsTrue == Spec => []ExitTrue
  <1>1. ShutdownInv => ExitTrue
    BY DEF ShutdownInv, ThreadInv, FilesInv, ExitTrue
  <1> QED
    BY <1>1, ShutdownInvariant, PTL

\* However receive_loop is left, the tmp file of a ReceiveState is removed.
THEOREM NoTmpAtExit == Spec => []TmpGone
  <1>1. ShutdownInv => TmpGone
    BY DEF ShutdownInv, FilesInv, TmpGone
  <1> QED
    BY <1>1, ShutdownInvariant, PTL

\* No read or send of linger, and no shutdown of its socket, turns a saved file
\* into a failure (see LingerHarmless): only a read timeout that cannot be set.
THEOREM LingersHarmlessly == Spec => []LingerHarmless
  <1>1. ShutdownInv => LingerHarmless
    BY DEF ShutdownInv, FilesInv, SavedInv, LingerHarmless
  <1> QED
    BY <1>1, ShutdownInvariant, PTL
=============================================================================
