----------------------------- MODULE NackClock -----------------------------
(***************************************************************************)
(* The clocks of udpcp recv (src/lib/recv.rs): when a gap is NACKed, when  *)
(* it is NACKed again and when a silent sender is given up.  Receiver.tla  *)
(* lets these timers fire at any moment; here they run on discrete time.   *)
(*                                                                         *)
(* A step is one turn of receive_loop, taken at the instant `now': the     *)
(* handling of a datagram or of a read timeout, and read_timeout for the   *)
(* next turn.  Time passes between turns only, and never past the instant  *)
(* at which the read times out.                                            *)
(***************************************************************************)
EXTENDS Integers, FiniteSets

CONSTANTS
    Total,          \* the chunks of a transfer
    None,           \* Option::None
    Holdoff,        \* --nack-holdoff
    Reissue,        \* NACK_REISSUE_INTERVAL
    Idle,           \* --idle-timeout
    MinWait,        \* the shortest wait read_timeout returns
    Spacing,        \* the network: least time between two datagrams; 0 for a flood
    Horizon         \* bound: how long the clock runs

ASSUME ClockAssumption ==
    /\ Total \in Nat
    /\ None \notin Int
    /\ Holdoff \in Nat /\ Reissue \in Nat /\ Idle \in Nat
    /\ MinWait \in Nat \ {0}
    /\ Spacing \in Nat
    /\ Horizon \in Nat

VARIABLES
    now,            \* Instant::now
    lastArrival,    \* when the last datagram arrived
    open,           \* a transfer is open: state and sender are set
    received,       \* ReceiveState.received; count is its cardinality
    frontier,       \* ReceiveState.frontier
    oldestGapAt,    \* ReceiveState.oldest_gap_at
    lastNackAt,     \* last_nack_at of receive_loop
    lastDataAt,     \* last_data_at of receive_loop
    wakeAt,         \* when the read in progress times out
    bornAt,         \* history: bornAt[q], when the frontier passed the missing chunk q
    nackedAt,       \* history: nackedAt[q], when q was last listed in a NACK
    heardAt         \* history: when a datagram of the sender last arrived

sessionVars == <<open, received, frontier, oldestGapAt, bornAt>>
vars == <<now, lastArrival, sessionVars, lastNackAt, lastDataAt, wakeAt, nackedAt, heardAt>>

Chunks == 0 .. (Total - 1)
Unset == [q \in Chunks |-> None]

Later(a, b) == IF a > b THEN a ELSE b
Earlier(a, b) == IF a < b THEN a ELSE b

\* The chunks missing below the frontier: collect_missing(frontier).
Gaps == {q \in Chunks : q < frontier /\ q \notin received}

HasOpenGap == Cardinality(received) < frontier

-----------------------------------------------------------------------------
(* Deadlines *)

\* next_nack_deadline, while there is a gap.
NackDue == IF lastNackAt = None THEN oldestGapAt + Holdoff
                                ELSE Later(oldestGapAt + Holdoff, lastNackAt + Reissue)

\* Mutant of Deadline: read_timeout waits for the idle timeout alone.
IdleDeadline == lastDataAt + Idle

\* The earlier of the deadlines read_timeout looks at.
Deadline == IF oldestGapAt = None THEN lastDataAt + Idle
                                  ELSE Earlier(lastDataAt + Idle, NackDue)

\* read_timeout for the next turn: until the deadline, and MinWait at least.
Arm == wakeAt' = Later(now + MinWait, Deadline')

-----------------------------------------------------------------------------
(* Turns of receive_loop that handle a datagram *)

\* Datagrams arrive at least Spacing apart.
Arrives == /\ lastArrival # None => now >= lastArrival + Spacing
           /\ lastArrival' = now

\* A datagram of the sender, or one that makes its address the sender.
Heard == Arrives /\ lastDataAt' = now /\ heardAt' = now

\* Mutant of NackClockOfNewTransfer: the clock of the transfer before goes on.
NackClockKept == lastNackAt

NackClockOfNewTransfer == None

\* INIT: a transfer opens.
Opens ==
    /\ ~open
    /\ Heard
    /\ open' = TRUE
    /\ received' = {}
    /\ frontier' = 0
    /\ oldestGapAt' = None
    /\ lastNackAt' = NackClockOfNewTransfer
    /\ bornAt' = Unset
    /\ nackedAt' = Unset
    /\ UNCHANGED now
    /\ Arm

\* Mutant of GapClock: the clock starts anew with every chunk.
GapClockRestarted(gap) == IF gap THEN now ELSE None

\* refresh_gap_clock
GapClock(gap) == IF ~gap THEN None
                 ELSE IF oldestGapAt # None THEN oldestGapAt ELSE now

\* A DATA is stored: the gaps it leaves below it are born, the one it fills
\* is closed.
Stores(q) ==
    /\ open
    /\ q \notin received
    /\ Heard
    /\ received' = received \cup {q}
    /\ frontier' = Later(frontier, q + 1)
    /\ oldestGapAt' = GapClock(HasOpenGap')
    /\ bornAt' = [r \in Chunks |-> IF frontier <= r /\ r < q THEN now ELSE bornAt[r]]
    /\ UNCHANGED <<now, open, lastNackAt, nackedAt>>
    /\ Arm

\* Anything else of the sender that changes no transfer: a chunk stored
\* already, a damaged datagram, an INIT again.
HearsSender ==
    /\ open
    /\ Heard
    /\ UNCHANGED <<now, sessionVars, lastNackAt, nackedAt>>
    /\ Arm

\* Mutant of HearsStranger: a stranger keeps the transfer alive.
StrangerCounts ==
    /\ open
    /\ Arrives
    /\ lastDataAt' = now
    /\ UNCHANGED <<now, sessionVars, lastNackAt, nackedAt, heardAt>>
    /\ Arm

\* A datagram of another address, or an interrupted read: only a new turn.
HearsStranger ==
    /\ open
    /\ Arrives
    /\ UNCHANGED <<now, sessionVars, lastNackAt, lastDataAt, nackedAt, heardAt>>
    /\ Arm

\* What NACKs that list `seqs' leave behind.
Nacks(seqs) == nackedAt' = [q \in Chunks |-> IF q \in seqs THEN now ELSE nackedAt[q]]

\* Mutant of NackClockAfterDone: the NACKs of a DONE do not count.
NackClockUntouched == lastNackAt

NackClockAfterDone == now

\* DONE with chunks missing: all of them are NACKed.
DoneNacks ==
    /\ open
    /\ received # Chunks
    /\ Heard
    /\ Nacks(Chunks \ received)
    /\ lastNackAt' = NackClockAfterDone
    /\ UNCHANGED <<now, sessionVars>>
    /\ Arm

\* The transfer is over (reset_listening): the receiver listens again.
Closes ==
    /\ open' = FALSE
    /\ received' = {}
    /\ frontier' = 0
    /\ oldestGapAt' = None
    /\ lastNackAt' = NackClockOfNewTransfer
    /\ wakeAt' = None
    /\ bornAt' = Unset
    /\ nackedAt' = Unset

\* DONE with every chunk in; linger is left out, it has its own clock.
DoneCloses ==
    /\ open
    /\ received = Chunks
    /\ Heard
    /\ Closes
    /\ UNCHANGED now

-----------------------------------------------------------------------------
(* Turns that handle a read timeout: on_idle_tick *)

\* Mutant of SenderGone: off by one.
SenderGoneLate == now - lastDataAt > Idle

SenderGone == now - lastDataAt >= Idle

GivesUp ==
    /\ open
    /\ now = wakeAt
    /\ SenderGone
    /\ Closes
    /\ UNCHANGED <<now, lastArrival, lastDataAt, heardAt>>

\* nack_gaps
GapNacks ==
    /\ open
    /\ now = wakeAt
    /\ ~SenderGone
    /\ oldestGapAt # None
    /\ now >= NackDue
    /\ Nacks(Gaps)
    /\ lastNackAt' = now
    /\ UNCHANGED <<now, lastArrival, sessionVars, lastDataAt, heardAt>>
    /\ Arm

\* Time passes while the receiver reads.
Tick ==
    /\ now < Horizon
    /\ open => now < wakeAt
    /\ now' = now + 1
    /\ UNCHANGED <<lastArrival, sessionVars, lastNackAt, lastDataAt, wakeAt, nackedAt, heardAt>>

Init ==
    /\ now = 0
    /\ lastArrival = None
    /\ open = FALSE
    /\ received = {}
    /\ frontier = 0
    /\ oldestGapAt = None
    /\ lastNackAt = None
    /\ lastDataAt = 0
    /\ wakeAt = None
    /\ bornAt = Unset
    /\ nackedAt = Unset
    /\ heardAt = 0

Next == \/ Opens
        \/ \E q \in Chunks : Stores(q)
        \/ HearsSender \/ HearsStranger
        \/ DoneNacks \/ DoneCloses
        \/ GivesUp \/ GapNacks
        \/ Tick

Spec == Init /\ [][Next]_vars

-----------------------------------------------------------------------------
(* Properties *)

MaybeTime == (0..Horizon) \cup {None}

\* The clocks are times that have been, or are not set; the read in progress
\* has not timed out yet.
ClockTypeOK ==
    /\ now \in 0..Horizon
    /\ {lastArrival, oldestGapAt, lastNackAt} \subseteq (0..now) \cup {None}
    /\ lastDataAt \in 0..now /\ heardAt \in 0..now
    /\ open \in BOOLEAN
    /\ received \subseteq Chunks
    /\ frontier \in 0..Total
    /\ IF open THEN wakeAt \in Nat /\ now <= wakeAt ELSE wakeAt = None
    /\ bornAt \in [Chunks -> MaybeTime] /\ nackedAt \in [Chunks -> MaybeTime]

\* The gap clock runs exactly while a chunk is missing below the frontier, and
\* no gap is older than it: has_open_gap knows from two counters what the
\* bitmap says, and refresh_gap_clock neither forgets a gap nor keeps the
\* clock of one that was filled (recv.rs:218-222, 245-248).
GapClockTrue ==
    open => /\ oldestGapAt = None <=> Gaps = {}
            /\ \A q \in Gaps : bornAt[q] # None /\ oldestGapAt <= bornAt[q]

\* Since when a gap waits to be NACKed, or NACKed again.
WaitsSince(q) == IF nackedAt[q] = None THEN bornAt[q] ELSE Later(bornAt[q], nackedAt[q])

\* Every gap is NACKed, and NACKed again while it stays, within the longer of
\* the holdoff and the reissue interval (and two shortest waits): the NACKs of
\* other gaps, DONEs, strangers and chunks that come in do not put it off.  Asks
\* for datagrams further apart than the shortest wait.
NackedInTime ==
    open => \A q \in Gaps :
        now <= WaitsSince(q) + Later(Holdoff, Reissue) + 2 * MinWait

\* README: "The receiver NACKs a gap as soon as it has persisted past
\* --nack-holdoff".  As long as a transfer has NACKed nothing its gaps wait for
\* the holdoff alone, whatever transfers before it NACKed.
FirstNackPrompt ==
    open /\ nackedAt = Unset =>
        \A q \in Gaps : now <= bornAt[q] + Holdoff + 2 * MinWait

\* "Re-NACK an unfilled gap no sooner than this, leaving room for a retransmit"
\* (NACK_REISSUE_INTERVAL): the timer never asks for a chunk that a NACK has
\* asked for within the interval, that of a DONE included.
NoEarlyRenack ==
    [][GapNacks => \A q \in Gaps : nackedAt[q] # None => now >= nackedAt[q] + Reissue]_vars

\* A silent sender is given up in time, whatever strangers send and however
\* often its gaps are NACKed meanwhile (again with datagrams apart).
SilenceEnds == open => now <= heardAt + Idle + 2 * MinWait

\* A read times out only for a reason: on_idle_tick gives up or NACKs, and
\* never finds it was woken for nothing (TickOutcome::Waiting).
EveryWakeActs ==
    open /\ now = wakeAt => SenderGone \/ (oldestGapAt # None /\ now >= NackDue)
=============================================================================
