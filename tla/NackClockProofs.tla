-------------------------- MODULE NackClockProofs --------------------------
(***************************************************************************)
(* Theorems about the receiver's clocks, for every number of chunks, every *)
(* holdoff, interval and timeout, and (where it matters) every network     *)
(* whose datagrams are further apart than the shortest wait.               *)
(***************************************************************************)
EXTENDS NackClock, FiniteSetTheorems, TLAPS

\* Every stored chunk sits below the frontier, and the gap clock runs exactly
\* while has_open_gap says so.
GapInv ==
    open => /\ \A q \in received : q < frontier
            /\ oldestGapAt = None <=> ~HasOpenGap
            /\ \A q \in Gaps : bornAt[q] \in 0..now /\ oldestGapAt <= bornAt[q]

\* last_nack_at is the time of the last NACK of this transfer: no chunk was
\* NACKed after it, and a gap that was there then was in it.
NackInv ==
    open => /\ \A q \in Chunks : nackedAt[q] # None =>
                   /\ lastNackAt # None
                   /\ nackedAt[q] \in 0..now /\ nackedAt[q] <= lastNackAt
            /\ \A q \in Gaps : lastNackAt # None => lastNackAt <= WaitsSince(q)
            /\ lastNackAt # None => nackedAt # Unset
            /\ heardAt = lastDataAt

\* The read in progress ends at the deadline or later, but not much later:
\* only a datagram that arrives between the deadline and the end of a read as
\* short as can be puts the end off once more.
WakeInv == open => wakeAt >= Deadline

PromptInv ==
    open => \/ wakeAt <= Deadline + MinWait
            \/ /\ lastArrival # None
               /\ wakeAt <= lastArrival + MinWait
               /\ wakeAt <= Deadline + 2 * MinWait

ClockInv == ClockTypeOK /\ GapInv /\ NackInv /\ WakeInv

-----------------------------------------------------------------------------
(* Lemmas *)

\* has_open_gap compares two counters; with every stored chunk below the
\* frontier that says whether a chunk is missing there.
LEMMA CountLemma ==
    ASSUME NEW S, NEW n \in Nat, S \subseteq 0..(n - 1)
    PROVE  /\ IsFiniteSet(S) /\ Cardinality(S) \in Nat
           /\ Cardinality(S) < n <=> \E q \in 0..(n - 1) : q \notin S
<1> DEFINE N == 0..(n - 1)
<1>1. IsFiniteSet(N) /\ Cardinality(N) = n
  BY FS_Interval
<1>2. S \in SUBSET N
  OBVIOUS
<1>3. IsFiniteSet(S) /\ Cardinality(S) \in Nat /\ Cardinality(S) <= n
  BY <1>1, <1>2, FS_Subset, FS_CardinalityType
<1>4. Cardinality(S) = n => S = N
  BY <1>1, <1>2, FS_Subset
<1>5. S = N => Cardinality(S) = n
  BY <1>1
<1>6. S = N <=> ~ \E q \in N : q \notin S
  BY <1>2
<1>7. Cardinality(S) < n <=> S # N
  BY <1>3, <1>4, <1>5
<1> QED
  BY <1>3, <1>6, <1>7

LEMMA TimeFacts ==
    ASSUME ClockTypeOK
    PROVE  /\ now \in Nat /\ lastDataAt \in Nat /\ frontier \in Nat
           /\ lastArrival # None => lastArrival \in Nat /\ lastArrival <= now
           /\ oldestGapAt # None => oldestGapAt \in Nat /\ oldestGapAt <= now
           /\ lastNackAt # None => lastNackAt \in Nat /\ lastNackAt <= now
           /\ open => wakeAt \in Nat /\ now <= wakeAt
BY ClockAssumption DEF ClockTypeOK

\* Deadlines are times.
LEMMA DeadlineType ==
    ASSUME ClockTypeOK
    PROVE  /\ oldestGapAt # None => NackDue \in Int
           /\ Deadline \in Int
BY TimeFacts, ClockAssumption DEF Deadline, NackDue, Later, Earlier

\* A read armed in a turn ends after the turn, at the next deadline or as soon
\* as read_timeout allows.
LEMMA ArmFacts ==
    ASSUME ClockTypeOK, Arm, now' = now, lastDataAt' \in 0..now,
           {oldestGapAt', lastNackAt'} \subseteq (0..now) \cup {None}
    PROVE  /\ wakeAt' \in Nat /\ now <= wakeAt' /\ Deadline' \in Int
           /\ wakeAt' = IF Deadline' >= now + MinWait THEN Deadline' ELSE now + MinWait
<1>1. now \in Nat /\ MinWait \in Nat \ {0}
  BY TimeFacts, ClockAssumption
<1>2. oldestGapAt' # None => NackDue' \in Int
  BY <1>1, ClockAssumption DEF NackDue, Later
<1>3. Deadline' \in Int
  BY <1>1, <1>2, ClockAssumption DEF Deadline, Earlier
<1> QED
  BY <1>1, <1>3 DEF Arm, Later

\* Later and Earlier on times.
LEMMA LaterFacts ==
    ASSUME NEW a \in Int, NEW b \in Int
    PROVE  /\ Later(a, b) \in Int /\ a <= Later(a, b) /\ b <= Later(a, b)
           /\ Later(a, b) \in {a, b}
BY DEF Later

-----------------------------------------------------------------------------
(* Types *)

LEMMA InitClock ==
    ASSUME Init
    PROVE  ClockInv /\ PromptInv
<1>1. ~open
  BY DEF Init
<1>2. bornAt \in [Chunks -> MaybeTime] /\ nackedAt \in [Chunks -> MaybeTime]
  BY DEF Init, Unset, MaybeTime
<1>3. ClockTypeOK
  <2>1. frontier \in 0..Total /\ now \in 0..Horizon
    BY ClockAssumption DEF Init
  <2>2. IF open THEN wakeAt \in Nat /\ now <= wakeAt ELSE wakeAt = None
    BY <1>1 DEF Init
  <2>3. {lastArrival, oldestGapAt, lastNackAt} \subseteq (0..now) \cup {None}
    BY DEF Init
  <2>4. lastDataAt \in 0..now /\ heardAt \in 0..now
    BY DEF Init
  <2>5. open \in BOOLEAN /\ received \subseteq Chunks
    BY DEF Init
  <2> QED
    BY <1>2, <2>1, <2>2, <2>3, <2>4, <2>5 DEF ClockTypeOK
<1> QED
  BY <1>1, <1>3 DEF ClockInv, GapInv, NackInv, WakeInv, PromptInv

\* Every step keeps the types.
LEMMA StepTypes ==
    ASSUME ClockTypeOK, [Next]_vars
    PROVE  ClockTypeOK'
<1> USE ClockAssumption DEF ClockTypeOK, MaybeTime
<1>1. now \in Nat /\ frontier \in 0..Total
  OBVIOUS
<1>2. CASE Opens
  <2>1. wakeAt' \in Nat /\ now <= wakeAt'
    BY <1>2, <1>1, ArmFacts DEF Opens, Heard, NackClockOfNewTransfer
  <2> QED
    BY <1>2, <2>1 DEF Opens, Heard, Arrives, NackClockOfNewTransfer, Unset
<1>3. ASSUME NEW q \in Chunks, Stores(q) PROVE ClockTypeOK'
  <2>1. oldestGapAt' \in (0..now) \cup {None}
    BY <1>3 DEF Stores, GapClock
  <2>2. wakeAt' \in Nat /\ now <= wakeAt'
    BY <1>3, <1>1, <2>1, ArmFacts DEF Stores, Heard
  <2>3. frontier' \in 0..Total
    BY <1>3 DEF Stores, Later, Chunks
  <2>4. bornAt' \in [Chunks -> (0..Horizon) \cup {None}]
    BY <1>3 DEF Stores
  <2> QED
    BY <1>3, <2>1, <2>2, <2>3, <2>4 DEF Stores, Heard, Arrives
<1>4. CASE HearsSender
  <2>1. wakeAt' \in Nat /\ now <= wakeAt'
    BY <1>4, <1>1, ArmFacts DEF HearsSender, Heard, sessionVars
  <2> QED
    BY <1>4, <2>1 DEF HearsSender, Heard, Arrives, sessionVars
<1>5. CASE HearsStranger
  <2>1. wakeAt' \in Nat /\ now <= wakeAt'
    BY <1>5, <1>1, ArmFacts DEF HearsStranger, sessionVars
  <2> QED
    BY <1>5, <2>1 DEF HearsStranger, Arrives, sessionVars
<1>6. CASE DoneNacks
  <2>1. wakeAt' \in Nat /\ now <= wakeAt'
    BY <1>6, <1>1, ArmFacts DEF DoneNacks, Heard, sessionVars, NackClockAfterDone
  <2> QED
    BY <1>6, <2>1 DEF DoneNacks, Nacks, Heard, Arrives, sessionVars, NackClockAfterDone
<1>7. CASE DoneCloses
  <2>1. open' = FALSE /\ wakeAt' = None
    BY <1>7 DEF DoneCloses, Closes
  <2>2. bornAt' \in [Chunks -> MaybeTime] /\ nackedAt' \in [Chunks -> MaybeTime]
    BY <1>7 DEF DoneCloses, Closes, Unset
  <2>3. received' \subseteq Chunks /\ frontier' \in 0..Total
    BY <1>7 DEF DoneCloses, Closes
  <2>4. /\ now' = now
        /\ {lastArrival', oldestGapAt', lastNackAt'} \subseteq (0..now) \cup {None}
        /\ lastDataAt' \in 0..now /\ heardAt' \in 0..now
    BY <1>1, <1>7 DEF DoneCloses, Closes, NackClockOfNewTransfer, Heard, Arrives
  <2>5. IF open' THEN wakeAt' \in Nat /\ now' <= wakeAt' ELSE wakeAt' = None
    BY <2>1
  <2> QED
    BY <2>1, <2>2, <2>3, <2>4, <2>5
<1>8. CASE GivesUp
  <2>1. open' = FALSE /\ wakeAt' = None
    BY <1>8 DEF GivesUp, Closes
  <2>2. bornAt' \in [Chunks -> MaybeTime] /\ nackedAt' \in [Chunks -> MaybeTime]
    BY <1>8 DEF GivesUp, Closes, Unset
  <2>3. received' \subseteq Chunks /\ frontier' \in 0..Total
    BY <1>8 DEF GivesUp, Closes
  <2>4. /\ now' = now
        /\ {lastArrival', oldestGapAt', lastNackAt'} \subseteq (0..now) \cup {None}
        /\ lastDataAt' \in 0..now /\ heardAt' \in 0..now
    BY <1>1, <1>8 DEF GivesUp, Closes, NackClockOfNewTransfer
  <2>5. IF open' THEN wakeAt' \in Nat /\ now' <= wakeAt' ELSE wakeAt' = None
    BY <2>1
  <2> QED
    BY <2>1, <2>2, <2>3, <2>4, <2>5
<1>9. CASE GapNacks
  <2>1. wakeAt' \in Nat /\ now <= wakeAt'
    BY <1>9, <1>1, ArmFacts DEF GapNacks, sessionVars
  <2> QED
    BY <1>9, <2>1 DEF GapNacks, Nacks, sessionVars
<1>10. CASE Tick
  BY <1>10 DEF Tick, sessionVars
<1>11. CASE UNCHANGED vars
  BY <1>11 DEF vars, sessionVars
<1> QED
  BY <1>2, <1>3, <1>4, <1>5, <1>6, <1>7, <1>8, <1>9, <1>10, <1>11 DEF Next

-----------------------------------------------------------------------------
(* The gap clock *)

\* The clock runs exactly while a chunk is missing below the frontier.
LEMMA OpenGapLemma ==
    ClockTypeOK /\ (\A q \in received : q < frontier) => (HasOpenGap <=> Gaps # {})
<1> SUFFICES ASSUME ClockTypeOK, \A q \in received : q < frontier
             PROVE  HasOpenGap <=> Gaps # {}
  OBVIOUS
<1>1. frontier \in Nat /\ Total \in Nat /\ received \subseteq 0..(frontier - 1)
  BY ClockAssumption DEF ClockTypeOK, Chunks
<1>2. Gaps = {q \in 0..(frontier - 1) : q \notin received}
  BY ClockAssumption DEF Gaps, Chunks, ClockTypeOK
<1>3. HasOpenGap <=> \E q \in 0..(frontier - 1) : q \notin received
  BY <1>1, CountLemma DEF HasOpenGap
<1> QED
  BY <1>2, <1>3

LEMMA OpenGapNext ==
    ClockTypeOK' /\ (\A q \in received : q < frontier)' => (HasOpenGap <=> Gaps # {})'
BY OpenGapLemma, PTL

\* Every step keeps the gap clock.
LEMMA StepGaps ==
    ASSUME ClockTypeOK, GapInv, [Next]_vars
    PROVE  GapInv'
<1>t. ClockTypeOK'
  BY StepTypes
<1>s. ASSUME UNCHANGED sessionVars, now' \in Nat, now <= now'
      PROVE  GapInv'
  BY <1>s DEF GapInv, sessionVars, Gaps, HasOpenGap, ClockTypeOK
<1>1. CASE Opens
  <2>1. open' /\ received' = {} /\ frontier' = 0 /\ oldestGapAt' = None
    BY <1>1 DEF Opens
  <2>2. Gaps' = {}
    BY <2>1 DEF Gaps, Chunks
  <2>3. ~HasOpenGap'
    BY <2>1, FS_EmptySet DEF HasOpenGap
  <2> QED
    BY <2>1, <2>2, <2>3 DEF GapInv
<1>2. ASSUME NEW q \in Chunks, Stores(q) PROVE GapInv'
  <2>1. /\ open /\ open' /\ now' = now /\ now \in Nat /\ q \in Nat /\ frontier \in Nat
        /\ received' = received \cup {q} /\ frontier' = Later(frontier, q + 1)
        /\ oldestGapAt' = GapClock(HasOpenGap')
    BY <1>2, ClockAssumption DEF Stores, ClockTypeOK, Chunks
  <2>2. \A r \in received' : r < frontier'
    BY <2>1, ClockAssumption DEF GapInv, Later, ClockTypeOK, Chunks
  <2>3. oldestGapAt' = None <=> ~HasOpenGap'
    BY <2>1, ClockAssumption DEF GapClock
  <2>4. ASSUME NEW r \in Gaps' PROVE bornAt'[r] \in 0..now /\ oldestGapAt' <= bornAt'[r]
    <3>1. r \in Chunks /\ r \in Nat /\ r \notin received /\ r # q /\ r < frontier'
      BY <2>1, ClockAssumption DEF Gaps, Chunks
    <3>2. bornAt'[r] = IF frontier <= r /\ r < q THEN now ELSE bornAt[r]
      BY <1>2, <3>1 DEF Stores
    <3>3. HasOpenGap'
      BY <1>t, <2>2, <2>4, OpenGapNext
    <3>4. oldestGapAt' = IF oldestGapAt # None THEN oldestGapAt ELSE now
      BY <2>1, <3>3 DEF GapClock
    <3>5. CASE r < frontier
      <4>1. r \in Gaps
        BY <3>1, <3>5 DEF Gaps
      <4> QED
        BY <2>1, <3>1, <3>2, <3>4, <3>5, <4>1, OpenGapLemma DEF GapInv
    <3>6. CASE ~(r < frontier)
      <4>1. bornAt'[r] = now
        BY <2>1, <3>1, <3>2, <3>6 DEF Later
      <4> QED
        BY <2>1, <3>4, <4>1, TimeFacts
    <3> QED
      BY <3>5, <3>6
  <2> QED
    BY <2>1, <2>2, <2>3, <2>4 DEF GapInv
<1>3. CASE DoneCloses \/ GivesUp
  BY <1>3 DEF DoneCloses, GivesUp, Closes, GapInv
<1>4. CASE HearsSender \/ HearsStranger \/ DoneNacks \/ GapNacks
  BY <1>4, <1>s DEF HearsSender, HearsStranger, DoneNacks, GapNacks, ClockTypeOK
<1>5. CASE Tick
  BY <1>5, <1>s DEF Tick, ClockTypeOK
<1>6. CASE UNCHANGED vars
  BY <1>6, <1>s DEF vars, ClockTypeOK
<1> QED
  BY <1>1, <1>2, <1>3, <1>4, <1>5, <1>6 DEF Next

-----------------------------------------------------------------------------
(* The time of the last NACK *)

\* Every step keeps what last_nack_at and last_data_at stand for.
LEMMA StepNacks ==
    ASSUME ClockTypeOK, GapInv, NackInv, [Next]_vars
    PROVE  NackInv'
<1> USE ClockAssumption
<1>t. ClockTypeOK'
  BY StepTypes
<1>g. GapInv'
  BY StepGaps
<1>1. CASE Opens
  <2>1. /\ received' = {} /\ frontier' = 0 /\ nackedAt' = Unset /\ lastNackAt' = None
        /\ heardAt' = lastDataAt'
    BY <1>1 DEF Opens, Heard, NackClockOfNewTransfer
  <2> QED
    BY <2>1 DEF NackInv, Unset, Gaps, Chunks
<1>2. ASSUME NEW q \in Chunks, Stores(q) PROVE NackInv'
  <2>1. /\ open /\ now' = now /\ now \in Nat /\ q \in Nat /\ frontier \in Nat
        /\ received' = received \cup {q} /\ frontier' = Later(frontier, q + 1)
        /\ lastNackAt' = lastNackAt /\ nackedAt' = nackedAt /\ Unset' = Unset
        /\ heardAt' = lastDataAt'
    BY <1>2 DEF Stores, Heard, ClockTypeOK, Chunks, Unset
  <2>2. ASSUME NEW r \in Gaps', lastNackAt # None PROVE lastNackAt <= WaitsSince(r)'
    <3>1. r \in Chunks /\ r \in Nat /\ r \notin received /\ r # q /\ r < frontier'
      BY <2>1 DEF Gaps, Chunks
    <3>2. bornAt'[r] = IF frontier <= r /\ r < q THEN now ELSE bornAt[r]
      BY <1>2, <3>1 DEF Stores
    <3>3. lastNackAt \in Nat /\ lastNackAt <= now /\ now \in Nat
      BY <2>2, TimeFacts
    <3>4. nackedAt[r] # None => nackedAt[r] \in Nat
      BY <2>1, <3>1 DEF NackInv
    <3>5. CASE r < frontier
      <4>1. r \in Gaps /\ bornAt'[r] = bornAt[r]
        BY <2>1, <3>1, <3>2, <3>5 DEF Gaps
      <4>2. WaitsSince(r)' = WaitsSince(r)
        BY <2>1, <4>1 DEF WaitsSince
      <4> QED
        BY <2>1, <2>2, <4>1, <4>2 DEF NackInv
    <3>6. CASE ~(r < frontier)
      <4>1. bornAt'[r] = now
        BY <2>1, <3>1, <3>2, <3>6 DEF Later
      <4> QED
        BY <2>1, <3>3, <3>4, <4>1 DEF WaitsSince, Later
    <3> QED
      BY <3>5, <3>6
  <2> QED
    BY <2>1, <2>2 DEF NackInv
<1>3. CASE DoneCloses \/ GivesUp
  BY <1>3 DEF DoneCloses, GivesUp, Closes, NackInv
<1>4. CASE HearsSender \/ HearsStranger
  <2>1. /\ now' = now /\ UNCHANGED sessionVars /\ lastNackAt' = lastNackAt /\ nackedAt' = nackedAt
        /\ heardAt = lastDataAt => heardAt' = lastDataAt'
    BY <1>4 DEF HearsSender, HearsStranger, Heard
  <2> QED
    BY <2>1 DEF NackInv, sessionVars, Gaps, WaitsSince, Unset
<1>5. ASSUME NEW seqs, seqs # {}, seqs \subseteq Chunks, Gaps \subseteq seqs, Nacks(seqs),
             open, now' = now, UNCHANGED sessionVars, lastNackAt' = now,
             heardAt = lastDataAt => heardAt' = lastDataAt'
      PROVE  NackInv'
  <2>1. /\ now \in Nat /\ nackedAt' = [q \in Chunks |-> IF q \in seqs THEN now ELSE nackedAt[q]]
        /\ Gaps' = Gaps /\ bornAt' = bornAt /\ Gaps \subseteq Chunks
    BY <1>5, TimeFacts DEF Nacks, sessionVars, Gaps
  <2>2. \A q \in Chunks : nackedAt'[q] # None => nackedAt'[q] \in 0..now
    BY <1>5, <2>1 DEF NackInv
  <2>3. \A q \in Gaps : nackedAt'[q] = now /\ bornAt[q] \in 0..now
    BY <1>5, <2>1 DEF GapInv
  <2>4. \A q \in Gaps' : now <= WaitsSince(q)'
    BY <2>1, <2>3 DEF WaitsSince, Later
  <2>5. nackedAt' # Unset
    BY <1>5, <2>1 DEF Unset
  <2> QED
    BY <1>5, <2>1, <2>2, <2>4, <2>5 DEF NackInv, Unset
<1>6. CASE DoneNacks
  <2>1. Chunks \ received # {} /\ Gaps \subseteq Chunks \ received
    BY <1>6 DEF DoneNacks, ClockTypeOK, Gaps
  <2> QED
    BY <1>5, <1>6, <2>1 DEF DoneNacks, Heard, NackClockAfterDone
<1>7. CASE GapNacks
  <2>1. Gaps # {} /\ Gaps \subseteq Chunks
    BY <1>7, OpenGapLemma DEF GapNacks, GapInv, Gaps
  <2> QED
    BY <1>5, <1>7, <2>1 DEF GapNacks
<1>8. CASE Tick
  <2>1. /\ UNCHANGED <<sessionVars, lastNackAt, nackedAt, heardAt, lastDataAt>>
        /\ now' = now + 1 /\ now \in Nat
    BY <1>8, TimeFacts DEF Tick
  <2> QED
    BY <2>1 DEF NackInv, sessionVars, Gaps, WaitsSince, Unset
<1>9. CASE UNCHANGED vars
  BY <1>9 DEF vars, sessionVars, NackInv, Gaps, WaitsSince, Unset
<1> QED
  BY <1>1, <1>2, <1>3, <1>4, <1>6, <1>7, <1>8, <1>9 DEF Next

-----------------------------------------------------------------------------
(* The end of the read *)

\* A turn that leaves a transfer open arms the next read.
LEMMA TurnArms ==
    ASSUME ClockTypeOK, [Next]_vars, open', now' = now
    PROVE  \/ /\ UNCHANGED <<wakeAt, lastArrival, lastDataAt, oldestGapAt, lastNackAt, open>>
           \/ /\ wakeAt' = IF Deadline' >= now + MinWait THEN Deadline' ELSE now + MinWait
              /\ Deadline' \in Int
<1>1. ClockTypeOK'
  BY StepTypes
<1>2. lastDataAt' \in 0..now /\ {oldestGapAt', lastNackAt'} \subseteq (0..now) \cup {None}
  BY <1>1 DEF ClockTypeOK
<1>3. ~Tick
  BY TimeFacts DEF Tick
<1>4. ~DoneCloses /\ ~GivesUp
  BY DEF DoneCloses, GivesUp, Closes
<1>5. Arm \/ UNCHANGED vars
  BY <1>3, <1>4 DEF Next, Opens, Stores, HearsSender, HearsStranger, DoneNacks, GapNacks
<1> QED
  BY <1>1, <1>2, <1>5, ArmFacts DEF vars, sessionVars

LEMMA EarlierFacts ==
    ASSUME NEW a \in Int, NEW b \in Int, NEW c \in Int, a <= b
    PROVE  Earlier(a, c) \in Int /\ Earlier(a, c) <= a /\ Earlier(a, c) <= Earlier(b, c)
BY DEF Earlier

LEMMA Shift ==
    ASSUME NEW a \in Int, NEW b \in Int, NEW n \in Nat, NEW m \in Nat, b >= a, n <= a + m
    PROVE  n <= b + m
OBVIOUS

\* How far a read ends from the deadline d when it is armed at the time n.
LEMMA WakeArithmetic ==
    ASSUME NEW d \in Int, NEW n \in Nat, NEW m \in Nat
    PROVE  LET w == IF d >= n + m THEN d ELSE n + m IN
           /\ w \in Int /\ w >= d
           /\ d >= n => w <= d + m
           /\ n <= d + m => w <= d + m \/ (w <= n + m /\ w <= d + 2 * m)
OBVIOUS

\* The read in progress never ends before the deadline.
LEMMA StepWake ==
    ASSUME ClockTypeOK, WakeInv, [Next]_vars
    PROVE  WakeInv'
<1>1. CASE Tick \/ UNCHANGED vars
  BY <1>1 DEF Tick, vars, sessionVars, WakeInv, Deadline, NackDue
<1>2. CASE Next /\ ~Tick
  <2>1. SUFFICES ASSUME open' PROVE wakeAt' >= Deadline'
    BY DEF WakeInv
  <2>2. now' = now /\ now \in Nat
    BY <1>2, TimeFacts DEF Next, Opens, Stores, HearsSender, HearsStranger, DoneNacks, DoneCloses,
       GivesUp, GapNacks
  <2>3. CASE UNCHANGED <<wakeAt, lastArrival, lastDataAt, oldestGapAt, lastNackAt, open>>
    BY <2>1, <2>3 DEF WakeInv, Deadline, NackDue
  <2>4. MinWait \in Nat
    BY ClockAssumption
  <2>5. CASE /\ wakeAt' = IF Deadline' >= now + MinWait THEN Deadline' ELSE now + MinWait
             /\ Deadline' \in Int
    BY <2>2, <2>4, <2>5
  <2> QED
    BY <2>1, <2>2, <2>3, <2>5, TurnArms
<1> QED
  BY <1>1, <1>2

\* The deadline a turn sets is not behind it, or it is an arrival that leaves
\* the deadline where it was or moves it on.
LEMMA StepDeadline ==
    ASSUME ClockTypeOK, Next, ~Tick, open'
    PROVE  Deadline' >= now \/ (Arrives /\ open /\ Deadline' >= Deadline)
<1> USE ClockAssumption
<1>i. now \in Nat /\ Idle \in Nat /\ now + Idle >= now /\ Deadline \in Int
  BY TimeFacts, DeadlineType
\* When the sender was heard now only the NACK deadline can be behind.
<1>h. ASSUME lastDataAt' = now, oldestGapAt' # None => NackDue' \in Int /\ NackDue' >= now
      PROVE  Deadline' >= now
  BY <1>i, <1>h DEF Deadline, Earlier
<1>k. ASSUME lastDataAt' = now, UNCHANGED <<oldestGapAt, lastNackAt>>
      PROVE  Deadline' >= Deadline
  <2>1. NackDue' = NackDue
    BY <1>k DEF NackDue
  <2>2. lastDataAt \in Int /\ lastDataAt <= now /\ (oldestGapAt # None => NackDue \in Int)
    BY TimeFacts, DeadlineType DEF ClockTypeOK
  <2> QED
    <3>1. CASE oldestGapAt = None
      BY <1>i, <1>k, <2>2, <3>1 DEF Deadline
    <3>2. CASE oldestGapAt # None
      <4>1. /\ Deadline = Earlier(lastDataAt + Idle, NackDue)
            /\ Deadline' = Earlier(now + Idle, NackDue)
        BY <1>k, <2>1, <3>2 DEF Deadline, Earlier
      <4>2. lastDataAt + Idle \in Int /\ now + Idle \in Int /\ lastDataAt + Idle <= now + Idle
        BY <1>i, <2>2
      <4> QED
        BY <2>2, <3>2, <4>1, <4>2, EarlierFacts
    <3> QED
      BY <3>1, <3>2
<1>1. CASE Opens
  BY <1>1, <1>h DEF Opens, Heard
<1>2. ASSUME NEW q \in Chunks, Stores(q)
      PROVE  Deadline' >= now \/ (Arrives /\ open /\ Deadline' >= Deadline)
  <2>1. lastDataAt' = now /\ lastNackAt' = lastNackAt /\ open /\ Arrives
    BY <1>2 DEF Stores, Heard
  <2>2. oldestGapAt' \in {None, now, oldestGapAt}
    BY <1>2 DEF Stores, GapClock
  <2>3. CASE oldestGapAt' = oldestGapAt
    BY <1>k, <2>1, <2>3
  <2>4. CASE oldestGapAt' = None
    BY <1>h, <2>1, <2>4
  <2>5. CASE oldestGapAt' = now
    <3>1. lastNackAt # None => lastNackAt \in Nat
      BY TimeFacts
    <3>2. NackDue' \in Int /\ NackDue' >= now
      BY <1>i, <2>1, <2>5, <3>1 DEF NackDue, Later
    <3> QED
      BY <1>h, <2>1, <3>2
  <2> QED
    BY <2>2, <2>3, <2>4, <2>5
<1>3. CASE HearsSender
  BY <1>3, <1>k DEF HearsSender, Heard, sessionVars
<1>4. CASE HearsStranger
  <2>1. Deadline' = Deadline /\ open /\ Arrives
    BY <1>4 DEF HearsStranger, sessionVars, Deadline, NackDue
  <2> QED
    BY <1>i, <2>1
\* A NACK now puts the next one off to now or later.
<1>n. ASSUME lastNackAt' = now, oldestGapAt' = oldestGapAt, oldestGapAt' # None
      PROVE  NackDue' \in Int /\ NackDue' >= now
  <2>1. oldestGapAt \in Nat /\ Reissue \in Nat /\ Holdoff \in Nat /\ now # None
    BY <1>n, TimeFacts
  <2> QED
    BY <1>i, <1>n, <2>1 DEF NackDue, Later
<1>5. CASE DoneNacks
  BY <1>5, <1>h, <1>n DEF DoneNacks, Heard, sessionVars, NackClockAfterDone
<1>6. CASE DoneCloses \/ GivesUp
  BY <1>6 DEF DoneCloses, GivesUp, Closes
<1>7. CASE GapNacks
  <2>1. lastNackAt' = now /\ UNCHANGED <<oldestGapAt, lastDataAt>> /\ ~(now - lastDataAt >= Idle)
    BY <1>7 DEF GapNacks, sessionVars, SenderGone
  <2>2. lastDataAt \in Int /\ lastDataAt + Idle >= now
    BY <1>i, <2>1, TimeFacts
  <2>3. oldestGapAt' # None => NackDue' \in Int /\ NackDue' >= now
    BY <1>n, <2>1
  <2> QED
    BY <1>i, <2>1, <2>2, <2>3 DEF Deadline, Earlier
<1> QED
  BY <1>1, <1>2, <1>3, <1>4, <1>5, <1>6, <1>7 DEF Next

\* With datagrams further apart than the shortest wait no read ends more than
\* two such waits after the deadline: an arrival that meets a read already
\* past it is the last one before that read ends.
LEMMA StepPrompt ==
    ASSUME Spacing > MinWait, ClockTypeOK, PromptInv, [Next]_vars
    PROVE  PromptInv'
<1>m. MinWait \in Nat /\ Spacing \in Nat
  BY ClockAssumption
<1>1. CASE Tick \/ UNCHANGED vars
  BY <1>1 DEF Tick, vars, sessionVars, PromptInv, Deadline, NackDue
<1>2. CASE Next /\ ~Tick
  <2>1. SUFFICES ASSUME open'
                 PROVE  \/ wakeAt' <= Deadline' + MinWait
                        \/ /\ lastArrival' # None
                           /\ wakeAt' <= lastArrival' + MinWait
                           /\ wakeAt' <= Deadline' + 2 * MinWait
    BY DEF PromptInv
  <2>2. now' = now /\ now \in Nat
    BY <1>2, TimeFacts DEF Next, Opens, Stores, HearsSender, HearsStranger, DoneNacks, DoneCloses,
       GivesUp, GapNacks
  <2>3. CASE UNCHANGED <<wakeAt, lastArrival, lastDataAt, oldestGapAt, lastNackAt, open>>
    BY <2>1, <2>3 DEF PromptInv, Deadline, NackDue
  <2>4. CASE /\ wakeAt' = IF Deadline' >= now + MinWait THEN Deadline' ELSE now + MinWait
             /\ Deadline' \in Int
    <3>1. CASE Deadline' >= now
      BY <1>m, <2>2, <2>4, <3>1, WakeArithmetic
    <3>2. CASE Arrives /\ open /\ Deadline' >= Deadline
      <4>1. Deadline \in Int
        BY DeadlineType
      <4>2. lastArrival' = now /\ (lastArrival # None => now >= lastArrival + Spacing)
        BY <3>2 DEF Arrives
      <4>3. now <= wakeAt /\ wakeAt \in Nat /\ (lastArrival # None => lastArrival \in Nat)
        BY <3>2, TimeFacts
      <4>4. wakeAt <= Deadline + MinWait
        BY <1>m, <2>2, <3>2, <4>1, <4>2, <4>3 DEF PromptInv
      <4>5. now <= Deadline' + MinWait /\ lastArrival' # None
        <5>1. now <= Deadline + MinWait
          BY <1>m, <2>2, <4>1, <4>3, <4>4
        <5>2. lastArrival' # None
          BY <2>2, <4>2, ClockAssumption
        <5>3. Deadline' >= Deadline /\ Deadline' \in Int
          BY <2>4, <3>2
        <5> QED
          BY <1>m, <2>2, <4>1, <5>1, <5>2, <5>3, Shift
      <4> QED
        BY <1>m, <2>2, <2>4, <4>2, <4>5, WakeArithmetic
    <3> QED
      BY <1>2, <2>1, <3>1, <3>2, StepDeadline
  <2> QED
    BY <2>1, <2>2, <2>3, <2>4, TurnArms
<1> QED
  BY <1>1, <1>2

-----------------------------------------------------------------------------
(* Theorems *)

THEOREM ClockInvariant == Spec => []ClockInv
<1>1. Init => ClockInv
  BY InitClock
<1>2. ClockInv /\ [Next]_vars => ClockInv'
  BY StepTypes, StepGaps, StepNacks, StepWake DEF ClockInv
<1> QED
  BY <1>1, <1>2, PTL DEF Spec

\* The clocks are well formed, whatever the holdoff, the intervals and the network.
THEOREM ClockTypes == Spec => []ClockTypeOK
BY ClockInvariant, PTL DEF ClockInv

\* The gap clock runs exactly while a chunk is missing below the frontier and
\* is as old as the oldest of them: refresh_gap_clock.
THEOREM GapClockIsTrue == Spec => []GapClockTrue
<1>1. ClockInv => GapClockTrue
  <2> SUFFICES ASSUME ClockInv, open PROVE GapClockTrue
    BY DEF GapClockTrue
  <2>1. oldestGapAt = None <=> Gaps = {}
    BY OpenGapLemma DEF ClockInv, GapInv
  <2>2. \A q \in Gaps : bornAt[q] # None /\ oldestGapAt <= bornAt[q]
    BY ClockAssumption, TimeFacts DEF ClockInv, GapInv
  <2> QED
    BY <2>1, <2>2 DEF GapClockTrue
<1> QED
  BY <1>1, ClockInvariant, PTL

\* No read times out for nothing: on_idle_tick always gives up or NACKs.
THEOREM WakesAct == Spec => []EveryWakeActs
<1>1. ClockInv => EveryWakeActs
  <2> SUFFICES ASSUME ClockInv, open, now = wakeAt
               PROVE  SenderGone \/ (oldestGapAt # None /\ now >= NackDue)
    BY DEF EveryWakeActs
  <2>1. now >= Deadline /\ now \in Nat /\ lastDataAt \in Nat /\ Idle \in Nat
    BY TimeFacts, ClockAssumption DEF ClockInv, WakeInv
  <2>2. CASE now >= lastDataAt + Idle
    BY <2>1, <2>2 DEF SenderGone
  <2>3. CASE ~(now >= lastDataAt + Idle)
    BY <2>1, <2>3 DEF Deadline, Earlier
  <2> QED
    BY <2>2, <2>3
<1> QED
  BY <1>1, ClockInvariant, PTL

\* The gap timer never asks again within the reissue interval: last_nack_at is
\* as late as the last NACK of any chunk, be it of a DONE.
THEOREM RenacksWait == Spec => NoEarlyRenack
<1>1. ClockInv /\ [Next]_vars
        => [GapNacks => \A q \in Gaps : nackedAt[q] # None => now >= nackedAt[q] + Reissue]_vars
  <2> SUFFICES ASSUME ClockInv, GapNacks, NEW q \in Gaps, nackedAt[q] # None
               PROVE  now >= nackedAt[q] + Reissue
    OBVIOUS
  <2>1. /\ lastNackAt # None /\ lastNackAt \in Nat
        /\ nackedAt[q] \in Nat /\ nackedAt[q] <= lastNackAt
    BY TimeFacts DEF ClockInv, NackInv, GapNacks, Gaps
  <2>2. now >= NackDue /\ oldestGapAt \in Nat /\ now \in Nat
    BY TimeFacts DEF ClockInv, GapNacks
  <2>3. NackDue = Later(oldestGapAt + Holdoff, lastNackAt + Reissue)
    BY <2>1 DEF NackDue
  <2>4. Reissue \in Nat /\ Holdoff \in Nat
    BY ClockAssumption
  <2> QED
    BY <2>1, <2>2, <2>3, <2>4 DEF Later
<1> QED
  BY <1>1, ClockInvariant, PTL DEF Spec, NoEarlyRenack

\* With datagrams further apart than the shortest wait a read ends in time.
THEOREM ReadsEnd == ASSUME Spacing > MinWait PROVE Spec => [](ClockInv /\ PromptInv)
<1>1. Init => ClockInv /\ PromptInv
  BY InitClock
<1>2. ClockInv /\ PromptInv /\ [Next]_vars => PromptInv'
  BY StepPrompt DEF ClockInv
<1> QED
  BY <1>1, <1>2, ClockInvariant, PTL DEF Spec

LEMMA TurnInTime ==
    ASSUME ClockInv, PromptInv, open
    PROVE  /\ now <= Deadline + 2 * MinWait
           /\ now \in Nat /\ MinWait \in Nat /\ Deadline \in Int
<1>1. /\ now \in Nat /\ wakeAt \in Nat /\ now <= wakeAt /\ MinWait \in Nat /\ Deadline \in Int
  BY TimeFacts, DeadlineType, ClockAssumption DEF ClockInv
<1>2. wakeAt <= Deadline + MinWait \/ wakeAt <= Deadline + 2 * MinWait
  BY DEF PromptInv
<1> QED
  BY <1>1, <1>2

\* With datagrams further apart than the shortest wait, every gap is NACKed,
\* and NACKed again, within the longer of the two intervals.
THEOREM GapsNackedInTime == ASSUME Spacing > MinWait PROVE Spec => []NackedInTime
<1>1. ClockInv /\ PromptInv => NackedInTime
  <2> SUFFICES ASSUME ClockInv, PromptInv, open, NEW q \in Gaps
               PROVE  now <= WaitsSince(q) + Later(Holdoff, Reissue) + 2 * MinWait
    BY DEF NackedInTime
  <2>1. /\ now <= Deadline + 2 * MinWait
        /\ now \in Nat /\ MinWait \in Nat /\ Deadline \in Int
    BY TurnInTime
  <2>2. /\ oldestGapAt # None /\ oldestGapAt \in Nat /\ lastDataAt \in Nat
        /\ bornAt[q] \in Nat /\ oldestGapAt <= bornAt[q] /\ None \notin Int
        /\ nackedAt[q] # None => nackedAt[q] \in Nat
        /\ lastNackAt # None => lastNackAt \in Nat /\ lastNackAt <= WaitsSince(q)
        /\ Holdoff \in Nat /\ Reissue \in Nat /\ Idle \in Nat
    BY TimeFacts, OpenGapLemma, ClockAssumption DEF ClockInv, GapInv, NackInv, Gaps
  <2>3. WaitsSince(q) \in Nat /\ bornAt[q] <= WaitsSince(q)
    BY <2>2 DEF WaitsSince, Later
  <2>4. NackDue \in Int /\ NackDue <= WaitsSince(q) + Later(Holdoff, Reissue)
    BY <2>2, <2>3 DEF NackDue, Later
  <2>5. Deadline <= NackDue
    BY <2>2, <2>4 DEF Deadline, Earlier
  <2>6. Later(Holdoff, Reissue) \in Int
    BY <2>2 DEF Later
  <2> QED
    BY <2>1, <2>3, <2>4, <2>5, <2>6
<1> QED
  BY <1>1, ReadsEnd, PTL

\* While a transfer has NACKed nothing, the holdoff alone puts a gap off.
THEOREM FirstNackIsPrompt == ASSUME Spacing > MinWait PROVE Spec => []FirstNackPrompt
<1>1. ClockInv /\ PromptInv => FirstNackPrompt
  <2> SUFFICES ASSUME ClockInv, PromptInv, open, nackedAt = Unset, NEW q \in Gaps
               PROVE  now <= bornAt[q] + Holdoff + 2 * MinWait
    BY DEF FirstNackPrompt
  <2>1. /\ now <= Deadline + 2 * MinWait
        /\ now \in Nat /\ MinWait \in Nat /\ Deadline \in Int
    BY TurnInTime
  <2>2. /\ oldestGapAt # None /\ oldestGapAt \in Nat /\ lastDataAt \in Nat
        /\ bornAt[q] \in Nat /\ oldestGapAt <= bornAt[q] /\ lastNackAt = None
        /\ Holdoff \in Nat /\ Idle \in Nat
    BY TimeFacts, OpenGapLemma, ClockAssumption DEF ClockInv, GapInv, NackInv
  <2>3. Deadline <= oldestGapAt + Holdoff
    BY <2>2 DEF Deadline, Earlier, NackDue
  <2> QED
    BY <2>1, <2>2, <2>3
<1> QED
  BY <1>1, ReadsEnd, PTL

\* A silent sender is given up in time, whatever strangers send.
THEOREM SilenceIsEnded == ASSUME Spacing > MinWait PROVE Spec => []SilenceEnds
<1>1. ClockInv /\ PromptInv => SilenceEnds
  <2> SUFFICES ASSUME ClockInv, PromptInv, open
               PROVE  now <= heardAt + Idle + 2 * MinWait
    BY DEF SilenceEnds
  <2>1. /\ now <= Deadline + 2 * MinWait
        /\ now \in Nat /\ MinWait \in Nat /\ Deadline \in Int
    BY TurnInTime
  <2>2. /\ lastDataAt \in Nat /\ heardAt = lastDataAt /\ Idle \in Nat
        /\ oldestGapAt # None => NackDue \in Int
    BY TimeFacts, DeadlineType, ClockAssumption DEF ClockInv, NackInv
  <2>3. Deadline <= lastDataAt + Idle
    <3>1. CASE oldestGapAt = None
      BY <2>2, <3>1 DEF Deadline
    <3>2. CASE oldestGapAt # None
      <4>1. Deadline = Earlier(lastDataAt + Idle, NackDue) /\ lastDataAt + Idle \in Int
        BY <2>2, <3>2 DEF Deadline
      <4>2. NackDue \in Int /\ lastDataAt + Idle <= lastDataAt + Idle
        BY <2>2, <3>2
      <4> QED
        BY <4>1, <4>2, EarlierFacts
    <3> QED
      BY <3>1, <3>2
  <2> QED
    BY <2>1, <2>2, <2>3
<1> QED
  BY <1>1, ReadsEnd, PTL
=============================================================================
