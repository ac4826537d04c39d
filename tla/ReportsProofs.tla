---------------------------- MODULE ReportsProofs ----------------------------
(***************************************************************************)
(* What a user and a script see of a transfer, for every instance of       *)
(* Reports: the JSON lines can be followed and are true, percentages rise  *)
(* and are honest, and the text reporter keeps its terminal tidy.          *)
(***************************************************************************)
EXTENDS Reports, UdpcpSafety

-----------------------------------------------------------------------------
(* One reporter and one event. *)

Milestones == {"start", "sending", "completed", "listening", "receiving", "saved", "failed", "lost"}
Reporters == [lastPct : Int, pcts : Seq(Nat), seen : Milestones, bar : BOOLEAN,
              screen : {"fresh", "bar", "torn", "glued"}]
Kinds == {"none", "error", "sending", "pass", "progress", "completed", "listening", "bad_init",
          "receiving", "missing", "saved", "failed"}
Events == [kind : Kinds, done : Nat, total : Nat]

LEMMA EventsTyped ==
    /\ \A kind \in Kinds : Event(kind) \in Events /\ Event(kind).kind = kind
    /\ \A done, total \in Nat : /\ ProgressEvent(done, total) \in Events
                                /\ ProgressEvent(done, total).kind = "progress"
    /\ Nothing \in Events /\ Nothing.kind = "none"
    /\ ExitError \in Events /\ ExitError.kind = "error"
BY DEF Event, ProgressEvent, Nothing, ExitError, Events, Kinds

LEMMA NewReporterTyped == NewReporter \in Reporters
BY DEF NewReporter, Reporters, Milestones

\* The whole percentage is a number that grows with what is done, up to 100.
LEMMA PercentLemma ==
    ASSUME NEW total \in Nat \ {0}, NEW done \in Nat
    PROVE  /\ Percent(done, total) \in Nat
           /\ \A more \in Nat : done <= more => Percent(done, total) <= Percent(more, total)
           /\ Percent(total, total) = 100
<1>1. total \in Nat /\ total > 0
  OBVIOUS
<1>2. \A n \in Nat : (n * 100) \div total \in Nat
  BY <1>1
<1>3. ASSUME NEW more \in Nat, done <= more
      PROVE  (done * 100) \div total <= (more * 100) \div total
  BY <1>1, <1>3
<1>4. (total * 100) \div total = 100
  BY <1>1
<1> QED BY <1>2, <1>3, <1>4 DEF Percent

\* Which line may follow which milestone: what the programs make use of.
LEMMA ReadLemma ==
    /\ \A kind \in {"sending", "listening"} : Read("start", kind) = kind
    /\ \A kind \in {"pass", "progress"} : Read("sending", kind) = "sending"
    /\ Read("sending", "completed") = "completed"
    /\ Read("listening", "bad_init") = "listening"
    /\ Read("listening", "receiving") = "receiving"
    /\ \A kind \in {"progress", "missing"} : Read("receiving", kind) = "receiving"
    /\ \A kind \in {"saved", "failed"} : Read("receiving", kind) = kind
    /\ \A seen \in {"saved", "failed"} : Read(seen, "listening") = "listening"
BY DEF Follows, Read

LEMMA ShowsTyped ==
    ASSUME NEW r \in Reporters, NEW e \in Events
    PROVE  Shows(r, e) \in Reporters
<1>1. e.total # 0 => Percent(e.done, e.total) \in Nat
  BY PercentLemma DEF Events
<1>2. Read(r.seen, e.kind) \in Milestones /\ Read(r.seen, "progress") \in Milestones
  BY DEF Read, Follows, Reporters, Milestones
<1>3. \A m \in Milestones :
          /\ [r EXCEPT !.seen = m] \in Reporters
          /\ \A n \in Int, p \in Seq(Nat) :
                 [r EXCEPT !.lastPct = n, !.pcts = p, !.seen = m] \in Reporters
  BY DEF Reporters
<1>4. JsonlPrint(r, e) \in Reporters
  <2>1. CASE Begins(e)
    <3>1. <<>> \in Seq(Nat) /\ -1 \in Int
      OBVIOUS
    <3>2. JsonlBegin(r, e) \in Reporters
      BY <1>2, <1>3, <3>1 DEF JsonlBegin
    <3> QED BY <2>1, <3>2 DEF JsonlPrint
  <2>2. CASE e.kind = "progress"
    <3>1. CASE Throttled(r, e)
      BY <2>2, <3>1 DEF JsonlPrint, JsonlProgress, Begins
    <3>2. CASE ~Throttled(r, e)
      <4>1. /\ Percent(e.done, e.total) \in Int
            /\ Append(r.pcts, Percent(e.done, e.total)) \in Seq(Nat)
        BY <1>1, <3>2 DEF Throttled, Reporters
      <4>2. JsonlProgress(r, e) \in Reporters
        BY <1>2, <1>3, <3>2, <4>1 DEF JsonlProgress
      <4> QED BY <2>2, <4>2 DEF JsonlPrint, Begins
    <3> QED BY <3>1, <3>2
  <2>3. CASE ~Begins(e) /\ e.kind # "progress"
    <3>1. JsonlPrint(r, e) \in {r, [r EXCEPT !.seen = Read(r.seen, e.kind)]}
      BY <2>3 DEF JsonlPrint
    <3> QED BY <1>2, <1>3, <3>1
  <2> QED BY <2>1, <2>2, <2>3
<1>5. TextPrint(r, e) \in Reporters
  BY DEF TextPrint, DrawBar, CloseBar, Newline, WriteLine, Reporters
<1>6. MainError(r) \in Reporters
  BY DEF MainError, Reporters
<1> QED BY <1>4, <1>5, <1>6 DEF Shows

\* A new status line is never written behind a bar.
Tidy(r) == r.screen # "torn" /\ (r.bar <=> r.screen \in {"bar", "glued"})

\* Every event leaves a tidy terminal tidy, but main's error may end it.
LEMMA ShowsTidy ==
    ASSUME NEW r \in Reporters, Tidy(r), r.screen # "glued", NEW e \in Events
    PROVE  /\ Tidy(Shows(r, e))
           /\ e.kind # "error" => Shows(r, e).screen # "glued"
<1>1. JsonlPrint(r, e).screen = r.screen /\ JsonlPrint(r, e).bar = r.bar
  BY DEF JsonlPrint, JsonlBegin, JsonlProgress, Reporters
<1>2. Tidy(MainError(r))
  BY DEF MainError, Tidy, Reporters
<1>3. Tidy(TextPrint(r, e)) /\ TextPrint(r, e).screen # "glued"
  BY DEF TextPrint, DrawBar, CloseBar, Newline, WriteLine, Tidy, Reporters
<1> QED BY <1>1, <1>2, <1>3 DEF Shows, Tidy

\* What a script reads of an event.
LEMMA ShowsSeen ==
    ASSUME NEW r \in Reporters, NEW e \in Events
    PROVE  /\ ~Jsonl \/ e.kind \in {"none", "error"} => Shows(r, e).seen = r.seen
           /\ Jsonl /\ e.kind \notin {"none", "error", "pass", "missing", "progress"} =>
                  Shows(r, e).seen = Read(r.seen, e.kind)
           /\ Shows(r, e).seen \in {r.seen, Read(r.seen, e.kind)}
<1>1. TextPrint(r, e).seen = r.seen
  BY DEF TextPrint, DrawBar, CloseBar, Newline, WriteLine, Reporters
<1>2. MainError(r).seen = r.seen
  BY DEF MainError, Reporters
<1>3. /\ e.kind \notin {"pass", "missing", "progress"} => JsonlPrint(r, e).seen = Read(r.seen, e.kind)
      /\ JsonlPrint(r, e).seen \in {r.seen, Read(r.seen, e.kind)}
  BY DEF JsonlPrint, JsonlBegin, JsonlProgress, Gated, Begins, Reporters
<1> QED BY <1>1, <1>2, <1>3 DEF Shows

-----------------------------------------------------------------------------
(* Percentages *)

Latest(pcts) == pcts[Len(pcts)]
Rising(pcts) == \A i, j \in DOMAIN pcts : i < j => pcts[i] < pcts[j]

\* The lines of one transfer: last_pct is the last percentage printed, if any.
Rises(r) ==
    /\ Rising(r.pcts)
    /\ IF r.pcts = <<>> THEN r.lastPct = -1
       ELSE Jsonl /\ Progress /\ r.lastPct = Latest(r.pcts)

\* The last line is the percentage of what is done.
UpToDate(r, done, total) ==
    IF r.pcts = <<>> THEN ~Jsonl \/ ~Progress \/ done = 0
    ELSE total # 0 /\ r.lastPct = Percent(done, total)

LEMMA EmptyRises == Rising(<<>>)
BY DEF Rising

\* Appending a larger number keeps a sequence rising.
LEMMA AppendRises ==
    ASSUME NEW p \in Seq(Nat), NEW n \in Nat, Rising(p), p # <<>> => Latest(p) < n
    PROVE  /\ Rising(Append(p, n)) /\ Latest(Append(p, n)) = n
           /\ Append(p, n) # <<>>
<1>1. /\ Len(p) \in Nat /\ DOMAIN p = 1..Len(p) /\ DOMAIN Append(p, n) = 1..(Len(p) + 1)
      /\ Len(Append(p, n)) = Len(p) + 1
      /\ Append(p, n)[Len(p) + 1] = n
      /\ \A i \in 1..Len(p) : Append(p, n)[i] = p[i] /\ p[i] \in Nat
  BY AppendProperties
<1>2. \A i \in 1..Len(p) : p[i] < n
  <2> SUFFICES ASSUME NEW i \in 1..Len(p) PROVE p[i] < n
    OBVIOUS
  <2>1. p # <<>> /\ Len(p) \in 1..Len(p)
    BY <1>1
  <2>2. i < Len(p) => p[i] < p[Len(p)]
    BY <1>1, <2>1 DEF Rising
  <2> QED BY <1>1, <2>1, <2>2 DEF Latest
<1>3. Rising(Append(p, n))
  BY <1>1, <1>2 DEF Rising
<1> QED BY <1>1, <1>3, AppendProperties DEF Latest

\* Events other than progress print no percentage.
LEMMA OthersRise ==
    ASSUME NEW r \in Reporters, NEW e \in Events, e.kind # "progress"
    PROVE  /\ Shows(r, e).pcts \in {r.pcts, <<>>}
           /\ Rises(r) => Rises(Shows(r, e))
           /\ ~Begins(e) => /\ Shows(r, e).pcts = r.pcts
                            /\ Shows(r, e).lastPct = r.lastPct
           /\ Begins(e) /\ Rises(r) => /\ Shows(r, e).pcts = <<>>
                                       /\ Shows(r, e).lastPct = -1
<1>1. TextPrint(r, e).pcts = r.pcts /\ TextPrint(r, e).lastPct = r.lastPct
  BY DEF TextPrint, DrawBar, CloseBar, Newline, WriteLine, Reporters
<1>2. MainError(r).pcts = r.pcts /\ MainError(r).lastPct = r.lastPct
  BY DEF MainError, Reporters
<1>3. ~Begins(e) => JsonlPrint(r, e).pcts = r.pcts /\ JsonlPrint(r, e).lastPct = r.lastPct
  BY DEF JsonlPrint, Reporters
<1>4. Begins(e) => JsonlPrint(r, e).pcts = <<>> /\ JsonlPrint(r, e).lastPct = -1
  BY DEF JsonlPrint, JsonlBegin, Begins, Gated, Reporters
<1>5. Begins(e) => e.kind \notin {"none", "error"}
  BY DEF Begins
<1> QED BY <1>1, <1>2, <1>3, <1>4, <1>5, EmptyRises DEF Shows, Rises

\* A progress event prints a larger percentage or none.
LEMMA ProgressRises ==
    ASSUME NEW r \in Reporters, NEW total \in Nat \ {0}, NEW done \in Nat, NEW more \in Nat,
           done <= more, Rises(r), UpToDate(r, done, total)
    PROVE  LET now == Shows(r, ProgressEvent(more, total))
           IN  Rises(now) /\ UpToDate(now, more, total)
<1> DEFINE e == ProgressEvent(more, total)
           n == Percent(more, total)
<1>1. e \in Events /\ e.kind = "progress" /\ e.done = more /\ e.total = total /\ total # 0
  BY DEF ProgressEvent, Events, Kinds
<1>2. n \in Nat /\ Percent(done, total) <= n
  BY PercentLemma
<1>3. CASE ~Jsonl \/ ~Progress
  <2>1. Shows(r, e).pcts = r.pcts /\ Shows(r, e).lastPct = r.lastPct
    BY <1>1, <1>3 DEF Shows, JsonlPrint, Gated, TextPrint, DrawBar, Reporters
  <2>2. r.pcts = <<>>
    BY <1>3 DEF Rises
  <2> QED BY <1>3, <2>1, <2>2 DEF Rises, UpToDate
<1>4. CASE Jsonl /\ Progress
  <2>1. Shows(r, e) = JsonlProgress(r, e)
    BY <1>1, <1>4 DEF Shows, JsonlPrint, Gated, Begins
  <2>2. CASE n = r.lastPct
    <3>1. JsonlProgress(r, e) = r
      BY <1>1, <2>2 DEF JsonlProgress, Throttled
    <3>2. r.pcts # <<>>
      BY <1>2, <2>2 DEF Rises
    <3> QED BY <2>1, <2>2, <3>1, <3>2 DEF UpToDate
  <2>3. CASE n # r.lastPct
    <3>1. /\ JsonlProgress(r, e).lastPct = n
          /\ JsonlProgress(r, e).pcts = Append(r.pcts, n)
      BY <1>1, <2>3 DEF JsonlProgress, Throttled, Reporters
    <3>2. r.pcts \in Seq(Nat) /\ r.lastPct \in Int
      BY DEF Reporters
    <3>3. r.pcts # <<>> => Latest(r.pcts) < n
      <4>1. r.pcts # <<>> => r.lastPct = Latest(r.pcts) /\ r.lastPct = Percent(done, total)
        BY DEF Rises, UpToDate
      <4>2. Percent(done, total) \in Nat
        BY PercentLemma
      <4> HIDE DEF n
      <4> QED BY <1>2, <2>3, <4>1, <4>2
    <3>4. /\ Rising(Append(r.pcts, n)) /\ Latest(Append(r.pcts, n)) = n
          /\ Append(r.pcts, n) # <<>>
      BY <1>2, <3>2, <3>3, AppendRises DEF Rises
    <3> HIDE DEF n
    <3> QED BY <1>1, <1>4, <2>1, <3>1, <3>4 DEF Rises, UpToDate, n
  <2> QED BY <2>2, <2>3
<1> QED BY <1>3, <1>4

-----------------------------------------------------------------------------
(* Reports takes the steps of Udpcp. *)

LEMMA StepsOfUdpcp ==
    ASSUME [ReportsNext]_allVars
    PROVE  [Next]_vars
<1>1. ASSUME NEW s \in Senders, SenderReports(s) PROVE SenderStep(s) \/ SenderUpset(s)
  BY <1>1 DEF SenderReports, ReportsSending, ReportsChunk, ReportsCompleted, ReportsPass, ReportsError,
              SendsQuietly, SenderStep, SenderUpset, SenderReceives, SenderProceeds, SenderTimeout
<1>2. ASSUME ReceiverReports
      PROVE  (\E m \in ArrivingAtReceiver : Deliver(m)) \/ ReceiverTimer \/ ReceiverUpset
  BY <1>2 DEF ReceiverReports, ReportsInit, ReportsData, ReportsSaved, ReportsMissing, ReportsLinger,
              ReportsTimeout, ReportsStop, ReportsRestart, Deliver, ReceiverReceives, ReceiverTimer,
              ReceiverUpset
<1>3. CASE UNCHANGED allVars
  BY <1>3 DEF allVars
<1> QED BY <1>1, <1>2, <1>3 DEF ReportsNext, Next

\* Hence what is proved of Udpcp holds of Reports.
THEOREM ReportsImplementsUdpcp == ReportsSpec => Spec
<1>1. ReportsStart => Init
  BY DEF ReportsStart
<1>2. [ReportsNext]_allVars => [Next]_vars
  BY StepsOfUdpcp
<1> QED BY <1>1, <1>2, PTL DEF ReportsSpec, Spec

\* How the reporter of a sender and its phase change together.
LEMMA SenderTells ==
    ASSUME SystemInv, NEW s \in Senders, SenderReports(s)
    PROVE  /\ UNCHANGED recvVars
           /\ \A t \in Senders : t # s => phase'[t] = phase[t]
           /\ \/ /\ phase[s] = "handshake" /\ phase'[s] = "blasting"
                 /\ \E e \in {Event("pass"), Nothing} : SaysTwo(s, Event("sending"), e)
              \/ /\ phase[s] = "blasting" /\ phase'[s] \in {"blasting", "draining"}
                 /\ ReportsChunk(s)
              \/ /\ phase[s] \in {"draining", "feedback"} /\ phase'[s] = "completed"
                 /\ Says(s, Event("completed"))
              \/ /\ phase[s] = "feedback" /\ phase'[s] = "blasting"
                 /\ \E e \in {Event("pass"), Nothing} : Says(s, e)
              \/ /\ ~Terminated(s) /\ phase'[s] = "failed"
                 /\ Says(s, ExitError)
              \/ /\ \/ phase'[s] = phase[s]
                    \/ {phase[s], phase'[s]} \subseteq {"start", "handshake"}
                    \/ {phase[s], phase'[s]} \subseteq {"blasting", "draining", "feedback"}
                 /\ UNCHANGED reporter
<1>1. phase \in [Senders -> Phases]
  BY DEF SystemInv, TypeOK, SenderTypeOK
<1>2. CASE ReportsSending(s)
  BY <1>1, <1>2 DEF ReportsSending, Accepted, Goto, PassOf, SenderReports
<1>3. CASE ReportsChunk(s)
  BY <1>1, <1>3 DEF ReportsChunk, SendChunk, Goto, SenderReports
<1>4. CASE ReportsCompleted(s)
  BY <1>1, <1>4 DEF ReportsCompleted, DrainFin, FeedbackFin, Complete, Goto, SenderReports
<1>5. CASE ReportsPass(s)
  BY <1>1, <1>5 DEF ReportsPass, FeedbackTimeout, Goto, PassOf, Terminated, SenderReports
<1>6. CASE ReportsError(s)
  BY <1>1, <1>6 DEF ReportsError, HandshakeFails, SenderFails, Goto, Terminated, SenderReports
<1>7. CASE SendsQuietly(s)
  <2>1. CASE OfferFile(s) \/ DrainEnd(s) \/ SendDone(s) \/ HandshakeTimeout(s)
    BY <1>1, <1>7, <2>1 DEF SendsQuietly, OfferFile, DrainEnd, SendDone, HandshakeTimeout, Goto,
          reportVars, SenderReports
  <2>2. CASE \/ \E m : DrainNack(s, m) \/ FeedbackNack(s, m) \/ IgnoreFeedback(s, m)
             \/ \E q : EditSource(s, q)
    BY <1>1, <1>7, <2>2 DEF SendsQuietly, DrainNack, FeedbackNack, IgnoreFeedback, EditSource,
          reportVars, sendVars, SenderReports
  <2> QED BY <1>7, <2>1, <2>2 DEF SendsQuietly
<1> QED BY <1>2, <1>3, <1>4, <1>5, <1>6, <1>7 DEF SenderReports

LEMMA NothingShown == \A r : Shows(r, Nothing) = r
BY DEF Shows, Nothing, Event

\* How the reporter of the receiver and its state change together.
LEMMA ReceiverTells ==
    ASSUME SystemInv, ReceiverReports
    PROVE  /\ UNCHANGED <<sendVars, progressDone, sent>>
           /\ \/ UNCHANGED <<rpc, from, header, count, reporter>>
              \/ /\ rpc = "listening" /\ rpc' = "receiving" /\ count' = 0
                 /\ Says(Recv, Event("receiving"))
              \/ /\ rpc = "listening" /\ UNCHANGED <<rpc, from, count>>
                 /\ Says(Recv, Event("bad_init"))
              \/ /\ rpc = "receiving" /\ UNCHANGED <<rpc, from, header>> /\ count' = count + 1
                 /\ header.total # 0
                 /\ Says(Recv, ProgressEvent(count', header.total))
              \/ /\ rpc = "receiving" /\ UNCHANGED <<rpc, from, header, count>>
                 /\ Says(Recv, Event("missing"))
              \/ /\ rpc = "receiving" /\ rpc' = "linger" /\ UNCHANGED from
                 /\ count = header.total /\ header.total = Total[from]
                 /\ Says(Recv, Event("saved"))
              \/ /\ rpc \in {"listening", "receiving"} /\ rpc' \in NextUp
                 /\ \E e \in IF rpc = "listening" THEN {Event("receiving")} ELSE {Nothing, Event("missing")} :
                        SaysThree(Recv, e, Abandoned, Listens)
              \/ /\ rpc = "linger" /\ rpc' \in NextUp
                 /\ Says(Recv, Listens)
              \/ /\ rpc \in {"listening", "receiving", "linger"} /\ rpc' = "exited"
                 /\ \E listened \in {Nothing, Listening}, last \in {Nothing, ExitError} :
                        /\ rpc # "linger" => listened = Nothing
                        /\ SaysTwo(Recv, listened, last)
              \/ /\ rpc \in {"listening", "receiving", "linger"} /\ rpc' = "down"
                 /\ UNCHANGED reporter
              \/ /\ rpc = "down" /\ rpc' = "listening"
                 /\ reporter' = [reporter EXCEPT ![Recv] = Shows(NewReporter, Event("listening"))]
<1>1. ASSUME NEW m \in ArrivingAtReceiver, ReportsInit(m)
      PROVE  \/ UNCHANGED <<rpc, from, header, count, reporter>>
             \/ /\ rpc = "listening" /\ rpc' = "receiving" /\ count' = 0
                /\ Says(Recv, Event("receiving"))
             \/ /\ rpc = "listening" /\ UNCHANGED <<rpc, from, count>>
                /\ Says(Recv, Event("bad_init"))
             \/ /\ rpc \in {"listening", "receiving"} /\ rpc' \in NextUp
                /\ \E e \in IF rpc = "listening" THEN {Event("receiving")} ELSE {Nothing, Event("missing")} :
                       SaysThree(Recv, e, Abandoned, Listens)
  <2>1. CASE InitOpens(m) /\ Says(Recv, Event("receiving"))
    BY <2>1 DEF InitOpens, TransferOf
  <2>2. CASE (InitRejected(m) \/ InitCannotSize(m)) /\ Says(Recv, Event("bad_init"))
    BY <2>2 DEF InitRejected, InitCannotSize, recvVars
  <2>3. CASE InitAgain(m) /\ UNCHANGED reporter
    BY <2>3 DEF InitAgain, recvVars
  <2>4. CASE InitUnanswered(m) /\ SaysThree(Recv, IF rpc = "listening" THEN Event("receiving") ELSE Nothing,
                                           Abandoned, Listens)
    <3>1. CASE rpc = "listening" /\ \E h \in HeadersFrom(m.from) : Abandon(h.path, Sized(h))
      <4>1. rpc' \in NextUp
        BY <3>1, AbandonLeaves
      <4> QED BY <2>4, <3>1, <4>1
    <3>2. CASE rpc = "receiving" /\ AbandonOpen
      <4>1. rpc' \in NextUp
        BY <3>2, AbandonLeaves DEF AbandonOpen
      <4> QED BY <2>4, <3>2, <4>1
    <3> QED BY <2>4, <3>1, <3>2 DEF InitUnanswered
  <2> QED BY <1>1, <2>1, <2>2, <2>3, <2>4 DEF ReportsInit
<1>2. ASSUME NEW m \in ArrivingAtReceiver, ReportsData(m)
      PROVE  \/ UNCHANGED <<rpc, from, header, count, reporter>>
             \/ /\ rpc = "receiving" /\ UNCHANGED <<rpc, from, header>> /\ count' = count + 1
                /\ header.total # 0
                /\ Says(Recv, ProgressEvent(count', header.total))
             \/ /\ rpc = "receiving" /\ rpc' \in NextUp
                /\ SaysThree(Recv, Nothing, Abandoned, Listens)
  <2>1. CASE DataStored(m) /\ Says(Recv, ProgressEvent(StoredNow, header.total))
    <3>1. m.seq \in Nat
      BY ArrivingTyped DEF SystemInv, TypeOK, ReceiverDatagrams
    <3>2. header.total \in Nat
      BY <2>1, OpenHeader DEF SystemInv, TypeOK, DataStored, FromSender
    <3>3. header.total # 0
      BY <2>1, <3>1, <3>2 DEF DataStored, Storable
    <3> QED BY <2>1, <3>3 DEF DataStored, FromSender, StoredNow
  <2>2. CASE DataUnwritable(m) /\ SaysTwo(Recv, Abandoned, Listens)
    BY <2>2, NothingShown, AbandonLeaves DEF DataUnwritable, FromSender, AbandonOpen, SaysTwo, SaysThree
  <2>3. CASE DataIgnored(m) /\ UNCHANGED reporter
    BY <2>3 DEF DataIgnored, recvVars
  <2> QED BY <1>2, <2>1, <2>2, <2>3 DEF ReportsData
<1>3. ASSUME NEW m \in ArrivingAtReceiver, ReportsSaved(m)
      PROVE  \/ /\ rpc = "receiving" /\ rpc' = "linger" /\ UNCHANGED from
                /\ count = header.total /\ header.total = Total[from]
                /\ Says(Recv, Event("saved"))
             \/ /\ rpc = "receiving" /\ rpc' \in NextUp
                /\ SaysThree(Recv, Nothing, Abandoned, Listens)
  <2>1. CASE DoneSaves(m) /\ Says(Recv, Event("saved"))
    BY <2>1, SavingStep DEF DoneSaves, FromSender, Full, ForgetTransfer
  <2>2. CASE DoneFails(m) /\ SaysTwo(Recv, Abandoned, Listens)
    BY <2>2, NothingShown, AbandonLeaves DEF DoneFails, FromSender, AbandonOpen, SaysTwo, SaysThree
  <2> QED BY <1>3, <2>1, <2>2 DEF ReportsSaved
<1>4. ASSUME NEW m \in ArrivingAtReceiver, ReportsMissing(m)
      PROVE  \/ /\ rpc = "receiving" /\ UNCHANGED <<rpc, from, header, count>>
                /\ Says(Recv, Event("missing"))
             \/ /\ rpc = "receiving" /\ rpc' \in NextUp
                /\ SaysThree(Recv, Event("missing"), Abandoned, Listens)
  <2>1. CASE DoneIncomplete(m) /\ UNCHANGED recvVars
    BY <1>4, <2>1 DEF ReportsMissing, DoneIncomplete, FromSender, recvVars
  <2>2. CASE DoneIncomplete(m) /\ AbandonOpen
    <3>1. rpc = "receiving" /\ rpc' \in NextUp /\ rpc' # "receiving"
      BY <2>2, AbandonLeaves DEF DoneIncomplete, FromSender, AbandonOpen
    <3> QED BY <1>4, <3>1 DEF ReportsMissing
  <2> QED BY <1>4, <2>1, <2>2 DEF ReportsMissing, DoneIncomplete, NackFails
<1>5. ASSUME NEW m \in ArrivingAtReceiver, ReportsLinger(m)
      PROVE  \/ UNCHANGED <<rpc, from, header, count, reporter>>
             \/ /\ rpc = "linger" /\ rpc' \in NextUp
                /\ Says(Recv, Listens)
  BY <1>5, LingerLeaves DEF ReportsLinger, FinAckArrives, DoneInLinger, DatagramDropped, recvVars
<1>6. ASSUME ReportsTimeout
      PROVE  \/ UNCHANGED <<rpc, from, header, count, reporter>>
             \/ /\ rpc = "receiving" /\ rpc' \in NextUp
                /\ SaysThree(Recv, Nothing, Abandoned, Listens)
             \/ /\ rpc = "linger" /\ rpc' \in NextUp
                /\ Says(Recv, Listens)
  <2>1. CASE GapTimer /\ IF rpc' = "receiving" THEN UNCHANGED reporter ELSE SaysTwo(Recv, Abandoned, Listens)
    <3>1. CASE GapTimer /\ UNCHANGED recvVars
      BY <2>1, <3>1 DEF GapTimer, recvVars
    <3>2. CASE GapTimer /\ AbandonOpen
      <4>1. rpc = "receiving" /\ rpc' \in NextUp /\ rpc' # "receiving"
        BY <3>2, AbandonLeaves DEF GapTimer, AbandonOpen
      <4> QED BY <2>1, <4>1, NothingShown DEF SaysTwo, SaysThree
    <3> QED BY <2>1, <3>1, <3>2 DEF GapTimer, NackFails
  <2>2. CASE IdleTimeout /\ SaysTwo(Recv, Abandoned, Listens)
    BY <2>2, NothingShown, AbandonLeaves DEF IdleTimeout, AbandonOpen, SaysTwo, SaysThree
  <2>3. CASE LingerEnds /\ Says(Recv, Listens)
    BY <2>3, LingerLeaves DEF LingerEnds
  <2> QED BY <1>6, <2>1, <2>2, <2>3 DEF ReportsTimeout
<1>7. ASSUME ReportsStop
      PROVE  /\ rpc \in {"listening", "receiving", "linger"} /\ rpc' = "exited"
             /\ \E listened \in {Nothing, Listening}, last \in {Nothing, ExitError} :
                    /\ rpc # "linger" => listened = Nothing
                    /\ SaysTwo(Recv, listened, last)
  BY <1>7 DEF ReportsStop, Stop, ForgetTransfer
<1>8. ASSUME Crash
      PROVE  rpc \in {"listening", "receiving", "linger"} /\ rpc' = "down"
  BY <1>8 DEF Crash, ForgetTransfer
<1>9. ASSUME ReportsRestart
      PROVE  /\ rpc = "down" /\ rpc' = "listening"
             /\ reporter' = [reporter EXCEPT ![Recv] = Shows(NewReporter, Event("listening"))]
  BY <1>9 DEF ReportsRestart, Restart, ForgetTransfer
<1> QED BY <1>1, <1>2, <1>3, <1>4, <1>5, <1>6, <1>7, <1>8, <1>9 DEF ReceiverReports

-----------------------------------------------------------------------------
(* Types *)

ReportsTyped ==
    /\ reporter \in [Processes -> Reporters]
    /\ progressDone \in [Senders -> Nat]
    /\ DOMAIN sent = Senders

LEMMA EventsOfReceiver ==
    /\ {Abandoned, Listening, Listens, Nothing, ExitError} \subseteq Events
    /\ \A kind \in {"listening", "receiving", "bad_init", "missing", "saved"} : Event(kind) \in Events
<1>1. \A kind \in Kinds : Event(kind) \in Events
  BY EventsTyped
<1>2. {Nothing, ExitError} \subseteq Events
  BY EventsTyped
<1>3. {Event("failed"), Event("listening")} \subseteq Events
  BY <1>1 DEF Kinds
<1> QED BY <1>1, <1>2, <1>3 DEF Abandoned, Listening, Listens, Kinds

\* Only an error keeps a serving receiver from listening again.
LEMMA ListensLemma ==
    ASSUME rpc' \in NextUp
    PROVE  \/ rpc' = "listening" /\ Serve /\ Listens = Listening /\ Listening = Event("listening")
           \/ rpc' = "exited" /\ Serve /\ Listens = ExitError
           \/ rpc' = "exited" /\ ~Serve /\ Listens = Nothing /\ Listening = Nothing
BY DEF NextUp, Listens, Listening

LEMMA DoneNowLemma ==
    ASSUME SystemInv, SystemInv', ReportsTyped, NEW s \in Senders
    PROVE  /\ DoneNow(s) \in Nat
           /\ progressDone[s] <= DoneNow(s)
           /\ Total[s] - Len(pending'[s]) <= DoneNow(s)
           /\ progressDone[s] <= Total[s] => DoneNow(s) <= Total[s]
<1>1. Len(pending'[s]) \in Nat
  BY DEF SystemInv, TypeOK, SenderTypeOK
<1>2. progressDone[s] \in Nat /\ Total[s] \in Nat
  BY FilesAssumption DEF ReportsTyped
<1> QED BY <1>1, <1>2 DEF DoneNow

LEMMA TypedStep == SystemInv /\ SystemInv' /\ ReportsTyped /\ [ReportsNext]_allVars => ReportsTyped'
<1> SUFFICES ASSUME SystemInv, SystemInv', ReportsTyped, [ReportsNext]_allVars PROVE ReportsTyped'
  OBVIOUS
<1>1. \A p \in Processes : reporter[p] \in Reporters
  BY DEF ReportsTyped
<1>2. \A p \in Processes, x \in Reporters : [reporter EXCEPT ![p] = x] \in [Processes -> Reporters]
  BY DEF ReportsTyped
<1>3. \A r \in Reporters, e \in Events : Shows(r, e) \in Reporters
  BY ShowsTyped
<1>4. CASE ReceiverReports
  <2>1. Recv \in Processes
    BY DEF Processes
  <2>3. rpc = "receiving" => header.total \in Nat
    BY OpenHeader DEF SystemInv, TypeOK
  <2>4. count' \in Nat
    BY DEF SystemInv, TypeOK, RecvTypeOK
  <2>5. rpc = "receiving" => ProgressEvent(count', header.total) \in Events
    BY <2>3, <2>4, EventsTyped
  <2>6. reporter' \in [Processes -> Reporters]
    <3>1. ASSUME NEW e \in Events, Says(Recv, e) PROVE reporter' \in [Processes -> Reporters]
      BY <1>1, <1>2, <1>3, <2>1, <3>1 DEF Says
    <3>2. ASSUME NEW d \in Events, NEW e \in Events, SaysTwo(Recv, d, e)
          PROVE  reporter' \in [Processes -> Reporters]
      BY <1>1, <1>2, <1>3, <2>1, <3>2 DEF SaysTwo
    <3>3. ASSUME NEW c \in Events, NEW d \in Events, NEW e \in Events, SaysThree(Recv, c, d, e)
          PROVE  reporter' \in [Processes -> Reporters]
      BY <1>1, <1>2, <1>3, <2>1, <3>3 DEF SaysThree
    <3>4. reporter' = [reporter EXCEPT ![Recv] = Shows(NewReporter, Event("listening"))]
              => reporter' \in [Processes -> Reporters]
      BY <1>2, <1>3, <2>1, NewReporterTyped, EventsOfReceiver
    <3>5. reporter' = reporter => reporter' \in [Processes -> Reporters]
      BY DEF ReportsTyped
    <3> QED BY <1>4, <2>5, <3>1, <3>2, <3>3, <3>4, <3>5, ReceiverTells, EventsOfReceiver
  <2> QED BY <1>4, <2>6, ReceiverTells DEF ReportsTyped
<1>5. ASSUME NEW s \in Senders, SenderReports(s) PROVE ReportsTyped'
  <2>1. s \in Processes
    BY DEF Processes
  <2>2. ASSUME NEW e \in Events, Says(s, e) PROVE reporter' \in [Processes -> Reporters]
    BY <1>1, <1>2, <1>3, <2>1, <2>2 DEF Says
  <2>3. ASSUME NEW d \in Events, NEW e \in Events, SaysTwo(s, d, e)
        PROVE  reporter' \in [Processes -> Reporters]
    BY <1>1, <1>2, <1>3, <2>1, <2>3 DEF SaysTwo
  <2>4. CASE ReportsChunk(s)
    <3>1. progressDone'[s] \in Nat /\ progressDone' \in [Senders -> Nat]
      BY <2>4, DoneNowLemma DEF ReportsChunk, ReportsTyped
    <3>2. ProgressEvent(progressDone'[s], Total[s]) \in Events
      BY <3>1, EventsTyped, FilesAssumption
    <3> QED BY <2>2, <2>4, <3>1, <3>2 DEF ReportsChunk, ReportsTyped
  <2>5. CASE UNCHANGED <<progressDone, sent>> /\ ~ReportsChunk(s)
    <3>1. /\ \A kind \in {"sending", "completed", "pass"} : Event(kind) \in Events
          /\ {Nothing, ExitError} \subseteq Events
      BY EventsTyped DEF Kinds
    <3>2. reporter' = reporter => reporter' \in [Processes -> Reporters]
      BY DEF ReportsTyped
    <3>3. reporter' \in [Processes -> Reporters]
      BY <1>5, <2>2, <2>3, <2>5, <3>1, <3>2, SenderTells
    <3> QED BY <2>5, <3>3 DEF ReportsTyped
  <2> QED BY <1>5, <2>4, <2>5 DEF SenderReports, ReportsSending, ReportsCompleted, ReportsPass,
             ReportsError, SendsQuietly, reportVars
<1>6. CASE UNCHANGED allVars
  BY <1>6 DEF allVars, reportVars, ReportsTyped
<1> QED BY <1>4, <1>5, <1>6 DEF ReportsNext

LEMMA TypedInit == ReportsStart => ReportsTyped
<1> SUFFICES ASSUME ReportsStart PROVE ReportsTyped
  OBVIOUS
<1>1. Shows(NewReporter, Event("listening")) \in Reporters /\ NewReporter \in Reporters
  BY NewReporterTyped, EventsOfReceiver, ShowsTyped
<1> QED BY <1>1 DEF ReportsStart, ReportsTyped

\* Only the process that steps says something.
LEMMA SpeaksLemma ==
    ASSUME ReportsTyped, NEW p \in Processes
    PROVE  /\ \A e : Says(p, e) => reporter'[p] = Shows(reporter[p], e)
           /\ \A d, e : SaysTwo(p, d, e) => reporter'[p] = Shows(Shows(reporter[p], d), e)
           /\ \A c, d, e : SaysThree(p, c, d, e) =>
                  reporter'[p] = Shows(Shows(Shows(reporter[p], c), d), e)
BY DEF ReportsTyped, Says, SaysTwo, SaysThree

LEMMA OthersSilent ==
    ASSUME SystemInv, ReportsTyped
    PROVE  /\ \A s \in Senders : SenderReports(s) =>
                  \A q \in Processes : q # s => reporter'[q] = reporter[q]
           /\ ReceiverReports => \A q \in Senders : reporter'[q] = reporter[q]
<1>1. \A p, x : reporter' = [reporter EXCEPT ![p] = x] => \A q \in Processes : q # p => reporter'[q] = reporter[q]
  BY DEF ReportsTyped
<1>2. ASSUME NEW s \in Senders, SenderReports(s), NEW q \in Processes, q # s
      PROVE  reporter'[q] = reporter[q]
  <2>1. UNCHANGED reporter \/ \E x : reporter' = [reporter EXCEPT ![s] = x]
    BY <1>2 DEF SenderReports, ReportsSending, ReportsChunk, ReportsCompleted, ReportsPass,
                ReportsError, SendsQuietly, reportVars, Says, SaysTwo
  <2> QED BY <1>1, <1>2, <2>1
<1>3. ASSUME ReceiverReports, NEW q \in Senders
      PROVE  reporter'[q] = reporter[q]
  <2>1. q \in Processes /\ q # Recv
    BY RecvAssumption DEF Processes
  <2>2. UNCHANGED reporter \/ \E x : reporter' = [reporter EXCEPT ![Recv] = x]
    BY <1>3, ReceiverTells DEF Says, SaysTwo, SaysThree
  <2> QED BY <1>1, <2>1, <2>2
<1> QED BY <1>2, <1>3

-----------------------------------------------------------------------------
(* The terminal *)

Clean(r) == Tidy(r) /\ r.screen # "glued"
Ended(p) == IF p = Recv THEN rpc = "exited" ELSE phase[p] = "failed"

\* main's error is the last thing a process prints.
ScreensInv ==
    \A p \in Processes : Tidy(reporter[p]) /\ (reporter[p].screen = "glued" => Ended(p))

LEMMA CleanLemma ==
    /\ \A r \in Reporters, e \in Events :
           Clean(r) => /\ Shows(r, e) \in Reporters
                       /\ Tidy(Shows(r, e))
                       /\ e.kind # "error" => Clean(Shows(r, e))
    /\ Clean(NewReporter)
BY ShowsTidy, ShowsTyped DEF Clean, Tidy, NewReporter

LEMMA ScreensOfReceiver ==
    ASSUME SystemInv, SystemInv', ReportsTyped, ScreensInv, ReceiverReports
    PROVE  Tidy(reporter'[Recv]) /\ (reporter'[Recv].screen = "glued" => rpc' = "exited")
<1> DEFINE r == reporter[Recv]
           now == reporter'[Recv]
           Goal == Tidy(now) /\ (now.screen = "glued" => rpc' = "exited")
<1>1. Recv \in Processes /\ r \in Reporters /\ NewReporter \in Reporters
  BY NewReporterTyped DEF Processes, ReportsTyped
<1>2. Tidy(r) /\ (rpc # "exited" => Clean(r))
  BY <1>1 DEF ScreensInv, Ended, Clean
<1>3. \A e \in {Event(kind) : kind \in {"listening", "receiving", "bad_init", "missing", "saved"}} \cup {Nothing, Listening} :
          e \in Events /\ e.kind # "error"
  BY EventsTyped DEF Kinds, Listening
<1>4. \A e \in {Abandoned, Listening, Listens, Nothing, ExitError} : e \in Events
  BY EventsOfReceiver
<1>5. CASE UNCHANGED <<rpc, from, header, count, reporter>>
  BY <1>2, <1>5 DEF Clean
<1>6. CASE rpc # "exited" /\ \E e \in Events : e.kind # "error" /\ Says(Recv, e)
  BY <1>1, <1>2, <1>6, SpeaksLemma, CleanLemma DEF Clean
<1>7. ASSUME rpc \in {"listening", "receiving"}, rpc' \in NextUp,
             NEW e \in {Event("receiving"), Nothing, Event("missing")},
             SaysThree(Recv, e, Abandoned, Listens)
      PROVE  Goal
  <2>1. Shows(r, e) \in Reporters /\ Clean(Shows(r, e))
    BY <1>1, <1>2, <1>3, <1>7, CleanLemma
  <2>2. now = Shows(Shows(Shows(r, e), Abandoned), Listens)
    BY <1>1, <1>7, SpeaksLemma
  <2>3. CASE Serve
    <3>1. Abandoned.kind # "error"
      BY <2>3, EventsTyped DEF Abandoned, Kinds
    <3>2. /\ Shows(Shows(r, e), Abandoned) \in Reporters
          /\ Clean(Shows(Shows(r, e), Abandoned))
      BY <1>4, <2>1, <3>1, CleanLemma
    <3>3. CASE rpc' = "listening" /\ Listens = Listening
      BY <1>3, <2>2, <3>2, <3>3, CleanLemma DEF Clean
    <3>4. CASE rpc' = "exited"
      BY <1>4, <2>2, <3>2, <3>4, CleanLemma
    <3> QED BY <1>7, <2>3, <3>3, <3>4, ListensLemma
  <2>4. CASE ~Serve
    <3>1. now = Shows(Shows(r, e), Abandoned) /\ rpc' = "exited"
      BY <1>7, <2>2, <2>4, NothingShown, ListensLemma
    <3> QED BY <1>4, <2>1, <3>1, CleanLemma
  <2> QED BY <2>3, <2>4
<1>8. ASSUME rpc \in {"listening", "receiving", "linger"}, rpc' = "exited",
             NEW d \in {Nothing, Listening}, NEW last \in {Nothing, ExitError},
             SaysTwo(Recv, d, last)
      PROVE  Goal
  <2>1. Shows(r, d) \in Reporters /\ Clean(Shows(r, d))
    BY <1>1, <1>2, <1>3, <1>8, CleanLemma
  <2>2. now = Shows(Shows(r, d), last)
    BY <1>1, <1>8, SpeaksLemma
  <2> QED BY <1>4, <1>8, <2>1, <2>2, CleanLemma
<1>9. CASE rpc # "exited" /\ UNCHANGED reporter
  BY <1>2, <1>9 DEF Clean
<1>10. CASE reporter' = [reporter EXCEPT ![Recv] = Shows(NewReporter, Event("listening"))]
  <2>1. now = Shows(NewReporter, Event("listening"))
    BY <1>1, <1>10 DEF ReportsTyped
  <2> QED BY <1>1, <1>3, <2>1, CleanLemma DEF Clean
<1>11. rpc = "receiving" => ProgressEvent(count', header.total) \in Events /\ ProgressEvent(count', header.total).kind # "error"
  <2>1. rpc = "receiving" => header.total \in Nat /\ count' \in Nat
    BY OpenHeader DEF SystemInv, TypeOK, RecvTypeOK
  <2> QED BY <2>1, EventsTyped
<1>a. CASE rpc = "linger" /\ rpc' \in NextUp /\ Says(Recv, Listens)
  <2>1. now = Shows(r, Listens)
    BY <1>1, <1>a, SpeaksLemma
  <2>2. Clean(r)
    BY <1>2, <1>a
  <2>3. CASE Listens \in {Listening, Nothing}
    BY <1>1, <1>3, <2>1, <2>2, <2>3, CleanLemma DEF Clean
  <2>4. CASE rpc' = "exited"
    BY <1>1, <1>4, <2>1, <2>2, <2>4, CleanLemma
  <2> QED BY <1>a, <2>3, <2>4, ListensLemma
<1> HIDE DEF Goal
<1>12. Goal
  <2>2. Event("receiving") \in Events /\ Event("receiving").kind # "error"
        /\ Event("bad_init") \in Events /\ Event("bad_init").kind # "error"
        /\ Event("missing") \in Events /\ Event("missing").kind # "error"
        /\ Event("saved") \in Events /\ Event("saved").kind # "error"
    BY <1>3
  <2> QED BY <1>5, <1>6, <1>7, <1>8, <1>9, <1>10, <1>11, <1>a, <2>2, ReceiverTells DEF Goal
<1> QED BY <1>12 DEF Goal

LEMMA ScreensOfSender ==
    ASSUME SystemInv, SystemInv', ReportsTyped, ReportsTyped', ScreensInv, NEW s \in Senders, SenderReports(s)
    PROVE  Tidy(reporter'[s]) /\ (reporter'[s].screen = "glued" => phase'[s] = "failed")
<1> DEFINE r == reporter[s]
           now == reporter'[s]
           Goal == Tidy(now) /\ (now.screen = "glued" => phase'[s] = "failed")
<1>1. s \in Processes /\ s # Recv /\ r \in Reporters
  BY RecvAssumption DEF Processes, ReportsTyped
<1>2. Tidy(r) /\ (phase[s] # "failed" => Clean(r))
  BY <1>1 DEF ScreensInv, Ended, Clean
<1>3. \A e \in {Event(kind) : kind \in {"sending", "pass", "completed"}} \cup {Nothing} :
          e \in Events /\ e.kind # "error"
  BY EventsTyped DEF Kinds
<1>4. CASE phase[s] # "failed" /\ \E e \in Events : e.kind # "error" /\ Says(s, e)
  BY <1>1, <1>2, <1>4, SpeaksLemma, CleanLemma DEF Clean
<1>5. CASE phase[s] # "failed" /\ \E e \in {Event("pass"), Nothing} : SaysTwo(s, Event("sending"), e)
  <2>1. PICK e \in {Event("pass"), Nothing} : SaysTwo(s, Event("sending"), e)
    BY <1>5
  <2>2. Shows(r, Event("sending")) \in Reporters /\ Clean(Shows(r, Event("sending")))
    BY <1>1, <1>2, <1>3, <1>5, CleanLemma
  <2>3. now = Shows(Shows(r, Event("sending")), e)
    BY <1>1, <2>1, SpeaksLemma
  <2> QED BY <1>3, <2>2, <2>3, CleanLemma DEF Clean
<1>6. CASE phase[s] # "failed" /\ phase'[s] = "failed" /\ Says(s, ExitError)
  <2>1. now = Shows(r, ExitError) /\ ExitError \in Events
    BY <1>1, <1>6, SpeaksLemma, EventsTyped
  <2> QED BY <1>1, <1>2, <1>6, <2>1, CleanLemma
<1>7. CASE UNCHANGED reporter /\ (phase[s] = "failed" => phase'[s] = "failed")
  BY <1>2, <1>7 DEF Clean
<1>8. CASE phase[s] = "blasting" /\ ReportsChunk(s)
  <2>1. progressDone'[s] \in Nat /\ Total[s] \in Nat
    BY FilesAssumption DEF ReportsTyped
  <2>2. ProgressEvent(progressDone'[s], Total[s]) \in Events /\ ProgressEvent(progressDone'[s], Total[s]).kind # "error"
    BY <2>1, EventsTyped
  <2> QED BY <1>4, <1>8, <2>2 DEF ReportsChunk
<1> HIDE DEF Goal
<1>9. CASE phase[s] # "failed" /\ \E e \in {Event("pass"), Nothing, Event("completed")} : Says(s, e)
  BY <1>3, <1>4, <1>9
<1>10. CASE /\ \/ phase'[s] = phase[s]
               \/ {phase[s], phase'[s]} \subseteq {"start", "handshake"}
               \/ {phase[s], phase'[s]} \subseteq {"blasting", "draining", "feedback"}
            /\ UNCHANGED reporter
  BY <1>7, <1>10
<1>11. CASE phase[s] = "handshake" /\ \E e \in {Event("pass"), Nothing} : SaysTwo(s, Event("sending"), e)
  BY <1>5, <1>11
<1>12. CASE ~Terminated(s) /\ phase'[s] = "failed" /\ Says(s, ExitError)
  BY <1>6, <1>12 DEF Terminated
<1>13. CASE phase[s] = "feedback" /\ \E e \in {Event("pass"), Nothing} : Says(s, e)
  BY <1>9, <1>13
<1>14. CASE phase[s] \in {"draining", "feedback"} /\ Says(s, Event("completed"))
  BY <1>9, <1>14
<1>15. Goal
  BY <1>8, <1>10, <1>11, <1>12, <1>13, <1>14, SenderTells DEF Goal
<1> QED BY <1>15 DEF Goal

LEMMA ScreensStep ==
    SystemInv /\ SystemInv' /\ ReportsTyped /\ ReportsTyped' /\ ScreensInv /\ [ReportsNext]_allVars => ScreensInv'
<1> SUFFICES ASSUME SystemInv, SystemInv', ReportsTyped, ReportsTyped', ScreensInv, [ReportsNext]_allVars,
                    NEW p \in Processes
             PROVE  Tidy(reporter'[p]) /\ (reporter'[p].screen = "glued" => Ended(p)')
  BY DEF ScreensInv
<1>1. Tidy(reporter[p]) /\ (reporter[p].screen = "glued" => Ended(p))
  BY DEF ScreensInv
<1>2. CASE UNCHANGED allVars
  BY <1>1, <1>2 DEF allVars, vars, reportVars, sendVars, recvVars, Ended
<1>3. CASE ReceiverReports
  <2>1. CASE p = Recv
    BY <1>3, <2>1, ScreensOfReceiver DEF Ended
  <2>2. CASE p # Recv
    BY <1>1, <1>3, <2>2, OthersSilent, ReceiverTells DEF sendVars, Ended, Processes
  <2> QED BY <2>1, <2>2
<1>4. ASSUME NEW s \in Senders, SenderReports(s) PROVE Tidy(reporter'[p]) /\ (reporter'[p].screen = "glued" => Ended(p)')
  <2>1. CASE p = s
    BY <1>4, <2>1, ScreensOfSender, RecvAssumption DEF Ended
  <2>2. CASE p # s
    BY <1>1, <1>4, <2>2, OthersSilent, SenderTells DEF recvVars, Ended, Processes
  <2> QED BY <2>1, <2>2
<1> QED BY <1>2, <1>3, <1>4 DEF ReportsNext

LEMMA ScreensInit == ReportsStart => ScreensInv
<1> SUFFICES ASSUME ReportsStart, NEW p \in Processes PROVE Clean(reporter[p])
  BY DEF ScreensInv, Clean
<1>1. reporter[p] \in {NewReporter, Shows(NewReporter, Event("listening"))}
  BY DEF ReportsStart
<1>2. Event("listening") \in Events /\ Event("listening").kind # "error"
  BY EventsTyped DEF Kinds
<1> QED BY <1>1, <1>2, CleanLemma, NewReporterTyped

\* The terminal of every process stays tidy, whatever fails (see BarOwned): no
\* status line is written behind a bar, and bar_active is true to the screen.
THEOREM ScreensTidy == ReportsSpec => []BarOwned
<1> DEFINE Inv == SystemInv /\ ReportsTyped /\ ScreensInv
<1>1. ReportsStart => Inv
  BY SystemInit, TypedInit, ScreensInit DEF ReportsStart
<1>2. Inv /\ [ReportsNext]_allVars => Inv'
  BY StepsOfUdpcp, SystemStep, TypedStep, ScreensStep
<1>3. Inv => BarOwned
  BY DEF ScreensInv, Tidy, BarOwned
<1> QED BY <1>1, <1>2, <1>3, PTL DEF ReportsSpec

-----------------------------------------------------------------------------
(* The JSON lines *)

\* What a script has read of a process, by where the process is.
LinesOfSender ==
    [start |-> {"start"}, handshake |-> {"start"},
     blasting |-> {"sending"}, draining |-> {"sending"}, feedback |-> {"sending"},
     completed |-> {"completed"}, failed |-> {"start", "sending"}]
LinesOfReceiver ==
    [listening |-> {"listening"}, receiving |-> {"receiving"}, linger |-> {"saved"},
     exited |-> {"listening", "receiving", "saved", "failed"}, down |-> {"listening", "receiving", "saved"}]

SenderLines(s) == IF Jsonl THEN reporter[s].seen \in LinesOfSender[phase[s]] ELSE reporter[s].seen = "start"
ReceiverLines == IF Jsonl THEN reporter[Recv].seen \in LinesOfReceiver[rpc] ELSE reporter[Recv].seen = "start"
LinesInv == ReceiverLines /\ \A s \in Senders : SenderLines(s)

\* What a script has read after an event, by what it had read before.
LEMMA SeenLemma ==
    ASSUME NEW r \in Reporters
    PROVE  /\ \A e \in Events : ~Jsonl => Shows(r, e).seen = r.seen
           /\ \A e \in {Nothing, ExitError} : Shows(r, e).seen = r.seen
           /\ Jsonl =>
                  /\ r.seen = "start" => \A kind \in {"sending", "listening"} : Shows(r, Event(kind)).seen = kind
                  /\ r.seen = "sending" =>
                        /\ Shows(r, Event("pass")).seen = "sending"
                        /\ Shows(r, Event("completed")).seen = "completed"
                        /\ \A done, total \in Nat : Shows(r, ProgressEvent(done, total)).seen = "sending"
                  /\ r.seen = "listening" =>
                        /\ Shows(r, Event("receiving")).seen = "receiving"
                        /\ Shows(r, Event("bad_init")).seen = "listening"
                  /\ r.seen = "receiving" =>
                        /\ Shows(r, Event("missing")).seen = "receiving"
                        /\ \A kind \in {"saved", "failed"} : Shows(r, Event(kind)).seen = kind
                        /\ \A done, total \in Nat : Shows(r, ProgressEvent(done, total)).seen = "receiving"
                  /\ r.seen \in {"saved", "failed"} => Shows(r, Event("listening")).seen = "listening"
<1>1. \A e \in Events :
          /\ ~Jsonl \/ e.kind \in {"none", "error"} => Shows(r, e).seen = r.seen
          /\ Jsonl /\ e.kind \notin {"none", "error", "pass", "missing", "progress"} =>
                 Shows(r, e).seen = Read(r.seen, e.kind)
          /\ Shows(r, e).seen \in {r.seen, Read(r.seen, e.kind)}
  BY ShowsSeen
<1>2. \A kind \in {"sending", "listening", "completed", "receiving", "bad_init", "saved", "failed"} :
          Jsonl => Shows(r, Event(kind)).seen = Read(r.seen, kind)
  <2> TAKE kind \in {"sending", "listening", "completed", "receiving", "bad_init", "saved", "failed"}
  <2>1. Event(kind) \in Events /\ Event(kind).kind = kind
    BY EventsTyped DEF Kinds
  <2> QED BY <1>1, <2>1
<1>3. \A kind \in {"pass", "missing"} : Shows(r, Event(kind)).seen \in {r.seen, Read(r.seen, kind)}
  BY <1>1, EventsTyped DEF Kinds
<1>4. \A done, total \in Nat : Shows(r, ProgressEvent(done, total)).seen \in {r.seen, Read(r.seen, "progress")}
  BY <1>1, EventsTyped
<1>5. \A e \in {Nothing, ExitError} : Shows(r, e).seen = r.seen
  BY <1>1, EventsTyped
<1>6. /\ r.seen = "start" => \A kind \in {"sending", "listening"} : Read(r.seen, kind) = kind
      /\ r.seen = "sending" => /\ \A kind \in {"pass", "progress"} : Read(r.seen, kind) = "sending"
                               /\ Read(r.seen, "completed") = "completed"
      /\ r.seen = "listening" => /\ Read(r.seen, "bad_init") = "listening"
                                 /\ Read(r.seen, "receiving") = "receiving"
      /\ r.seen = "receiving" => /\ \A kind \in {"progress", "missing"} : Read(r.seen, kind) = "receiving"
                                 /\ \A kind \in {"saved", "failed"} : Read(r.seen, kind) = kind
      /\ r.seen \in {"saved", "failed"} => Read(r.seen, "listening") = "listening"
  BY ReadLemma
<1> QED BY <1>1, <1>2, <1>3, <1>4, <1>5, <1>6

LEMMA LinesOfSenderStep ==
    ASSUME SystemInv, SystemInv', ReportsTyped, ReportsTyped', NEW s \in Senders, SenderLines(s), SenderReports(s)
    PROVE  SenderLines(s)'
<1> DEFINE r == reporter[s]
<1>1. s \in Processes /\ r \in Reporters
  BY DEF Processes, ReportsTyped
<1>2. Event("sending") \in Events /\ Event("pass") \in Events /\ Event("completed") \in Events
      /\ Nothing \in Events /\ ExitError \in Events
  BY EventsTyped DEF Kinds
<1>3. CASE /\ phase[s] = "handshake" /\ phase'[s] = "blasting"
           /\ \E e \in {Event("pass"), Nothing} : SaysTwo(s, Event("sending"), e)
  <2>1. PICK e \in {Event("pass"), Nothing} : reporter'[s] = Shows(Shows(r, Event("sending")), e)
    BY <1>1, <1>3, SpeaksLemma
  <2>2. Shows(r, Event("sending")) \in Reporters
    BY <1>1, <1>2, ShowsTyped
  <2>3. Shows(r, Event("sending")).seen = IF Jsonl THEN "sending" ELSE "start"
    BY <1>1, <1>2, <1>3, SeenLemma DEF SenderLines, LinesOfSender
  <2>4. reporter'[s].seen = IF Jsonl THEN "sending" ELSE "start"
    BY <1>2, <2>1, <2>2, <2>3, SeenLemma
  <2> QED BY <1>3, <2>4 DEF SenderLines, LinesOfSender
<1>4. CASE /\ phase[s] = "blasting" /\ phase'[s] \in {"blasting", "draining"}
           /\ ReportsChunk(s)
  <2>1. progressDone'[s] \in Nat /\ Total[s] \in Nat
    BY FilesAssumption DEF ReportsTyped
  <2>2. ProgressEvent(progressDone'[s], Total[s]) \in Events
    BY <2>1, EventsTyped
  <2>3. reporter'[s] = Shows(r, ProgressEvent(progressDone'[s], Total[s]))
    BY <1>1, <1>4, SpeaksLemma DEF ReportsChunk
  <2>4. reporter'[s].seen = IF Jsonl THEN "sending" ELSE "start"
    BY <1>1, <1>4, <2>1, <2>2, <2>3, SeenLemma DEF SenderLines, LinesOfSender
  <2> QED BY <1>4, <2>4 DEF SenderLines, LinesOfSender
<1>5. CASE /\ phase[s] \in {"draining", "feedback"} /\ phase'[s] = "completed"
           /\ Says(s, Event("completed"))
  <2>1. reporter'[s] = Shows(r, Event("completed"))
    BY <1>1, <1>5, SpeaksLemma
  <2>2. reporter'[s].seen = IF Jsonl THEN "completed" ELSE "start"
    BY <1>1, <1>2, <1>5, <2>1, SeenLemma DEF SenderLines, LinesOfSender
  <2> QED BY <1>5, <2>2 DEF SenderLines, LinesOfSender
<1>6. CASE /\ phase[s] = "feedback" /\ phase'[s] = "blasting"
           /\ \E e \in {Event("pass"), Nothing} : Says(s, e)
  <2>1. PICK e \in {Event("pass"), Nothing} : reporter'[s] = Shows(r, e)
    BY <1>1, <1>6, SpeaksLemma
  <2>2. reporter'[s].seen = IF Jsonl THEN "sending" ELSE "start"
    BY <1>1, <1>2, <1>6, <2>1, SeenLemma DEF SenderLines, LinesOfSender
  <2> QED BY <1>6, <2>2 DEF SenderLines, LinesOfSender
<1>7. CASE ~Terminated(s) /\ phase'[s] = "failed" /\ Says(s, ExitError)
  <2>1. reporter'[s].seen = r.seen
    BY <1>1, <1>7, SpeaksLemma, SeenLemma
  <2>2. phase[s] \in Phases \ {"completed", "failed"}
    BY <1>7 DEF SystemInv, TypeOK, SenderTypeOK, Terminated
  <2> QED BY <1>7, <2>1, <2>2 DEF SenderLines, LinesOfSender, Phases
<1>8. CASE /\ \/ phase'[s] = phase[s]
              \/ {phase[s], phase'[s]} \subseteq {"start", "handshake"}
              \/ {phase[s], phase'[s]} \subseteq {"blasting", "draining", "feedback"}
           /\ UNCHANGED reporter
  <2>1. phase'[s] = phase[s] \/ {phase[s], phase'[s]} \subseteq {"start", "handshake"}
        \/ {phase[s], phase'[s]} \subseteq {"blasting", "draining", "feedback"}
    BY <1>8
  <2> QED BY <1>8, <2>1 DEF SenderLines, LinesOfSender
<1> QED BY <1>3, <1>4, <1>5, <1>6, <1>7, <1>8, SenderTells

LEMMA LinesOfReceiverStep ==
    ASSUME SystemInv, SystemInv', ReportsTyped, ReceiverLines, ReceiverReports
    PROVE  ReceiverLines'
<1> DEFINE r == reporter[Recv]
           seen == reporter'[Recv].seen
           Goal == IF Jsonl THEN seen \in LinesOfReceiver[rpc'] ELSE seen = "start"
<1> SUFFICES Goal
  BY DEF ReceiverLines
<1>1. Recv \in Processes /\ r \in Reporters
  BY DEF Processes, ReportsTyped
<1>2. \A kind \in {"listening", "receiving", "bad_init", "missing", "saved", "failed"} : Event(kind) \in Events
  BY EventsTyped DEF Kinds
<1>3. {Abandoned, Listening, Listens, Nothing, ExitError} \subseteq Events
  BY EventsOfReceiver
<1>4. IF Jsonl THEN r.seen \in LinesOfReceiver[rpc] ELSE r.seen = "start"
  BY DEF ReceiverLines
<1>5. CASE UNCHANGED <<rpc, from, header, count, reporter>>
  BY <1>4, <1>5
<1>6. CASE rpc = "listening" /\ rpc' = "receiving" /\ Says(Recv, Event("receiving"))
  <2>1. seen = Shows(r, Event("receiving")).seen
    BY <1>1, <1>6, SpeaksLemma
  <2> QED BY <1>1, <1>2, <1>4, <1>6, <2>1, SeenLemma DEF LinesOfReceiver
<1>7. CASE rpc = "listening" /\ UNCHANGED rpc /\ Says(Recv, Event("bad_init"))
  <2>1. seen = Shows(r, Event("bad_init")).seen
    BY <1>1, <1>7, SpeaksLemma
  <2> QED BY <1>1, <1>2, <1>4, <1>7, <2>1, SeenLemma DEF LinesOfReceiver
<1>8. CASE rpc = "receiving" /\ UNCHANGED rpc /\ Says(Recv, ProgressEvent(count', header.total))
  <2>1. seen = Shows(r, ProgressEvent(count', header.total)).seen
    BY <1>1, <1>8, SpeaksLemma
  <2>2. count' \in Nat /\ header.total \in Nat
    BY <1>8, OpenHeader DEF SystemInv, TypeOK, RecvTypeOK
  <2>3. ProgressEvent(count', header.total) \in Events
    BY <2>2, EventsTyped
  <2> QED BY <1>1, <1>4, <1>8, <2>1, <2>2, <2>3, SeenLemma DEF LinesOfReceiver
<1>9. CASE rpc = "receiving" /\ UNCHANGED rpc /\ Says(Recv, Event("missing"))
  <2>1. seen = Shows(r, Event("missing")).seen
    BY <1>1, <1>9, SpeaksLemma
  <2> QED BY <1>1, <1>2, <1>4, <1>9, <2>1, SeenLemma DEF LinesOfReceiver
<1>10. CASE rpc = "receiving" /\ rpc' = "linger" /\ Says(Recv, Event("saved"))
  <2>1. seen = Shows(r, Event("saved")).seen
    BY <1>1, <1>10, SpeaksLemma
  <2> QED BY <1>1, <1>2, <1>4, <1>10, <2>1, SeenLemma DEF LinesOfReceiver
<1>11. CASE /\ rpc \in {"listening", "receiving"} /\ rpc' \in NextUp
            /\ \E e \in IF rpc = "listening" THEN {Event("receiving")} ELSE {Nothing, Event("missing")} :
                   SaysThree(Recv, e, Abandoned, Listens)
  <2>1. PICK e \in IF rpc = "listening" THEN {Event("receiving")} ELSE {Nothing, Event("missing")} :
            reporter'[Recv] = Shows(Shows(Shows(r, e), Abandoned), Listens)
    BY <1>1, <1>11, SpeaksLemma
  <2> DEFINE r1 == Shows(r, e)
             r2 == Shows(r1, Abandoned)
  <2>2. e \in Events /\ r1 \in Reporters /\ r2 \in Reporters
    BY <1>1, <1>2, <1>3, <2>1, ShowsTyped
  <2>3. r1.seen = IF Jsonl THEN "receiving" ELSE "start"
    <3>1. CASE rpc = "listening"
      BY <1>1, <1>4, <2>1, <2>2, <3>1, SeenLemma DEF LinesOfReceiver
    <3>2. CASE rpc = "receiving"
      BY <1>1, <1>4, <2>1, <2>2, <3>2, SeenLemma DEF LinesOfReceiver
    <3> QED BY <1>11, <3>1, <3>2
  <2> HIDE DEF r1
  <2>4. r2.seen = IF ~Jsonl THEN "start" ELSE IF Serve THEN "failed" ELSE "receiving"
    BY <1>3, <2>2, <2>3, SeenLemma DEF Abandoned
  <2>5. seen = Shows(r2, Listens).seen
    BY <2>1 DEF r1
  <2> HIDE DEF r2, seen
  <2>6. Listens \in {Nothing, ExitError} => seen = r2.seen
    BY <2>2, <2>5, SeenLemma
  <2>7. Goal
    <3>1. CASE rpc' = "listening" /\ Serve /\ Listens = Event("listening")
      BY <1>2, <2>2, <2>4, <2>5, <3>1, SeenLemma DEF LinesOfReceiver
    <3>2. CASE rpc' = "exited" /\ Listens \in {Nothing, ExitError}
      BY <2>4, <2>6, <3>2 DEF LinesOfReceiver
    <3> QED BY <1>11, <3>1, <3>2, ListensLemma
  <2> QED BY <2>7 DEF seen
<1>12. CASE rpc = "linger" /\ rpc' \in NextUp /\ Says(Recv, Listens)
  <2>1. seen = Shows(r, Listens).seen
    BY <1>1, <1>12, SpeaksLemma
  <2>2. IF Jsonl THEN r.seen = "saved" ELSE r.seen = "start"
    BY <1>4, <1>12 DEF LinesOfReceiver
  <2>3. CASE rpc' = "listening" /\ Listens = Event("listening")
    BY <1>1, <1>2, <2>1, <2>2, <2>3, SeenLemma DEF LinesOfReceiver
  <2>4. CASE rpc' = "exited" /\ Listens \in {Nothing, ExitError}
    BY <1>1, <2>1, <2>2, <2>4, SeenLemma DEF LinesOfReceiver
  <2> QED BY <1>12, <2>3, <2>4, ListensLemma
<1>13. CASE /\ rpc \in {"listening", "receiving", "linger"} /\ rpc' = "exited"
            /\ \E listened \in {Nothing, Listening}, last \in {Nothing, ExitError} :
                   /\ rpc # "linger" => listened = Nothing
                   /\ SaysTwo(Recv, listened, last)
  <2>a. PICK d \in {Nothing, Listening} : /\ rpc # "linger" => d = Nothing
                                          /\ \E last \in {Nothing, ExitError} : SaysTwo(Recv, d, last)
    BY <1>13
  <2> DEFINE r1 == Shows(r, d)
  <2>1. PICK last \in {Nothing, ExitError} : reporter'[Recv] = Shows(r1, last)
    BY <1>1, <2>a, SpeaksLemma
  <2>2. d \in Events /\ r1 \in Reporters
    BY <1>1, <1>3, ShowsTyped
  <2>3. seen = r1.seen
    BY <2>1, <2>2, SeenLemma
  <2>4. IF Jsonl THEN r1.seen \in {"listening", "receiving", "saved"} ELSE r1.seen = "start"
    <3>1. CASE d = Nothing
      BY <1>1, <1>4, <1>13, <3>1, SeenLemma DEF LinesOfReceiver
    <3>2. CASE rpc = "linger" /\ d = Event("listening")
      BY <1>1, <1>2, <1>4, <3>2, SeenLemma DEF LinesOfReceiver
    <3> QED BY <2>a, <3>1, <3>2 DEF Listening
  <2> QED BY <1>13, <2>3, <2>4 DEF LinesOfReceiver
<1>14. CASE rpc \in {"listening", "receiving", "linger"} /\ rpc' = "down" /\ UNCHANGED reporter
  BY <1>4, <1>14 DEF LinesOfReceiver
<1>15. CASE /\ rpc = "down" /\ rpc' = "listening"
            /\ reporter' = [reporter EXCEPT ![Recv] = Shows(NewReporter, Event("listening"))]
  <2>1. seen = Shows(NewReporter, Event("listening")).seen
    BY <1>1, <1>15 DEF ReportsTyped
  <2>2. NewReporter.seen = "start"
    BY DEF NewReporter
  <2> QED BY <1>2, <1>15, <2>1, <2>2, NewReporterTyped, SeenLemma DEF LinesOfReceiver
<1> QED BY <1>5, <1>6, <1>7, <1>8, <1>9, <1>10, <1>11, <1>12, <1>13, <1>14, <1>15, ReceiverTells

LEMMA LinesStep ==
    SystemInv /\ SystemInv' /\ ReportsTyped /\ ReportsTyped' /\ LinesInv /\ [ReportsNext]_allVars => LinesInv'
<1> SUFFICES ASSUME SystemInv, SystemInv', ReportsTyped, ReportsTyped', LinesInv, [ReportsNext]_allVars
             PROVE  LinesInv'
  OBVIOUS
<1>1. Recv \in Processes /\ Recv \notin Senders /\ Senders \subseteq Processes
  BY RecvAssumption DEF Processes
<1>2. ReceiverLines /\ \A s \in Senders : SenderLines(s)
  BY DEF LinesInv
<1>3. CASE UNCHANGED allVars
  BY <1>2, <1>3 DEF allVars, vars, reportVars, sendVars, recvVars, LinesInv, ReceiverLines, SenderLines
<1>4. CASE ReceiverReports
  <2>1. \A s \in Senders : SenderLines(s)'
    BY <1>2, <1>4, OthersSilent, ReceiverTells DEF sendVars, SenderLines
  <2> QED BY <1>2, <1>4, <2>1, LinesOfReceiverStep DEF LinesInv
<1>5. ASSUME NEW s \in Senders, SenderReports(s) PROVE LinesInv'
  <2>1. ReceiverLines'
    BY <1>1, <1>2, <1>5, OthersSilent, SenderTells DEF recvVars, ReceiverLines
  <2>2. \A t \in Senders : t # s => SenderLines(t)'
    BY <1>1, <1>2, <1>5, OthersSilent, SenderTells DEF SenderLines
  <2>3. SenderLines(s)'
    BY <1>2, <1>5, LinesOfSenderStep
  <2> QED BY <2>1, <2>2, <2>3 DEF LinesInv
<1> QED BY <1>3, <1>4, <1>5 DEF ReportsNext

LEMMA LinesInit == ReportsStart => LinesInv
<1> SUFFICES ASSUME ReportsStart PROVE LinesInv
  OBVIOUS
<1>1. reporter[Recv] = Shows(NewReporter, Event("listening")) /\ rpc = "listening"
  BY DEF ReportsStart, Init, RecvInit, Processes
<1>2. \A s \in Senders : reporter[s] = NewReporter /\ phase[s] = "start"
  BY RecvAssumption DEF ReportsStart, Init, SendInit, Processes
<1>3. NewReporter.seen = "start" /\ Event("listening") \in Events
  BY EventsOfReceiver DEF NewReporter
<1>4. ReceiverLines
  BY <1>1, <1>3, NewReporterTyped, SeenLemma DEF ReceiverLines, LinesOfReceiver
<1> QED BY <1>2, <1>3, <1>4 DEF LinesInv, SenderLines, LinesOfSender

LinesWell == SystemInv /\ ReportsTyped /\ LinesInv

LEMMA LinesWellStep == LinesWell /\ [ReportsNext]_allVars => LinesWell'
BY StepsOfUdpcp, SystemStep, TypedStep, LinesStep DEF LinesWell

LEMMA LinesWellInit == ReportsStart => LinesWell
BY SystemInit, TypedInit, LinesInit DEF ReportsStart, LinesWell

\* No line comes that cannot follow the one before (see StreamReadable).
THEOREM StreamsReadable == ReportsSpec => []StreamReadable
<1>1. LinesWell => StreamReadable
  <2> SUFFICES ASSUME LinesWell, NEW p \in Processes PROVE reporter[p].seen # "lost"
    BY DEF StreamReadable
  <2>1. CASE p = Recv
    <3>1. rpc \in {"listening", "receiving", "linger", "exited", "down"}
      BY DEF LinesWell, SystemInv, TypeOK, RecvTypeOK, RecvPhases
    <3> QED BY <2>1, <3>1 DEF LinesWell, LinesInv, ReceiverLines, LinesOfReceiver
  <2>2. CASE p \in Senders
    <3>1. phase[p] \in Phases
      BY <2>2 DEF LinesWell, SystemInv, TypeOK, SenderTypeOK
    <3> QED BY <2>2, <3>1 DEF LinesWell, LinesInv, SenderLines, LinesOfSender, Phases
  <2> QED BY <2>1, <2>2 DEF Processes
<1> QED BY <1>1, LinesWellInit, LinesWellStep, PTL DEF ReportsSpec

-----------------------------------------------------------------------------
(* The milestones are true. *)

LingerInv == rpc = "linger" => final[Path[from]] = FileOf(from)

LEMMA LingerInvStep ==
    ASSUME Apart, Reliable, SystemInv, LingerInv, [Next]_vars
    PROVE  LingerInv'
<1> SUFFICES ASSUME rpc' = "linger" PROVE final'[Path[from']] = FileOf(from')
  BY DEF LingerInv, FileOf, Chunks
<1>1. from' = from
  BY LingerStep
<1>2. ASSUME NEW m \in ArrivingAtReceiver, DoneSaves(m) PROVE final'[Path[from]] = FileOf(from)
  <2>1. /\ header.path = Path[from] /\ header.path \in Paths
        /\ final' = [final EXCEPT ![header.path] = FileOf(from)]
    BY <1>2, SavingStep DEF Reliable
  <2>2. DOMAIN final = Paths
    BY DEF final
  <2> QED BY <2>1, <2>2
<1>3. CASE rpc = "linger" /\ UNCHANGED disk
  <2>1. UNCHANGED final
    BY <1>3 DEF final
  <2> QED BY <1>1, <1>3, <2>1 DEF LingerInv
<1> QED BY <1>1, <1>2, <1>3, LingerStep

LinesTrue == LinesWell /\ TruthInv /\ LingerInv

LEMMA LinesTrueStep ==
    Apart /\ Reliable /\ LinesTrue /\ [ReportsNext]_allVars => LinesTrue'
BY StepsOfUdpcp, LinesWellStep, TruthStep, LingerInvStep DEF LinesTrue, LinesWell

LEMMA LinesTrueInit == ReportsStart => LinesTrue
BY LinesWellInit, TruthInit DEF ReportsStart, Init, RecvInit, LinesTrue, LingerInv

\* What a script has read is true (see StreamTrue): provided no bit flips in the
\* type of a datagram, no INIT announces another file (which would be saved under
\* another name) and no file is sent to the tmp of another.
THEOREM StreamsTrue ==
    ASSUME Apart, Reliable
    PROVE  ReportsSpec => []StreamTrue
<1>1. LinesTrue => StreamTrue
  <2> SUFFICES ASSUME LinesTrue, Jsonl PROVE StreamTrue
    BY DEF StreamTrue
  <2>1. /\ reporter[Recv].seen \in LinesOfReceiver[rpc]
        /\ \A s \in Senders : reporter[s].seen \in LinesOfSender[phase[s]]
    BY DEF LinesTrue, LinesWell, LinesInv, ReceiverLines, SenderLines
  <2>2. \A s \in Senders : phase[s] \in Phases
    BY DEF LinesTrue, LinesWell, SystemInv, TypeOK, SenderTypeOK
  <2>3. \A s \in Senders : reporter[s].seen = "completed" <=> phase[s] = "completed"
    BY <2>1, <2>2 DEF LinesOfSender, Phases
  <2>4. \A s \in Senders : phase[s] = "completed" => s \in saved
    BY DEF LinesTrue, TruthInv, NewsIsTrue
  <2> QED BY <2>1, <2>3, <2>4 DEF LinesOfReceiver, LinesTrue, LingerInv, StreamTrue
<1> QED BY <1>1, LinesTrueInit, LinesTrueStep, PTL DEF ReportsSpec

-----------------------------------------------------------------------------
(* What a blast has done. *)

LEMMA ListedLemma ==
    ASSUME NEW p \in Seq(Nat)
    PROVE  /\ IsFiniteSet(ListedIn(p))
           /\ Cardinality(ListedIn(p)) \in Nat
           /\ Cardinality(ListedIn(p)) <= Len(p)
<1>1. Len(p) \in Nat /\ DOMAIN p = 1..Len(p)
  OBVIOUS
<1>2. p \in Surjection(1..Len(p), ListedIn(p))
  BY <1>1 DEF ListedIn, Surjection
<1>3. IsFiniteSet(1..Len(p)) /\ Cardinality(1..Len(p)) = Len(p)
  BY <1>1, FS_Interval
<1> QED BY <1>2, <1>3, FS_Surjection, FS_CardinalityType

\* progress_done is at most the number of chunks sent, since whatever was not
\* sent is queued; it never lags behind the queue.
BlastAt(s) ==
    /\ sent[s] \subseteq Chunks(s)
    /\ progressDone[s] <= Total[s]
    /\ progressDone[s] <= Cardinality(sent[s])
    /\ phase[s] \in {"start", "handshake"} => progressDone[s] = 0
    /\ phase[s] \in {"blasting", "draining", "feedback"} =>
           /\ Total[s] - Len(pending[s]) <= progressDone[s]
           /\ Chunks(s) \ sent[s] \subseteq queued[s]
BlastInv == \A s \in Senders : BlastAt(s)

\* How the queue of a sender and its phase change together.
LEMMA QueueTells ==
    ASSUME SystemInv, SystemInv', NEW s \in Senders, SenderReports(s)
    PROVE  /\ \A t \in Senders : t # s =>
                  phase'[t] = phase[t] /\ pending'[t] = pending[t] /\ queued'[t] = queued[t]
           /\ \/ ReportsChunk(s)
              \/ /\ UNCHANGED <<progressDone, sent>>
                 /\ phase'[s] \in {"start", "handshake"} => phase[s] \in {"start", "handshake"}
                 /\ phase'[s] \in {"blasting", "draining", "feedback"} =>
                        \/ /\ Len(pending'[s]) = Total[s]
                           /\ queued'[s] = Chunks(s)
                        \/ /\ phase[s] \in {"blasting", "draining", "feedback"}
                           /\ Len(pending[s]) <= Len(pending'[s])
                           /\ queued[s] \subseteq queued'[s]
<1>1. /\ phase \in [Senders -> Phases]
      /\ pending \in [Senders -> Seq(Nat)] /\ pending[s] \in Seq(Nat) /\ Len(pending[s]) \in Nat
      /\ missing[s] \in Seq(Nat)
      /\ queued \in [Senders -> SUBSET Nat]
  BY DEF SystemInv, TypeOK, SenderTypeOK
<1>2. CASE ReportsSending(s)
  <2>1. PICK m : Accepted(s, m)
    BY <1>2 DEF ReportsSending
  <2>2. pending'[s] = [i \in 1..Total[s] |-> i - 1] /\ queued'[s] = Chunks(s)
    BY <1>1, <2>1 DEF Accepted
  <2>3. pending'[s] \in Seq(Nat) /\ Total[s] \in Nat
    BY FilesAssumption DEF SystemInv, TypeOK, SenderTypeOK
  <2>4. Len(pending'[s]) = Total[s]
    BY <2>2, <2>3
  <2> QED BY <1>1, <1>2, <2>1, <2>2, <2>4 DEF ReportsSending, Accepted, Goto
<1>3. CASE ReportsChunk(s)
  BY <1>1, <1>3 DEF ReportsChunk, SendChunk, Goto
<1>4. CASE ReportsCompleted(s)
  BY <1>1, <1>4 DEF ReportsCompleted, DrainFin, FeedbackFin, Complete, Goto
<1>5. CASE ReportsPass(s)
  <2>1. missing[s] \in Seq(Nat) => Len(pending[s]) <= Len(pending[s] \o missing[s])
    BY <1>1
  <2> QED BY <1>1, <1>5, <2>1 DEF ReportsPass, FeedbackTimeout, Goto
<1>6. CASE ReportsError(s)
  BY <1>1, <1>6 DEF ReportsError, HandshakeFails, SenderFails, Goto
<1>7. CASE SendsQuietly(s)
  <2>1. UNCHANGED <<progressDone, sent>>
    BY <1>7 DEF SendsQuietly, reportVars
  <2>2. CASE OfferFile(s) \/ DrainEnd(s) \/ SendDone(s) \/ HandshakeTimeout(s)
    BY <1>1, <2>1, <2>2 DEF OfferFile, DrainEnd, SendDone, HandshakeTimeout, Goto
  <2>3. CASE \E m : FeedbackNack(s, m) \/ IgnoreFeedback(s, m)
    BY <1>1, <2>1, <2>3 DEF FeedbackNack, IgnoreFeedback, sendVars
  <2>4. CASE \E q : EditSource(s, q)
    BY <1>1, <2>1, <2>4 DEF EditSource
  <2>5. CASE \E m : DrainNack(s, m)
    <3>1. PICK m : DrainNack(s, m)
      BY <2>5
    <3>2. PICK e \in Ascending(Fresh(s, m.seqs, queued[s])) : pending' = [pending EXCEPT ![s] = @ \o e]
      BY <3>1 DEF DrainNack
    <3>3. QueueAt(s)
      BY QueueOfOne DEF SystemInv
    <3>4. Fresh(s, m.seqs, queued[s]) \in SUBSET Chunks(s)
      BY DEF Fresh
    <3>5. Cardinality(Fresh(s, m.seqs, queued[s])) \in Nat
      BY <3>4, ChunksNat, FS_Subset, FS_CardinalityType
    <3>6. e \in Seq(Nat)
      BY <3>2, <3>4, <3>5, ChunksNat DEF Ascending
    <3>7. Len(pending[s]) <= Len(pending'[s])
      BY <1>1, <3>2, <3>6
    <3> QED BY <1>1, <2>1, <3>1, <3>2, <3>7 DEF DrainNack
  <2> QED BY <1>7, <2>2, <2>3, <2>4, <2>5 DEF SendsQuietly
<1> QED BY <1>2, <1>3, <1>4, <1>5, <1>6, <1>7 DEF SenderReports

LEMMA ChunkBlasts ==
    ASSUME SystemInv, SystemInv', ReportsTyped, NEW s \in Senders, BlastAt(s), ReportsChunk(s)
    PROVE  BlastAt(s)' /\ progressDone[s] <= progressDone'[s]
<1> DEFINE q == Head(pending[s])
<1>1. /\ phase[s] = "blasting"
      /\ pending[s] \in Seq(Nat) /\ pending[s] # <<>>
      /\ queued \in [Senders -> SUBSET Nat]
  BY DEF ReportsChunk, SendChunk, SystemInv, TypeOK, SenderTypeOK
<1>2. QueueAt(s) /\ QueueAt(s)'
  BY QueueOfOne DEF SystemInv, QueueInv, QueueAt
<1>3. q \in ListedIn(pending[s]) /\ q \in Chunks(s)
  BY <1>1, <1>2, PopLemma DEF QueueAt
<1>4. queued'[s] = queued[s] \ {q} /\ sent'[s] = sent[s] \cup {q}
  BY <1>1 DEF ReportsChunk, SendChunk, ReportsTyped
<1>5. sent'[s] \subseteq Chunks(s) /\ Chunks(s) \ sent'[s] \subseteq queued'[s]
  BY <1>1, <1>3, <1>4 DEF BlastAt
<1>6. phase'[s] \in {"blasting", "draining"}
  BY DEF ReportsChunk, SendChunk, Goto, SystemInv, TypeOK, SenderTypeOK
<1>7. progressDone'[s] = DoneNow(s) /\ progressDone[s] \in Nat
  BY DEF ReportsChunk, ReportsTyped
<1>8. /\ progressDone'[s] <= Total[s] /\ progressDone[s] <= progressDone'[s]
      /\ Total[s] - Len(pending'[s]) <= progressDone'[s]
  BY <1>7, DoneNowLemma DEF BlastAt
<1>9. progressDone'[s] <= Cardinality(sent'[s])
  <2> DEFINE n == Cardinality(sent'[s])
             left == Cardinality(Chunks(s) \ sent'[s])
             p == pending'[s]
  <2>1. /\ IsFiniteSet(Chunks(s)) /\ Cardinality(Chunks(s)) = Total[s] /\ Total[s] \in Nat
    BY ChunksNat
  <2>2. n \in Nat /\ Cardinality(sent[s]) <= n
    <3>1. IsFiniteSet(sent'[s]) /\ sent[s] \subseteq sent'[s]
      BY <1>4, <1>5, <2>1, FS_Subset
    <3>2. IsFiniteSet(sent[s]) /\ Cardinality(sent[s]) \in Nat /\ Cardinality(sent'[s]) \in Nat
      BY <3>1, FS_Subset, FS_CardinalityType
    <3> QED BY <3>1, <3>2, FS_Subset
  <2>3. left = Total[s] - n
    <3>1. Chunks(s) \cap sent'[s] = sent'[s]
      BY <1>5
    <3>2. left = Cardinality(Chunks(s)) - Cardinality(Chunks(s) \cap sent'[s])
      BY <2>1, FS_Difference
    <3> QED BY <2>1, <3>1, <3>2
  <2>4. p \in Seq(Nat) /\ Len(p) \in Nat
    BY DEF SystemInv, TypeOK, SenderTypeOK
  <2>5. left <= Cardinality(ListedIn(p))
    <3>1. Chunks(s) \ sent'[s] \subseteq ListedIn(p)
      BY <1>2, <1>5 DEF QueueAt, ListedIn
    <3> QED BY <2>4, <3>1, ListedLemma, FS_Subset
  <2>6. Cardinality(ListedIn(p)) <= Len(p) /\ Cardinality(ListedIn(p)) \in Nat
    BY <2>4, ListedLemma
  <2>7. Total[s] - Len(p) <= n
    <3> HIDE DEF n, left, p
    <3> QED BY <2>1, <2>2, <2>3, <2>4, <2>5, <2>6
  <2>8. progressDone[s] <= Cardinality(sent[s]) /\ Cardinality(sent[s]) \in Nat
    <3>1. IsFiniteSet(sent[s])
      BY <2>1, FS_Subset DEF BlastAt
    <3> QED BY <3>1, FS_CardinalityType DEF BlastAt
  <2>9. progressDone'[s] \in {progressDone[s], Total[s] - Len(p)}
    BY <1>7 DEF DoneNow
  <2> QED BY <1>7, <2>2, <2>7, <2>8, <2>9
<1> QED BY <1>5, <1>6, <1>8, <1>9 DEF BlastAt, Chunks

LEMMA BlastStep ==
    SystemInv /\ SystemInv' /\ ReportsTyped /\ ReportsTyped' /\ BlastInv /\ [ReportsNext]_allVars => BlastInv'
<1> SUFFICES ASSUME SystemInv, SystemInv', ReportsTyped, ReportsTyped', BlastInv, [ReportsNext]_allVars,
                    NEW t \in Senders
             PROVE  BlastAt(t)'
  BY DEF BlastInv
<1>1. BlastAt(t)
  BY DEF BlastInv
<1>2. CASE UNCHANGED allVars \/ ReceiverReports
  <2>1. UNCHANGED <<sendVars, progressDone, sent>>
    BY <1>2, ReceiverTells DEF allVars, vars, reportVars
  <2> QED BY <1>1, <2>1 DEF BlastAt, sendVars, Chunks
<1>3. ASSUME NEW s \in Senders, SenderReports(s) PROVE BlastAt(t)'
  <2>1. CASE t # s
    <3>1. phase'[t] = phase[t] /\ pending'[t] = pending[t] /\ queued'[t] = queued[t]
      BY <1>3, <2>1, QueueTells
    <3>2. progressDone'[t] = progressDone[t] /\ sent'[t] = sent[t]
      BY <1>3, <2>1, QueueTells DEF ReportsChunk, ReportsTyped
    <3> QED BY <1>1, <3>1, <3>2 DEF BlastAt, Chunks
  <2>2. CASE ReportsChunk(s) /\ t = s
    BY <1>1, <2>2, ChunkBlasts
  <2>3. CASE t = s /\ UNCHANGED <<progressDone, sent>> /\ ~ReportsChunk(s)
    <3>1. /\ progressDone'[t] = progressDone[t] /\ sent'[t] = sent[t]
          /\ progressDone[t] \in Nat /\ Total[t] \in Nat
          /\ Len(pending[t]) \in Nat /\ Len(pending'[t]) \in Nat
      BY <2>3, FilesAssumption DEF ReportsTyped, SystemInv, TypeOK, SenderTypeOK
    <3>2. /\ sent'[t] \subseteq Chunks(t)'
          /\ progressDone'[t] <= Total[t]
          /\ progressDone'[t] <= Cardinality(sent'[t])
      BY <1>1, <3>1 DEF BlastAt, Chunks
    <3>3. phase'[t] \in {"start", "handshake"} => progressDone'[t] = 0
      BY <1>1, <1>3, <2>3, <3>1, QueueTells DEF BlastAt
    <3>4. phase'[t] \in {"blasting", "draining", "feedback"} =>
              /\ Total[t] - Len(pending'[t]) <= progressDone'[t]
              /\ Chunks(t) \ sent'[t] \subseteq queued'[t]
      BY <1>1, <1>3, <2>3, <3>1, QueueTells DEF BlastAt
    <3> QED BY <3>2, <3>3, <3>4 DEF BlastAt, Chunks
  <2> QED BY <1>3, <2>1, <2>2, <2>3, QueueTells
<1> QED BY <1>2, <1>3 DEF ReportsNext

LEMMA BlastInit == ReportsStart => BlastInv
<1>1. \A s \in Senders : Total[s] \in Nat
  BY FilesAssumption
<1>2. Cardinality({}) = 0
  BY FS_EmptySet
<1> QED BY <1>1, <1>2 DEF ReportsStart, Init, SendInit, BlastInv, BlastAt

-----------------------------------------------------------------------------
(* What is printed of it. *)

SenderPcts(s) == Rises(reporter[s]) /\ UpToDate(reporter[s], progressDone[s], Total[s])
ReceiverPcts ==
    /\ Rises(reporter[Recv])
    /\ rpc = "receiving" => UpToDate(reporter[Recv], count, header.total)
    /\ rpc = "linger" => UpToDate(reporter[Recv], Total[from], Total[from])
PctsInv == ReceiverPcts /\ \A s \in Senders : SenderPcts(s)

\* Other events than progress keep the percentages, or begin a transfer.
LEMMA PctsLemma ==
    ASSUME NEW r \in Reporters, Rises(r)
    PROVE  /\ \A e \in Events : e.kind # "progress" =>
                  /\ Shows(r, e) \in Reporters
                  /\ Rises(Shows(r, e))
                  /\ ~Begins(e) => \A done, total : UpToDate(r, done, total) => UpToDate(Shows(r, e), done, total)
           /\ \A kind \in {"sending", "receiving"} : \A total : UpToDate(Shows(r, Event(kind)), 0, total)
<1>1. ASSUME NEW e \in Events, e.kind # "progress"
      PROVE  /\ Shows(r, e) \in Reporters
             /\ Rises(Shows(r, e))
             /\ ~Begins(e) => \A done, total : UpToDate(r, done, total) => UpToDate(Shows(r, e), done, total)
  BY <1>1, OthersRise, ShowsTyped DEF UpToDate
<1>2. ASSUME NEW kind \in {"sending", "receiving"}, NEW total
      PROVE  UpToDate(Shows(r, Event(kind)), 0, total)
  <2>1. Event(kind) \in Events /\ Event(kind).kind # "progress" /\ Begins(Event(kind))
    BY EventsTyped DEF Kinds, Begins
  <2>2. Shows(r, Event(kind)).pcts = <<>>
    BY <2>1, OthersRise
  <2> QED BY <2>2 DEF UpToDate
<1> QED BY <1>1, <1>2

\* Which events are neither.
LEMMA OtherEvents ==
    /\ \A kind \in {"pass", "completed", "listening", "bad_init", "missing", "saved", "failed"} :
           Event(kind) \in Events /\ Event(kind).kind # "progress" /\ ~Begins(Event(kind))
    /\ \A e \in {Nothing, ExitError, Abandoned, Listening, Listens} :
           e \in Events /\ e.kind # "progress" /\ ~Begins(e)
    /\ \A kind \in {"sending", "receiving"} : Event(kind) \in Events /\ Event(kind).kind # "progress"
<1>1. \A kind \in {"pass", "completed", "listening", "bad_init", "missing", "saved", "failed"} :
          Event(kind) \in Events /\ Event(kind).kind # "progress" /\ ~Begins(Event(kind))
  BY EventsTyped DEF Kinds, Begins
<1>2. \A e \in {Nothing, ExitError} : e \in Events /\ e.kind # "progress" /\ ~Begins(e)
  BY EventsTyped DEF Begins
<1>3. \A kind \in {"sending", "receiving"} : Event(kind) \in Events /\ Event(kind).kind # "progress"
  BY EventsTyped DEF Kinds
<1> QED BY <1>1, <1>2, <1>3 DEF Abandoned, Listening, Listens

LEMMA PctsOfSenderStep ==
    ASSUME SystemInv, SystemInv', ReportsTyped, ReportsTyped', NEW s \in Senders,
           BlastAt(s), SenderPcts(s), SenderReports(s)
    PROVE  SenderPcts(s)'
<1> DEFINE r == reporter[s]
<1>1. /\ s \in Processes /\ r \in Reporters /\ progressDone[s] \in Nat /\ progressDone'[s] \in Nat
      /\ Rises(r) /\ UpToDate(r, progressDone[s], Total[s])
  BY DEF Processes, ReportsTyped, SenderPcts
<1>2. CASE ReportsChunk(s)
  <2>1. progressDone[s] <= progressDone'[s]
    BY <1>2, ChunkBlasts
  <2>2. Head(pending[s]) \in Chunks(s)
    <3>1. pending[s] \in Seq(Nat) /\ pending[s] # <<>>
      BY <1>2 DEF ReportsChunk, SendChunk, SystemInv, TypeOK, SenderTypeOK
    <3> QED BY <3>1, PopLemma, QueueOfOne DEF SystemInv, QueueAt
  <2>3. Total[s] \in Nat \ {0}
    BY <2>2, ChunksNat DEF Chunks
  <2>4. reporter'[s] = Shows(r, ProgressEvent(progressDone'[s], Total[s]))
    BY <1>1, <1>2, SpeaksLemma DEF ReportsChunk
  <2> QED BY <1>1, <2>1, <2>3, <2>4, ProgressRises DEF SenderPcts
<1>3. ASSUME ~ReportsChunk(s) PROVE progressDone'[s] = progressDone[s]
  BY <1>3, QueueTells
<1>4. CASE /\ ~ReportsChunk(s) /\ phase[s] = "handshake"
           /\ \E e \in {Event("pass"), Nothing} : SaysTwo(s, Event("sending"), e)
  <2> DEFINE r1 == Shows(r, Event("sending"))
  <2>1. PICK e \in {Event("pass"), Nothing} : reporter'[s] = Shows(r1, e)
    BY <1>1, <1>4, SpeaksLemma
  <2>2. progressDone'[s] = 0
    BY <1>3, <1>4 DEF BlastAt
  <2>3. r1 \in Reporters /\ Rises(r1) /\ UpToDate(r1, 0, Total[s])
    BY <1>1, PctsLemma, OtherEvents
  <2> HIDE DEF r1
  <2>4. e \in Events /\ e.kind # "progress" /\ ~Begins(e)
    BY OtherEvents
  <2>5. Rises(reporter'[s]) /\ UpToDate(reporter'[s], 0, Total[s])
    BY <2>1, <2>3, <2>4, PctsLemma
  <2> QED BY <2>2, <2>5 DEF SenderPcts
<1>5. CASE ~ReportsChunk(s) /\ \E e \in {Event("pass"), Event("completed"), Nothing, ExitError} : Says(s, e)
  <2>1. PICK e \in {Event("pass"), Event("completed"), Nothing, ExitError} : reporter'[s] = Shows(r, e)
    BY <1>1, <1>5, SpeaksLemma
  <2>2. e \in Events /\ e.kind # "progress" /\ ~Begins(e)
    BY OtherEvents
  <2>3. Rises(reporter'[s]) /\ UpToDate(reporter'[s], progressDone[s], Total[s])
    BY <1>1, <2>1, <2>2, PctsLemma
  <2> QED BY <1>3, <1>5, <2>3 DEF SenderPcts
<1>6. CASE ~ReportsChunk(s) /\ UNCHANGED reporter
  BY <1>1, <1>3, <1>6 DEF SenderPcts
<1> QED BY <1>2, <1>4, <1>5, <1>6, SenderTells

LEMMA PctsOfReceiverStep ==
    ASSUME SystemInv, SystemInv', ReportsTyped, ReceiverPcts, ReceiverReports
    PROVE  ReceiverPcts'
<1> DEFINE r == reporter[Recv]
<1>1. /\ Recv \in Processes /\ r \in Reporters /\ Rises(r)
      /\ rpc = "receiving" => UpToDate(r, count, header.total)
  BY DEF Processes, ReportsTyped, ReceiverPcts
<1>2. CASE UNCHANGED <<rpc, from, header, count, reporter>>
  BY <1>2 DEF ReceiverPcts
<1>3. CASE rpc = "listening" /\ rpc' = "receiving" /\ count' = 0 /\ Says(Recv, Event("receiving"))
  <2>1. reporter'[Recv] = Shows(r, Event("receiving"))
    BY <1>1, <1>3, SpeaksLemma
  <2>2. Rises(reporter'[Recv]) /\ UpToDate(reporter'[Recv], 0, header'.total)
    BY <1>1, <2>1, PctsLemma, OtherEvents
  <2> QED BY <1>3, <2>2 DEF ReceiverPcts
<1>4. CASE rpc = "listening" /\ UNCHANGED rpc /\ Says(Recv, Event("bad_init"))
  <2>1. reporter'[Recv] = Shows(r, Event("bad_init"))
    BY <1>1, <1>4, SpeaksLemma
  <2>2. Rises(reporter'[Recv])
    BY <1>1, <2>1, PctsLemma, OtherEvents
  <2> QED BY <1>4, <2>2 DEF ReceiverPcts
<1>5. CASE /\ rpc = "receiving" /\ UNCHANGED <<rpc, from, header>> /\ count' = count + 1
           /\ header.total # 0
           /\ Says(Recv, ProgressEvent(count', header.total))
  <2>1. reporter'[Recv] = Shows(r, ProgressEvent(count', header.total))
    BY <1>1, <1>5, SpeaksLemma
  <2>2. count \in Nat /\ count' \in Nat /\ count <= count' /\ header.total \in Nat \ {0}
    BY <1>5, OpenHeader DEF SystemInv, TypeOK, RecvTypeOK
  <2>3. Rises(reporter'[Recv]) /\ UpToDate(reporter'[Recv], count', header.total)
    BY <1>1, <1>5, <2>1, <2>2, ProgressRises
  <2> QED BY <1>5, <2>3 DEF ReceiverPcts
<1>6. CASE rpc = "receiving" /\ UNCHANGED <<rpc, from, header, count>> /\ Says(Recv, Event("missing"))
  <2>1. reporter'[Recv] = Shows(r, Event("missing"))
    BY <1>1, <1>6, SpeaksLemma
  <2>2. Rises(reporter'[Recv]) /\ UpToDate(reporter'[Recv], count, header.total)
    BY <1>1, <1>6, <2>1, PctsLemma, OtherEvents
  <2> QED BY <1>6, <2>2 DEF ReceiverPcts
<1>7. CASE /\ rpc = "receiving" /\ rpc' = "linger" /\ UNCHANGED from
           /\ count = header.total /\ header.total = Total[from] /\ Says(Recv, Event("saved"))
  <2>1. reporter'[Recv] = Shows(r, Event("saved"))
    BY <1>1, <1>7, SpeaksLemma
  <2>2. Rises(reporter'[Recv]) /\ UpToDate(reporter'[Recv], count, header.total)
    BY <1>1, <1>7, <2>1, PctsLemma, OtherEvents
  <2> QED BY <1>7, <2>2 DEF ReceiverPcts
<1>8. CASE /\ rpc' \in NextUp
           /\ \E e \in {Event("receiving"), Nothing, Event("missing")} : SaysThree(Recv, e, Abandoned, Listens)
  <2>1. PICK e \in {Event("receiving"), Nothing, Event("missing")} :
            reporter'[Recv] = Shows(Shows(Shows(r, e), Abandoned), Listens)
    BY <1>1, <1>8, SpeaksLemma
  <2> DEFINE r1 == Shows(r, e)
             r2 == Shows(r1, Abandoned)
  <2>2. r1 \in Reporters /\ Rises(r1)
    BY <1>1, PctsLemma, OtherEvents
  <2>3. reporter'[Recv] = Shows(r2, Listens)
    BY <2>1
  <2> HIDE DEF r1
  <2>4. r2 \in Reporters /\ Rises(r2)
    BY <2>2, PctsLemma, OtherEvents
  <2> HIDE DEF r2
  <2>5. Rises(reporter'[Recv])
    BY <2>3, <2>4, PctsLemma, OtherEvents
  <2> QED BY <1>8, <2>5 DEF ReceiverPcts, NextUp
<1>9. CASE rpc' \in NextUp /\ Says(Recv, Listens)
  <2>1. reporter'[Recv] = Shows(r, Listens)
    BY <1>1, <1>9, SpeaksLemma
  <2>2. Rises(reporter'[Recv])
    BY <1>1, <2>1, PctsLemma, OtherEvents
  <2> QED BY <1>9, <2>2 DEF ReceiverPcts, NextUp
<1>10. CASE /\ rpc' = "exited"
            /\ \E listened \in {Nothing, Listening}, last \in {Nothing, ExitError} :
                   SaysTwo(Recv, listened, last)
  <2>a. PICK d \in {Nothing, Listening} : \E last \in {Nothing, ExitError} : SaysTwo(Recv, d, last)
    BY <1>10
  <2> DEFINE r1 == Shows(r, d)
  <2>1. PICK last \in {Nothing, ExitError} : reporter'[Recv] = Shows(r1, last)
    BY <1>1, <2>a, SpeaksLemma
  <2>2. r1 \in Reporters /\ Rises(r1)
    BY <1>1, PctsLemma, OtherEvents
  <2> HIDE DEF r1
  <2>3. Rises(reporter'[Recv])
    BY <2>1, <2>2, PctsLemma, OtherEvents
  <2> QED BY <1>10, <2>3 DEF ReceiverPcts
<1>11. CASE rpc' = "down" /\ UNCHANGED reporter
  BY <1>1, <1>11 DEF ReceiverPcts
<1>12. CASE /\ rpc' = "listening"
            /\ reporter' = [reporter EXCEPT ![Recv] = Shows(NewReporter, Event("listening"))]
  <2>1. reporter'[Recv] = Shows(NewReporter, Event("listening"))
    BY <1>1, <1>12 DEF ReportsTyped
  <2>2. Rises(NewReporter)
    BY EmptyRises DEF NewReporter, Rises
  <2>3. Rises(reporter'[Recv])
    BY <2>1, <2>2, NewReporterTyped, PctsLemma, OtherEvents
  <2> QED BY <1>12, <2>3 DEF ReceiverPcts
<1> QED BY <1>2, <1>3, <1>4, <1>5, <1>6, <1>7, <1>8, <1>9, <1>10, <1>11, <1>12, ReceiverTells

LEMMA PctsStep ==
    ASSUME SystemInv, SystemInv', ReportsTyped, ReportsTyped', BlastInv, PctsInv, [ReportsNext]_allVars
    PROVE  PctsInv'
<1>1. Recv \in Processes /\ Recv \notin Senders /\ Senders \subseteq Processes
  BY RecvAssumption DEF Processes
<1>2. ReceiverPcts /\ \A s \in Senders : SenderPcts(s)
  BY DEF PctsInv
<1>3. CASE UNCHANGED allVars
  BY <1>2, <1>3 DEF allVars, vars, reportVars, recvVars, PctsInv, ReceiverPcts, SenderPcts
<1>4. CASE ReceiverReports
  <2>1. \A s \in Senders : SenderPcts(s)'
    BY <1>2, <1>4, OthersSilent, ReceiverTells DEF SenderPcts
  <2> QED BY <1>2, <1>4, <2>1, PctsOfReceiverStep DEF PctsInv
<1>5. ASSUME NEW s \in Senders, SenderReports(s) PROVE PctsInv'
  <2>1. ReceiverPcts'
    BY <1>1, <1>2, <1>5, OthersSilent, SenderTells DEF recvVars, ReceiverPcts
  <2>2. ASSUME NEW t \in Senders, t # s PROVE SenderPcts(t)'
    <3>1. progressDone'[t] = progressDone[t]
      BY <1>5, <2>2, QueueTells DEF ReportsChunk, ReportsTyped
    <3> QED BY <1>1, <1>2, <1>5, <2>2, <3>1, OthersSilent DEF SenderPcts
  <2>3. SenderPcts(s)'
    BY <1>2, <1>5, PctsOfSenderStep DEF BlastInv
  <2> QED BY <2>1, <2>2, <2>3 DEF PctsInv
<1> QED BY <1>3, <1>4, <1>5 DEF ReportsNext

LEMMA PctsInit == ReportsStart => PctsInv
<1> SUFFICES ASSUME ReportsStart PROVE PctsInv
  OBVIOUS
<1>1. Rises(NewReporter) /\ NewReporter.pcts = <<>>
  BY EmptyRises DEF NewReporter, Rises
<1>2. Rises(Shows(NewReporter, Event("listening")))
  BY <1>1, NewReporterTyped, PctsLemma, OtherEvents
<1>3. reporter[Recv] = Shows(NewReporter, Event("listening")) /\ rpc = "listening"
  BY DEF ReportsStart, Init, RecvInit, Processes
<1>4. \A s \in Senders : reporter[s] = NewReporter /\ progressDone[s] = 0
  BY RecvAssumption DEF ReportsStart, Processes
<1> QED BY <1>1, <1>2, <1>3, <1>4 DEF PctsInv, ReceiverPcts, SenderPcts, UpToDate

PctsWell == SystemInv /\ ReportsTyped /\ BlastInv /\ PctsInv

LEMMA PctsWellStep == PctsWell /\ [ReportsNext]_allVars => PctsWell'
BY StepsOfUdpcp, SystemStep, TypedStep, BlastStep, PctsStep DEF PctsWell

LEMMA PctsWellInit == ReportsStart => PctsWell
BY SystemInit, TypedInit, BlastInit, PctsInit DEF ReportsStart, PctsWell

\* What is shown has been done (see ProgressHonest), in every environment.
THEOREM ProgressIsHonest == ReportsSpec => []ProgressHonest
<1>1. PctsWell => ProgressHonest
  <2> SUFFICES ASSUME PctsWell PROVE ProgressHonest
    OBVIOUS
  <2>1. \A s \in Senders : progressDone[s] <= Cardinality(sent[s])
    BY DEF PctsWell, BlastInv, BlastAt
  <2>2. ASSUME rpc = "receiving", reporter[Recv].pcts # <<>>
        PROVE  reporter[Recv].pcts[Len(reporter[Recv].pcts)] = Percent(count, header.total)
    BY <2>2 DEF PctsWell, PctsInv, ReceiverPcts, Rises, UpToDate, Latest
  <2> QED BY <2>1, <2>2 DEF ProgressHonest
<1> QED BY <1>1, PctsWellInit, PctsWellStep, PTL DEF ReportsSpec

-----------------------------------------------------------------------------
(* A DONE is sent when every chunk has been blasted. *)

DoneInv ==
    /\ \A m \in toReceiver : m.typ = "DONE" => progressDone[m.from] = Total[m.from]
    /\ \A s \in saved : progressDone[s] = Total[s]

\* Only a flipped bit in a type makes a DONE of another datagram.
LEMMA DoneIsSent ==
    ASSUME "mistype" \notin Env, SystemInv, NEW d \in ArrivingAtReceiver, d.typ = "DONE"
    PROVE  d \in toReceiver
<1>1. ASSUME NEW m \in ReceiverDatagrams PROVE d \notin DamagedToReceiver(m)
  BY DEF DamagedToReceiver, ReceiverDatagrams
<1>2. toReceiver \subseteq ReceiverDatagrams
  BY DEF SystemInv, TypeOK, NetTypeOK
<1> QED BY <1>1, <1>2 DEF ArrivingAtReceiver

LEMMA DoneSteps ==
    ASSUME SystemInv, NEW s \in Senders, SenderReports(s),
           NEW m \in toReceiver', m \notin toReceiver, m.typ = "DONE"
    PROVE  SendDone(s) /\ m.from = s
<1>1. CASE ReportsSending(s) \/ ReportsPass(s) \/ ReportsError(s)
  BY <1>1 DEF ReportsSending, ReportsPass, ReportsError, Accepted, FeedbackTimeout, HandshakeFails,
              SenderFails, netVars
<1>2. CASE ReportsChunk(s) \/ ReportsCompleted(s)
  BY <1>2 DEF ReportsChunk, ReportsCompleted, SendChunk, DrainFin, FeedbackFin, Complete, SenderSends,
              Data, FinAck
<1>3. CASE SendsQuietly(s)
  BY <1>3 DEF SendsQuietly, OfferFile, DrainEnd, SendDone, HandshakeTimeout, DrainNack, FeedbackNack,
              IgnoreFeedback, EditSource, SenderSends, InitOf, Done, netVars
<1> QED BY <1>1, <1>2, <1>3 DEF SenderReports

LEMMA SavedSteps ==
    ASSUME ReceiverReports
    PROVE  /\ toReceiver' \subseteq toReceiver
           /\ saved' = saved \/ \E m \in ArrivingAtReceiver : DoneSaves(m)
<1>1. ASSUME NEW m \in ArrivingAtReceiver,
             ReportsInit(m) \/ ReportsData(m) \/ ReportsSaved(m) \/ ReportsMissing(m) \/ ReportsLinger(m)
      PROVE  ReceiverTakes(m) /\ (saved' = saved \/ DoneSaves(m))
  <2>1. CASE ReportsInit(m)
    BY <2>1 DEF ReportsInit, InitOpens, InitRejected, InitCannotSize, InitAgain, InitUnanswered, AbandonOpen, Abandon,
                recvVars, diskVars
  <2>2. CASE ReportsData(m)
    BY <2>2 DEF ReportsData, DataStored, DataUnwritable, DataIgnored, AbandonOpen, Abandon, recvVars, diskVars
  <2>3. CASE ReportsSaved(m)
    BY <2>3 DEF ReportsSaved, DoneSaves, DoneFails, AbandonOpen, Abandon
  <2>4. CASE ReportsMissing(m)
    BY <2>4 DEF ReportsMissing, DoneIncomplete, NackFails, AbandonOpen, Abandon, recvVars, diskVars
  <2>5. CASE ReportsLinger(m)
    BY <2>5 DEF ReportsLinger, FinAckArrives, DoneInLinger, DatagramDropped, LeaveLinger, recvVars, diskVars
  <2> QED BY <1>1, <2>1, <2>2, <2>3, <2>4, <2>5
<1>2. CASE ReportsTimeout \/ ReportsStop \/ ReportsRestart \/ Crash
  BY <1>2 DEF ReportsTimeout, ReportsStop, ReportsRestart, GapTimer, NackFails, IdleTimeout, LingerEnds,
              LeaveLinger, AbandonOpen, Abandon, Stop, Restart, Crash, netVars, recvVars, diskVars
<1>3. \A m : ReceiverTakes(m) => toReceiver' \subseteq toReceiver
  BY DEF ReceiverTakes, Remaining
<1> QED BY <1>1, <1>2, <1>3 DEF ReceiverReports

LEMMA DoneStep ==
    ASSUME "mistype" \notin Env, PctsWell, PctsWell', DoneInv, [ReportsNext]_allVars
    PROVE  DoneInv'
<1> USE DEF PctsWell
<1>1. /\ \A s \in Senders : progressDone[s] \in Nat /\ progressDone'[s] \in Nat /\ Total[s] \in Nat
      /\ \A s \in Senders : progressDone'[s] <= Total[s]
      /\ \A m \in toReceiver : m.from \in Senders
      /\ saved \subseteq Senders
  BY FilesAssumption DEF ReportsTyped, BlastInv, BlastAt, SystemInv, TypeOK, NetTypeOK, RecvTypeOK,
                         ReceiverDatagrams
<1>2. CASE UNCHANGED allVars
  BY <1>2 DEF allVars, vars, reportVars, netVars, recvVars, diskVars, DoneInv
<1>3. CASE ReceiverReports
  <2>1. progressDone' = progressDone
    BY <1>3, ReceiverTells
  <2>2. ASSUME NEW m \in ArrivingAtReceiver, DoneSaves(m)
        PROVE  saved' = saved \cup {from} /\ progressDone[from] = Total[from]
    <3>1. m \in toReceiver /\ m.typ = "DONE"
      BY <2>2, DoneIsSent DEF DoneSaves
    <3>2. m.from = from
      BY <2>2, SendersAssumption DEF DoneSaves, FromSender, Heard, SystemInv, TypeOK, RecvTypeOK
    <3> QED BY <2>2, <3>1, <3>2 DEF DoneSaves, DoneInv
  <2> QED BY <1>3, <2>1, <2>2, SavedSteps DEF DoneInv
<1>4. ASSUME NEW s \in Senders, SenderReports(s) PROVE DoneInv'
  <2>1. ASSUME NEW t \in Senders PROVE progressDone[t] <= progressDone'[t]
    <3>1. CASE ReportsChunk(s)
      <4>1. progressDone[s] <= progressDone'[s]
        BY <3>1, ChunkBlasts DEF BlastInv
      <4>2. t # s => progressDone'[t] = progressDone[t]
        BY <3>1 DEF ReportsChunk, ReportsTyped
      <4> QED BY <1>1, <4>1, <4>2
    <3> QED BY <1>1, <1>4, <3>1, QueueTells
  <2>2. ASSUME NEW t \in Senders, progressDone[t] = Total[t] PROVE progressDone'[t] = Total[t]
    BY <1>1, <2>1, <2>2
  <2>3. ASSUME NEW m \in toReceiver', m.typ = "DONE", m \notin toReceiver
        PROVE  progressDone'[m.from] = Total[m.from]
    <3>1. SendDone(s) /\ m.from = s
      BY <1>4, <2>3, DoneSteps
    <3>2. phase[s] = "blasting" /\ pending[s] = <<>>
      BY <3>1 DEF SendDone
    <3>3. Total[s] - Len(pending[s]) <= progressDone[s] /\ progressDone[s] <= Total[s]
      BY <3>2 DEF BlastInv, BlastAt
    <3>4. Len(pending[s]) = 0
      BY <3>2
    <3>5. progressDone[s] = Total[s]
      BY <1>1, <3>3, <3>4
    <3> QED BY <2>2, <3>1, <3>5
  <2>4. saved' = saved
    BY <1>4, SenderTells DEF recvVars, diskVars
  <2> QED BY <1>1, <2>2, <2>3, <2>4 DEF DoneInv
<1> QED BY <1>2, <1>3, <1>4 DEF ReportsNext

DoneWell == PctsWell /\ LinesWell /\ NewsIsTrue /\ DoneInv

LEMMA DoneWellStep == "mistype" \notin Env /\ DoneWell /\ [ReportsNext]_allVars => DoneWell'
BY StepsOfUdpcp, PctsWellStep, LinesWellStep, NewsStep, DoneStep DEF DoneWell, LinesWell

LEMMA DoneWellInit == ReportsStart => DoneWell
BY PctsWellInit, LinesWellInit
   DEF ReportsStart, Init, NetInit, SendInit, RecvInit, DoneWell, DoneInv, NewsIsTrue

\* Percentages only rise, in every environment.
Monotone == \A p \in Processes : Rising(reporter[p].pcts)

THEOREM PercentagesRise == ReportsSpec => []Monotone
<1>1. PctsWell => Monotone
  BY DEF PctsWell, PctsInv, ReceiverPcts, SenderPcts, Rises, Monotone, Processes
<1> QED BY <1>1, PctsWellInit, PctsWellStep, PTL DEF ReportsSpec

\* ... and have risen to 100 at a success (see PercentsRise), unless a bit
\* flips in the type of a datagram: then a FIN may find a sender that has not
\* blasted every chunk.
THEOREM PercentsRiseTo100 ==
    ASSUME "mistype" \notin Env
    PROVE  ReportsSpec => []PercentsRise
<1>1. DoneWell => PercentsRise
  <2> SUFFICES ASSUME DoneWell PROVE PercentsRise
    OBVIOUS
  <2> DEFINE ChunksOf(p) == IF p = Recv THEN (IF from = NoSender THEN 0 ELSE Total[from]) ELSE Total[p]
  <2>1. \A p \in Processes : \A i, j \in DOMAIN reporter[p].pcts :
            i < j => reporter[p].pcts[i] < reporter[p].pcts[j]
    BY DEF DoneWell, PctsWell, PctsInv, ReceiverPcts, SenderPcts, Rises, Rising, Processes
  <2>2. ASSUME NEW r, NEW total \in Nat, Jsonl, Progress, total > 0, Rises(r), UpToDate(r, total, total)
        PROVE  r.pcts # <<>> /\ r.pcts[Len(r.pcts)] = 100
    <3>1. r.pcts # <<>>
      BY <2>2 DEF UpToDate
    <3>2. r.lastPct = Percent(total, total) /\ r.lastPct = Latest(r.pcts)
      BY <2>2, <3>1 DEF UpToDate, Rises
    <3>3. Percent(total, total) = 100
      BY <2>2, PercentLemma
    <3> QED BY <3>1, <3>2, <3>3 DEF Latest
  <2>3. ASSUME Jsonl, Progress, reporter[Recv].seen \in {"saved", "completed"}, ChunksOf(Recv) > 0
        PROVE  reporter[Recv].pcts # <<>> /\ reporter[Recv].pcts[Len(reporter[Recv].pcts)] = 100
    <3>1. rpc \in RecvPhases /\ reporter[Recv].seen \in LinesOfReceiver[rpc]
      BY <2>3 DEF DoneWell, LinesWell, LinesInv, ReceiverLines, SystemInv, TypeOK, RecvTypeOK
    <3>2. from # NoSender
      BY <2>3
    <3>3. rpc = "linger" /\ from \in Senders
      BY <2>3, <3>1, <3>2 DEF LinesOfReceiver, RecvPhases, DoneWell, PctsWell, SystemInv, TypeOK, RecvTypeOK
    <3>4. Total[from] \in Nat /\ Total[from] > 0
      BY <2>3, <3>2, <3>3, FilesAssumption
    <3>5. Rises(reporter[Recv]) /\ UpToDate(reporter[Recv], Total[from], Total[from])
      BY <3>3 DEF DoneWell, PctsWell, PctsInv, ReceiverPcts
    <3> QED BY <2>2, <2>3, <3>4, <3>5
  <2>4. ASSUME NEW s \in Senders, Jsonl, Progress, reporter[s].seen \in {"saved", "completed"}, Total[s] > 0
        PROVE  reporter[s].pcts # <<>> /\ reporter[s].pcts[Len(reporter[s].pcts)] = 100
    <3>1. phase[s] \in Phases /\ reporter[s].seen \in LinesOfSender[phase[s]]
      BY <2>4 DEF DoneWell, LinesWell, LinesInv, SenderLines, SystemInv, TypeOK, SenderTypeOK
    <3>2. phase[s] = "completed"
      BY <2>4, <3>1 DEF LinesOfSender, Phases
    <3>3. progressDone[s] = Total[s]
      BY <3>2 DEF DoneWell, DoneInv, NewsIsTrue
    <3>4. Rises(reporter[s]) /\ UpToDate(reporter[s], Total[s], Total[s])
      BY <3>3 DEF DoneWell, PctsWell, PctsInv, SenderPcts
    <3> QED BY <2>2, <2>4, <3>4, FilesAssumption
  <2>5. Recv \notin Senders
    BY RecvAssumption
  <2> QED BY <2>1, <2>3, <2>4, <2>5 DEF PercentsRise, Processes
<1> QED BY <1>1, DoneWellInit, DoneWellStep, PTL DEF ReportsSpec
=============================================================================
