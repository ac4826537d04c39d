----------------------------- MODULE UdpcpTypes ------------------------------
(***************************************************************************)
(* Udpcp stays well typed and its blast queues stay consistent, for every  *)
(* number of senders, chunks and passes and for every environment.  The    *)
(* proof goes component by component: a step of a sender keeps SenderInv,  *)
(* a step of the receiver RecvInv, and neither touches the other's state.  *)
(***************************************************************************)
EXTENDS Udpcp, TLAPS, FiniteSetTheorems, SequenceTheorems

-----------------------------------------------------------------------------
(* Sequences of chunk numbers. *)

\* Popping the head of a queue without repetitions (VecDeque::pop_front)
\* removes that chunk, and only that one, from what is listed.
LEMMA PopLemma ==
    ASSUME NEW p \in Seq(Nat), p # <<>>, Distinct(p)
    PROVE  /\ Head(p) \in Nat
           /\ Head(p) \in ListedIn(p)
           /\ Tail(p) \in Seq(Nat)
           /\ Distinct(Tail(p))
           /\ ListedIn(Tail(p)) = ListedIn(p) \ {Head(p)}
<1>1. /\ Len(p) \in Nat \ {0} /\ DOMAIN p = 1..Len(p) /\ Head(p) = p[1]
      /\ Tail(p) \in Seq(Nat) /\ DOMAIN Tail(p) = 1..(Len(p) - 1)
      /\ \A i \in 1..(Len(p) - 1) : Tail(p)[i] = p[i + 1]
  OBVIOUS
<1>2. Head(p) \in Nat /\ Head(p) \in ListedIn(p)
  BY <1>1 DEF ListedIn
<1>3. Distinct(Tail(p))
  BY <1>1 DEF Distinct
<1>4. ASSUME NEW q \in ListedIn(Tail(p)) PROVE q \in ListedIn(p) \ {Head(p)}
  BY <1>1 DEF ListedIn, Distinct
<1>5. ASSUME NEW q \in ListedIn(p) \ {Head(p)} PROVE q \in ListedIn(Tail(p))
  <2>1. PICK i \in 1..Len(p) : p[i] = q
    BY <1>1, <1>5 DEF ListedIn
  <2>2. i - 1 \in 1..(Len(p) - 1) /\ Tail(p)[i - 1] = q
    BY <1>1, <1>5, <2>1
  <2> QED BY <1>1, <2>2 DEF ListedIn
<1> QED BY <1>1, <1>2, <1>3, <1>4, <1>5

\* Appending, in ascending order, chunks a queue does not list (Blast::enqueue)
\* adds exactly those and repeats none.
LEMMA AppendLemma ==
    ASSUME NEW p \in Seq(Nat), Distinct(p),
           NEW S \in SUBSET Nat, IsFiniteSet(S), S \cap ListedIn(p) = {},
           NEW e \in Ascending(S)
    PROVE  /\ p \o e \in Seq(Nat)
           /\ Distinct(p \o e)
           /\ ListedIn(p \o e) = ListedIn(p) \cup S
<1>1. Cardinality(S) \in Nat
  BY FS_CardinalityType
<1> DEFINE n == Cardinality(S)
<1>a. /\ e \in [1..n -> S]
      /\ \A q \in S : \E i \in DOMAIN e : e[i] = q
      /\ \A i, j \in DOMAIN e : i < j => e[i] < e[j]
  BY DEF Ascending
<1>b. e \in [1..n -> Nat] /\ DOMAIN e = 1..n
  BY <1>a
<1>2. /\ e \in Seq(Nat) /\ Len(e) = n /\ DOMAIN e = 1..n
      /\ \A i \in 1..n : e[i] \in S
      /\ \A q \in S : \E i \in 1..n : e[i] = q
      /\ \A i, j \in 1..n : i < j => e[i] < e[j]
  <2>1. e \in Seq(Nat) /\ Len(e) = n
    BY <1>1, <1>b
  <2> QED BY <1>a, <1>b, <2>1
<1>3. Len(p) \in Nat /\ DOMAIN p = 1..Len(p) /\ \A i \in 1..Len(p) : p[i] \in Nat
  OBVIOUS
<1>4. /\ p \o e \in Seq(Nat)
      /\ DOMAIN (p \o e) = 1..(Len(p) + n)
      /\ \A i \in 1..Len(p) : (p \o e)[i] = p[i]
      /\ \A i \in 1..n : (p \o e)[Len(p) + i] = e[i]
      /\ \A i \in 1..(Len(p) + n) : i > Len(p) =>
             i - Len(p) \in 1..n /\ (p \o e)[i] = e[i - Len(p)]
  <2>1. /\ p \o e \in Seq(Nat) /\ Len(p \o e) = Len(p) + n
        /\ \A i \in 1..(Len(p) + n) :
               (p \o e)[i] = IF i <= Len(p) THEN p[i] ELSE e[i - Len(p)]
    BY <1>2, ConcatProperties
  <2> QED BY <1>1, <1>3, <2>1
<1>5. \A i, j \in 1..n : e[i] = e[j] => i = j
  BY <1>1, <1>2
<1>6. \A i \in 1..Len(p) : p[i] \notin S
  BY <1>3 DEF ListedIn
<1>7. Distinct(p \o e)
  <2> SUFFICES ASSUME NEW i \in 1..(Len(p) + n), NEW j \in 1..(Len(p) + n),
                      (p \o e)[i] = (p \o e)[j]
               PROVE  i = j
    BY <1>4 DEF Distinct
  <2>1. CASE i <= Len(p) /\ j <= Len(p)
    <3>1. i \in DOMAIN p /\ j \in DOMAIN p /\ p[i] = p[j]
      BY <1>3, <1>4, <2>1
    <3> QED BY <3>1 DEF Distinct
  <2>2. CASE i > Len(p) /\ j > Len(p)
    <3>1. i - Len(p) \in 1..n /\ j - Len(p) \in 1..n /\ e[i - Len(p)] = e[j - Len(p)]
      BY <1>4, <2>2
    <3> QED BY <1>1, <1>3, <1>5, <3>1
  <2>3. CASE i <= Len(p) /\ j > Len(p)
    BY <1>2, <1>3, <1>4, <1>6, <2>3
  <2>4. CASE i > Len(p) /\ j <= Len(p)
    BY <1>2, <1>3, <1>4, <1>6, <2>4
  <2> QED BY <1>1, <1>3, <2>1, <2>2, <2>3, <2>4
<1>8. ASSUME NEW q \in ListedIn(p \o e) PROVE q \in ListedIn(p) \cup S
  <2>1. PICK i \in 1..(Len(p) + n) : (p \o e)[i] = q
    BY <1>4 DEF ListedIn
  <2>2. CASE i <= Len(p)
    <3>1. i \in DOMAIN p /\ p[i] = q
      BY <1>3, <1>4, <2>1, <2>2
    <3> QED BY <3>1 DEF ListedIn
  <2>3. CASE i > Len(p)
    BY <1>2, <1>4, <2>1, <2>3
  <2> QED BY <1>3, <2>2, <2>3
<1>9. ASSUME NEW q \in ListedIn(p) PROVE q \in ListedIn(p \o e)
  <2>1. PICK i \in 1..Len(p) : p[i] = q
    BY <1>3 DEF ListedIn
  <2>2. i \in 1..(Len(p) + n) /\ (p \o e)[i] = q
    BY <1>1, <1>3, <1>4, <2>1
  <2> QED BY <1>4, <2>2 DEF ListedIn
<1>10. ASSUME NEW q \in S PROVE q \in ListedIn(p \o e)
  <2>1. PICK i \in 1..n : e[i] = q
    BY <1>2
  <2>2. Len(p) + i \in 1..(Len(p) + n) /\ (p \o e)[Len(p) + i] = q
    BY <1>1, <1>3, <1>4, <2>1
  <2> QED BY <1>4, <2>2 DEF ListedIn
<1> QED BY <1>4, <1>7, <1>8, <1>9, <1>10

\* A queue without repetitions of chunks of a file is no longer than the file.
LEMMA LenLemma ==
    ASSUME NEW p \in Seq(Nat), Distinct(p), NEW n \in Nat, ListedIn(p) \subseteq 0..(n - 1)
    PROVE  Len(p) <= n
<1>1. Len(p) \in Nat /\ DOMAIN p = 1..Len(p) /\ p \in [1..Len(p) -> 0..(n - 1)]
  BY DEF ListedIn
<1>2. p \in Injection(1..Len(p), 0..(n - 1))
  BY <1>1 DEF Injection, IsInjective, Distinct
<1>3. IsFiniteSet(0..(n - 1)) /\ Cardinality(0..(n - 1)) = n
  BY FS_Interval
<1>4. Cardinality(1..Len(p)) = Len(p)
  BY <1>1, FS_Interval
<1> QED BY <1>2, <1>3, <1>4, FS_Injection

-----------------------------------------------------------------------------
(* Datagrams *)

\* Everything the program sends is a datagram.
LEMMA DatagramsTyped ==
    /\ \A s \in Senders : {InitOf(s), Done(s), FinAck(s)} \subseteq ReceiverDatagrams
    /\ \A s \in Senders, q \in Nat : \A state \in {"good", "stale"} : Data(s, q, state) \in ReceiverDatagrams
    /\ {Ack, Fin} \subseteq SenderDatagrams
    /\ \A S \in SUBSET Nat : Nack(S) \in SenderDatagrams
<1>1. NoBody \in Bodies /\ \A s \in Senders, q \in Nat : \A state \in {"good", "stale"} : Body(s, q, state) \in Bodies
  BY DEF NoBody, Body, Bodies
<1>2. \A s \in Senders : Total[s] \in Nat
  BY FilesAssumption
<1> QED BY <1>1, <1>2 DEF InitOf, Done, FinAck, Data, Ack, Fin, Nack,
               ReceiverDatagrams, SenderDatagrams, PacketTypes

\* So is everything that arrives, damaged or not.
LEMMA ArrivingTyped ==
    ASSUME NetTypeOK
    PROVE  /\ ArrivingAtReceiver \subseteq ReceiverDatagrams
           /\ \A s \in Senders : ArrivingAt(s) \subseteq SenderDatagrams
<1>1. ASSUME NEW m \in ReceiverDatagrams, NEW d \in DamagedToReceiver(m)
      PROVE  d \in ReceiverDatagrams
  <2>1. m.from \in Senders /\ m.typ \in PacketTypes /\ m.seq \in Nat /\ m.body \in Bodies
    BY DEF ReceiverDatagrams
  <2>2. <<m.body[1], m.body[2], "garbled">> \in Bodies
    BY <2>1 DEF Bodies
  <2>3. CASE d = [m EXCEPT !.body = <<m.body[1], m.body[2], "garbled">>]
    BY <2>2, <2>3 DEF ReceiverDatagrams
  <2>4. CASE \E q \in 0..Total[m.from] : d = [m EXCEPT !.seq = q]
    BY <2>1, <2>4, FilesAssumption DEF ReceiverDatagrams
  <2>5. CASE \E t \in PacketTypes : d = [m EXCEPT !.typ = t]
    BY <2>5 DEF ReceiverDatagrams
  <2> QED BY <2>3, <2>4, <2>5 DEF DamagedToReceiver
<1>2. ASSUME NEW s \in Senders, NEW m \in SenderDatagrams, NEW d \in DamagedToSender(s, m)
      PROVE  d \in SenderDatagrams
  <2>1. CASE \E listed \in SUBSET (0..Total[s]) : d = Nack(listed)
    BY <2>1, FilesAssumption, DatagramsTyped
  <2>2. CASE \E t \in PacketTypes : d = [m EXCEPT !.typ = t]
    BY <2>2 DEF SenderDatagrams
  <2> QED BY <2>1, <2>2 DEF DamagedToSender
<1>3. ASSUME NEW d \in ArrivingAtReceiver PROVE d \in ReceiverDatagrams
  <2>1. d \in toReceiver \/ \E m \in toReceiver : d \in DamagedToReceiver(m)
    BY DEF ArrivingAtReceiver
  <2> QED BY <1>1, <2>1 DEF NetTypeOK
<1>4. ASSUME NEW s \in Senders, NEW d \in ArrivingAt(s) PROVE d \in SenderDatagrams
  <2>1. d \in toSender[s] \/ \E m \in toSender[s] : d \in DamagedToSender(s, m)
    BY DEF ArrivingAt
  <2> QED BY <1>2, <2>1 DEF NetTypeOK
<1> QED BY <1>3, <1>4

\* What one side takes and sends keeps the network well typed.
LEMMA SenderNet ==
    ASSUME NetTypeOK, UNCHANGED losses,
           NEW s \in Senders, UNCHANGED toSender \/ \E m : SenderTakes(s, m),
           UNCHANGED toReceiver \/ \E out \in SUBSET ReceiverDatagrams : SenderSends(out)
    PROVE  NetTypeOK'
BY DEF NetTypeOK, SenderTakes, SenderSends, Remaining

LEMMA ReceiverNet ==
    ASSUME NetTypeOK, UNCHANGED losses,
           UNCHANGED toReceiver \/ \E m : ReceiverTakes(m),
           \/ UNCHANGED toSender
           \/ \E s \in Senders, out \in SUBSET SenderDatagrams : ReceiverReplies(s, out)
    PROVE  NetTypeOK'
BY DEF NetTypeOK, ReceiverTakes, ReceiverReplies, Remaining

-----------------------------------------------------------------------------
(* The sender keeps TypeOK and QueueInv. *)

SenderInv == NetTypeOK /\ SenderTypeOK /\ QueueInv

\* The queue of sender s: QueueInv for one sender.
QueueAt(s) ==
    /\ ListedIn(pending[s]) = queued[s]
    /\ Distinct(pending[s])
    /\ queued[s] \subseteq Chunks(s)
    /\ Len(pending[s]) <= Total[s]
    /\ Distinct(missing[s])
    /\ ListedIn(missing[s]) \subseteq Chunks(s)
    /\ phase[s] = "feedback" => queued[s] = {}

LEMMA QueueOfOne == QueueInv <=> \A s \in Senders : QueueAt(s)
BY DEF QueueInv, QueueAt

\* A step of s that leaves its queues alone, and does not enter the feedback
\* phase with chunks queued, keeps QueueInv.
LEMMA QueueUntouched ==
    ASSUME SenderInv, NEW s \in Senders, UNCHANGED <<pending, queued, missing>>,
           NEW p, Goto(s, p) \/ UNCHANGED phase, p = "feedback" => queued[s] = {}
    PROVE  QueueInv'
<1> SUFFICES ASSUME NEW t \in Senders PROVE QueueAt(t)'
  BY QueueOfOne DEF QueueInv, QueueAt
<1>1. QueueAt(t)
  BY QueueOfOne DEF SenderInv
<1>2. phase'[t] = "feedback" => queued[t] = {}
  BY <1>1 DEF QueueAt, Goto, SenderInv, SenderTypeOK
<1> QED BY <1>1, <1>2 DEF QueueAt, ListedIn, Distinct, Chunks

LEMMA ChunksNat == \A s \in Senders : /\ Total[s] \in Nat
                                      /\ Chunks(s) \subseteq Nat
                                      /\ IsFiniteSet(Chunks(s))
                                      /\ Cardinality(Chunks(s)) = Total[s]
BY FilesAssumption, FS_Interval DEF Chunks

\* What a NACK adds to a duplicate-free list of chunks of the file.
LEMMA FreshLemma ==
    ASSUME NEW s \in Senders, NEW p \in Seq(Nat), Distinct(p), ListedIn(p) \subseteq Chunks(s),
           NEW seqs, NEW e \in Ascending(Fresh(s, seqs, ListedIn(p)))
    PROVE  /\ p \o e \in Seq(Nat)
           /\ Distinct(p \o e)
           /\ ListedIn(p \o e) = ListedIn(p) \cup Fresh(s, seqs, ListedIn(p))
           /\ ListedIn(p \o e) \subseteq Chunks(s)
           /\ Len(p \o e) <= Total[s]
<1> DEFINE F == Fresh(s, seqs, ListedIn(p))
<1>1. F \in SUBSET Chunks(s) /\ F \cap ListedIn(p) = {}
  BY DEF Fresh
<1>2. IsFiniteSet(F) /\ F \in SUBSET Nat
  BY <1>1, ChunksNat, FS_Subset
<1>3. /\ p \o e \in Seq(Nat)
      /\ Distinct(p \o e)
      /\ ListedIn(p \o e) = ListedIn(p) \cup F
  BY <1>1, <1>2, AppendLemma
<1>4. ListedIn(p \o e) \subseteq Chunks(s)
  BY <1>1, <1>3
<1>5. Len(p \o e) <= Total[s]
  BY <1>3, <1>4, ChunksNat, LenLemma DEF Chunks
<1> QED BY <1>3, <1>4, <1>5

LEMMA AcceptedInv ==
    ASSUME SenderInv, NEW s \in Senders, NEW m, Accepted(s, m)
    PROVE  SenderInv'
<1> USE DEF SenderInv
<1>1. NetTypeOK'
  BY SenderNet DEF Accepted
<1> DEFINE q == [i \in 1..Total[s] |-> i - 1]
<1>2. q \in Seq(Nat) /\ Len(q) = Total[s] /\ Distinct(q) /\ ListedIn(q) = Chunks(s)
  <2>1. q \in [1..Total[s] -> Nat] /\ DOMAIN q = 1..Total[s]
    BY ChunksNat
  <2>2. q \in Seq(Nat) /\ Len(q) = Total[s]
    BY <2>1, ChunksNat
  <2>3. Distinct(q)
    BY <2>1, ChunksNat DEF Distinct
  <2>4. ASSUME NEW c \in Chunks(s) PROVE c \in ListedIn(q)
    <3>1. c + 1 \in 1..Total[s] /\ q[c + 1] = c
      BY ChunksNat DEF Chunks
    <3> QED BY <2>1, <3>1 DEF ListedIn
  <2>5. ASSUME NEW c \in ListedIn(q) PROVE c \in Chunks(s)
    <3>1. PICK i \in DOMAIN q : q[i] = c
      BY DEF ListedIn
    <3>2. i \in 1..Total[s] /\ c = i - 1
      BY <2>1, <3>1
    <3> QED BY <3>2, ChunksNat DEF Chunks
  <2> QED BY <2>2, <2>3, <2>4, <2>5
<1>3. pending' = [pending EXCEPT ![s] = q] /\ queued' = [queued EXCEPT ![s] = Chunks(s)]
  BY DEF Accepted
<1>4. SenderTypeOK'
  BY <1>2, <1>3, ChunksNat DEF SenderTypeOK, Accepted, Goto, Phases
<1>5. QueueInv'
  <2> SUFFICES ASSUME NEW t \in Senders PROVE QueueAt(t)'
    BY QueueOfOne DEF QueueInv, QueueAt
  <2>1. QueueAt(t)
    BY QueueOfOne
  <2>2. CASE t = s
    <3>1. pending'[s] = q /\ queued'[s] = Chunks(s) /\ phase'[s] = "blasting" /\ missing' = missing
      BY <1>3 DEF Accepted, Goto, SenderTypeOK
    <3>2. Len(q) <= Total[s]
      BY <1>2, ChunksNat
    <3> HIDE DEF q
    <3> QED BY <1>2, <2>1, <2>2, <3>1, <3>2 DEF QueueAt, Chunks, ListedIn, Distinct
  <2>3. CASE t # s
    <3>1. /\ pending'[t] = pending[t] /\ queued'[t] = queued[t]
          /\ phase'[t] = phase[t] /\ missing' = missing
      BY <1>3, <2>3 DEF Accepted, Goto, SenderTypeOK
    <3> QED BY <2>1, <3>1 DEF QueueAt, Chunks, ListedIn, Distinct
  <2> QED BY <2>2, <2>3
<1> QED BY <1>1, <1>4, <1>5

LEMMA SendChunkInv ==
    ASSUME SenderInv, NEW s \in Senders, SendChunk(s)
    PROVE  SenderInv'
<1> USE DEF SenderInv
<1> DEFINE q == Head(pending[s])
           p == Tail(pending[s])
<1>1. QueueAt(s)
  BY QueueOfOne
<1>2. pending[s] \in Seq(Nat) /\ pending[s] # <<>> /\ phase \in [Senders -> Phases]
  BY DEF SendChunk, SenderTypeOK
<1>3. /\ q \in Nat /\ q \in ListedIn(pending[s]) /\ p \in Seq(Nat) /\ Distinct(p)
      /\ ListedIn(p) = ListedIn(pending[s]) \ {q}
  BY <1>1, <1>2, PopLemma DEF QueueAt
<1>4. NetTypeOK'
  <2>1. \E out \in SUBSET ReceiverDatagrams : SenderSends(out)
    BY <1>3, DatagramsTyped DEF SendChunk, SourceState
  <2> QED BY <2>1, SenderNet DEF SendChunk
<1>5. /\ pending' = [pending EXCEPT ![s] = p]
      /\ queued' = [queued EXCEPT ![s] = @ \ {q}]
      /\ missing' = missing
  BY DEF SendChunk
<1>6. SenderTypeOK'
  <2>1. phase' \in [Senders -> Phases] /\ sinceDrain' \in [Senders -> 0..(DrainInterval - 1)]
    BY SenderAssumption DEF SendChunk, SenderTypeOK, Goto, Phases, DrainDue
  <2>2. pending' \in [Senders -> Seq(Nat)] /\ queued' \in [Senders -> SUBSET Nat]
    BY <1>3, <1>5 DEF SenderTypeOK
  <2> QED BY <2>1, <2>2 DEF SendChunk, SenderTypeOK
<1>7. QueueInv'
  <2> SUFFICES ASSUME NEW t \in Senders PROVE QueueAt(t)'
    BY QueueOfOne DEF QueueInv, QueueAt
  <2>1. QueueAt(t)
    BY QueueOfOne
  <2>2. CASE t = s
    <3>1. /\ pending'[s] = p /\ queued'[s] = queued[s] \ {q}
          /\ phase'[s] # "feedback" /\ missing' = missing
      BY <1>2, <1>5 DEF SendChunk, Goto, SenderTypeOK
    <3>2. ListedIn(p) = queued[s] \ {q} /\ ListedIn(p) \subseteq Chunks(s)
      BY <1>1, <1>3 DEF QueueAt
    <3>3. Len(p) <= Total[s]
      BY <1>3, <3>2, LenLemma, ChunksNat DEF Chunks
    <3> HIDE DEF p, q
    <3> QED BY <1>3, <2>1, <2>2, <3>1, <3>2, <3>3 DEF QueueAt, Chunks, ListedIn, Distinct
  <2>3. CASE t # s
    <3>1. /\ pending'[t] = pending[t] /\ queued'[t] = queued[t]
          /\ phase'[t] = phase[t] /\ missing' = missing
      BY <1>2, <1>5, <2>3 DEF SendChunk, Goto, SenderTypeOK
    <3> QED BY <2>1, <3>1 DEF QueueAt, Chunks, ListedIn, Distinct
  <2> QED BY <2>2, <2>3
<1> QED BY <1>4, <1>6, <1>7

LEMMA DrainNackInv ==
    ASSUME SenderInv, NEW s \in Senders, NEW m, DrainNack(s, m)
    PROVE  SenderInv'
<1> USE DEF SenderInv
<1>1. QueueAt(s) /\ pending[s] \in Seq(Nat) /\ phase[s] = "draining"
  BY QueueOfOne DEF SenderTypeOK, DrainNack
<1> DEFINE F == Fresh(s, m.seqs, queued[s])
<1>2. PICK e \in Ascending(F) : pending' = [pending EXCEPT ![s] = @ \o e]
  BY DEF DrainNack
<1>3. queued' = [queued EXCEPT ![s] = @ \cup F]
  BY DEF DrainNack
<1> DEFINE p == pending[s] \o e
<1>4. /\ p \in Seq(Nat) /\ Distinct(p) /\ ListedIn(p) = queued[s] \cup F
      /\ ListedIn(p) \subseteq Chunks(s) /\ Len(p) <= Total[s]
  BY <1>1, <1>2, FreshLemma DEF QueueAt
<1>5. NetTypeOK'
  BY SenderNet DEF DrainNack
<1>6. SenderTypeOK'
  <2>1. F \in SUBSET Nat
    BY ChunksNat DEF Fresh
  <2> HIDE DEF p, F
  <2>2. pending' \in [Senders -> Seq(Nat)] /\ queued' \in [Senders -> SUBSET Nat]
    BY <1>2, <1>3, <1>4, <2>1 DEF SenderTypeOK, p
  <2> QED BY <2>2 DEF SenderTypeOK, DrainNack
<1>7. QueueInv'
  <2> SUFFICES ASSUME NEW t \in Senders PROVE QueueAt(t)'
    BY QueueOfOne DEF QueueInv, QueueAt
  <2>1. QueueAt(t)
    BY QueueOfOne
  <2>2. CASE t = s
    <3>1. /\ pending'[s] = p /\ queued'[s] = queued[s] \cup F
          /\ phase'[s] # "feedback" /\ missing' = missing
      BY <1>1, <1>2, <1>3 DEF DrainNack, SenderTypeOK
    <3> HIDE DEF p, F
    <3> QED BY <1>4, <2>1, <2>2, <3>1 DEF QueueAt, Chunks, ListedIn, Distinct
  <2>3. CASE t # s
    <3>1. /\ pending'[t] = pending[t] /\ queued'[t] = queued[t]
          /\ phase'[t] = phase[t] /\ missing' = missing
      BY <1>2, <1>3, <2>3 DEF DrainNack, SenderTypeOK
    <3> QED BY <2>1, <3>1 DEF QueueAt, Chunks, ListedIn, Distinct
  <2> QED BY <2>2, <2>3
<1> QED BY <1>5, <1>6, <1>7

LEMMA FeedbackNackInv ==
    ASSUME SenderInv, NEW s \in Senders, NEW m, FeedbackNack(s, m)
    PROVE  SenderInv'
<1> USE DEF SenderInv
<1>1. QueueAt(s) /\ missing[s] \in Seq(Nat)
  BY QueueOfOne DEF SenderTypeOK
<1>2. PICK e \in Ascending(Fresh(s, m.seqs, ListedIn(missing[s]))) :
          missing' = [missing EXCEPT ![s] = @ \o e]
  BY DEF FeedbackNack
<1> DEFINE p == missing[s] \o e
<1>3. p \in Seq(Nat) /\ Distinct(p) /\ ListedIn(p) \subseteq Chunks(s)
  BY <1>1, <1>2, FreshLemma DEF QueueAt
<1>4. NetTypeOK'
  BY SenderNet DEF FeedbackNack
<1>5. SenderTypeOK'
  BY <1>2, <1>3 DEF SenderTypeOK, FeedbackNack
<1>6. QueueInv'
  <2> SUFFICES ASSUME NEW t \in Senders PROVE QueueAt(t)'
    BY QueueOfOne DEF QueueInv, QueueAt
  <2>1. QueueAt(t)
    BY QueueOfOne
  <2>2. /\ t = s => missing'[t] = p
        /\ t # s => missing'[t] = missing[t]
    BY <1>2 DEF SenderTypeOK
  <2>3. UNCHANGED <<phase, pending, queued>>
    BY DEF FeedbackNack
  <2> HIDE DEF p
  <2> QED BY <1>3, <2>1, <2>2, <2>3 DEF QueueAt, Chunks, ListedIn, Distinct
<1> QED BY <1>4, <1>5, <1>6

LEMMA FeedbackTimeoutInv ==
    ASSUME SenderInv, NEW s \in Senders, FeedbackTimeout(s)
    PROVE  SenderInv'
<1> USE DEF SenderInv
<1>1. /\ QueueAt(s) /\ missing[s] \in Seq(Nat) /\ pending[s] \in Seq(Nat)
      /\ phase[s] = "feedback"
  BY QueueOfOne DEF SenderTypeOK, FeedbackTimeout
<1>2. pending[s] = <<>> /\ queued[s] = {}
  <2>1. queued[s] = {} /\ 1 \notin DOMAIN pending[s]
    BY <1>1 DEF QueueAt, ListedIn
  <2>2. DOMAIN pending[s] = 1..Len(pending[s]) /\ Len(pending[s]) \in Nat
    BY <1>1
  <2>3. Len(pending[s]) = 0
    BY <2>1, <2>2
  <2>4. pending[s] # <<>> => Len(pending[s]) \in Nat \ {0}
    BY <1>1, EmptySeq, Zenon
  <2> QED BY <2>1, <2>3, <2>4
<1>3. pending[s] \o missing[s] = missing[s]
  BY <1>1, <1>2, ConcatEmptySeq
<1>4. \A t \in Senders \ {s} : /\ pending'[t] = pending[t] /\ queued'[t] = queued[t]
                               /\ missing'[t] = missing[t] /\ phase'[t] = phase[t]
  BY DEF FeedbackTimeout, SenderTypeOK, Goto
<1>5. /\ missing'[s] = <<>>
      /\ phase'[s] # "feedback"
      /\ \/ pending'[s] = pending[s] /\ queued'[s] = queued[s]
         \/ pending'[s] = missing[s] /\ queued'[s] = ListedIn(missing[s])
  BY <1>2, <1>3 DEF FeedbackTimeout, SenderTypeOK, Goto
<1>6. NetTypeOK'
  BY SenderNet DEF FeedbackTimeout, netVars
<1>7. SenderTypeOK'
  <2>1. ListedIn(missing[s]) \subseteq Nat
    BY <1>1, ChunksNat DEF QueueAt
  <2>2. pending' \in [Senders -> Seq(Nat)] /\ queued' \in [Senders -> SUBSET Nat]
    <3>1. CASE UNCHANGED <<pending, queued>>
      BY <3>1 DEF SenderTypeOK
    <3>2. CASE /\ pending' = [pending EXCEPT ![s] = @ \o missing[s]]
               /\ queued' = [queued EXCEPT ![s] = @ \cup ListedIn(missing[s])]
      BY <1>1, <1>3, <2>1, <3>2 DEF SenderTypeOK
    <3> QED BY <3>1, <3>2 DEF FeedbackTimeout
  <2>3. missing' \in [Senders -> Seq(Nat)] /\ pass' \in [Senders -> Nat] /\ phase' \in [Senders -> Phases]
    <3>1. <<>> \in Seq(Nat)
      OBVIOUS
    <3>2. missing' \in [Senders -> Seq(Nat)]
      BY <3>1 DEF FeedbackTimeout, SenderTypeOK
    <3>3. pass' \in [Senders -> Nat]
      BY DEF FeedbackTimeout, SenderTypeOK
    <3>4. phase' \in [Senders -> Phases]
      <4>1. Goto(s, "failed") \/ Goto(s, "blasting")
        BY DEF FeedbackTimeout
      <4> QED BY <4>1 DEF Goto, SenderTypeOK, Phases
    <3> QED BY <3>2, <3>3, <3>4
  <2> QED BY <2>2, <2>3 DEF FeedbackTimeout, SenderTypeOK
<1>8. QueueInv'
  <2> SUFFICES ASSUME NEW t \in Senders PROVE QueueAt(t)'
    BY QueueOfOne DEF QueueInv, QueueAt
  <2>1. CASE t # s
    <3>1. QueueAt(t)
      BY QueueOfOne
    <3> QED BY <1>4, <2>1, <3>1 DEF QueueAt, Chunks, ListedIn, Distinct
  <2>2. CASE t = s
    <3>1. Distinct(<<>>) /\ ListedIn(<<>>) = {}
      BY DEF Distinct, ListedIn
    <3>2. Len(missing[s]) <= Total[s]
      BY <1>1, LenLemma, ChunksNat DEF QueueAt, Chunks
    <3> QED BY <1>1, <1>5, <2>2, <3>1, <3>2 DEF QueueAt, Chunks, ListedIn, Distinct
  <2> QED BY <2>1, <2>2
<1> QED BY <1>6, <1>7, <1>8

\* Every step of a sender, and what befalls it, keeps its invariant.
LEMMA SenderStepInv ==
    ASSUME SenderInv, NEW s \in Senders,
           \/ \E m \in ArrivingAt(s) : SenderReceives(s, m)
           \/ SenderProceeds(s)
           \/ SenderTimeout(s)
           \/ SenderFails(s)
           \/ \E q \in Chunks(s) : EditSource(s, q)
    PROVE  SenderInv'
<1> USE DEF SenderInv
<1>1. CASE OfferFile(s)
  <2>1. \E out \in SUBSET ReceiverDatagrams : SenderSends(out)
    BY <1>1, DatagramsTyped DEF OfferFile
  <2>2. NetTypeOK'
    BY <1>1, <2>1, SenderNet DEF OfferFile
  <2>3. SenderTypeOK'
    BY <1>1, SenderAssumption DEF OfferFile, SenderTypeOK, Goto, Phases
  <2>4. QueueInv'
    BY <1>1, QueueUntouched DEF OfferFile
  <2> QED BY <2>2, <2>3, <2>4
<1>2. CASE HandshakeTimeout(s) \/ HandshakeFails(s) \/ DrainEnd(s) \/ SenderFails(s)
  <2>1. NetTypeOK'
    BY <1>2, SenderNet DEF HandshakeTimeout, HandshakeFails, DrainEnd, SenderFails, netVars
  <2>2. SenderTypeOK'
    BY <1>2 DEF HandshakeTimeout, HandshakeFails, DrainEnd, SenderFails, SenderTypeOK, Goto, Phases
  <2>3. QueueInv'
    BY <1>2, QueueUntouched DEF HandshakeTimeout, HandshakeFails, DrainEnd, SenderFails
  <2> QED BY <2>1, <2>2, <2>3
<1>3. CASE \E m : DrainFin(s, m) \/ FeedbackFin(s, m)
  <2>1. PICK m : Complete(s, m)
    BY <1>3 DEF DrainFin, FeedbackFin
  <2>2. \E out \in SUBSET ReceiverDatagrams : SenderSends(out)
    BY <2>1, DatagramsTyped DEF Complete
  <2>3. NetTypeOK'
    BY <2>1, <2>2, SenderNet DEF Complete
  <2>4. SenderTypeOK'
    BY <2>1 DEF Complete, SenderTypeOK, Goto, Phases
  <2>5. QueueInv'
    BY <2>1, QueueUntouched DEF Complete
  <2> QED BY <2>3, <2>4, <2>5
<1>4. CASE SendDone(s)
  <2>1. \E out \in SUBSET ReceiverDatagrams : SenderSends(out)
    BY <1>4, DatagramsTyped DEF SendDone
  <2>2. NetTypeOK'
    BY <1>4, <2>1, SenderNet DEF SendDone
  <2>3. SenderTypeOK'
    <3>1. <<>> \in Seq(Nat)
      OBVIOUS
    <3>2. missing' \in [Senders -> Seq(Nat)]
      BY <1>4, <3>1 DEF SendDone, SenderTypeOK
    <3> QED BY <1>4, <3>2, SenderAssumption DEF SendDone, SenderTypeOK, Goto, Phases
  <2>4. QueueInv'
    <3> SUFFICES ASSUME NEW t \in Senders PROVE QueueAt(t)'
      BY QueueOfOne DEF QueueInv, QueueAt
    <3>1. QueueAt(t)
      BY QueueOfOne
    <3>2. Distinct(<<>>) /\ ListedIn(<<>>) = {}
      BY DEF Distinct, ListedIn
    <3>3. CASE t = s
      <4>1. queued[s] = {}
        BY <1>4, <3>1, <3>2, <3>3 DEF QueueAt, SendDone
      <4>2. PICK e : missing'[s] = e /\ Distinct(e) /\ ListedIn(e) \subseteq Chunks(s)
        BY <1>4, <3>2 DEF SendDone, SenderTypeOK
      <4>3. UNCHANGED <<pending, queued>>
        BY <1>4 DEF SendDone
      <4>4. pending'[s] = pending[s] /\ queued'[s] = queued[s]
        BY <4>3
      <4>5. ListedIn(missing'[s]) \subseteq Chunks(s) /\ Distinct(missing'[s])
        BY <4>2
      <4>6. /\ ListedIn(pending'[s]) = queued'[s] /\ Distinct(pending'[s])
            /\ Len(pending'[s]) <= Total[s]
        BY <3>1, <3>3, <4>4 DEF QueueAt
      <4> QED BY <3>3, <4>1, <4>4, <4>5, <4>6 DEF QueueAt, Chunks, ListedIn, Distinct
    <3>4. CASE t # s
      <4>1. missing'[t] = missing[t] /\ phase'[t] = phase[t] /\ UNCHANGED <<pending, queued>>
        BY <1>4, <3>4 DEF SendDone, SenderTypeOK, Goto
      <4> QED BY <3>1, <4>1 DEF QueueAt, Chunks, ListedIn, Distinct
    <3> QED BY <3>3, <3>4
  <2> QED BY <2>2, <2>3, <2>4
<1>5. CASE \E m : IgnoreFeedback(s, m)
  <2>1. NetTypeOK'
    BY <1>5, SenderNet DEF IgnoreFeedback
  <2>2. UNCHANGED sendVars
    BY <1>5 DEF IgnoreFeedback
  <2>3. SenderTypeOK'
    BY <2>2 DEF sendVars, SenderTypeOK, Chunks
  <2>4. QueueInv'
    BY <2>2, QueueUntouched DEF sendVars
  <2> QED BY <2>1, <2>3, <2>4
<1>6. CASE \E q \in Chunks(s) : EditSource(s, q)
  <2>1. NetTypeOK'
    BY <1>6, SenderNet DEF EditSource, netVars
  <2>2. SenderTypeOK'
    BY <1>6 DEF EditSource, SenderTypeOK, Chunks
  <2>3. QueueInv'
    BY <1>6, QueueUntouched DEF EditSource
  <2> QED BY <2>1, <2>2, <2>3
<1>7. CASE SendChunk(s)
  BY <1>7, SendChunkInv
<1>8. CASE FeedbackTimeout(s)
  BY <1>8, FeedbackTimeoutInv
<1>9. CASE \E m : Accepted(s, m) \/ DrainNack(s, m) \/ FeedbackNack(s, m)
  BY <1>9, AcceptedInv, DrainNackInv, FeedbackNackInv
<1> QED BY <1>1, <1>2, <1>3, <1>4, <1>5, <1>6, <1>7, <1>8, <1>9
        DEF SenderReceives, SenderProceeds, SenderTimeout

-----------------------------------------------------------------------------
(* The files of the receiver. *)

\* A header that is read, damaged or not, is a header.
LEMMA HeadersTyped ==
    ASSUME NEW s \in Senders
    PROVE  /\ Announced(s) \in Headers
           /\ Announced(s) \in HeadersFrom(s)
           /\ \A h \in HeadersFrom(s) : /\ h \in Headers
                                        /\ h.path \in Paths
                                        /\ h.total \in Nat
           /\ "misannounce" \notin Env => HeadersFrom(s) = {Announced(s)}
<1>1. Announced(s) \in Headers
  BY FilesAssumption DEF Announced, Headers, Lengths
<1>2. HeadersFrom(s) \subseteq Headers /\ Announced(s) \in HeadersFrom(s)
  BY <1>1, FilesAssumption DEF HeadersFrom
<1>3. \A h \in Headers : h.path \in Paths /\ h.total \in Nat
  BY DEF Headers
<1>4. "misannounce" \notin Env => HeadersFrom(s) = {Announced(s)}
  BY DEF HeadersFrom
<1> QED BY <1>1, <1>2, <1>3, <1>4

\* Writing the tmp of p changes no other tmp and, when tmps are apart from final
\* files, none of these.
LEMMA TmpWritten ==
    ASSUME DOMAIN disk = Names, NEW p \in Paths, NEW file, WriteTmp(p, file)
    PROVE  /\ DOMAIN disk' = Names
           /\ tmp' = [tmp EXCEPT ![p] = file]
           /\ Apart => UNCHANGED final
<1>1. DOMAIN disk' = Names
  BY DEF WriteTmp
<1>2. \A n \in Names : disk'[n] = IF n = TmpOf[p] THEN file ELSE disk[n]
  BY DEF WriteTmp
<1>3. \A q \in Paths : TmpOf[q] \in Names /\ q \in Names /\ (TmpOf[q] = TmpOf[p] => q = p)
  BY TmpAssumption DEF Names
<1>4. tmp' = [tmp EXCEPT ![p] = file]
  BY <1>2, <1>3 DEF tmp
<1>5. Apart => UNCHANGED final
  BY <1>2, <1>3 DEF Apart, final
<1> QED BY <1>1, <1>4, <1>5

\* Renaming, when tmps are apart from final files, is what it should be: the
\* file at the tmp of p is at p, and no longer at its tmp.
LEMMA TmpRenamed ==
    ASSUME DOMAIN disk = Names, NEW p \in Paths, RenameTmp(p)
    PROVE  /\ DOMAIN disk' = Names
           /\ Apart => /\ tmp' = [tmp EXCEPT ![p] = NoFile]
                       /\ final' = [final EXCEPT ![p] = tmp[p]]
<1>1. DOMAIN disk' = Names
  BY DEF RenameTmp
<1>2. \A q \in Paths : TmpOf[q] \in Names /\ q \in Names /\ (TmpOf[q] = TmpOf[p] => q = p)
  BY TmpAssumption DEF Names
<1>3. \A n \in Names : disk'[n] = IF n = TmpOf[p] THEN NoFile ELSE IF n = p THEN disk[TmpOf[p]] ELSE disk[n]
  BY <1>2 DEF RenameTmp
<1>4. ASSUME Apart
      PROVE  tmp' = [tmp EXCEPT ![p] = NoFile] /\ final' = [final EXCEPT ![p] = tmp[p]]
  <2>1. \A q \in Paths : tmp'[q] = IF q = p THEN NoFile ELSE tmp[q]
    BY <1>2, <1>3, <1>4 DEF Apart, tmp
  <2>2. \A q \in Paths : final'[q] = IF q = p THEN tmp[p] ELSE final[q]
    BY <1>2, <1>3, <1>4 DEF Apart, final, tmp
  <2>3. tmp' = [tmp EXCEPT ![p] = NoFile]
    BY <2>1 DEF tmp
  <2>4. final' = [final EXCEPT ![p] = tmp[p]]
    BY <2>2 DEF final
  <2> QED BY <2>3, <2>4
<1> QED BY <1>1, <1>4

\* Dropping the tmp of p removes it, or leaves it when removing fails.
LEMMA TmpDropped ==
    ASSUME DOMAIN disk = Names, NEW p \in Paths, NEW file, DropTmp(p, file)
    PROVE  /\ DOMAIN disk' = Names
           /\ \/ tmp' = [tmp EXCEPT ![p] = NoFile]
              \/ "unremovable" \in Env /\ tmp' = [tmp EXCEPT ![p] = file]
           /\ Apart => UNCHANGED final
<1>1. PICK left : WriteTmp(p, left) /\ (left = NoFile \/ ("unremovable" \in Env /\ left = file))
  BY DEF DropTmp
<1> QED BY <1>1, TmpWritten

-----------------------------------------------------------------------------
(* The receiver keeps TypeOK. *)

RecvInv == NetTypeOK /\ RecvTypeOK

\* The end of a transfer leaves a well-typed receiver.
LEMMA ForgetTyped ==
    ASSUME RecvTypeOK, NEW next \in RecvPhases \ {"receiving"}, NEW sender,
           ForgetTransfer(next, sender),
           IF next = "linger" THEN sender \in Senders ELSE sender = NoSender,
           DOMAIN disk' = Names, saved' \subseteq Senders
    PROVE  RecvTypeOK'
BY DEF RecvTypeOK, ForgetTransfer, RecvPhases

LEMMA AbandonTyped ==
    ASSUME RecvTypeOK, NEW p \in Paths, NEW file, Abandon(p, file)
    PROVE  RecvTypeOK'
<1>1. DOMAIN disk' = Names /\ saved' \subseteq Senders
  BY TmpDropped DEF Abandon, RecvTypeOK
<1>2. PICK next \in RecvPhases \ {"receiving", "linger"} : ForgetTransfer(next, NoSender)
  BY DEF Abandon, NextUp, RecvPhases
<1> QED BY <1>1, <1>2, ForgetTyped

\* The path of the open transfer, and its number of chunks.
LEMMA OpenHeader ==
    ASSUME RecvTypeOK, rpc = "receiving"
    PROVE  /\ from \in Senders
           /\ header \in HeadersFrom(from)
           /\ header.path \in Paths
           /\ header.total \in Nat
           /\ Slots \subseteq Nat
           /\ IsFiniteSet(Slots)
           /\ Cardinality(Slots) = header.total
<1>1. from \in Senders /\ header \in HeadersFrom(from)
  BY DEF RecvTypeOK
<1>2. header.path \in Paths /\ header.total \in Nat
  BY <1>1, HeadersTyped
<1>3. /\ Slots \subseteq Nat
      /\ IsFiniteSet(Slots)
      /\ Cardinality(Slots) = header.total
  <2>1. ASSUME NEW n \in Nat
        PROVE  /\ 0..(n - 1) \subseteq Nat
               /\ IsFiniteSet(0..(n - 1))
               /\ Cardinality(0..(n - 1)) = n
    BY FS_Interval
  <2> QED BY <1>2, <2>1 DEF Slots
<1> QED BY <1>1, <1>2, <1>3

LEMMA AbandonOpenTyped ==
    ASSUME RecvTypeOK, rpc = "receiving", AbandonOpen
    PROVE  RecvTypeOK'
BY OpenHeader, AbandonTyped DEF AbandonOpen

\* Where a transfer that is abandoned, or lingered over, leaves the receiver.
LEMMA AbandonLeaves ==
    ASSUME NEW p, NEW file, Abandon(p, file)
    PROVE  /\ rpc' \in NextUp /\ rpc' \in {"listening", "exited"} /\ from' = NoSender
           /\ DropTmp(p, file) /\ UNCHANGED saved
BY DEF Abandon, ForgetTransfer, NextUp

LEMMA LingerLeaves ==
    ASSUME LeaveLinger
    PROVE  /\ rpc' \in NextUp /\ rpc' \in {"listening", "exited"} /\ from' = NoSender
           /\ UNCHANGED <<disk, saved>>
BY DEF LeaveLinger, ForgetTransfer, NextUp, diskVars

LEMMA UnchangedTyped ==
    ASSUME RecvTypeOK, UNCHANGED recvVars
    PROVE  RecvTypeOK'
BY DEF RecvTypeOK, recvVars, diskVars, tmp, Slots

\* NACKs are well typed.
LEMMA NacksTyped ==
    ASSUME RecvTypeOK, rpc = "receiving", NEW upto, NEW ks
    PROVE  Nacks(Missing(upto), ks) \in SUBSET SenderDatagrams
<1>1. \A k \in ks : Batch(Missing(upto), k) \in SUBSET Nat
  BY OpenHeader DEF Batch, Missing
<1> QED BY <1>1, DatagramsTyped DEF Nacks

LEMMA NackingInv ==
    ASSUME RecvInv, rpc = "receiving", UNCHANGED losses,
           UNCHANGED toReceiver \/ \E m : ReceiverTakes(m),
           NEW upto, (SendNacks(upto) /\ UNCHANGED recvVars) \/ NackFails(upto)
    PROVE  RecvInv'
<1>1. from \in Senders
  BY DEF RecvInv, RecvTypeOK
<1>2. \E ks : ReceiverReplies(from, Nacks(Missing(upto), ks))
  BY DEF SendNacks, NackFails
<1>3. NetTypeOK'
  BY <1>1, <1>2, NacksTyped, ReceiverNet DEF RecvInv
<1>4. RecvTypeOK'
  BY AbandonOpenTyped, UnchangedTyped DEF NackFails, RecvInv
<1> QED BY <1>3, <1>4 DEF RecvInv

LEMMA InitOpensInv ==
    ASSUME RecvInv, NEW m \in ReceiverDatagrams, InitOpens(m)
    PROVE  RecvInv'
<1>1. m.from \in Senders /\ m.body \in Bodies
  BY DEF ReceiverDatagrams
<1>2. NetTypeOK'
  BY <1>1, DatagramsTyped, ReceiverNet DEF InitOpens, RecvInv
<1>3. PICK h \in HeadersFrom(m.from) : TransferOf(m, h) /\ WriteTmp(h.path, Blank(h.total))
  BY DEF InitOpens, Sized
<1>4. DOMAIN disk' = Names /\ tmp'[h.path] = Blank(h.total)
  <2>1. h.path \in Paths
    BY <1>1, HeadersTyped
  <2>2. DOMAIN disk' = Names /\ tmp' = [tmp EXCEPT ![h.path] = Blank(h.total)]
    BY <1>3, <2>1, TmpWritten DEF RecvInv, RecvTypeOK
  <2>3. DOMAIN tmp = Paths
    BY DEF tmp
  <2> QED BY <2>1, <2>2, <2>3
<1>5. tmp'[header'.path] \in [Slots' -> Bodies]
  <2>1. Blank(h.total) \in [0..(h.total - 1) -> Bodies]
    BY DEF Blank, NoBody, Bodies
  <2>2. header' = h
    BY <1>3 DEF TransferOf
  <2> QED BY <1>4, <2>1, <2>2 DEF Slots
<1>6. RecvTypeOK'
  <2>1. rpc' = "receiving" /\ from' = m.from /\ header' = h /\ meta' = m.body[3]
        /\ received' = {} /\ count' = 0 /\ frontier' = 0
    BY <1>3 DEF TransferOf
  <2>2. UNCHANGED saved
    BY DEF InitOpens
  <2>3. header' \in HeadersFrom(from)'
    BY <2>1 DEF HeadersFrom, Announced
  <2> QED BY <1>1, <1>4, <1>5, <2>1, <2>2, <2>3 DEF RecvInv, RecvTypeOK, RecvPhases, Bodies
<1> QED BY <1>2, <1>6 DEF RecvInv

LEMMA DataStoredInv ==
    ASSUME RecvInv, NEW m \in ReceiverDatagrams, DataStored(m)
    PROVE  RecvInv'
<1>1. /\ rpc = "receiving" /\ from \in Senders /\ received \subseteq Slots
      /\ m.seq \in Nat /\ m.body \in Bodies /\ header \in HeadersFrom(from)
      /\ tmp[header.path] \in [Slots -> Bodies] /\ DOMAIN disk = Names
  BY DEF RecvInv, RecvTypeOK, DataStored, FromSender, ReceiverDatagrams
<1>2. m.seq \in Slots /\ header.path \in Paths
  BY <1>1, OpenHeader DEF DataStored, Storable, Slots, RecvInv
<1>3. NetTypeOK'
  BY ReceiverNet DEF DataStored, RecvInv
<1>4. tmp'[header.path] \in [Slots -> Bodies] /\ DOMAIN disk' = Names
  <2>1. /\ DOMAIN disk' = Names
        /\ tmp' = [tmp EXCEPT ![header.path] = [tmp[header.path] EXCEPT ![m.seq] = m.body]]
    BY <1>1, <1>2, TmpWritten DEF DataStored
  <2>2. tmp'[header.path] = [tmp[header.path] EXCEPT ![m.seq] = m.body]
    BY <1>2, <2>1 DEF tmp
  <2> QED BY <1>1, <2>1, <2>2
<1>5. frontier' \in Nat /\ count' \in Nat
  BY <1>1 DEF DataStored, FrontierWith, RecvInv, RecvTypeOK
<1>6. RecvTypeOK'
  <2>1. UNCHANGED <<rpc, from, header, meta, saved>> /\ received' = received \cup {m.seq}
    BY DEF DataStored
  <2>2. Slots' = Slots /\ HeadersFrom(from)' = HeadersFrom(from)
    BY <2>1 DEF Slots, HeadersFrom, Announced
  <2> QED BY <1>1, <1>2, <1>4, <1>5, <2>1, <2>2 DEF RecvInv, RecvTypeOK, RecvPhases
<1> QED BY <1>3, <1>6 DEF RecvInv

LEMMA DoneSavesInv ==
    ASSUME RecvInv, NEW m \in ReceiverDatagrams, DoneSaves(m)
    PROVE  RecvInv'
<1>1. from \in Senders
  BY DEF RecvInv, RecvTypeOK, DoneSaves, FromSender
<1>2. NetTypeOK'
  BY <1>1, DatagramsTyped, ReceiverNet DEF DoneSaves, RecvInv
<1>3. DOMAIN disk' = Names /\ saved' \subseteq Senders
  BY <1>1, OpenHeader, TmpRenamed DEF DoneSaves, FromSender, RecvInv, RecvTypeOK
<1>4. "linger" \in RecvPhases \ {"receiving"} /\ ForgetTransfer("linger", from)
  BY DEF DoneSaves, RecvPhases
<1>5. RecvTypeOK'
  BY <1>1, <1>3, <1>4, ForgetTyped DEF RecvInv
<1> QED BY <1>2, <1>5 DEF RecvInv

\* Every step of the receiver, and what befalls it, keeps its invariant.
LEMMA ReceiverStepInv ==
    ASSUME RecvInv,
           \/ \E m \in ReceiverDatagrams : ReceiverReceives(m)
           \/ GapTimer \/ IdleTimeout \/ LingerEnds \/ Stop \/ Crash \/ Restart
    PROVE  RecvInv'
<1> USE DEF RecvInv
<1>1. CASE \E m \in ReceiverDatagrams : InitOpens(m) \/ DataStored(m) \/ DoneSaves(m)
  BY <1>1, InitOpensInv, DataStoredInv, DoneSavesInv
<1>2. CASE \E m \in ReceiverDatagrams : InitRejected(m) \/ DataIgnored(m) \/ DatagramDropped(m)
  <2>1. NetTypeOK'
    BY <1>2, ReceiverNet DEF InitRejected, DataIgnored, DatagramDropped
  <2>2. RecvTypeOK'
    BY <1>2, UnchangedTyped DEF InitRejected, DataIgnored, DatagramDropped
  <2> QED BY <2>1, <2>2
<1>3. CASE \E m \in ReceiverDatagrams : InitCannotSize(m)
  <2>1. NetTypeOK'
    BY <1>3, ReceiverNet DEF InitCannotSize
  <2>2. RecvTypeOK'
    <3>1. PICK m \in ReceiverDatagrams : \E h \in HeadersFrom(m.from) : WriteTmp(h.path, <<>>)
      BY <1>3 DEF InitCannotSize
    <3>2. PICK h \in HeadersFrom(m.from) : WriteTmp(h.path, <<>>) /\ h.path \in Paths
      BY <3>1, HeadersTyped DEF ReceiverDatagrams
    <3>3. DOMAIN disk' = Names
      BY <3>2, TmpWritten DEF RecvTypeOK
    <3> QED BY <1>3, <3>3 DEF InitCannotSize, RecvTypeOK
  <2> QED BY <2>1, <2>2
<1>4. CASE \E m \in ReceiverDatagrams : InitAgain(m) \/ DoneInLinger(m)
  <2>1. from \in Senders
    BY <1>4 DEF InitAgain, DoneInLinger, FromSender, RecvTypeOK
  <2>2. UNCHANGED toSender \/ \E s \in Senders, out \in SUBSET SenderDatagrams : ReceiverReplies(s, out)
    BY <1>4, <2>1, DatagramsTyped DEF InitAgain, DoneInLinger
  <2>3. NetTypeOK'
    BY <1>4, <2>2, ReceiverNet DEF InitAgain, DoneInLinger
  <2>4. RecvTypeOK'
    BY <1>4, UnchangedTyped DEF InitAgain, DoneInLinger
  <2> QED BY <2>3, <2>4
<1>5. CASE \E m \in ReceiverDatagrams : InitUnanswered(m) \/ DataUnwritable(m) \/ DoneFails(m)
  <2>1. NetTypeOK'
    BY <1>5, ReceiverNet DEF InitUnanswered, DataUnwritable, DoneFails
  <2>2. RecvTypeOK'
    <3>1. CASE rpc = "receiving" /\ AbandonOpen
      BY <3>1, AbandonOpenTyped
    <3>2. CASE \E m \in ReceiverDatagrams : \E h \in HeadersFrom(m.from) : Abandon(h.path, Sized(h))
      BY <3>2, HeadersTyped, AbandonTyped DEF ReceiverDatagrams
    <3> QED BY <1>5, <3>1, <3>2 DEF InitUnanswered, DataUnwritable, DoneFails, FromSender
  <2> QED BY <2>1, <2>2
<1>6. CASE (\E m \in ReceiverDatagrams : DoneIncomplete(m)) \/ GapTimer
  BY <1>6, NackingInv DEF DoneIncomplete, GapTimer, FromSender
<1>7. CASE (\E m \in ReceiverDatagrams : FinAckArrives(m)) \/ LingerEnds
  <2>1. NetTypeOK'
    BY <1>7, ReceiverNet DEF FinAckArrives, LingerEnds, netVars
  <2>2. PICK next \in RecvPhases \ {"receiving", "linger"} :
            ForgetTransfer(next, NoSender) /\ UNCHANGED diskVars
    BY <1>7 DEF FinAckArrives, LingerEnds, LeaveLinger, NextUp, RecvPhases
  <2>3. DOMAIN disk' = Names /\ saved' \subseteq Senders
    BY <2>2 DEF diskVars, RecvTypeOK
  <2>4. RecvTypeOK'
    BY <2>2, <2>3, ForgetTyped
  <2> QED BY <2>1, <2>4
<1>8. CASE IdleTimeout
  <2>1. NetTypeOK'
    BY <1>8, ReceiverNet DEF IdleTimeout, netVars
  <2>2. RecvTypeOK'
    BY <1>8, AbandonOpenTyped DEF IdleTimeout
  <2> QED BY <2>1, <2>2
<1>9. CASE Stop \/ Crash \/ Restart
  <2>1. NetTypeOK'
    BY <1>9, ReceiverNet DEF Stop, Crash, Restart, netVars
  <2>2. PICK next \in RecvPhases \ {"receiving", "linger"} : ForgetTransfer(next, NoSender)
    BY <1>9 DEF Stop, Crash, Restart, RecvPhases
  <2>3. DOMAIN disk' = Names /\ saved' \subseteq Senders
    BY <1>9, OpenHeader, TmpDropped DEF Stop, Crash, Restart, diskVars, RecvTypeOK
  <2>4. RecvTypeOK'
    BY <2>2, <2>3, ForgetTyped
  <2> QED BY <2>1, <2>4
<1> QED BY <1>1, <1>2, <1>3, <1>4, <1>5, <1>6, <1>7, <1>8, <1>9 DEF ReceiverReceives

-----------------------------------------------------------------------------
(* The whole system. *)

SystemInv == TypeOK /\ QueueInv

LEMMA SystemInit == Init => SystemInv
<1> SUFFICES ASSUME Init PROVE SystemInv
  OBVIOUS
<1>1. NetTypeOK
  BY EnvAssumption DEF Init, NetInit, NetTypeOK
<1>2. <<>> \in Seq(Nat) /\ Distinct(<<>>) /\ ListedIn(<<>>) = {} /\ Len(<<>>) = 0
  BY DEF Distinct, ListedIn
<1>3. SenderTypeOK
  BY <1>2, SenderAssumption DEF Init, SendInit, SenderTypeOK, Phases
<1>4. QueueInv
  BY <1>2, ChunksNat DEF Init, SendInit, QueueInv
<1>5. RecvTypeOK
  BY DEF Init, RecvInit, RecvTypeOK, RecvPhases
<1> QED BY <1>1, <1>3, <1>4, <1>5 DEF SystemInv, TypeOK

\* A step of the network.
LEMMA NetworkStepInv ==
    ASSUME SystemInv, NetworkStep
    PROVE  SystemInv'
<1> USE DEF SystemInv, TypeOK
<1>1. NetTypeOK'
  <2>1. CASE Lose
    BY <2>1, EnvAssumption DEF Lose, NetTypeOK
  <2>2. CASE \E s \in Senders : Repeat(InitOf(s))
    BY <2>2, EnvAssumption, DatagramsTyped DEF Repeat, NetTypeOK
  <2> QED BY <2>1, <2>2 DEF NetworkStep
<1>2. SenderTypeOK' /\ QueueInv'
  BY DEF NetworkStep, sendVars, SenderTypeOK, QueueInv, Chunks, ListedIn, Distinct
<1>3. RecvTypeOK'
  BY UnchangedTyped DEF NetworkStep
<1> QED BY <1>1, <1>2, <1>3

LEMMA SystemStep == SystemInv /\ [Next]_vars => SystemInv'
<1> SUFFICES ASSUME SystemInv, [Next]_vars PROVE SystemInv'
  OBVIOUS
<1> USE DEF SystemInv, TypeOK
<1>1. ASSUME NEW s \in Senders, SenderStep(s) \/ SenderUpset(s) PROVE SystemInv'
  <2>1. SenderInv
    BY DEF SenderInv
  <2>2. SenderInv'
    BY <1>1, <2>1, SenderStepInv DEF SenderStep, SenderUpset
  <2>3. RecvTypeOK'
    BY <1>1, UnchangedTyped DEF SenderStep, SenderUpset
  <2> QED BY <2>2, <2>3 DEF SenderInv
<1>2. ASSUME (\E m \in ArrivingAtReceiver : Deliver(m)) \/ ReceiverTimer \/ ReceiverUpset
      PROVE  SystemInv'
  <2>1. UNCHANGED sendVars
    BY <1>2 DEF Deliver, ReceiverTimer, ReceiverUpset
  <2>2. SenderTypeOK' /\ QueueInv'
    BY <2>1 DEF sendVars, SenderTypeOK, QueueInv, Chunks, ListedIn, Distinct
  <2>3. \/ \E m \in ReceiverDatagrams : ReceiverReceives(m)
        \/ GapTimer \/ IdleTimeout \/ LingerEnds \/ Stop \/ Crash \/ Restart
    BY <1>2, ArrivingTyped DEF Deliver, ReceiverTimer, ReceiverUpset
  <2>4. RecvInv'
    BY <2>3, ReceiverStepInv DEF RecvInv
  <2> QED BY <2>2, <2>4 DEF RecvInv
<1>3. CASE NetworkStep
  BY <1>3, NetworkStepInv
<1>4. CASE UNCHANGED vars
  <2>1. RecvTypeOK'
    BY <1>4, UnchangedTyped DEF vars
  <2>2. NetTypeOK' /\ SenderTypeOK' /\ QueueInv'
    BY <1>4 DEF vars, netVars, sendVars, NetTypeOK, SenderTypeOK, QueueInv, Chunks, ListedIn, Distinct
  <2> QED BY <2>1, <2>2
<1> QED BY <1>1, <1>2, <1>3, <1>4 DEF Next

\* The system stays well typed, and the queue of every blast stays in step with
\* the set that guards it: send_pending never underflows and never queues a
\* chunk twice or one the file does not have, whatever arrives.
THEOREM SystemCorrect == Spec => []SystemInv
<1>1. Init => SystemInv
  BY SystemInit
<1>2. SystemInv /\ [Next]_vars => SystemInv'
  BY SystemStep
<1> QED BY <1>1, <1>2, PTL DEF Spec

\* Type correctness of senders, receiver and network, for every instance.
THEOREM TypesCorrect == Spec => []TypeOK
<1>1. SystemInv => TypeOK
  BY DEF SystemInv
<1> QED BY <1>1, SystemCorrect, PTL

\* The blast queue invariant (see QueueInv), for every instance.
THEOREM QueueCorrect == Spec => []QueueInv
<1>1. SystemInv => QueueInv
  BY DEF SystemInv
<1> QED BY <1>1, SystemCorrect, PTL
=============================================================================
