----------------------------- MODULE PeersProofs ------------------------------
(***************************************************************************)
(* Any number of sends, ports, receivers and addresses: when a port is     *)
(* given away again only after everything of its last send has died out, a *)
(* pair of addresses stands for one transfer, although no datagram names   *)
(* one.                                                                    *)
(*                                                                         *)
(* The inductive invariant says whose everything is: a port belongs to one *)
(* send (OneOwner), a datagram to the send that has its port (NetInv), and *)
(* so does a session (SessionsInv).                                        *)
(***************************************************************************)
EXTENDS Peers, TLAPS

OneOwner == \A s, t \in Sends : port[s] # None /\ port[s] = port[t] => s = t

\* A request is of the send that has the port it comes from, and goes to the
\* receiver of that send; an answer comes from that receiver, and a FIN only
\* when the file is saved.
Owned(m) ==
    /\ m.typ \in Requests => port[m.file] = m.from /\ Host[m.to] = Host[Target[m.file]]
    /\ m.typ \in Answers => \A s \in Sends : port[s] = m.to =>
           /\ Host[m.from] = Host[Target[s]]
           /\ m.typ = "FIN" => <<Host[Target[s]], s>> \in saved

NetInv == \A m \in net : Owned(m)

SessionOwned(r) ==
    /\ peer[r] = None => offer[r] = None /\ got[r] = None
    /\ peer[r] # None => /\ offer[r] \in Sends
                         /\ port[offer[r]] = peer[r]
                         /\ Host[Target[offer[r]]] = r
                         /\ got[r] \in {None, offer[r]}
                         /\ rpc[r] = "linger" => <<r, offer[r]>> \in saved

SessionsInv == \A r \in Receivers : SessionOwned(r)

\* An idle send has no port yet.
IdleInv == \A s \in Sends : phase[s] = "idle" => port[s] = None

PeersInv == /\ PeersTypeOK /\ OneOwner /\ NetInv /\ SessionsInv /\ IdleInv
            /\ HearsItsReceiver /\ CompletedThere

-----------------------------------------------------------------------------
\* A request of a running send is a datagram that it owns.
LEMMA RequestOwned ==
  ASSUME PeersTypeOK, NEW s \in Sends, port[s] # None, NEW a \in Addresses,
         Host[a] = Host[Target[s]], NEW typ \in Requests
  PROVE  Request(typ, s, a) \in Datagrams /\ Owned(Request(typ, s, a))
  BY DEF PeersTypeOK, Request, Owned, Datagrams, Requests, Answers

LEMMA TargetIsAddress == \A s \in Sends : Target[s] \in Addresses
  BY AddressAssumption DEF AddressAssumption

\* Datagrams under way stay owned while no port changes hands.
LEMMA NetStays ==
  ASSUME PeersInv, UNCHANGED port, saved \subseteq saved',
         \A m \in net' \ net : m \in Datagrams /\ Owned(m)'
  PROVE  NetInv' /\ net' \subseteq Datagrams
  <1> SUFFICES ASSUME NEW m \in net' PROVE Owned(m)' /\ m \in Datagrams
    BY DEF NetInv
  <1>1. CASE m \notin net
    BY <1>1
  <1>2. CASE m \in net
    BY <1>2 DEF PeersInv, PeersTypeOK, NetInv, Owned
  <1> QED
    BY <1>1, <1>2

LEMMA InitPeers == Init => PeersInv
  <1> SUFFICES ASSUME Init PROVE PeersInv
    OBVIOUS
  <1>1. PeersTypeOK
    BY AddressAssumption DEF Init, PeersTypeOK, AddressAssumption, Runs
  <1> QED
    BY <1>1 DEF Init, PeersInv, OneOwner, NetInv, SessionsInv, SessionOwned, IdleInv,
                HearsItsReceiver, CompletedThere

-----------------------------------------------------------------------------
(* The sends *)

\* A rested port has no datagram and no session, so its new owner takes
\* nothing over.
LEMMA BeginsStep ==
  ASSUME PeersInv, Rested, NEW s \in Sends, NEW p \in Ports, Begins(s, p)
  PROVE  PeersInv'
  <1> DEFINE first == [typ |-> "INIT", from |-> p, to |-> Target[s], file |-> s]
  <1>1. Quiet(p) /\ port[s] = None /\ p # None
    BY AddressAssumption DEF Begins, PeersInv, IdleInv, AddressAssumption
  <1>2. /\ port' = [t \in Sends |-> IF t = s THEN p ELSE IF port[t] = p THEN None ELSE port[t]]
        /\ net' = net \cup {first}
        /\ phase' = [phase EXCEPT ![s] = "handshake"]
        /\ offers' = [offers EXCEPT ![s] = 1]
        /\ UNCHANGED <<passes, hears, rpc, peer, offer, got, saved>>
    BY AddressAssumption DEF Begins, Transmits, recvVars, AddressAssumption
  <1>3. first \in Datagrams
    BY TargetIsAddress DEF Datagrams, Requests
  <1>4. /\ \A t \in Sends : port[t] \in Ports \cup {None}
        /\ \A t \in Sends : port[t] = p => ~Runs(t)
    BY DEF PeersInv, PeersTypeOK, Begins
  <1>5. port' \in [Sends -> Ports \cup {None}]
    BY <1>2, <1>4
  <1>6. PeersTypeOK'
    <2>1. \A t \in Sends : Runs(t)' => port'[t] # None
      BY <1>1, <1>2, <1>4 DEF PeersInv, PeersTypeOK, Runs
    <2>2. \A t \in Sends : phase'[t] \in {"sending", "feedback", "completed"} => hears'[t] # None
      BY <1>2 DEF PeersInv, PeersTypeOK
    <2> QED
      BY <1>2, <1>3, <1>5, <2>1, <2>2 DEF PeersInv, PeersTypeOK
  <1>7. OneOwner'
    BY <1>1, <1>2 DEF PeersInv, OneOwner
  <1>8. NetInv'
    <2> SUFFICES ASSUME NEW m \in net' PROVE Owned(m)'
      BY DEF NetInv
    <2>1. CASE m = first
      BY <1>2, <2>1 DEF Owned, Requests, Answers
    <2>2. CASE m \in net
      <3>1. m \in Datagrams /\ Owned(m) /\ m.from # p /\ m.to # p
        BY <1>1, <2>2 DEF PeersInv, PeersTypeOK, NetInv, Quiet
      <3>2. CASE m.typ \in Requests
        <4>1. m.file \in Sends /\ m.from \in Ports /\ port[m.file] = m.from
          BY <3>1, <3>2 DEF Datagrams, Requests, Answers, Owned
        <4>2. m.file # s /\ port'[m.file] = m.from
          BY <4>1, <1>1, <1>2, <3>1, AddressAssumption DEF AddressAssumption
        <4> QED
          BY <4>2, <3>1, <3>2 DEF Owned, Requests, Answers
      <3>3. CASE m.typ \in Answers
        <4>1. m.to \in Ports /\ m.to # None
          BY <3>1, <3>3, AddressAssumption DEF Datagrams, Requests, Answers, AddressAssumption
        <4>2. \A t \in Sends : port'[t] = m.to => port[t] = m.to
          BY <4>1, <1>2, <3>1
        <4> QED
          BY <4>2, <1>2, <3>1, <3>3 DEF Owned, Requests, Answers
      <3> QED
        BY <3>1, <3>2, <3>3 DEF Datagrams
    <2> QED
      BY <1>2, <2>1, <2>2
  <1>9. SessionsInv'
    <2> SUFFICES ASSUME NEW r \in Receivers PROVE SessionOwned(r)'
      BY DEF SessionsInv
    <2>1. SessionOwned(r) /\ peer[r] # p
      BY <1>1 DEF PeersInv, SessionsInv, Quiet
    <2>2. peer[r] # None => offer[r] # s /\ port'[offer[r]] = port[offer[r]]
      BY <2>1, <1>1, <1>2 DEF SessionOwned
    <2> QED
      BY <2>1, <2>2, <1>2 DEF SessionOwned
  <1>10. IdleInv' /\ HearsItsReceiver' /\ CompletedThere'
    BY <1>2 DEF PeersInv, PeersTypeOK, IdleInv, HearsItsReceiver, CompletedThere
  <1> QED
    BY <1>6, <1>7, <1>8, <1>9, <1>10 DEF PeersInv

\* What a step of a send that keeps its port leaves in place.
LEMMA SendKeeps ==
  ASSUME PeersInv, UNCHANGED <<port, recvVars>>,
         \A m \in net' \ net : m \in Datagrams /\ Owned(m)
  PROVE  NetInv' /\ net' \subseteq Datagrams /\ OneOwner' /\ SessionsInv'
  <1>1. UNCHANGED <<port, rpc, peer, offer, got, saved>>
    BY DEF recvVars
  <1>2. \A m \in net' \ net : m \in Datagrams /\ Owned(m)'
    BY <1>1 DEF Owned
  <1>3. OneOwner' /\ SessionsInv'
    BY <1>1 DEF PeersInv, OneOwner, SessionsInv, SessionOwned
  <1> QED
    BY <1>1, <1>2, <1>3, NetStays

LEMMA OffersAgainStep ==
  ASSUME PeersInv, NEW s \in Sends, OffersAgain(s)
  PROVE  PeersInv'
  <1> DEFINE again == Request("INIT", s, Target[s])
  <1>1. again \in Datagrams /\ Owned(again)
    BY RequestOwned, TargetIsAddress DEF OffersAgain, PeersInv, PeersTypeOK, Runs, Requests
  <1>2. NetInv' /\ net' \subseteq Datagrams /\ OneOwner' /\ SessionsInv'
    <2>1. net' \subseteq net \cup {again} /\ UNCHANGED <<port, recvVars>>
      BY DEF OffersAgain, Transmits
    <2>2. \A m \in net' \ net : m \in Datagrams /\ Owned(m)
      BY <1>1, <2>1
    <2> QED
      BY <2>1, <2>2, SendKeeps
  <1>3. /\ \/ offers' = [offers EXCEPT ![s] = @ + 1] /\ UNCHANGED phase
           \/ UNCHANGED offers /\ phase' = [phase EXCEPT ![s] = "failed"]
        /\ UNCHANGED <<port, passes, hears, rpc, peer, offer, got, saved>>
    BY DEF OffersAgain, recvVars
  <1>4. offers' \in [Sends -> Nat]
    BY <1>3, AddressAssumption DEF PeersInv, PeersTypeOK, AddressAssumption
  <1>5. PeersTypeOK'
    BY <1>2, <1>3, <1>4 DEF PeersInv, PeersTypeOK, Runs
  <1>6. IdleInv' /\ HearsItsReceiver' /\ CompletedThere'
    BY <1>3 DEF OffersAgain, PeersInv, PeersTypeOK, IdleInv, HearsItsReceiver, CompletedThere
  <1> QED
    BY <1>2, <1>5, <1>6 DEF PeersInv

LEMMA HearsAckStep ==
  ASSUME PeersInv, NEW s \in Sends, NEW m \in net, HearsAck(s, m)
  PROVE  PeersInv'
  <1>1. /\ phase' = [phase EXCEPT ![s] = "sending"]
        /\ hears' = [hears EXCEPT ![s] = m.from]
        /\ passes' = [passes EXCEPT ![s] = 1]
        /\ UNCHANGED <<net, port, offers, rpc, peer, offer, got, saved>>
    BY DEF HearsAck, recvVars
  <1>2. m \in Datagrams /\ Owned(m) /\ m.typ = "ACK" /\ m.to = port[s]
    BY DEF HearsAck, PeersInv, PeersTypeOK, NetInv
  <1>3. m.from \in Addresses /\ m.from # None /\ Host[m.from] = Host[Target[s]]
    BY <1>2, AddressAssumption DEF Datagrams, Requests, Answers, Owned, AddressAssumption
  <1>4. NetInv' /\ net' \subseteq Datagrams /\ OneOwner' /\ SessionsInv'
    <2>1. UNCHANGED <<port, recvVars>> /\ \A n \in net' \ net : n \in Datagrams /\ Owned(n)
      BY <1>1 DEF recvVars
    <2> QED
      BY <2>1, SendKeeps
  <1>5. PeersTypeOK'
    BY <1>1, <1>3 DEF HearsAck, PeersInv, PeersTypeOK, Runs
  <1>6. IdleInv' /\ HearsItsReceiver' /\ CompletedThere'
    BY <1>1, <1>3 DEF PeersInv, PeersTypeOK, IdleInv, HearsItsReceiver, CompletedThere
  <1> QED
    BY <1>4, <1>5, <1>6 DEF PeersInv

LEMMA SendsPassStep ==
  ASSUME PeersInv, NEW s \in Sends, SendsPass(s)
  PROVE  PeersInv'
  <1> DEFINE ms == {Request("DATA", s, Target[s]), Request("DONE", s, Target[s])}
  <1>1. ms \subseteq Datagrams /\ \A m \in ms : Owned(m)
    BY RequestOwned, TargetIsAddress DEF SendsPass, PeersInv, PeersTypeOK, Runs, Requests
  <1>2. NetInv' /\ net' \subseteq Datagrams /\ OneOwner' /\ SessionsInv'
    <2>1. net' \subseteq net \cup ms /\ UNCHANGED <<port, recvVars>>
      BY DEF SendsPass, Transmits
    <2>2. \A m \in net' \ net : m \in Datagrams /\ Owned(m)
      BY <1>1, <2>1
    <2> QED
      BY <2>1, <2>2, SendKeeps
  <1>3. phase' = [phase EXCEPT ![s] = "feedback"] /\ phase[s] = "sending"
    BY DEF SendsPass
  <1>4. UNCHANGED <<port, offers, passes, hears, rpc, peer, offer, got, saved>>
    BY DEF SendsPass, recvVars
  <1>5. PeersTypeOK'
    BY <1>2, <1>3, <1>4 DEF PeersInv, PeersTypeOK, Runs
  <1>6. IdleInv' /\ HearsItsReceiver' /\ CompletedThere'
    BY <1>3, <1>4 DEF PeersInv, PeersTypeOK, IdleInv, HearsItsReceiver, CompletedThere
  <1> QED
    BY <1>2, <1>5, <1>6 DEF PeersInv

\* The FIN that s believes is of its own transfer, because the port is.
LEMMA HearsFinStep ==
  ASSUME PeersInv, NEW s \in Sends, NEW m \in net, HearsFin(s, m)
  PROVE  PeersInv'
  <1> DEFINE last == Request("FIN_ACK", s, hears[s])
  <1>1. hears[s] \in Addresses /\ Host[hears[s]] = Host[Target[s]] /\ port[s] # None
    BY DEF HearsFin, PeersInv, PeersTypeOK, HearsItsReceiver, Runs
  <1>2. last \in Datagrams /\ Owned(last)
    BY <1>1, RequestOwned DEF PeersInv, Requests
  <1>3. NetInv' /\ net' \subseteq Datagrams /\ OneOwner' /\ SessionsInv'
    <2>1. net' \subseteq net \cup {last} /\ UNCHANGED <<port, recvVars>>
      BY DEF HearsFin, Transmits
    <2>2. \A n \in net' \ net : n \in Datagrams /\ Owned(n)
      BY <1>2, <2>1
    <2> QED
      BY <2>1, <2>2, SendKeeps
  <1>4. m.typ = "FIN" /\ m.to = port[s] /\ Owned(m)
    BY DEF HearsFin, PeersInv, NetInv
  <1>5. <<Host[Target[s]], s>> \in saved
    BY <1>4 DEF Owned, Answers
  <1>6. phase' = [phase EXCEPT ![s] = "completed"] /\ phase[s] \in {"sending", "feedback"}
    BY DEF HearsFin
  <1>7. UNCHANGED <<port, offers, passes, hears, rpc, peer, offer, got, saved>>
    BY DEF HearsFin, recvVars
  <1>8. PeersTypeOK'
    BY <1>3, <1>6, <1>7 DEF PeersInv, PeersTypeOK, Runs
  <1>9. IdleInv' /\ HearsItsReceiver' /\ CompletedThere'
    BY <1>5, <1>6, <1>7 DEF PeersInv, PeersTypeOK, IdleInv, HearsItsReceiver, CompletedThere
  <1> QED
    BY <1>3, <1>8, <1>9 DEF PeersInv

LEMMA EndsPassStep ==
  ASSUME PeersInv, NEW s \in Sends, EndsPass(s)
  PROVE  PeersInv'
  <1> DEFINE done == Request("DONE", s, Target[s])
  <1>1. done \in Datagrams /\ Owned(done)
    BY RequestOwned, TargetIsAddress DEF EndsPass, PeersInv, PeersTypeOK, Runs, Requests
  <1>2. NetInv' /\ net' \subseteq Datagrams /\ OneOwner' /\ SessionsInv'
    <2>1. net' \subseteq net \cup {done} /\ UNCHANGED <<port, recvVars>>
      BY DEF EndsPass, Transmits
    <2>2. \A m \in net' \ net : m \in Datagrams /\ Owned(m)
      BY <1>1, <2>1
    <2> QED
      BY <2>1, <2>2, SendKeeps
  <1>3. /\ \/ phase' = [phase EXCEPT ![s] = "failed"]
           \/ phase' = [phase EXCEPT ![s] = "sending"]
           \/ UNCHANGED phase
        /\ \/ UNCHANGED passes
           \/ passes' = [passes EXCEPT ![s] = @ + 1]
        /\ phase[s] = "feedback"
        /\ UNCHANGED <<port, offers, hears, rpc, peer, offer, got, saved>>
    BY DEF EndsPass, recvVars
  <1>4. passes' \in [Sends -> Nat]
    BY <1>3 DEF PeersInv, PeersTypeOK
  <1>5. PeersTypeOK'
    BY <1>2, <1>3, <1>4 DEF PeersInv, PeersTypeOK, Runs
  <1>6. IdleInv' /\ HearsItsReceiver' /\ CompletedThere'
    BY <1>3 DEF PeersInv, PeersTypeOK, IdleInv, HearsItsReceiver, CompletedThere
  <1> QED
    BY <1>2, <1>5, <1>6 DEF PeersInv

-----------------------------------------------------------------------------
(* The receivers *)

\* An answer of r to the send that has port p and sends to r.
LEMMA AnswerOwned ==
  ASSUME PeersInv, UNCHANGED port, NEW r \in Receivers, NEW s \in Sends, NEW p,
         port[s] = p, p # None, Host[Target[s]] = r,
         NEW typ \in Answers, typ = "FIN" => <<r, s>> \in saved'
  PROVE  Answer(typ, r, p) \in Datagrams /\ Owned(Answer(typ, r, p))'
  <1>1. Reply[r] \in Addresses /\ Host[Reply[r]] = r /\ p \in Ports
    BY AddressAssumption DEF AddressAssumption, PeersInv, PeersTypeOK
  <1>2. \A t \in Sends : port[t] = p => t = s
    BY DEF PeersInv, OneOwner
  <1>3. Answer(typ, r, p) \in Datagrams
    BY <1>1 DEF Answer, Datagrams
  <1>4. /\ Answer(typ, r, p).typ = typ /\ Answer(typ, r, p).to = p
        /\ Answer(typ, r, p).from = Reply[r]
    BY DEF Answer
  <1>5. typ \notin Requests
    BY DEF Requests, Answers
  <1> QED
    BY <1>1, <1>2, <1>3, <1>4, <1>5 DEF Owned, Answer

\* Only the variables of r change, and its session has an owner again.
Kept(r) ==
    /\ rpc' \in [Receivers -> {"listening", "receiving", "linger"}]
    /\ peer' \in [Receivers -> Ports \cup {None}]
    /\ offer' \in [Receivers -> Sends \cup {None}]
    /\ got' \in [Receivers -> Sends \cup {None}]
    /\ \A q \in Receivers : q # r =>
           rpc'[q] = rpc[q] /\ peer'[q] = peer[q] /\ offer'[q] = offer[q] /\ got'[q] = got[q]
    /\ rpc'[r] = "listening" <=> peer'[r] = None

LEMMA ReceiverKeeps ==
  ASSUME PeersInv, UNCHANGED sendVars, NEW r \in Receivers, Kept(r), SessionOwned(r)',
         saved \subseteq saved', saved' \subseteq Receivers \X Sends,
         \A n \in net' \ net : n \in Datagrams /\ Owned(n)'
  PROVE  PeersInv'
  <1>1. UNCHANGED <<phase, port, offers, passes, hears>>
    BY DEF sendVars
  <1>2. NetInv' /\ net' \subseteq Datagrams
    BY <1>1, NetStays
  <1>3. \A q \in Receivers : rpc'[q] = "listening" <=> peer'[q] = None
    BY DEF Kept, PeersInv, PeersTypeOK
  <1>4. PeersTypeOK'
    BY <1>1, <1>2, <1>3 DEF Kept, PeersInv, PeersTypeOK, Runs
  <1>5. SessionsInv'
    <2> SUFFICES ASSUME NEW q \in Receivers, q # r PROVE SessionOwned(q)'
      BY DEF SessionsInv
    <2>1. SessionOwned(q)
      BY DEF PeersInv, SessionsInv
    <2> QED
      BY <2>1, <1>1 DEF Kept, SessionOwned
  <1>6. OneOwner' /\ IdleInv' /\ HearsItsReceiver'
    BY <1>1 DEF PeersInv, OneOwner, IdleInv, HearsItsReceiver
  <1>7. CompletedThere'
    BY <1>1 DEF PeersInv, CompletedThere
  <1> QED
    BY <1>2, <1>4, <1>5, <1>6, <1>7 DEF PeersInv

LEMMA ResetKeeps ==
  ASSUME PeersInv, NEW r \in Receivers, Resets(r)
  PROVE  Kept(r) /\ SessionOwned(r)'
  <1>1. /\ rpc' = [rpc EXCEPT ![r] = "listening"] /\ peer' = [peer EXCEPT ![r] = None]
        /\ offer' = [offer EXCEPT ![r] = None] /\ got' = [got EXCEPT ![r] = None]
    BY DEF Resets
  <1>2. Kept(r)
    BY <1>1 DEF PeersInv, PeersTypeOK, Kept
  <1>3. peer'[r] = None /\ offer'[r] = None /\ got'[r] = None
    BY <1>1 DEF PeersInv, PeersTypeOK
  <1> QED
    BY <1>2, <1>3 DEF SessionOwned

\* The session of r, and the send that owns it.
LEMMA SessionOwner ==
  ASSUME PeersInv, NEW r \in Receivers, rpc[r] # "listening"
  PROVE  /\ peer[r] # None /\ offer[r] \in Sends /\ port[offer[r]] = peer[r]
         /\ Host[Target[offer[r]]] = r /\ got[r] \in {None, offer[r]}
         /\ offer[r] # None
         /\ rpc[r] = "linger" => <<r, offer[r]>> \in saved
  BY AddressAssumption
  DEF PeersInv, PeersTypeOK, SessionsInv, SessionOwned, AddressAssumption

\* An answer to the sender of the session.
LEMMA PeerAnswered ==
  ASSUME PeersInv, UNCHANGED port, NEW r \in Receivers, rpc[r] # "listening",
         NEW typ \in Answers, typ = "FIN" => <<r, offer[r]>> \in saved',
         net' = net \cup {Answer(typ, r, peer[r])}
  PROVE  \A n \in net' \ net : n \in Datagrams /\ Owned(n)'
  <1>1. /\ peer[r] # None /\ offer[r] \in Sends /\ port[offer[r]] = peer[r]
        /\ Host[Target[offer[r]]] = r
    BY SessionOwner
  <1>2. PICK p : p = peer[r]
    OBVIOUS
  <1>3. Answer(typ, r, p) \in Datagrams /\ Owned(Answer(typ, r, p))'
    BY <1>1, <1>2, AnswerOwned
  <1> QED
    BY <1>2, <1>3

\* What a request that reaches r and is heard says of the send that owns it.
LEMMA RequestHeard ==
  ASSUME PeersInv, NEW r \in Receivers, NEW m \in net, m.to \in Addresses, Host[m.to] = r,
         m.typ \in Requests
  PROVE  /\ m.file \in Sends /\ m.from \in Ports /\ port[m.file] = m.from
         /\ Host[Target[m.file]] = r /\ m.from # None /\ m.file # None
  <1>1. m \in Datagrams /\ Owned(m)
    BY DEF PeersInv, PeersTypeOK, NetInv
  <1>2. m.file \in Sends /\ m.from \in Ports
    BY <1>1 DEF Datagrams, Requests, Answers
  <1> QED
    BY <1>1, <1>2, AddressAssumption DEF Owned, AddressAssumption

LEMMA InitStep ==
  ASSUME PeersInv, UNCHANGED sendVars, NEW r \in Receivers, NEW m \in net,
         m.to \in Addresses, Host[m.to] = r, HandlesInit(r, m)
  PROVE  PeersInv'
  <1>1. /\ m.file \in Sends /\ m.from \in Ports /\ port[m.file] = m.from
        /\ Host[Target[m.file]] = r /\ m.from # None /\ m.file # None
    BY RequestHeard DEF HandlesInit, Requests
  <1>2. UNCHANGED <<port, got, saved>> /\ net' = net \cup {Answer("ACK", r, m.from)}
    BY DEF HandlesInit, Transmits, sendVars
  <1>3. Answer("ACK", r, m.from) \in Datagrams /\ Owned(Answer("ACK", r, m.from))'
    BY <1>1, <1>2, AnswerOwned DEF Answers
  <1>4. \A n \in net' \ net : n \in Datagrams /\ Owned(n)'
    BY <1>2, <1>3
  <1>5. Kept(r) /\ SessionOwned(r)'
    <2>1. CASE rpc[r] = "listening"
      <3>1. /\ rpc' = [rpc EXCEPT ![r] = "receiving"] /\ peer' = [peer EXCEPT ![r] = m.from]
            /\ offer' = [offer EXCEPT ![r] = m.file]
        BY <2>1 DEF HandlesInit
      <3>2. got[r] = None
        BY <2>1 DEF PeersInv, PeersTypeOK, SessionsInv, SessionOwned
      <3>3. rpc'[r] = "receiving" /\ peer'[r] = m.from /\ offer'[r] = m.file /\ got'[r] = None
        BY <3>1, <3>2, <1>2 DEF PeersInv, PeersTypeOK
      <3>4. Kept(r)
        BY <3>1, <3>3, <1>1, <1>2 DEF PeersInv, PeersTypeOK, Kept
      <3> QED
        BY <3>3, <3>4, <1>1, <1>2 DEF SessionOwned
    <2>2. CASE rpc[r] # "listening"
      <3>1. UNCHANGED <<rpc, peer, offer>>
        BY <2>2 DEF HandlesInit
      <3> QED
        BY <3>1, <1>2 DEF PeersInv, PeersTypeOK, Kept, SessionsInv, SessionOwned
    <2> QED
      BY <2>1, <2>2
  <1> QED
    BY <1>2, <1>4, <1>5, ReceiverKeeps DEF PeersInv, PeersTypeOK

\* The chunk that is stored is of the send whose address the session hears.
LEMMA DataStep ==
  ASSUME PeersInv, UNCHANGED sendVars, NEW r \in Receivers, NEW m \in net,
         m.to \in Addresses, Host[m.to] = r, Hears(r, m), HandlesData(r, m)
  PROVE  PeersInv'
  <1>1. /\ m.file \in Sends /\ port[m.file] = m.from /\ m.from # None
    BY RequestHeard DEF HandlesData, Requests
  <1>2. /\ peer[r] # None /\ offer[r] \in Sends /\ port[offer[r]] = peer[r]
        /\ Host[Target[offer[r]]] = r
    BY SessionOwner DEF HandlesData
  <1>3. m.file = offer[r]
    BY <1>1, <1>2 DEF Hears, PeersInv, OneOwner
  <1>4. /\ got' = [got EXCEPT ![r] = m.file] /\ rpc[r] = "receiving"
        /\ UNCHANGED <<port, rpc, peer, offer, saved, net>>
    BY DEF HandlesData, sendVars
  <1>5. Kept(r)
    BY <1>1, <1>4 DEF PeersInv, PeersTypeOK, Kept
  <1>6. got'[r] = offer[r]
    BY <1>3, <1>4 DEF PeersInv, PeersTypeOK
  <1>7. SessionOwned(r)'
    BY <1>2, <1>4, <1>6 DEF SessionOwned
  <1> QED
    BY <1>4, <1>5, <1>7, ReceiverKeeps DEF PeersInv, PeersTypeOK

LEMMA DoneStep ==
  ASSUME PeersInv, UNCHANGED sendVars, NEW r \in Receivers, NEW m \in net, HandlesDone(r, m)
  PROVE  PeersInv'
  <1>1. /\ peer[r] # None /\ offer[r] \in Sends /\ port[offer[r]] = peer[r]
        /\ Host[Target[offer[r]]] = r /\ got[r] \in {None, offer[r]}
        /\ rpc[r] = "receiving" /\ UNCHANGED port
    BY SessionOwner DEF HandlesDone, sendVars
  <1>2. saved \subseteq Receivers \X Sends
    BY DEF PeersInv, PeersTypeOK
  <1>3. CASE got[r] = None /\ Transmits({Answer("NACK", r, peer[r])}) /\ UNCHANGED recvVars
    <2>1. \A n \in net' \ net : n \in Datagrams /\ Owned(n)'
      BY <1>1, <1>3, PeerAnswered DEF Transmits, Answers
    <2>2. UNCHANGED <<rpc, peer, offer, got, saved>>
      BY <1>3 DEF recvVars
    <2>3. Kept(r) /\ SessionOwned(r)'
      BY <1>1, <2>2 DEF PeersInv, PeersTypeOK, Kept, SessionsInv, SessionOwned
    <2> QED
      BY <1>2, <2>1, <2>2, <2>3, ReceiverKeeps
  <1>4. CASE Resets(r) /\ UNCHANGED <<net, saved>>
    BY <1>2, <1>4, ResetKeeps, ReceiverKeeps
  <1>5. CASE /\ got[r] # None /\ got[r] = offer[r]
             /\ saved' = saved \cup {<<r, offer[r]>>}
             /\ rpc' = [rpc EXCEPT ![r] = "linger"]
             /\ Transmits({Answer("FIN", r, peer[r])})
             /\ UNCHANGED <<peer, offer, got>>
    <2>1. \A n \in net' \ net : n \in Datagrams /\ Owned(n)'
      BY <1>1, <1>5, PeerAnswered DEF Transmits, Answers
    <2>2. rpc'[r] = "linger" /\ peer'[r] # None
      BY <1>1, <1>5 DEF PeersInv, PeersTypeOK
    <2>3. Kept(r)
      BY <1>5, <2>2 DEF PeersInv, PeersTypeOK, Kept
    <2>4. SessionOwned(r)'
      BY <1>1, <1>5 DEF SessionOwned
    <2> QED
      BY <1>1, <1>2, <1>5, <2>1, <2>3, <2>4, ReceiverKeeps
  <1> QED
    BY <1>3, <1>4, <1>5 DEF HandlesDone

LEMMA LingersStep ==
  ASSUME PeersInv, UNCHANGED sendVars, NEW r \in Receivers, NEW m \in net, Lingers(r, m)
  PROVE  PeersInv'
  <1>1. rpc[r] = "linger" /\ UNCHANGED port /\ saved \subseteq Receivers \X Sends
    BY DEF Lingers, sendVars, PeersInv, PeersTypeOK
  <1>2. <<r, offer[r]>> \in saved
    BY <1>1, SessionOwner
  <1>3. CASE Transmits({Answer("FIN", r, peer[r])}) /\ UNCHANGED recvVars
    <2>1. UNCHANGED <<rpc, peer, offer, got, saved>>
      BY <1>3 DEF recvVars
    <2>2. \A n \in net' \ net : n \in Datagrams /\ Owned(n)'
      BY <1>1, <1>2, <1>3, <2>1, PeerAnswered DEF Transmits, Answers
    <2>3. Kept(r) /\ SessionOwned(r)'
      BY <1>1, <2>1 DEF PeersInv, PeersTypeOK, Kept, SessionsInv, SessionOwned
    <2> QED
      BY <1>1, <2>1, <2>2, <2>3, ReceiverKeeps
  <1>4. CASE Resets(r) /\ UNCHANGED <<net, saved>>
    BY <1>1, <1>4, ResetKeeps, ReceiverKeeps
  <1> QED
    BY <1>3, <1>4 DEF Lingers

LEMMA ReceiversStep ==
  ASSUME PeersInv, NEW r \in Receivers, ReceiverStep(r)
  PROVE  PeersInv'
  <1>1. UNCHANGED sendVars /\ saved \subseteq Receivers \X Sends
    BY DEF ReceiverStep, PeersInv, PeersTypeOK
  <1>2. CASE GivesUp(r)
    BY <1>1, <1>2, ResetKeeps, ReceiverKeeps DEF GivesUp
  <1>3. CASE \E m \in net :
            /\ m.to \in Addresses /\ Host[m.to] = r
            /\ \/ Hears(r, m) /\ (HandlesInit(r, m) \/ HandlesData(r, m) \/ HandlesDone(r, m))
               \/ Lingers(r, m)
    BY <1>1, <1>3, InitStep, DataStep, DoneStep, LingersStep
  <1> QED
    BY <1>2, <1>3 DEF ReceiverStep

-----------------------------------------------------------------------------
(* Every step *)

LEMMA DiesOutStep ==
  ASSUME PeersInv, NEW p \in Ports, DiesOut(p)
  PROVE  PeersInv'
  <1>1. net' \subseteq net /\ UNCHANGED <<sendVars, recvVars>>
    BY DEF DiesOut
  <1>2. UNCHANGED <<phase, port, offers, passes, hears, rpc, peer, offer, got, saved>>
    BY <1>1 DEF sendVars, recvVars
  <1>3. PeersTypeOK'
    BY <1>1, <1>2 DEF PeersInv, PeersTypeOK, Runs
  <1>4. NetInv'
    BY <1>1, <1>2 DEF PeersInv, NetInv, Owned
  <1>5. SessionsInv' /\ OneOwner' /\ IdleInv' /\ HearsItsReceiver' /\ CompletedThere'
    BY <1>2 DEF PeersInv, SessionsInv, SessionOwned, OneOwner, IdleInv, HearsItsReceiver,
                CompletedThere
  <1> QED
    BY <1>3, <1>4, <1>5 DEF PeersInv

LEMMA StepPeers == Rested /\ PeersInv /\ [Next]_vars => PeersInv'
  <1> SUFFICES ASSUME Rested, PeersInv, [Next]_vars PROVE PeersInv'
    OBVIOUS
  <1>1. ASSUME NEW s \in Sends, SenderStep(s) PROVE PeersInv'
    BY <1>1, BeginsStep, OffersAgainStep, SendsPassStep, EndsPassStep, HearsAckStep, HearsFinStep
    DEF SenderStep
  <1>2. CASE UNCHANGED vars
    <2>1. UNCHANGED <<net, phase, port, offers, passes, hears, rpc, peer, offer, got, saved>>
      BY <1>2 DEF vars, sendVars, recvVars
    <2>2. PeersTypeOK'
      BY <2>1 DEF PeersInv, PeersTypeOK, Runs
    <2>3. NetInv' /\ SessionsInv'
      BY <2>1 DEF PeersInv, NetInv, Owned, SessionsInv, SessionOwned
    <2>4. OneOwner' /\ IdleInv' /\ HearsItsReceiver' /\ CompletedThere'
      BY <2>1 DEF PeersInv, OneOwner, IdleInv, HearsItsReceiver, CompletedThere
    <2> QED
      BY <2>2, <2>3, <2>4 DEF PeersInv
  <1> QED
    BY <1>1, <1>2, ReceiversStep, DiesOutStep DEF Next

-----------------------------------------------------------------------------
\* With rested ports the inductive invariant holds of every behaviour.
THEOREM PeersInvariant ==
  ASSUME Rested
  PROVE  Spec => []PeersInv
  <1>1. PeersInv /\ [Next]_vars => PeersInv'
    BY StepPeers
  <1> QED
    BY <1>1, InitPeers, PTL DEF Spec

\* Every variable keeps its type.
THEOREM PeersTypes ==
  ASSUME Rested
  PROVE  Spec => []PeersTypeOK
  <1>1. PeersInv => PeersTypeOK
    BY DEF PeersInv
  <1> QED
    BY <1>1, PeersInvariant, PTL

\* A send that succeeds has its file saved by the receiver it was told to send
\* to, whatever else that receiver and that port have been used for.
THEOREM CompletedIsThere ==
  ASSUME Rested
  PROVE  Spec => []CompletedThere
  <1>1. PeersInv => CompletedThere
    BY DEF PeersInv
  <1> QED
    BY <1>1, PeersInvariant, PTL

\* The address a sender took from an ACK is one of the receiver it sends to.
THEOREM HearsOnlyIt ==
  ASSUME Rested
  PROVE  Spec => []HearsItsReceiver
  <1>1. PeersInv => HearsItsReceiver
    BY DEF PeersInv
  <1> QED
    BY <1>1, PeersInvariant, PTL

\* No session stores what belongs to another.
THEOREM SessionsKeptApart ==
  ASSUME Rested
  PROVE  Spec => []SessionsApart
  <1>1. PeersInv => SessionsApart
    BY DEF PeersInv, SessionsInv, SessionOwned, SessionsApart
  <1> QED
    BY <1>1, PeersInvariant, PTL

-----------------------------------------------------------------------------
(* Sends and receivers implement FileDelivery, each send with a path of    *)
(* its own: who is who is never mistaken in what is saved and reported.    *)

Store == [s \in Sends |-> IF \E r \in Receivers : <<r, s>> \in saved THEN s ELSE None]
Delivered == {s \in Sends : <<Host[Target[s]], s>> \in saved}
Outcome == [s \in Sends |-> IF phase[s] \in {"completed", "failed"} THEN phase[s]
                            ELSE "running"]

Promise == INSTANCE FileDelivery
               WITH Senders   <- Sends,
                    Paths     <- Sends,
                    Path      <- [s \in Sends |-> s],
                    NoFile    <- None,
                    Content   <- [s \in Sends |-> s],
                    store     <- Store,
                    delivered <- Delivered,
                    outcome   <- Outcome

LEMMA PromiseInit == Init => Promise!Init
  BY DEF Init, Promise!Init, Store, Delivered, Outcome

\* A send reports once, and then no step of it is left.
LEMMA ReportStep ==
  ASSUME PeersInv, PeersInv', NEW s \in Sends, SenderStep(s), Outcome' # Outcome
  PROVE  Promise!Succeed(s) \/ Promise!GiveUp(s)
  <1>1. UNCHANGED saved /\ phase \in [Sends -> {"idle", "handshake", "sending", "feedback",
                                                "completed", "failed"}]
    BY DEF SenderStep, Begins, OffersAgain, HearsAck, SendsPass, HearsFin, EndsPass, recvVars,
           PeersInv, PeersTypeOK
  <1>2. PICK p : phase' = [phase EXCEPT ![s] = p] /\ phase[s] \notin {"completed", "failed"}
    BY DEF SenderStep, Begins, OffersAgain, HearsAck, SendsPass, HearsFin, EndsPass, Outcome
  <1>3. Outcome[s] = "running" /\ phase'[s] = p /\ \A t \in Sends : t # s => phase'[t] = phase[t]
    BY <1>1, <1>2 DEF Outcome
  <1>4. p \in {"completed", "failed"}
    BY <1>3 DEF Outcome
  <1>5. Outcome' = [Outcome EXCEPT ![s] = p]
    BY <1>3, <1>4 DEF Outcome
  <1>6. Promise!Report(s, p)
    BY <1>1, <1>3, <1>5 DEF Promise!Report, Store, Delivered
  <1>7. p = "completed" => s \in Delivered
    BY <1>1, <1>3 DEF PeersInv, CompletedThere, Delivered
  <1> QED
    BY <1>4, <1>6, <1>7 DEF Promise!Succeed, Promise!GiveUp

\* What a receiver saves it saves of the send that was to be saved there.
LEMMA SaveStep ==
  ASSUME PeersInv, NEW r \in Receivers, ReceiverStep(r), saved' # saved
  PROVE  \E s \in Sends : Promise!Save(s)
  <1>1. /\ saved' = saved \cup {<<r, offer[r]>>} /\ rpc[r] = "receiving"
        /\ UNCHANGED phase
    BY DEF ReceiverStep, GivesUp, Resets, HandlesInit, HandlesData, HandlesDone, Lingers,
           recvVars, sendVars
  <1>2. offer[r] \in Sends /\ Host[Target[offer[r]]] = r
    BY <1>1 DEF PeersInv, PeersTypeOK, SessionsInv, SessionOwned
  <1> DEFINE o == offer[r]
  <1>3. Outcome' = Outcome
    BY <1>1 DEF Outcome
  <1>4. Delivered' = Delivered \cup {o}
    BY <1>1, <1>2 DEF Delivered
  <1>5. Store' = [Store EXCEPT ![o] = o]
    BY <1>1, <1>2 DEF Store
  <1>6. Promise!Save(o)
    BY <1>2, <1>3, <1>4, <1>5 DEF Promise!Save
  <1> QED
    BY <1>2, <1>6

LEMMA PromiseStep ==
  ASSUME PeersInv, PeersInv', [Next]_vars
  PROVE  [Promise!Next]_(Promise!vars)
  <1>1. ASSUME NEW s \in Sends, SenderStep(s) PROVE [Promise!Next]_(Promise!vars)
    <2>1. UNCHANGED saved
      BY <1>1 DEF SenderStep, Begins, OffersAgain, HearsAck, SendsPass, HearsFin, EndsPass,
                  recvVars
    <2>2. Store' = Store /\ Delivered' = Delivered
      BY <2>1 DEF Store, Delivered
    <2> QED
      BY <1>1, <2>2, ReportStep DEF Promise!Next, Promise!vars
  <1>2. ASSUME NEW r \in Receivers, ReceiverStep(r) PROVE [Promise!Next]_(Promise!vars)
    <2>1. CASE saved' = saved
      <3>1. Store' = Store /\ Delivered' = Delivered /\ Outcome' = Outcome
        BY <1>2, <2>1 DEF ReceiverStep, sendVars, Store, Delivered, Outcome
      <3> QED
        BY <3>1 DEF Promise!vars
    <2> QED
      BY <1>2, <2>1, SaveStep DEF Promise!Next
  <1>3. CASE UNCHANGED vars \/ \E p \in Ports : DiesOut(p)
    <2>1. UNCHANGED <<phase, saved>>
      BY <1>3 DEF vars, sendVars, recvVars, DiesOut
    <2>2. Store' = Store /\ Delivered' = Delivered /\ Outcome' = Outcome
      BY <2>1 DEF Store, Delivered, Outcome
    <2> QED
      BY <2>2 DEF Promise!vars
  <1> QED
    BY <1>1, <1>2, <1>3 DEF Next

\* Any number of sends and receivers on ports that are used again implement
\* FileDelivery, as long as ports rest in between: a send reports success only
\* when its own receiver has saved its own file, and reports once.
THEOREM PeersKeepPromise ==
  ASSUME Rested
  PROVE  Spec => Promise!Spec
  <1>1. PeersInv /\ PeersInv' /\ [Next]_vars => [Promise!Next]_(Promise!vars)
    BY PromiseStep
  <1> QED
    BY <1>1, PeersInvariant, PromiseInit, PTL DEF Spec, Promise!Spec
=============================================================================
