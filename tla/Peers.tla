-------------------------------- MODULE Peers --------------------------------
(***************************************************************************)
(* Addresses: several udpcp send runs, several serving receivers, and UDP  *)
(* ports that are used again.  A datagram names no transfer; all that ties *)
(* it to one is the pair of addresses it travels between.  A receiver      *)
(* hears the address of the INIT that opened its session                   *)
(* (src/lib/recv.rs: receive_loop, linger); a sender sends to the address  *)
(* it was given, and hears the address the ACK came from, whichever that   *)
(* is (src/lib/send.rs: handshake): a receiver bound to the wildcard       *)
(* address may answer from another address than it was spoken to at.       *)
(*                                                                         *)
(* What is sent is reduced to files of one chunk of one size; passes,      *)
(* attempts and damage are the business of Sender, Receiver and UdpNetwork.*)
(* A datagram stays under way, and may be delivered again and again, until *)
(* everything of its port has died out.                                    *)
(***************************************************************************)
EXTENDS Integers

CONSTANTS
    Sends,          \* the runs of udpcp send, each of a file of its own
    Ports,          \* the local addresses their sockets may be given
    Receivers,      \* the serving udpcp recv processes
    Addresses,      \* the addresses receivers can be sent to
    Host,           \* Host[a]: the receiver at address a
    Reply,          \* Reply[r]: the address r's datagrams come from
    Target,         \* Target[s]: the address s was told to send to
    None,           \* no port, no address, no file
    Rested,         \* a port is given away again only when nothing of the
                    \* send before is left: no datagram, no session
    MaxOffers,      \* MaxOffers[s]: the attempts of s (bound)
    MaxPasses       \* MaxPasses[s]: its passes (bound)

ASSUME AddressAssumption ==
    /\ Host \in [Addresses -> Receivers]
    /\ Reply \in [Receivers -> Addresses]
    /\ \A r \in Receivers : Host[Reply[r]] = r
    /\ Target \in [Sends -> Addresses]
    /\ None \notin Sends \cup Ports \cup Receivers \cup Addresses
    /\ Ports \cap Addresses = {}
    /\ Rested \in BOOLEAN
    /\ MaxOffers \in [Sends -> Nat] /\ MaxPasses \in [Sends -> Nat]

VARIABLES
    net,            \* the datagrams under way
    phase,          \* where run_send is
    port,           \* its socket's address, until another send is given it
    offers, passes, \* INITs sent, passes begun
    hears,          \* receiver_addr
    rpc,            \* where receive_loop is
    peer,           \* sender: the address the session hears
    offer,          \* the file the INIT of the session announced
    got,            \* the file the chunk stored came from
    saved           \* <<r, s>>: r has saved the file of s

sendVars == <<phase, port, offers, passes, hears>>
recvVars == <<rpc, peer, offer, got, saved>>
vars == <<net, sendVars, recvVars>>

Requests == {"INIT", "DATA", "DONE", "FIN_ACK"}
Answers == {"ACK", "NACK", "FIN"}
Datagrams ==
    [typ : Requests, from : Ports, to : Addresses, file : Sends]
        \cup [typ : Answers, from : Addresses, to : Ports, file : {None}]

\* A datagram of s to address a.  file is what its payload is of, not what its
\* header says: the header says nothing of it.
Request(typ, s, a) == [typ |-> typ, from |-> port[s], to |-> a, file |-> s]
Answer(typ, r, p) == [typ |-> typ, from |-> Reply[r], to |-> p, file |-> None]

Runs(s) == phase[s] \in {"handshake", "sending", "feedback"}

-----------------------------------------------------------------------------
(* run_send *)

Transmits(ms) == net' = net \cup ms

\* Nothing is left of the send that had port p.
Quiet(p) == /\ \A m \in net : m.from # p /\ m.to # p
            /\ \A r \in Receivers : peer[r] # p

\* connect_to binds the socket to a port the system chooses among those no
\* running process has; the first INIT goes out.
Begins(s, p) ==
    /\ phase[s] = "idle" /\ MaxOffers[s] > 0
    /\ \A t \in Sends : port[t] = p => ~Runs(t)
    /\ Rested => Quiet(p)
    /\ phase' = [phase EXCEPT ![s] = "handshake"]
    /\ port' = [t \in Sends |-> IF t = s THEN p ELSE IF port[t] = p THEN None ELSE port[t]]
    /\ offers' = [offers EXCEPT ![s] = 1]
    /\ Transmits({[typ |-> "INIT", from |-> p, to |-> Target[s], file |-> s]})
    /\ UNCHANGED <<passes, hears, recvVars>>

\* Mutant of OffersAgain: the offer is made to another address that the name
\* of the target resolves to.
OffersElsewhere(s) ==
    /\ phase[s] = "handshake" /\ offers[s] < MaxOffers[s]
    /\ offers' = [offers EXCEPT ![s] = @ + 1]
    /\ \E a \in Addresses : Transmits({Request("INIT", s, a)})
    /\ UNCHANGED <<phase, port, passes, hears, recvVars>>

\* The attempt's deadline passes: offer again, or fail.
OffersAgain(s) ==
    /\ phase[s] = "handshake"
    /\ IF offers[s] < MaxOffers[s]
       THEN /\ offers' = [offers EXCEPT ![s] = @ + 1]
            /\ Transmits({Request("INIT", s, Target[s])})
            /\ UNCHANGED phase
       ELSE phase' = [phase EXCEPT ![s] = "failed"] /\ UNCHANGED <<offers, net>>
    /\ UNCHANGED <<port, passes, hears, recvVars>>

\* Whoever the ACK is from is heard from now on.
HearsAck(s, m) ==
    /\ phase[s] = "handshake"
    /\ m.typ = "ACK" /\ m.to = port[s]
    /\ hears' = [hears EXCEPT ![s] = m.from]
    /\ phase' = [phase EXCEPT ![s] = "sending"]
    /\ passes' = [passes EXCEPT ![s] = 1]
    /\ UNCHANGED <<net, port, offers, recvVars>>

\* send_pending and DONE, to the target.
SendsPass(s) ==
    /\ phase[s] = "sending"
    /\ Transmits({Request("DATA", s, Target[s]), Request("DONE", s, Target[s])})
    /\ phase' = [phase EXCEPT ![s] = "feedback"]
    /\ UNCHANGED <<port, offers, passes, hears, recvVars>>

\* drain_feedback or collect_feedback: the FIN of the address that is heard.
\* The FIN_ACK goes to that address.
HearsFin(s, m) ==
    /\ phase[s] \in {"sending", "feedback"}
    /\ m.typ = "FIN" /\ m.to = port[s] /\ m.from = hears[s]
    /\ phase' = [phase EXCEPT ![s] = "completed"]
    /\ Transmits({Request("FIN_ACK", s, hears[s])})
    /\ UNCHANGED <<port, offers, passes, hears, recvVars>>

\* collect_feedback is over: a pass again, with the chunk if a NACK of the
\* address that is heard asked for it, or the end.
EndsPass(s) ==
    /\ phase[s] = "feedback"
    /\ IF passes[s] = MaxPasses[s]
       THEN phase' = [phase EXCEPT ![s] = "failed"] /\ UNCHANGED <<passes, net>>
       ELSE /\ passes' = [passes EXCEPT ![s] = @ + 1]
            /\ \/ /\ [typ |-> "NACK", from |-> hears[s], to |-> port[s], file |-> None] \in net
                  /\ phase' = [phase EXCEPT ![s] = "sending"]
                  /\ UNCHANGED net
               \/ Transmits({Request("DONE", s, Target[s])}) /\ UNCHANGED phase
    /\ UNCHANGED <<port, offers, hears, recvVars>>

SenderStep(s) ==
    \/ \E p \in Ports : Begins(s, p)
    \/ OffersAgain(s) \/ SendsPass(s) \/ EndsPass(s)
    \/ \E m \in net : HearsAck(s, m) \/ HearsFin(s, m)

-----------------------------------------------------------------------------
(* receive_loop and linger *)

\* Mutant of Hears: the session hears everyone.
HearsAll(r, m) == TRUE

\* A session hears its sender only.
Hears(r, m) == peer[r] = None \/ m.from = peer[r]

\* reset_listening
Resets(r) ==
    /\ rpc' = [rpc EXCEPT ![r] = "listening"]
    /\ peer' = [peer EXCEPT ![r] = None]
    /\ offer' = [offer EXCEPT ![r] = None]
    /\ got' = [got EXCEPT ![r] = None]

\* INIT opens a session if there is none, and is answered.
HandlesInit(r, m) ==
    /\ m.typ = "INIT" /\ rpc[r] # "linger"
    /\ IF rpc[r] = "listening"
       THEN /\ rpc' = [rpc EXCEPT ![r] = "receiving"]
            /\ peer' = [peer EXCEPT ![r] = m.from]
            /\ offer' = [offer EXCEPT ![r] = m.file]
       ELSE UNCHANGED <<rpc, peer, offer>>
    /\ Transmits({Answer("ACK", r, m.from)})
    /\ UNCHANGED <<got, saved>>

HandlesData(r, m) ==
    /\ m.typ = "DATA" /\ rpc[r] = "receiving" /\ got[r] = None
    /\ got' = [got EXCEPT ![r] = m.file]
    /\ UNCHANGED <<rpc, peer, offer, saved, net>>

\* DONE: NACK; or the hash does not match and the transfer is abandoned; or
\* the file is saved and the FIN goes out.
HandlesDone(r, m) ==
    /\ m.typ = "DONE" /\ rpc[r] = "receiving"
    /\ \/ /\ got[r] = None
          /\ Transmits({Answer("NACK", r, peer[r])})
          /\ UNCHANGED recvVars
       \/ /\ got[r] \notin {None, offer[r]}
          /\ Resets(r)
          /\ UNCHANGED <<net, saved>>
       \/ /\ got[r] # None /\ got[r] = offer[r]
          /\ saved' = saved \cup {<<r, offer[r]>>}
          /\ rpc' = [rpc EXCEPT ![r] = "linger"]
          /\ Transmits({Answer("FIN", r, peer[r])})
          /\ UNCHANGED <<peer, offer, got>>

\* Mutant of Lingers: linger answers whoever asks.
LingersForAll(r, m) ==
    /\ rpc[r] = "linger"
    /\ m.typ = "DONE" /\ Transmits({Answer("FIN", r, m.from)}) /\ UNCHANGED recvVars

\* linger: another DONE is answered, FIN_ACK ends it.
Lingers(r, m) ==
    /\ rpc[r] = "linger" /\ m.from = peer[r]
    /\ \/ m.typ = "DONE" /\ Transmits({Answer("FIN", r, peer[r])}) /\ UNCHANGED recvVars
       \/ m.typ = "FIN_ACK" /\ Resets(r) /\ UNCHANGED <<net, saved>>

\* The idle timeout, a failed write, or the end of the linger window.
GivesUp(r) ==
    /\ rpc[r] # "listening"
    /\ Resets(r)
    /\ UNCHANGED <<net, saved>>

ReceiverStep(r) ==
    /\ \/ GivesUp(r)
       \/ \E m \in net :
            /\ m.to \in Addresses /\ Host[m.to] = r
            /\ \/ Hears(r, m) /\ (HandlesInit(r, m) \/ HandlesData(r, m) \/ HandlesDone(r, m))
               \/ Lingers(r, m)
    /\ UNCHANGED sendVars

-----------------------------------------------------------------------------
\* What was sent from and to port p has arrived or is lost.
DiesOut(p) ==
    /\ net' = {m \in net : m.from # p /\ m.to # p}
    /\ net' # net
    /\ UNCHANGED <<sendVars, recvVars>>

Init ==
    /\ net = {}
    /\ phase = [s \in Sends |-> "idle"]
    /\ port = [s \in Sends |-> None]
    /\ offers = [s \in Sends |-> 0] /\ passes = [s \in Sends |-> 0]
    /\ hears = [s \in Sends |-> None]
    /\ rpc = [r \in Receivers |-> "listening"]
    /\ peer = [r \in Receivers |-> None]
    /\ offer = [r \in Receivers |-> None] /\ got = [r \in Receivers |-> None]
    /\ saved = {}

Next == \/ \E s \in Sends : SenderStep(s)
        \/ \E r \in Receivers : ReceiverStep(r)
        \/ \E p \in Ports : DiesOut(p)

Spec == Init /\ [][Next]_vars

-----------------------------------------------------------------------------
(* Properties *)

PeersTypeOK ==
    /\ net \subseteq Datagrams
    /\ phase \in [Sends -> {"idle", "handshake", "sending", "feedback", "completed", "failed"}]
    /\ port \in [Sends -> Ports \cup {None}]
    /\ offers \in [Sends -> Nat] /\ passes \in [Sends -> Nat]
    /\ hears \in [Sends -> Addresses \cup {None}]
    /\ rpc \in [Receivers -> {"listening", "receiving", "linger"}]
    /\ peer \in [Receivers -> Ports \cup {None}]
    /\ offer \in [Receivers -> Sends \cup {None}] /\ got \in [Receivers -> Sends \cup {None}]
    /\ saved \subseteq Receivers \X Sends
    /\ \A s \in Sends : Runs(s) => port[s] # None
    /\ \A s \in Sends : phase[s] \in {"sending", "feedback", "completed"} => hears[s] # None
    /\ \A r \in Receivers : rpc[r] = "listening" <=> peer[r] = None

\* "The receiver FINed: every chunk is in" (TransferEvent::Completed): a send
\* that succeeds has its file saved by the receiver it was told to send to,
\* though that receiver, and its port, have served others before.
CompletedThere == \A s \in Sends : phase[s] = "completed" => <<Host[Target[s]], s>> \in saved

\* Though the sender believes any ACK, the address it hears is one of the
\* receiver it sends to: it does not send to one receiver and wait for another.
HearsItsReceiver == \A s \in Sends : hears[s] # None => Host[hears[s]] = Host[Target[s]]

\* What a session stores is of the file its INIT announced, though DATA says
\* only where in a file its bytes belong.
SessionsApart == \A r \in Receivers : got[r] \in {None, offer[r]}
=============================================================================
