------------------------------ MODULE MCUdpcp -------------------------------
(* Instances of Udpcp for TLC. *)
EXTENDS Udpcp

CONSTANTS s1, s2, p1, p2

OneSender  == {s1}
TwoSenders == {s1, s2}

TotalTwo   == [s \in Senders |-> 2]
TotalMixed == [s \in Senders |-> IF s = s1 THEN 3 ELSE 1]
TotalEmpty == [s \in Senders |-> IF s = s1 THEN 0 ELSE 2]

OnePath  == {p1}
TwoPaths == {p1, p2}
SamePath == [s \in Senders |-> p1]
OwnPath  == [s \in Senders |-> IF s = s1 THEN p1 ELSE p2]

\* The tmp of p is none of the paths, or, to see what that is worth, that of p1
\* is p2.
TmpNames == [p \in Paths |-> <<p, "tmp">>]
TmpAlias == [p \in Paths |-> IF p = p1 THEN p2 ELSE <<p, "tmp">>]

\* What a damaged INIT of a file of two chunks, the last one short, may announce:
\* another name, a smaller size, another chunk size.
MisreadTwo ==
    {[path |-> p2, total |-> 2, chunk |-> "full", last |-> "tail"],
     [path |-> p1, total |-> 1, chunk |-> "full", last |-> "full"],
     [path |-> p1, total |-> 2, chunk |-> "tail", last |-> "full"]}

None == {}
Lossy        == {"duplicate"}
Faulty       == {"duplicate", "garble", "ioerror", "crash", "stop", "edit", "nospace",
                 "unremovable"}
Damaging     == {"duplicate", "garble", "misannounce", "misnumber", "mistype"}
Misnumbering == {"duplicate", "misnumber"}
Mistyping    == {"duplicate", "mistype"}
Misannouncing == {"duplicate", "misannounce"}
Failing      == {"ioerror", "repeat"}
NoSpace      == {"duplicate", "nospace"}
=============================================================================
