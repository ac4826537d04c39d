------------------------------- MODULE MCPeers -------------------------------
(***************************************************************************)
(* Values for the constants of Peers: two receivers, the first of which    *)
(* has two addresses and answers from one of them.                         *)
(***************************************************************************)
EXTENDS Peers

CONSTANTS s1, s2, s3, r1, r2

MCHost == [a \in Addresses |-> IF a = "b1" THEN r2 ELSE r1]
MCReply == [r \in Receivers |-> IF r = r1 THEN "a1" ELSE "b1"]

\* To the second address of r1, to r2, and to r1 again.
MCTarget == [s \in Sends |-> IF s = s1 THEN "a2" ELSE IF s = s2 THEN "b1" ELSE "a1"]

\* The first offers twice, the last makes two passes.
MCOffers == [s \in Sends |-> IF s = s1 THEN 2 ELSE 1]
MCPasses == [s \in Sends |-> IF s = s3 THEN 2 ELSE 1]
=============================================================================
