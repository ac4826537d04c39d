---------------------------- MODULE FileDelivery ----------------------------
(***************************************************************************)
(* What udpcp promises, without datagrams, chunks or sessions: a file      *)
(* appears at its path whole and at once, a sender reports success only    *)
(* for a file that has appeared, and its report is final.                  *)
(***************************************************************************)
CONSTANTS Senders, Paths, Path, NoFile,
          Content       \* Content[s]: the file s was asked to send

VARIABLES store,        \* store[p]: what a reader of p finds
          delivered,    \* the senders whose file has appeared
          outcome       \* what each sender has reported

vars == <<store, delivered, outcome>>

Init == /\ store = [p \in Paths |-> NoFile]
        /\ delivered = {}
        /\ outcome = [s \in Senders |-> "running"]

\* The file of s replaces what was at its path.  It may do so again later: a
\* serving receiver takes a delayed copy of a transfer for a new one.
Save(s) == /\ store' = [store EXCEPT ![Path[s]] = Content[s]]
           /\ delivered' = delivered \cup {s}
           /\ UNCHANGED outcome

Report(s, result) == /\ outcome[s] = "running"
                     /\ outcome' = [outcome EXCEPT ![s] = result]
                     /\ UNCHANGED <<store, delivered>>

Succeed(s) == s \in delivered /\ Report(s, "completed")
GiveUp(s) == Report(s, "failed")

Next == \E s \in Senders : Save(s) \/ Succeed(s) \/ GiveUp(s)

Spec == Init /\ [][Next]_vars
=============================================================================
