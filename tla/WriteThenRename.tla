-------------------------- MODULE WriteThenRename ---------------------------
(***************************************************************************)
(* How files come to be replaced at once: a transfer writes another file,  *)
(* name.tmp, which nobody else writes meanwhile, and renames it when it is *)
(* whole.  The tmp file of a transfer that fails is removed or left over;  *)
(* one that was left over may be used again.                               *)
(***************************************************************************)
CONSTANTS Senders, Paths, Path, NoFile,
          Content       \* Content[s]: the file s was asked to send

VARIABLES tmp,          \* tmp[p]: the file at p.tmp
          final,        \* final[p]: the file at p
          writing       \* the senders whose transfers are being written

vars == <<tmp, final, writing>>

Init == /\ tmp = [p \in Paths |-> NoFile]
        /\ final = [p \in Paths |-> NoFile]
        /\ writing = {}

\* At most the tmp file of p changes.
Touches(p) == tmp' = [tmp EXCEPT ![p] = tmp'[p]]

\* The tmp file of s is created, or emptied; perhaps for nothing.
Opens(s) == /\ \A t \in writing : Path[t] # Path[s]
            /\ Touches(Path[s])
            /\ writing' \in {writing, writing \cup {s}}
            /\ UNCHANGED final

Writes(s) == /\ s \in writing
             /\ Touches(Path[s])
             /\ UNCHANGED <<final, writing>>

\* The transfer of s is over without success.
Closes(s) == /\ s \in writing
             /\ tmp' \in {tmp, [tmp EXCEPT ![Path[s]] = NoFile]}
             /\ writing' = writing \ {s}
             /\ UNCHANGED final

Saves(s) == /\ s \in writing
            /\ tmp[Path[s]] = Content[s]
            /\ final' = [final EXCEPT ![Path[s]] = tmp[Path[s]]]
            /\ tmp' = [tmp EXCEPT ![Path[s]] = NoFile]
            /\ writing' = writing \ {s}

Next == \E s \in Senders : Opens(s) \/ Writes(s) \/ Closes(s) \/ Saves(s)

Spec == Init /\ [][Next]_vars
=============================================================================
