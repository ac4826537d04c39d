----------------------------- MODULE MCDirectory ------------------------------
(***************************************************************************)
(* Values for the constants of Directory.  Files are f1, f2 and g; what    *)
(* they are called and who they are sent to is the matter of each run.     *)
(***************************************************************************)
EXTENDS Directory, TLC

CONSTANTS f1, f2, g, r1, r2

\* Two files are sent to one receiver under one name, one to another.
MCTo == r1 :> {f1, f2} @@ r2 :> {g}
MCApartNames == f1 :> "f" @@ f2 :> "f" @@ g :> "g"
MCApartTmps == "f" :> "f.tmp" @@ "g" :> "g.tmp"

\* Files of one name are sent to both.
MCSameNames == f1 :> "f" @@ f2 :> "f" @@ g :> "f"
MCSameTmps == "f" :> "f.tmp"

InodeSymmetry == Permutations(Inodes)
=============================================================================
