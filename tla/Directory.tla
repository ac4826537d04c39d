------------------------------ MODULE Directory -------------------------------
(***************************************************************************)
(* The directory that udpcp recv writes to, one system call at a time:     *)
(* ReceiveState::new, store, flush, finalize and Drop of src/lib/recv.rs.  *)
(* A directory maps names to inodes; a receiver writes by the descriptor   *)
(* it got when it created name.tmp, and hashes, renames and removes by     *)
(* that name.  Receivers are processes: several may run in the directory,  *)
(* and each may be killed between any two calls and run again.             *)
(***************************************************************************)
EXTENDS Naturals, FiniteSets

CONSTANTS
    Receivers,          \* the processes
    Files,              \* the files that are sent
    To,                 \* To[r]: those that are sent to receiver r
    NameOf,             \* NameOf[f]: the path f is to have
    TmpOf,              \* TmpOf[n]: n with ".tmp" appended
    Chunks,             \* the numbers of the chunks, of every file alike
    Zero, Damaged,      \* what is in the place of a chunk: nothing yet, or damage
    Inodes,             \* bound: as many as there are
    NoInode, NoFile

Names == {NameOf[f] : f \in Files}
Paths == Names \cup {TmpOf[n] : n \in Names}

ASSUME DirectoryAssumption ==
    /\ To \in [Receivers -> SUBSET Files]
    /\ DOMAIN NameOf = Files /\ DOMAIN TmpOf = Names
    /\ {Zero, Damaged} \cap Files = {}
    /\ Chunks # {}
    /\ NoInode \notin Inodes /\ NoFile \notin Files

VARIABLES
    dir,                \* dir[p]: the inode of path p
    content,            \* content[i]: for each chunk, the file it is of
    pc,                 \* pc[r]: the call that receiver r is about to make
    file,               \* file[r]: the file of its ReceiveState
    fd,                 \* fd[r]: ReceiveState.file
    read,               \* read[r]: what finalize opened to hash
    stored              \* stored[r]: the chunks of its bitmap

vars == <<dir, content, pc, file, fd, read, stored>>

Phases == {"down", "listening", "created", "receiving", "hashing", "verified", "renamed",
           "removing", "dropping"}

\* Mutant of TmpPath: there is one tmp file for all.
TmpShared(f) == TmpOf[NameOf[CHOOSE h \in Files : TRUE]]

TmpPath(f) == TmpOf[NameOf[f]]

Final(r) == NameOf[file[r]]
Tmp(r) == TmpPath(file[r])
Whole(f) == [q \in Chunks |-> f]

\* No two receivers write the same path, and no path is the tmp of another.
\* The code sees to neither: without the first, the Drop of a receiver that has
\* renamed its tmp file may remove the one another has created since.
Apart ==
    /\ \A r, s \in Receivers : \A f \in To[r], g \in To[s] :
           NameOf[f] = NameOf[g] => r = s
    /\ \A m, n \in Names : TmpOf[m] = TmpOf[n] => m = n
    /\ \A n \in Names : TmpOf[n] \notin Names

-----------------------------------------------------------------------------
(* The file system *)

Unused == {i \in Inodes : (\A p \in Paths : dir[p] # i)
                            /\ (\A r \in Receivers : i \notin {fd[r], read[r]})}

\* open with O_CREAT and O_TRUNC: the inode of p if it has one, else a new one.
Opened(p) == IF dir[p] # NoInode THEN {dir[p]} ELSE Unused

Unlinked(p) == [dir EXCEPT ![p] = NoInode]

-----------------------------------------------------------------------------
(* ReceiveState::new *)

\* An INIT for f: File::create.
Creates(r) ==
    /\ pc[r] = "listening"
    /\ \E f \in To[r] : \E i \in Opened(TmpPath(f)) :
           /\ dir' = [dir EXCEPT ![TmpPath(f)] = i]
           /\ content' = [content EXCEPT ![i] = <<>>]
           /\ file' = [file EXCEPT ![r] = f]
           /\ fd' = [fd EXCEPT ![r] = i]
    /\ pc' = [pc EXCEPT ![r] = "created"]
    /\ UNCHANGED <<read, stored>>

\* The ReceiveState of r is gone: its descriptors are closed.
Forgets(r, next) ==
    /\ pc' = [pc EXCEPT ![r] = next]
    /\ file' = [file EXCEPT ![r] = NoFile]
    /\ fd' = [fd EXCEPT ![r] = NoInode]
    /\ read' = [read EXCEPT ![r] = NoInode]
    /\ stored' = [stored EXCEPT ![r] = {}]

\* set_len; if it fails there is no ReceiveState yet to remove the file.
Sizes(r) ==
    /\ pc[r] = "created"
    /\ \/ /\ content' = [content EXCEPT ![fd[r]] = Whole(Zero)]
          /\ pc' = [pc EXCEPT ![r] = "receiving"]
          /\ UNCHANGED <<dir, file, fd, read, stored>>
       \/ /\ Forgets(r, "listening")
          /\ UNCHANGED <<dir, content>>

-----------------------------------------------------------------------------
(* store *)

\* The write of a chunk that is not stored yet, as it was sent or damaged.
Writes(r) ==
    /\ pc[r] = "receiving"
    /\ \E q \in Chunks \ stored[r], body \in {file[r], Damaged} :
           /\ content' = [content EXCEPT
                  ![fd[r]] = [c \in Chunks |-> IF c = q THEN body
                                               ELSE IF c \in DOMAIN @ THEN @[c] ELSE Zero]]
           /\ stored' = [stored EXCEPT ![r] = @ \cup {q}]
    /\ UNCHANGED <<dir, pc, file, fd, read>>

\* A call fails, the sender is silent, or a signal: the ReceiveState is dropped.
Abandons(r) ==
    /\ pc[r] = "receiving"
    /\ pc' = [pc EXCEPT ![r] = "dropping"]
    /\ UNCHANGED <<dir, content, file, fd, read, stored>>

-----------------------------------------------------------------------------
(* flush and finalize *)

Moves(r, next) ==
    /\ pc' = [pc EXCEPT ![r] = next]
    /\ UNCHANGED <<dir, content, file, fd, stored>>

\* A DONE with all chunks stored: sync_all, and the tmp file is opened by name.
OpensTmp(r) ==
    /\ pc[r] = "receiving"
    /\ stored[r] = Chunks
    /\ \/ /\ dir[Tmp(r)] # NoInode
          /\ read' = [read EXCEPT ![r] = dir[Tmp(r)]]
          /\ Moves(r, "hashing")
       \/ Moves(r, "removing") /\ UNCHANGED read

\* Mutant of HashAgrees: the file is not hashed again.
HashTrusted(r) == TRUE

HashAgrees(r) == content[read[r]] = Whole(file[r])

\* file_hash, or the reading fails; the descriptor is closed.
Hashes(r) ==
    /\ pc[r] = "hashing"
    /\ read' = [read EXCEPT ![r] = NoInode]
    /\ \/ HashAgrees(r) /\ Moves(r, "verified")
       \/ Moves(r, "removing")

\* Mutant of Renames: the file is removed first, to make room for the new one.
RemovesFinal(r) ==
    /\ pc[r] = "verified"
    /\ \/ /\ dir[Final(r)] # NoInode
          /\ dir' = Unlinked(Final(r))
          /\ UNCHANGED pc
       \/ /\ dir[Final(r)] = NoInode
          /\ dir[Tmp(r)] # NoInode
          /\ dir' = [Unlinked(Tmp(r)) EXCEPT ![Final(r)] = dir[Tmp(r)]]
          /\ pc' = [pc EXCEPT ![r] = "renamed"]
    /\ UNCHANGED <<content, file, fd, read, stored>>

\* rename, which fails if tmp is not there (or for another reason).
Renames(r) ==
    /\ pc[r] = "verified"
    /\ \/ /\ dir[Tmp(r)] # NoInode
          /\ dir' = [Unlinked(Tmp(r)) EXCEPT ![Final(r)] = dir[Tmp(r)]]
          /\ pc' = [pc EXCEPT ![r] = "renamed"]
       \/ /\ pc' = [pc EXCEPT ![r] = "removing"]
          /\ UNCHANGED dir
    /\ UNCHANGED <<content, file, fd, read, stored>>

\* flush: finalize failed, and tmp is removed by name.
Removes(r) ==
    /\ pc[r] = "removing"
    /\ dir' = Unlinked(Tmp(r))
    /\ pc' = [pc EXCEPT ![r] = "dropping"]
    /\ UNCHANGED <<content, file, fd, read, stored>>

\* Drop of ReceiveState, whether the transfer failed or was saved.
Drops(r) ==
    /\ pc[r] \in {"dropping", "renamed"}
    /\ dir' = Unlinked(Tmp(r))
    /\ Forgets(r, "listening")
    /\ UNCHANGED content

-----------------------------------------------------------------------------
\* The process ends between two calls, or is killed, and is run again.
Killed(r) ==
    /\ pc[r] # "down"
    /\ Forgets(r, "down")
    /\ UNCHANGED <<dir, content>>

Starts(r) ==
    /\ pc[r] = "down"
    /\ Forgets(r, "listening")
    /\ UNCHANGED <<dir, content>>

Init ==
    /\ dir = [p \in Paths |-> NoInode]
    /\ content = [i \in Inodes |-> <<>>]
    /\ pc = [r \in Receivers |-> "down"]
    /\ file = [r \in Receivers |-> NoFile]
    /\ fd = [r \in Receivers |-> NoInode]
    /\ read = [r \in Receivers |-> NoInode]
    /\ stored = [r \in Receivers |-> {}]

Step(r) == \/ Creates(r) \/ Sizes(r) \/ Writes(r) \/ Abandons(r)
           \/ OpensTmp(r) \/ Hashes(r) \/ Renames(r) \/ Removes(r) \/ Drops(r)
           \/ Killed(r) \/ Starts(r)

Next == \E r \in Receivers : Step(r)

Spec == Init /\ [][Next]_vars

-----------------------------------------------------------------------------
(* Properties *)

Open == {"created", "receiving", "hashing", "verified", "renamed", "removing", "dropping"}

DirTypeOK ==
    /\ dir \in [Paths -> Inodes \cup {NoInode}]
    /\ content \in [Inodes -> {<<>>} \cup [Chunks -> Files \cup {Zero, Damaged}]]
    /\ pc \in [Receivers -> Phases]
    /\ \A r \in Receivers :
           IF pc[r] \in Open THEN file[r] \in To[r] /\ fd[r] \in Inodes
           ELSE file[r] = NoFile /\ fd[r] = NoInode
    /\ read \in [Receivers -> Inodes \cup {NoInode}]
    /\ stored \in [Receivers -> SUBSET Chunks]
    /\ DOMAIN file = Receivers /\ DOMAIN fd = Receivers

\* What a program that opens path p reads.
Seen(p) == IF dir[p] = NoInode THEN <<>> ELSE content[dir[p]]

\* A file under its final name is a whole file that was sent under that name
\* (README.md: "renamed to the final name only after SHA-256 verification
\* succeeds").
FinalWhole ==
    \A n \in Names : dir[n] # NoInode =>
        \E f \in Files : NameOf[f] = n /\ content[dir[n]] = Whole(f)

\* Whatever the name tmp stands for at the moment, what a receiver hashes,
\* renames and removes by that name is what it writes.
TmpIsOurs ==
    \A r \in Receivers :
        /\ pc[r] \in {"created", "receiving", "hashing", "verified", "removing"} =>
               dir[Tmp(r)] = fd[r]
        /\ pc[r] = "hashing" => read[r] = fd[r]
        /\ pc[r] = "dropping" => dir[Tmp(r)] \in {fd[r], NoInode}

\* A file appears, and takes the place of an older one, in one step, whole;
\* but for that no step changes what a program reads there, nor what one that
\* opened it goes on reading.
ReplacedAtOnce ==
    [][\A n \in Names :
         \/ dir'[n] = dir[n] /\ (dir[n] # NoInode => content'[dir[n]] = content[dir[n]])
         \/ /\ \E r \in Receivers : pc[r] = "verified" /\ Final(r) = n
                                    /\ Seen(n)' = Whole(file[r])
            /\ dir[n] # NoInode => content'[dir[n]] = content[dir[n]]]_vars

\* What WriteThenRename speaks of: what is at the paths, and the files that are
\* being written.
At(p) == IF dir[p] = NoInode THEN NoFile ELSE content[dir[p]]
TmpFiles == [n \in Names |-> At(TmpOf[n])]
FinalFiles == [n \in Names |-> At(n)]

Writers == {r \in Receivers : pc[r] \in Open \ {"renamed"}}
Writing == {file[r] : r \in Writers}

Replacing == INSTANCE WriteThenRename
                 WITH Senders <- Files,
                      Paths   <- Names,
                      Path    <- NameOf,
                      Content <- [f \in Files |-> Whole(f)],
                      tmp     <- TmpFiles,
                      final   <- FinalFiles,
                      writing <- Writing

\* Cut into calls that may be the last of their process, receivers still write
\* no tmp file but their own, and that reaches the final path whole or not at
\* all (recv.rs: finalize).
WritesThenRenames == Replacing!Spec
=============================================================================
