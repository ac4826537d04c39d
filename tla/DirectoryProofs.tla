---------------------------- MODULE DirectoryProofs ---------------------------
(***************************************************************************)
(* Directory for any number of receivers, files, chunks and inodes: as     *)
(* long as paths are apart, files are replaced at once and whole, whenever *)
(* receivers fail or are killed.                                           *)
(***************************************************************************)
EXTENDS Directory, TLAPS

\* No inode has two names.
LinksApart ==
    \A p, q \in Paths : dir[p] = dir[q] /\ dir[p] # NoInode => p = q

\* What was hashed is still so when it is renamed.
HashedInv == \A r \in Receivers : pc[r] = "verified" => content[fd[r]] = Whole(file[r])

\* After the rename nothing is under the name of tmp until the Drop: as paths are
\* apart, nobody else creates it.
RenamedInv ==
    \A r \in Receivers :
        pc[r] = "renamed" => dir[Tmp(r)] = NoInode /\ Seen(Final(r)) = Whole(file[r])

DirInv == DirTypeOK /\ LinksApart /\ FinalWhole /\ TmpIsOurs /\ HashedInv /\ RenamedInv

\* The paths of a file.
LEMMA PathsOf ==
  ASSUME NEW r \in Receivers, NEW f \in To[r]
  PROVE  /\ f \in Files /\ NameOf[f] \in Names /\ NameOf[f] \in Paths
         /\ TmpPath(f) \in Paths
         /\ Apart => TmpPath(f) \notin Names
  <1>1. f \in Files
    BY DirectoryAssumption
  <1>2. NameOf[f] \in Names
    BY <1>1 DEF Names
  <1> QED
    BY <1>1, <1>2 DEF Paths, TmpPath, Apart

\* The paths of two receivers.
LEMMA PathsApart ==
  ASSUME Apart, NEW r \in Receivers, NEW s \in Receivers, r # s,
         NEW f \in To[r], NEW h \in To[s]
  PROVE  NameOf[f] # NameOf[h] /\ TmpPath(f) # TmpPath(h) /\ TmpPath(f) # NameOf[h]
  <1>1. NameOf[f] # NameOf[h]
    BY DEF Apart
  <1>2. NameOf[f] \in Names /\ NameOf[h] \in Names /\ TmpPath(f) \notin Names
    BY PathsOf
  <1>3. TmpPath(f) # TmpPath(h)
    BY <1>1, <1>2 DEF Apart, TmpPath
  <1> QED
    BY <1>1, <1>2, <1>3

\* An open receiver has a file that was sent to it, and a descriptor.
LEMMA OpenHas ==
  ASSUME DirTypeOK, NEW r \in Receivers, pc[r] \in Open
  PROVE  /\ file[r] \in To[r] /\ fd[r] \in Inodes
         /\ Final(r) \in Names /\ Final(r) \in Paths /\ Tmp(r) \in Paths
         /\ Apart => Tmp(r) \notin Names
  <1>1. file[r] \in To[r] /\ fd[r] \in Inodes
    BY DEF DirTypeOK
  <1> QED
    BY <1>1, PathsOf DEF Final, Tmp

-----------------------------------------------------------------------------
(* Types *)

LEMMA ForgetsTypes ==
  ASSUME DirTypeOK, NEW r \in Receivers, NEW next \in {"down", "listening"}, Forgets(r, next)
  PROVE  /\ pc' \in [Receivers -> Phases]
         /\ \A s \in Receivers :
               IF pc'[s] \in Open THEN file'[s] \in To[s] /\ fd'[s] \in Inodes
               ELSE file'[s] = NoFile /\ fd'[s] = NoInode
         /\ read' \in [Receivers -> Inodes \cup {NoInode}]
         /\ stored' \in [Receivers -> SUBSET Chunks]
         /\ DOMAIN file' = Receivers /\ DOMAIN fd' = Receivers
  BY DEF DirTypeOK, Forgets, Phases, Open

LEMMA UnlinkedType ==
  ASSUME DirTypeOK, NEW p
  PROVE  Unlinked(p) \in [Paths -> Inodes \cup {NoInode}]
  BY DEF DirTypeOK, Unlinked

LEMMA StepTypes ==
  ASSUME DirTypeOK, NEW r \in Receivers, Step(r)
  PROVE  DirTypeOK'
  <1>1. CASE Creates(r)
    <2>0. PICK f \in To[r] : \E i \in Opened(TmpPath(f)) :
              /\ dir' = [dir EXCEPT ![TmpPath(f)] = i]
              /\ content' = [content EXCEPT ![i] = <<>>]
              /\ file' = [file EXCEPT ![r] = f]
              /\ fd' = [fd EXCEPT ![r] = i]
      BY <1>1 DEF Creates
    <2>1. PICK i \in Opened(TmpPath(f)) :
              /\ dir' = [dir EXCEPT ![TmpPath(f)] = i]
              /\ content' = [content EXCEPT ![i] = <<>>]
              /\ file' = [file EXCEPT ![r] = f]
              /\ fd' = [fd EXCEPT ![r] = i]
      BY <2>0
    <2>2. i \in Inodes
      BY PathsOf DEF Opened, Unused, DirTypeOK
    <2> QED
      BY <1>1, <2>1, <2>2, PathsOf DEF Creates, DirTypeOK, Phases, Open
  <1>2. CASE Sizes(r)
    <2>1. CASE Forgets(r, "listening") /\ UNCHANGED <<dir, content>>
      BY <2>1, ForgetsTypes DEF DirTypeOK
    <2>2. CASE /\ content' = [content EXCEPT ![fd[r]] = Whole(Zero)]
               /\ pc' = [pc EXCEPT ![r] = "receiving"]
               /\ UNCHANGED <<dir, file, fd, read, stored>>
      <3>1. Whole(Zero) \in [Chunks -> Files \cup {Zero, Damaged}]
        BY DEF Whole
      <3> QED
        BY <1>2, <2>2, <3>1 DEF Sizes, DirTypeOK, Phases, Open
    <2> QED
      BY <1>2, <2>1, <2>2 DEF Sizes
  <1>3. CASE Writes(r)
    <2>1. pc[r] \in Open /\ UNCHANGED <<dir, pc, file, fd, read>>
      BY <1>3 DEF Writes, Open
    <2>2. fd[r] \in Inodes /\ file[r] \in Files
      BY <2>1, OpenHas, PathsOf
    <2>3. PICK q \in Chunks, body \in {file[r], Damaged} :
              /\ content' = [content EXCEPT
                    ![fd[r]] = [c \in Chunks |-> IF c = q THEN body
                                    ELSE IF c \in DOMAIN @ THEN @[c] ELSE Zero]]
              /\ stored' = [stored EXCEPT ![r] = @ \cup {q}]
      BY <1>3 DEF Writes
    <2> DEFINE old == content[fd[r]]
    <2> DEFINE new == [c \in Chunks |-> IF c = q THEN body
                                        ELSE IF c \in DOMAIN old THEN old[c] ELSE Zero]
    <2>4. \A c \in DOMAIN old : c \in Chunks => old[c] \in Files \cup {Zero, Damaged}
      <3>1. old \in {<<>>} \cup [Chunks -> Files \cup {Zero, Damaged}]
        BY <2>2 DEF DirTypeOK
      <3>2. CASE old = <<>>
        BY <3>2
      <3>3. CASE old \in [Chunks -> Files \cup {Zero, Damaged}]
        BY <3>3
      <3> QED
        BY <3>1, <3>2, <3>3
    <2>5. new \in [Chunks -> Files \cup {Zero, Damaged}]
      BY <2>2, <2>4
    <2>6. content' = [content EXCEPT ![fd[r]] = new]
      BY <2>3
    <2> HIDE DEF new
    <2> QED
      BY <2>1, <2>3, <2>5, <2>6 DEF DirTypeOK
  <1>4. CASE Abandons(r)
    BY <1>4 DEF Abandons, DirTypeOK, Phases, Open
  <1>5. CASE OpensTmp(r)
    <2>1. Tmp(r) \in Paths
      BY <1>5, OpenHas DEF OpensTmp, Open
    <2> QED
      BY <1>5, <2>1 DEF OpensTmp, Moves, DirTypeOK, Phases, Open
  <1>6. CASE Hashes(r)
    BY <1>6 DEF Hashes, Moves, DirTypeOK, Phases, Open
  <1>7. CASE Renames(r)
    <2>1. Tmp(r) \in Paths
      BY <1>7, OpenHas DEF Renames, Open
    <2>2. dir' \in [Paths -> Inodes \cup {NoInode}]
      BY <1>7, <2>1, UnlinkedType DEF Renames, DirTypeOK
    <2> QED
      BY <1>7, <2>2 DEF Renames, DirTypeOK, Phases, Open
  <1>8. CASE Removes(r)
    BY <1>8, UnlinkedType DEF Removes, DirTypeOK, Phases, Open
  <1>9. CASE Drops(r)
    BY <1>9, ForgetsTypes, UnlinkedType DEF Drops, DirTypeOK
  <1>10. CASE Killed(r)
    BY <1>10, ForgetsTypes DEF Killed, DirTypeOK
  <1>11. CASE Starts(r)
    BY <1>11, ForgetsTypes DEF Starts, DirTypeOK
  <1> QED
    BY <1>1, <1>2, <1>3, <1>4, <1>5, <1>6, <1>7, <1>8, <1>9, <1>10, <1>11 DEF Step

-----------------------------------------------------------------------------
(* What a step touches *)

\* The others do not notice.
LEMMA OthersStay ==
  ASSUME DirTypeOK, NEW r \in Receivers, Step(r), NEW s \in Receivers, s # r
  PROVE  pc'[s] = pc[s] /\ file'[s] = file[s] /\ fd'[s] = fd[s] /\ read'[s] = read[s]
  BY DEF Step, Creates, Sizes, Writes, Abandons, OpensTmp, Hashes, Renames, Removes, Drops,
         Killed, Starts, Forgets, Moves, DirTypeOK

\* A step that writes to an inode writes to the one that the receiver's tmp
\* file is, or is made.
StepWrites(r) == /\ fd'[r] \in Inodes /\ pc'[r] \in {"created", "receiving"}
                 /\ file'[r] \in To[r]
                 /\ dir'[TmpPath(file'[r])] = fd'[r]

LEMMA WritesTmp ==
  ASSUME DirInv, NEW r \in Receivers, Step(r), NEW i \in Inodes, content'[i] # content[i]
  PROVE  StepWrites(r) /\ i = fd'[r]
  <1>1. DirTypeOK
    BY DEF DirInv
  <1>2. CASE Creates(r)
    <2>0. PICK f \in To[r] : \E k \in Opened(TmpPath(f)) :
              /\ dir' = [dir EXCEPT ![TmpPath(f)] = k]
              /\ content' = [content EXCEPT ![k] = <<>>]
              /\ file' = [file EXCEPT ![r] = f]
              /\ fd' = [fd EXCEPT ![r] = k]
      BY <1>2 DEF Creates
    <2>1. PICK k \in Opened(TmpPath(f)) :
              /\ dir' = [dir EXCEPT ![TmpPath(f)] = k]
              /\ content' = [content EXCEPT ![k] = <<>>]
              /\ file' = [file EXCEPT ![r] = f]
              /\ fd' = [fd EXCEPT ![r] = k]
      BY <2>0
    <2>2. i = k
      BY <1>1, <2>1 DEF DirTypeOK
    <2>3. fd'[r] = i /\ file'[r] = f /\ pc'[r] = "created"
      BY <1>1, <1>2, <2>1, <2>2 DEF Creates, DirTypeOK
    <2>4. dir'[TmpPath(f)] = i
      BY <1>1, <2>1, <2>2, PathsOf DEF DirTypeOK
    <2> QED
      BY <2>3, <2>4 DEF StepWrites
  <1>3. CASE Sizes(r)
    <2>1. /\ content' = [content EXCEPT ![fd[r]] = Whole(Zero)]
          /\ pc' = [pc EXCEPT ![r] = "receiving"]
          /\ UNCHANGED <<dir, file, fd, read, stored>>
      BY <1>3 DEF Sizes
    <2>2. pc[r] = "created" /\ file[r] \in To[r] /\ dir[Tmp(r)] = fd[r]
      BY <1>1, <1>3, OpenHas DEF Sizes, Open, DirInv, TmpIsOurs
    <2>3. i = fd[r]
      BY <1>1, <2>1 DEF DirTypeOK
    <2>4. pc'[r] = "receiving"
      BY <1>1, <2>1 DEF DirTypeOK
    <2> QED
      BY <2>1, <2>2, <2>3, <2>4 DEF StepWrites, Tmp
  <1>4. CASE Writes(r)
    <2>1. pc[r] = "receiving" /\ UNCHANGED <<dir, pc, file, fd, read>>
      BY <1>4 DEF Writes
    <2>2. file[r] \in To[r] /\ dir[Tmp(r)] = fd[r]
      BY <1>1, <2>1, OpenHas DEF Open, DirInv, TmpIsOurs
    <2>3. i = fd[r]
      BY <1>1, <1>4 DEF DirTypeOK, Writes
    <2> QED
      BY <2>1, <2>2, <2>3 DEF StepWrites, Tmp
  <1> QED
    BY <1>2, <1>3, <1>4 DEF Step, Abandons, OpensTmp, Hashes, Renames, Removes, Drops,
       Killed, Starts, Moves

\* A name is given to the tmp file of the receiver, or its final file.
Named(r) == /\ pc[r] = "verified" /\ pc'[r] = "renamed" /\ UNCHANGED <<file, fd, content>>
            /\ dir[Tmp(r)] # NoInode
            /\ dir' = [Unlinked(Tmp(r)) EXCEPT ![Final(r)] = dir[Tmp(r)]]

LEMMA LinksTmp ==
  ASSUME DirInv, NEW r \in Receivers, Step(r), NEW p \in Paths, dir'[p] # dir[p]
  PROVE  \/ \E f \in To[r] : p = TmpPath(f) /\ f \in {file[r], file'[r]}
         \/ p = Final(r) /\ Named(r)
  <1>1. DirTypeOK
    BY DEF DirInv
  <1>2. CASE Creates(r)
    <2>1. PICK f \in To[r] : \E k \in Opened(TmpPath(f)) :
              /\ dir' = [dir EXCEPT ![TmpPath(f)] = k]
              /\ file' = [file EXCEPT ![r] = f]
      BY <1>2 DEF Creates
    <2>2. p = TmpPath(f) /\ file'[r] = f
      BY <1>1, <2>1 DEF DirTypeOK
    <2> QED
      BY <2>2
  <1>3. CASE Renames(r)
    <2>1. pc[r] = "verified" /\ file[r] \in To[r]
      BY <1>1, <1>3, OpenHas DEF Renames, Open
    <2>2. dir' = [Unlinked(Tmp(r)) EXCEPT ![Final(r)] = dir[Tmp(r)]] /\ dir[Tmp(r)] # NoInode
          /\ pc' = [pc EXCEPT ![r] = "renamed"] /\ UNCHANGED <<file, fd, content>>
      BY <1>3 DEF Renames
    <2>3. Named(r)
      BY <1>1, <2>1, <2>2 DEF Named, DirTypeOK
    <2>4. p = Tmp(r) \/ p = Final(r)
      BY <1>1, <2>2 DEF Unlinked, DirTypeOK
    <2> QED
      BY <2>1, <2>3, <2>4 DEF Tmp
  <1>4. CASE Removes(r) \/ Drops(r)
    <2>1. file[r] \in To[r] /\ dir' = Unlinked(Tmp(r))
      BY <1>1, <1>4, OpenHas DEF Removes, Drops, Open
    <2>2. p = Tmp(r)
      BY <1>1, <2>1 DEF Unlinked, DirTypeOK
    <2> QED
      BY <2>1, <2>2 DEF Tmp
  <1> QED
    BY <1>2, <1>3, <1>4 DEF Step, Sizes, Writes, Abandons, OpensTmp, Hashes, Killed, Starts, Moves

-----------------------------------------------------------------------------
(* Links *)

\* Only a new inode is linked, or the one of tmp when that name goes.
LEMMA LinksStayApart ==
  ASSUME DirInv, Apart, NEW r \in Receivers, Step(r)
  PROVE  LinksApart'
  <1>1. DirTypeOK /\ LinksApart
    BY DEF DirInv
  <1>2. CASE Creates(r)
    <2>1. PICK f \in To[r] : \E k \in Opened(TmpPath(f)) : dir' = [dir EXCEPT ![TmpPath(f)] = k]
      BY <1>2 DEF Creates
    <2>2. PICK k \in Opened(TmpPath(f)) : dir' = [dir EXCEPT ![TmpPath(f)] = k]
      BY <2>1
    <2>3. CASE dir[TmpPath(f)] # NoInode
      <3>1. dir' = dir
        BY <1>1, <2>2, <2>3 DEF Opened, DirTypeOK
      <3> QED
        BY <3>1, <1>1 DEF LinksApart
    <2>4. CASE dir[TmpPath(f)] = NoInode
      <3>1. \A p \in Paths : dir[p] # k
        BY <2>2, <2>4 DEF Opened, Unused
      <3> QED
        BY <1>1, <2>2, <3>1 DEF LinksApart, DirTypeOK
    <2> QED
      BY <2>3, <2>4
  <1>3. CASE Removes(r) \/ Drops(r)
    <2>1. dir' = Unlinked(Tmp(r))
      BY <1>3 DEF Removes, Drops
    <2> QED
      BY <1>1, <2>1 DEF Unlinked, LinksApart, DirTypeOK
  <1>4. CASE Renames(r)
    <2>1. CASE dir' = dir
      BY <1>1, <2>1 DEF LinksApart
    <2>2. CASE dir' = [Unlinked(Tmp(r)) EXCEPT ![Final(r)] = dir[Tmp(r)]]
      <3>1. Tmp(r) \in Paths /\ Final(r) \in Paths /\ Tmp(r) # Final(r)
        BY <1>1, <1>4, OpenHas DEF Renames, Open
      <3> QED
        BY <1>1, <2>2, <3>1 DEF Unlinked, LinksApart, DirTypeOK
    <2> QED
      BY <1>4, <2>1, <2>2 DEF Renames
  <1>5. CASE dir' = dir
    BY <1>1, <1>5 DEF LinksApart
  <1> QED
    BY <1>2, <1>3, <1>4, <1>5 DEF Step, Sizes, Writes, Abandons, OpensTmp, Hashes, Killed, Starts,
       Moves

-----------------------------------------------------------------------------
(* Files in place *)

\* What is in place, or open as somebody else's tmp file, is not written.
LEMMA LinkedStays ==
  ASSUME DirInv, DirTypeOK', LinksApart', NEW r \in Receivers, Step(r),
         NEW p \in Paths, dir'[p] = dir[p], dir[p] # NoInode,
         StepWrites(r) => p # TmpPath(file'[r])
  PROVE  content'[dir[p]] = content[dir[p]]
  <1> SUFFICES ASSUME content'[dir[p]] # content[dir[p]] PROVE FALSE
    OBVIOUS
  <1>1. dir[p] \in Inodes
    BY DEF DirInv, DirTypeOK
  <1>2. StepWrites(r) /\ dir[p] = fd'[r]
    BY <1>1, WritesTmp
  <1>3. TmpPath(file'[r]) \in Paths /\ dir'[TmpPath(file'[r])] = dir'[p]
    BY <1>2, PathsOf DEF StepWrites
  <1>4. p = TmpPath(file'[r])
    BY <1>3 DEF LinksApart
  <1> QED
    BY <1>2, <1>4

LEMMA FinalStays ==
  ASSUME DirInv, Apart, DirTypeOK', LinksApart', NEW r \in Receivers, Step(r),
         NEW n \in Names, dir'[n] = dir[n], dir[n] # NoInode
  PROVE  content'[dir[n]] = content[dir[n]]
  <1>1. n \in Paths
    BY DEF Paths
  <1>2. StepWrites(r) => n # TmpPath(file'[r])
    BY PathsOf DEF StepWrites
  <1> QED
    BY <1>1, <1>2, LinkedStays

\* A file that appears is the one that was hashed.
LEMMA FinalAppears ==
  ASSUME DirInv, Apart, NEW r \in Receivers, Step(r), NEW n \in Names, dir'[n] # dir[n]
  PROVE  /\ n = Final(r) /\ Named(r)
         /\ dir'[n] = dir[Tmp(r)] /\ dir'[n] = fd[r] /\ dir'[Tmp(r)] = NoInode
         /\ content'[dir'[n]] = Whole(file[r])
  <1>1. n \in Paths /\ DirTypeOK
    BY DEF Paths, DirInv
  <1>2. n = Final(r) /\ Named(r)
    BY <1>1, LinksTmp, PathsOf
  <1>3. Final(r) \in Paths /\ Tmp(r) \in Paths /\ Tmp(r) # Final(r)
    BY <1>1, <1>2, OpenHas DEF Named, Open
  <1>4. dir'[n] = dir[Tmp(r)] /\ dir'[Tmp(r)] = NoInode
    BY <1>1, <1>2, <1>3 DEF Named, Unlinked, DirTypeOK
  <1>5. dir[Tmp(r)] = fd[r] /\ content[fd[r]] = Whole(file[r])
    BY <1>2 DEF Named, DirInv, TmpIsOurs, HashedInv
  <1> QED
    BY <1>2, <1>4, <1>5 DEF Named

LEMMA FinalWholeStays ==
  ASSUME DirInv, Apart, DirTypeOK', LinksApart', NEW r \in Receivers, Step(r)
  PROVE  FinalWhole'
  <1> SUFFICES ASSUME NEW n \in Names, dir'[n] # NoInode
               PROVE  \E f \in Files : NameOf[f] = n /\ content'[dir'[n]] = Whole(f)
    BY DEF FinalWhole
  <1>1. CASE dir'[n] = dir[n]
    <2>1. content'[dir'[n]] = content[dir[n]]
      BY <1>1, FinalStays
    <2> QED
      BY <1>1, <2>1 DEF DirInv, FinalWhole
  <1>2. CASE dir'[n] # dir[n]
    <2>1. n = Final(r) /\ Named(r) /\ content'[dir'[n]] = Whole(file[r])
      BY <1>2, FinalAppears
    <2>2. file[r] \in Files
      BY <2>1, OpenHas, PathsOf DEF DirInv, Named, Open
    <2> QED
      BY <2>1, <2>2 DEF Final
  <1> QED
    BY <1>1, <1>2

-----------------------------------------------------------------------------
(* The other receivers *)

\* What the invariant says of one receiver.
OursAt(s) ==
    /\ pc[s] \in {"created", "receiving", "hashing", "verified", "removing"} =>
           dir[Tmp(s)] = fd[s]
    /\ pc[s] = "hashing" => read[s] = fd[s]
    /\ pc[s] = "dropping" => dir[Tmp(s)] \in {fd[s], NoInode}
    /\ pc[s] = "verified" => content[fd[s]] = Whole(file[s])
    /\ pc[s] = "renamed" => dir[Tmp(s)] = NoInode /\ Seen(Final(s)) = Whole(file[s])

LEMMA InvAtEach ==
  DirInv <=> DirTypeOK /\ LinksApart /\ FinalWhole /\ \A s \in Receivers : OursAt(s)
  BY DEF DirInv, TmpIsOurs, HashedInv, RenamedInv, OursAt

LEMMA OthersKeep ==
  ASSUME DirInv, Apart, DirTypeOK', LinksApart', NEW r \in Receivers, Step(r),
         NEW s \in Receivers, s # r
  PROVE  OursAt(s)'
  <1>1. DirTypeOK /\ OursAt(s)
    BY InvAtEach
  <1>2. pc'[s] = pc[s] /\ file'[s] = file[s] /\ fd'[s] = fd[s] /\ read'[s] = read[s]
    BY <1>1, OthersStay
  <1>3. CASE pc[s] \notin Open
    BY <1>2, <1>3 DEF OursAt, Open
  <1>4. CASE pc[s] \in Open
    <2>1. file[s] \in To[s] /\ Tmp(s) \in Paths /\ Final(s) \in Names /\ Final(s) \in Paths
      BY <1>1, <1>4, OpenHas
    <2>2. Tmp(s)' = Tmp(s) /\ Final(s)' = Final(s)
      BY <1>2 DEF Tmp, Final
    <2>3. ASSUME Named(r) PROVE file[r] \in To[r]
      BY <1>1, <2>3, OpenHas DEF Named, Open
    <2>4. dir'[Tmp(s)] = dir[Tmp(s)] /\ dir'[Final(s)] = dir[Final(s)]
      BY <2>1, <2>3, LinksTmp, PathsApart DEF Tmp, Final
    <2>5. StepWrites(r) => Tmp(s) # TmpPath(file'[r])
      BY <2>1, PathsApart DEF StepWrites, Tmp
    <2>6. pc[s] = "verified" => content'[fd[s]] = content[fd[s]]
      <3> SUFFICES ASSUME pc[s] = "verified" PROVE content'[fd[s]] = content[fd[s]]
        OBVIOUS
      <3>1. dir[Tmp(s)] = fd[s] /\ fd[s] \in Inodes /\ fd[s] # NoInode
        BY <1>1, <1>4, OpenHas, DirectoryAssumption DEF OursAt
      <3> QED
        BY <3>1, <2>1, <2>4, <2>5, LinkedStays
    <2>7. Seen(Final(s))' = Seen(Final(s))
      <3>1. dir[Final(s)] # NoInode => content'[dir[Final(s)]] = content[dir[Final(s)]]
        BY <2>1, <2>4, FinalStays
      <3> QED
        BY <2>2, <2>4, <3>1 DEF Seen
    <2> QED
      BY <1>1, <1>2, <2>2, <2>4, <2>6, <2>7 DEF OursAt, Whole
  <1> QED
    BY <1>3, <1>4

-----------------------------------------------------------------------------
(* The receiver itself *)

LEMMA SelfKeeps ==
  ASSUME DirInv, Apart, DirTypeOK', LinksApart', NEW r \in Receivers, Step(r)
  PROVE  OursAt(r)'
  <1>1. DirTypeOK /\ OursAt(r)
    BY InvAtEach
  <1>2. CASE Creates(r)
    <2>1. PICK f \in To[r] : \E k \in Opened(TmpPath(f)) :
              /\ dir' = [dir EXCEPT ![TmpPath(f)] = k]
              /\ file' = [file EXCEPT ![r] = f]
              /\ fd' = [fd EXCEPT ![r] = k]
      BY <1>2 DEF Creates
    <2>2. PICK k \in Opened(TmpPath(f)) :
              /\ dir' = [dir EXCEPT ![TmpPath(f)] = k]
              /\ file' = [file EXCEPT ![r] = f]
              /\ fd' = [fd EXCEPT ![r] = k]
      BY <2>1
    <2>3. pc'[r] = "created"
      BY <1>1, <1>2 DEF Creates, DirTypeOK
    <2>4. file'[r] = f /\ fd'[r] = k /\ dir'[TmpPath(f)] = k
      BY <1>1, <2>2, PathsOf DEF DirTypeOK
    <2> QED
      BY <2>3, <2>4 DEF OursAt, Tmp
  <1>3. CASE \E next \in {"down", "listening"} : Forgets(r, next)
    <2>1. pc'[r] \in {"down", "listening"}
      BY <1>1, <1>3 DEF Forgets, DirTypeOK
    <2> QED
      BY <2>1 DEF OursAt
  <1>4. CASE pc'[r] = "receiving" /\ UNCHANGED <<dir, file, fd>> /\ pc[r] \in {"created", "receiving"}
    BY <1>1, <1>4 DEF OursAt, Tmp
  <1>5. CASE Abandons(r)
    <2>1. pc[r] = "receiving" /\ pc'[r] = "dropping" /\ UNCHANGED <<dir, file, fd>>
      BY <1>1, <1>5 DEF Abandons, DirTypeOK
    <2> QED
      BY <1>1, <2>1 DEF OursAt, Tmp
  <1>6. CASE OpensTmp(r)
    <2>1. pc[r] = "receiving" /\ UNCHANGED <<dir, file, fd>>
      BY <1>6 DEF OpensTmp, Moves
    <2>2. \/ pc'[r] = "hashing" /\ read'[r] = dir[Tmp(r)]
          \/ pc'[r] = "removing"
      BY <1>1, <1>6 DEF OpensTmp, Moves, DirTypeOK
    <2> QED
      BY <1>1, <2>1, <2>2 DEF OursAt, Tmp
  <1>7. CASE Hashes(r)
    <2>1. pc[r] = "hashing" /\ UNCHANGED <<dir, file, fd, content>>
      BY <1>7 DEF Hashes, Moves
    <2>2. \/ pc'[r] = "verified" /\ content[read[r]] = Whole(file[r])
          \/ pc'[r] = "removing"
      BY <1>1, <1>7 DEF Hashes, HashAgrees, Moves, DirTypeOK
    <2> QED
      BY <1>1, <2>1, <2>2 DEF OursAt, Tmp, Whole
  <1>8. CASE Renames(r)
    <2>1. pc[r] = "verified" /\ UNCHANGED <<file, fd, content>>
      BY <1>8 DEF Renames
    <2>2. CASE pc' = [pc EXCEPT ![r] = "removing"] /\ UNCHANGED dir
      BY <1>1, <2>1, <2>2 DEF OursAt, Tmp, DirTypeOK
    <2>3. CASE /\ dir[Tmp(r)] # NoInode
               /\ dir' = [Unlinked(Tmp(r)) EXCEPT ![Final(r)] = dir[Tmp(r)]]
               /\ pc' = [pc EXCEPT ![r] = "renamed"]
      <3>1. Final(r) \in Paths /\ Tmp(r) \in Paths /\ Tmp(r) # Final(r)
        BY <1>1, <2>1, OpenHas DEF Open
      <3>2. dir'[Final(r)] = fd[r] /\ dir'[Tmp(r)] = NoInode /\ fd[r] # NoInode
        BY <1>1, <2>1, <2>3, <3>1 DEF Unlinked, DirTypeOK, OursAt
      <3>3. Final(r)' = Final(r) /\ Tmp(r)' = Tmp(r) /\ Whole(file[r])' = Whole(file[r])
        BY <2>1 DEF Final, Tmp, Whole
      <3>4. content'[fd[r]] = Whole(file[r])
        BY <1>1, <2>1 DEF OursAt
      <3>5. Seen(Final(r))' = Whole(file[r])'
        BY <3>2, <3>3, <3>4 DEF Seen
      <3>6. pc'[r] = "renamed"
        BY <1>1, <2>3 DEF DirTypeOK
      <3> QED
        BY <3>2, <3>3, <3>5, <3>6 DEF OursAt
    <2> QED
      BY <1>8, <2>2, <2>3 DEF Renames
  <1>9. CASE Removes(r)
    <2>1. pc[r] = "removing" /\ pc'[r] = "dropping" /\ UNCHANGED <<file, fd>>
          /\ dir' = Unlinked(Tmp(r))
      BY <1>1, <1>9 DEF Removes, DirTypeOK
    <2>2. Tmp(r) \in Paths
      BY <1>1, <2>1, OpenHas DEF Open
    <2>3. dir'[Tmp(r)] = NoInode /\ Tmp(r)' = Tmp(r)
      BY <1>1, <2>1, <2>2 DEF Unlinked, Tmp, DirTypeOK
    <2> QED
      BY <2>1, <2>3 DEF OursAt
  <1>10. CASE Sizes(r) \/ Writes(r)
    <2>1. CASE Forgets(r, "listening")
      BY <2>1, <1>3
    <2>2. CASE Sizes(r) /\ ~Forgets(r, "listening")
      <3>1. pc'[r] = "receiving" /\ UNCHANGED <<dir, file, fd>> /\ pc[r] = "created"
        BY <1>1, <2>2 DEF Sizes, DirTypeOK
      <3> QED
        BY <3>1, <1>4
    <2>3. CASE Writes(r)
      BY <2>3, <1>4 DEF Writes
    <2> QED
      BY <1>10, <2>1, <2>2, <2>3
  <1>11. CASE Drops(r) \/ Killed(r) \/ Starts(r)
    BY <1>11, <1>3 DEF Drops, Killed, Starts
  <1> QED
    BY <1>2, <1>5, <1>6, <1>7, <1>8, <1>9, <1>10, <1>11 DEF Step

-----------------------------------------------------------------------------
(* Theorems *)

LEMMA InitDir == Init => DirInv
  <1> SUFFICES ASSUME Init PROVE DirInv
    OBVIOUS
  <1>1. DirTypeOK
    BY DEF Init, DirTypeOK, Phases, Open
  <1>2. LinksApart /\ FinalWhole
    BY DEF Init, LinksApart, FinalWhole, Paths
  <1>3. \A r \in Receivers : OursAt(r)
    BY DEF Init, OursAt
  <1> QED
    BY <1>1, <1>2, <1>3, InvAtEach

LEMMA StepKeeps == ASSUME DirInv, Apart, NEW r \in Receivers, Step(r) PROVE DirInv'
  <1>1. DirTypeOK'
    BY StepTypes DEF DirInv
  <1>2. LinksApart'
    BY LinksStayApart
  <1>3. FinalWhole'
    BY <1>1, <1>2, FinalWholeStays
  <1>4. ASSUME NEW s \in Receivers PROVE OursAt(s)'
    BY <1>1, <1>2, OthersKeep, SelfKeeps
  <1>5. (\A s \in Receivers : OursAt(s))'
    BY <1>4
  <1>6. DirInv' <=> (DirTypeOK /\ LinksApart /\ FinalWhole /\ \A s \in Receivers : OursAt(s))'
    BY InvAtEach, PTL
  <1> QED
    BY <1>1, <1>2, <1>3, <1>5, <1>6

\* In every state names, inodes and receivers are as the invariant says.
THEOREM DirInvariant == ASSUME Apart PROVE Spec => []DirInv
  <1>1. ASSUME DirInv, [Next]_vars PROVE DirInv'
    <2>1. CASE \E r \in Receivers : Step(r)
      BY <1>1, <2>1, StepKeeps
    <2>2. CASE UNCHANGED vars
      <3>1. /\ dir' = dir /\ content' = content /\ pc' = pc /\ file' = file
            /\ fd' = fd /\ read' = read /\ stored' = stored
        BY <2>2 DEF vars
      <3> QED
        BY <3>1, <1>1 DEF DirInv, DirTypeOK, LinksApart, FinalWhole, TmpIsOurs, HashedInv,
            RenamedInv, Tmp, Final, Seen, Whole
    <2> QED
      BY <1>1, <2>1, <2>2 DEF Next
  <1> QED
    BY <1>1, InitDir, PTL DEF Spec

\* A receiver is at one of its calls, with a descriptor exactly while a
\* ReceiveState is open.
THEOREM DirTypes == ASSUME Apart PROVE Spec => []DirTypeOK
  BY DirInvariant, PTL DEF DirInv

\* What is under the final name of a file is such a file, whole.
THEOREM FinalIsVerified == ASSUME Apart PROVE Spec => []FinalWhole
  BY DirInvariant, PTL DEF DirInv

\* The name of the tmp file stands for what its receiver writes.
THEOREM TmpStaysOurs == ASSUME Apart PROVE Spec => []TmpIsOurs
  BY DirInvariant, PTL DEF DirInv

\* A file appears whole, in one step, and whoever opened the one before may
\* read it to the end.
THEOREM Atomic == ASSUME Apart PROVE Spec => ReplacedAtOnce
  <1> DEFINE A == \A n \in Names :
         \/ dir'[n] = dir[n] /\ (dir[n] # NoInode => content'[dir[n]] = content[dir[n]])
         \/ /\ \E r \in Receivers : pc[r] = "verified" /\ Final(r) = n
                                    /\ Seen(n)' = Whole(file[r])
            /\ dir[n] # NoInode => content'[dir[n]] = content[dir[n]]
  <1>1. ASSUME DirInv, Next PROVE A
    <2>1. PICK r \in Receivers : Step(r)
      BY <1>1 DEF Next
    <2>2. DirTypeOK' /\ LinksApart'
      BY <1>1, <2>1, StepKeeps DEF DirInv
    <2> SUFFICES ASSUME NEW n \in Names, dir'[n] # dir[n]
                 PROVE  /\ \E s \in Receivers : pc[s] = "verified" /\ Final(s) = n
                                                /\ Seen(n)' = Whole(file[s])
                        /\ dir[n] # NoInode => content'[dir[n]] = content[dir[n]]
      BY <1>1, <2>1, <2>2, FinalStays
    <2>3. /\ n = Final(r) /\ Named(r) /\ dir'[n] = fd[r]
          /\ content'[dir'[n]] = Whole(file[r])
      BY <1>1, <2>1, FinalAppears
    <2>4. fd[r] # NoInode
      BY <1>1, <2>3, OpenHas, DirectoryAssumption DEF DirInv, Named, Open
    <2>5. Seen(n)' = Whole(file[r])
      BY <2>3, <2>4 DEF Seen
    <2> QED
      BY <2>3, <2>5 DEF Named
  <1>2. ASSUME DirInv, [Next]_vars PROVE [A]_vars
    BY <1>1, <1>2
  <1> QED
    BY <1>2, DirInvariant, PTL DEF Spec, ReplacedAtOnce

-----------------------------------------------------------------------------
(* The directory implements FileDelivery.  What it promises of files is    *)
(* what Udpcp promises, although here a receiver needs many calls for what *)
(* is one step there, and may be killed between them; what senders report  *)
(* is not seen from the directory.                                         *)

\* A history variable: the files that have been renamed into their place.
VARIABLE saved

Remembers ==
    saved' = saved \cup {file[r] : r \in {q \in Receivers :
                                             pc[q] = "verified" /\ pc'[q] = "renamed"}}

RecordedSpec == Init /\ saved = {} /\ [][Next /\ Remembers]_<<vars, saved>>

Content == [f \in Files |-> Whole(f)]
Store == [n \in Names |-> Seen(n)]

Promise == INSTANCE FileDelivery
               WITH Senders   <- Files,
                    Paths     <- Names,
                    Path      <- NameOf,
                    NoFile    <- <<>>,
                    store     <- Store,
                    delivered <- saved,
                    outcome   <- [f \in Files |-> "running"]

\* Every call leaves all files in place as they are, but for a rename, which
\* saves the file of its receiver.
LEMMA SavesOrStays ==
  ASSUME DirInv, Apart, NEW r \in Receivers, Step(r), Remembers
  PROVE  \/ Store' = Store /\ saved' = saved
         \/ \E f \in Files : /\ Store' = [Store EXCEPT ![NameOf[f]] = Whole(f)]
                             /\ saved' = saved \cup {f}
  <1>1. DirTypeOK /\ DirTypeOK' /\ LinksApart'
    BY StepKeeps DEF DirInv
  <1>2. \A q \in Receivers : q # r => pc'[q] = pc[q]
    BY <1>1, OthersStay
  <1>3. ASSUME NEW n \in Names, dir'[n] = dir[n] PROVE Seen(n)' = Seen(n)
    BY <1>1, <1>3, FinalStays DEF Seen
  <1>4. CASE pc[r] = "verified" /\ pc'[r] = "renamed"
    <2>1. file[r] \in Files /\ Final(r) \in Names
      BY <1>1, <1>4, OpenHas, DirectoryAssumption DEF Open
    <2>2. saved' = saved \cup {file[r]}
      BY <1>2, <1>4 DEF Remembers
    <2>3. Named(r)
      BY <1>1, <1>4 DEF Step, Creates, Sizes, Writes, Abandons, OpensTmp, Hashes, Renames,
                        Removes, Drops, Killed, Starts, Forgets, Moves, Named, DirTypeOK
    <2>4. Final(r) \in Paths /\ Tmp(r) \in Paths /\ Tmp(r) # Final(r)
      BY <1>1, <1>4, OpenHas DEF Open
    <2>5. dir'[Final(r)] = fd[r] /\ content'[fd[r]] = Whole(file[r])
      BY <1>1, <2>3, <2>4 DEF Named, Unlinked, DirTypeOK, DirInv, TmpIsOurs, HashedInv
    <2>6. fd[r] # NoInode
      BY <1>1, <1>4, OpenHas, DirectoryAssumption DEF Open
    <2>7. ASSUME NEW n \in Names, n = Final(r) PROVE Seen(n)' = Whole(file[r])
      BY <2>5, <2>6, <2>7 DEF Seen
    <2>8. ASSUME NEW n \in Names, n # Final(r) PROVE Seen(n)' = Seen(n)
      <3>1. dir'[n] = dir[n]
        BY <2>8, FinalAppears
      <3> QED
        BY <1>3, <3>1
    <2>9. Store' = [Store EXCEPT ![Final(r)] = Whole(file[r])]
      BY <2>1, <2>7, <2>8 DEF Store
    <2> QED
      BY <2>1, <2>2, <2>9 DEF Final
  <1>5. CASE ~(pc[r] = "verified" /\ pc'[r] = "renamed")
    <2>1. saved' = saved
      BY <1>2, <1>5 DEF Remembers
    <2>2. ASSUME NEW n \in Names PROVE Seen(n)' = Seen(n)
      BY <1>3, <1>5, FinalAppears DEF Named
    <2> QED
      BY <2>1, <2>2 DEF Store
  <1> QED
    BY <1>4, <1>5

LEMMA PromiseInit == Init /\ saved = {} => Promise!Init
  <1> SUFFICES ASSUME Init, saved = {}, NEW n \in Names PROVE Seen(n) = <<>>
    BY DEF Promise!Init, Store
  <1> QED
    BY DEF Init, Seen, Paths

LEMMA PromiseStep ==
  ASSUME DirInv, Apart, [Next /\ Remembers]_<<vars, saved>>
  PROVE  [Promise!Next]_(Promise!vars)
  <1>1. CASE Next /\ Remembers
    <2>1. PICK r \in Receivers : Step(r)
      BY <1>1 DEF Next
    <2>2. CASE Store' = Store /\ saved' = saved
      BY <2>2 DEF Promise!vars
    <2>3. ASSUME NEW f \in Files, Store' = [Store EXCEPT ![NameOf[f]] = Whole(f)],
                 saved' = saved \cup {f}
          PROVE  Promise!Next
      BY <2>3 DEF Promise!Save, Promise!Next, Content
    <2> QED
      BY <1>1, <2>1, <2>2, <2>3, SavesOrStays
  <1>2. CASE UNCHANGED <<vars, saved>>
    BY <1>2 DEF vars, Store, Seen, Promise!vars
  <1> QED
    BY <1>1, <1>2

\* The system calls of any number of receivers, failing and killed anywhere,
\* implement FileDelivery as long as paths are apart: whoever opens a file
\* under its final name finds what an atomic transfer would have left there.
THEOREM DirectoryKeepsPromise == ASSUME Apart PROVE RecordedSpec => Promise!Spec
  <1>1. RecordedSpec => Spec
    <2>1. [Next /\ Remembers]_<<vars, saved>> => [Next]_vars
      OBVIOUS
    <2> QED
      BY <2>1, PTL DEF RecordedSpec, Spec
  <1>2. DirInv /\ [Next /\ Remembers]_<<vars, saved>> => [Promise!Next]_(Promise!vars)
    BY PromiseStep
  <1> QED
    BY <1>1, <1>2, PromiseInit, DirInvariant, PTL DEF RecordedSpec, Promise!Spec

-----------------------------------------------------------------------------
(* The directory implements WriteThenRename as well, as the receiver of    *)
(* Udpcp does: what is one step there may be cut into system calls here.   *)

\* A call of one receiver changes what is at the tmp path of its file, and
\* what is at the final path when it renames.
LEMMA PathsStay ==
  ASSUME DirInv, Apart, NEW r \in Receivers, Step(r), NEW p \in Paths,
         dir'[p] = dir[p],
         StepWrites(r) => p # TmpPath(file'[r])
  PROVE  At(p)' = At(p)
  <1>1. DirTypeOK' /\ LinksApart'
    BY StepKeeps DEF DirInv
  <1>2. CASE dir[p] = NoInode
    BY <1>2 DEF At
  <1>3. CASE dir[p] # NoInode
    BY <1>1, <1>3, LinkedStays DEF At
  <1> QED
    BY <1>2, <1>3

LEMMA FinalsStay ==
  ASSUME DirInv, Apart, NEW r \in Receivers, Step(r), ~Named(r)
  PROVE  FinalFiles' = FinalFiles
  <1>1. DirTypeOK' /\ LinksApart'
    BY StepKeeps DEF DirInv
  <1> SUFFICES ASSUME NEW n \in Names PROVE At(n)' = At(n)
    BY DEF FinalFiles
  <1>2. dir'[n] = dir[n]
    BY <1>1, FinalAppears
  <1>3. n \in Paths /\ (StepWrites(r) => n # TmpPath(file'[r]))
    BY PathsOf DEF Paths, StepWrites
  <1> QED
    BY <1>2, <1>3, PathsStay

\* Tmp files of other names than that of f stay.
LEMMA TmpsStay ==
  ASSUME DirInv, Apart, NEW r \in Receivers, Step(r), NEW f \in To[r],
         pc[r] \in Open => f = file[r],
         pc'[r] \in Open => f = file'[r]
  PROVE  /\ TmpFiles' = [TmpFiles EXCEPT ![NameOf[f]] = TmpFiles'[NameOf[f]]]
         /\ NameOf[f] \in Names
  <1>1. DirTypeOK /\ DirTypeOK'
    BY StepKeeps DEF DirInv
  <1>2. NameOf[f] \in Names /\ TmpPath(f) \in Paths
    BY PathsOf
  <1>3. ASSUME NEW n \in Names, n # NameOf[f] PROVE At(TmpOf[n])' = At(TmpOf[n])
    <2>1. TmpOf[n] \in Paths /\ TmpOf[n] # TmpPath(f) /\ TmpOf[n] \notin Names
      BY <1>2, <1>3 DEF Paths, Apart, TmpPath
    <2>2. dir'[TmpOf[n]] = dir[TmpOf[n]]
      <3>1. SUFFICES ASSUME dir'[TmpOf[n]] # dir[TmpOf[n]] PROVE FALSE
        OBVIOUS
      <3>2. CASE TmpOf[n] = Final(r) /\ Named(r)
        BY <1>1, <2>1, <3>2, OpenHas DEF Named, Open
      <3>3. PICK g \in To[r] : TmpOf[n] = TmpPath(g) /\ g \in {file[r], file'[r]}
        BY <2>1, <3>1, <3>2, LinksTmp
      <3>4. g # NoFile
        BY DirectoryAssumption
      <3>5. g = f
        BY <1>1, <3>3, <3>4 DEF DirTypeOK
      <3> QED
        BY <2>1, <3>3, <3>5
    <2>3. StepWrites(r) => TmpOf[n] # TmpPath(file'[r])
      BY <2>1 DEF StepWrites, Open
    <2> QED
      BY <2>1, <2>2, <2>3, PathsStay
  <1> QED
    BY <1>2, <1>3 DEF TmpFiles

\* The files that the other receivers write; no file of r has the name of one.
Others(r) == {file[s] : s \in Writers \ {r}}

LEMMA OthersWrite ==
  ASSUME DirTypeOK, NEW r \in Receivers, Step(r)
  PROVE  /\ Others(r)' = Others(r)
         /\ Writing = Others(r) \cup {file[s] : s \in Writers \cap {r}}
         /\ Writing' = Others(r) \cup {file'[s] : s \in Writers' \cap {r}}
  <1>1. \A s \in Receivers \ {r} : pc'[s] = pc[s] /\ file'[s] = file[s]
    BY OthersStay
  <1>2. Others(r)' = Others(r)
    BY <1>1 DEF Others, Writers
  <1>3. Writing = Others(r) \cup {file[s] : s \in Writers \cap {r}}
    BY DEF Writing, Others
  <1>4. Writing' = Others(r)' \cup {file'[s] : s \in Writers' \cap {r}}
    BY DEF Writing, Others
  <1> QED
    BY <1>2, <1>3, <1>4

LEMMA OthersApart ==
  ASSUME DirTypeOK, Apart, NEW r \in Receivers, NEW f \in To[r], NEW g \in Others(r)
  PROVE  NameOf[g] # NameOf[f] /\ g # f
  <1>1. PICK s \in Writers \ {r} : g = file[s]
    BY DEF Others
  <1>2. s \in Receivers /\ s # r /\ g \in To[s]
    BY <1>1, OpenHas DEF Writers
  <1> QED
    BY <1>2, PathsApart

\* How a call moves its receiver: it starts to write, goes on, stops, renames,
\* or does not write at all.
LEMMA WritingSteps ==
  ASSUME DirTypeOK, NEW r \in Receivers, Step(r)
  PROVE  \/ Creates(r)
         \/ r \in Writers /\ r \in Writers' /\ UNCHANGED file
         \/ /\ r \in Writers /\ r \notin Writers'
            /\ \/ Named(r)
               \/ /\ UNCHANGED content
                  /\ dir' = dir \/ dir' = Unlinked(Tmp(r))
         \/ /\ r \notin Writers /\ r \notin Writers'
            /\ UNCHANGED content
            /\ dir' = dir \/ (pc[r] = "renamed" /\ dir' = Unlinked(Tmp(r)))
  <1>1. CASE Sizes(r)
    <2>1. CASE Forgets(r, "listening")
      <3>1. pc[r] = "created" /\ pc'[r] = "listening" /\ UNCHANGED <<dir, content>>
        BY <1>1, <2>1 DEF Sizes, Forgets, DirTypeOK
      <3> QED
        BY <2>1, <3>1 DEF Writers, Open
    <2>2. CASE pc' = [pc EXCEPT ![r] = "receiving"] /\ UNCHANGED file
      <3>1. pc[r] = "created" /\ pc'[r] = "receiving"
        BY <1>1, <2>2 DEF Sizes, DirTypeOK
      <3> QED
        BY <2>2, <3>1 DEF Writers, Open
    <2> QED
      BY <1>1, <2>1, <2>2 DEF Sizes
  <1>2. CASE Writes(r) \/ Abandons(r)
    <2>1. pc[r] = "receiving" /\ pc'[r] \in {"receiving", "dropping"} /\ UNCHANGED file
      BY <1>2 DEF Writes, Abandons, DirTypeOK
    <2> QED
      BY <2>1 DEF Writers, Open
  <1>3. CASE OpensTmp(r) \/ Hashes(r) \/ Removes(r)
    <2>1. /\ pc[r] \in {"receiving", "hashing", "removing"}
          /\ pc'[r] \in {"hashing", "verified", "removing", "dropping"} /\ UNCHANGED file
      BY <1>3 DEF OpensTmp, Hashes, Removes, Moves, DirTypeOK
    <2> QED
      BY <2>1 DEF Writers, Open
  <1>4. CASE Renames(r)
    <2>1. CASE pc' = [pc EXCEPT ![r] = "renamed"]
      <3>1. pc[r] = "verified" /\ pc'[r] = "renamed" /\ Named(r)
        BY <1>4, <2>1 DEF Renames, Named, DirTypeOK
      <3> QED
        BY <3>1 DEF Writers, Open
    <2>2. CASE pc' = [pc EXCEPT ![r] = "removing"]
      <3>1. pc[r] = "verified" /\ pc'[r] = "removing" /\ UNCHANGED file
        BY <1>4, <2>2 DEF Renames, DirTypeOK
      <3> QED
        BY <3>1 DEF Writers, Open
    <2> QED
      BY <1>4, <2>1, <2>2 DEF Renames
  <1>5. CASE Drops(r)
    <2>1. /\ pc[r] \in {"dropping", "renamed"} /\ pc'[r] = "listening"
          /\ dir' = Unlinked(Tmp(r)) /\ UNCHANGED content
      BY <1>5 DEF Drops, Forgets, DirTypeOK
    <2> QED
      BY <2>1 DEF Writers, Open
  <1>6. CASE Killed(r) \/ Starts(r)
    <2>1. pc'[r] \in {"down", "listening"} /\ UNCHANGED <<dir, content>>
      BY <1>6 DEF Killed, Starts, Forgets, DirTypeOK
    <2>2. r \notin Writers'
      BY <2>1 DEF Writers, Open
    <2> QED
      BY <2>1, <2>2
  <1> QED
    BY <1>1, <1>2, <1>3, <1>4, <1>5, <1>6 DEF Step

\* When the name of a tmp file goes and no inode is written, that is all that
\* happens.
LEMMA UnlinkTakes ==
  ASSUME DirTypeOK, Apart, NEW f \in Files, UNCHANGED content, dir' = Unlinked(TmpPath(f))
  PROVE  TmpFiles' = [TmpFiles EXCEPT ![NameOf[f]] = NoFile] /\ FinalFiles' = FinalFiles
  <1>1. NameOf[f] \in Names /\ TmpPath(f) \in Paths /\ TmpPath(f) \notin Names
    BY DEF Names, Paths, TmpPath, Apart
  <1>2. \A q \in Paths : dir'[q] = IF q = TmpPath(f) THEN NoInode ELSE dir[q]
    BY <1>1 DEF Unlinked, DirTypeOK
  <1>3. At(TmpPath(f))' = NoFile
    <2>1. dir'[TmpPath(f)] = NoInode
      BY <1>1, <1>2
    <2> QED
      BY <2>1 DEF At, TmpPath
  <1>4. ASSUME NEW q \in Paths, q # TmpPath(f) PROVE At(q)' = At(q)
    BY <1>2, <1>4 DEF At
  <1>5. ASSUME NEW n \in Names
        PROVE  /\ TmpOf[n] \in Paths /\ n \in Paths /\ n # TmpPath(f)
               /\ n # NameOf[f] => TmpOf[n] # TmpPath(f)
    BY <1>1 DEF Paths, TmpPath, Apart
  <1>6. FinalFiles' = FinalFiles
    BY <1>4, <1>5 DEF FinalFiles
  <1>7. TmpFiles' = [TmpFiles EXCEPT ![NameOf[f]] = NoFile]
    BY <1>1, <1>3, <1>4, <1>5 DEF TmpFiles, TmpPath
  <1> QED
    BY <1>6, <1>7

LEMMA OpensStep ==
  ASSUME DirInv, Apart, NEW r \in Receivers, Creates(r)
  PROVE  \E f \in Files : Replacing!Opens(f)
  <1>1. DirTypeOK /\ Step(r) /\ pc[r] = "listening" /\ pc'[r] = "created"
    BY DEF DirInv, Creates, Step, DirTypeOK
  <1>2. PICK f \in To[r] : file' = [file EXCEPT ![r] = f]
    BY DEF Creates
  <1>3. f \in Files /\ file'[r] = f
    BY <1>1, <1>2, PathsOf DEF DirTypeOK
  <1>4. r \notin Writers /\ r \in Writers'
    BY <1>1 DEF Writers, Open
  <1>5. Writing = Others(r) /\ Writing' = Others(r) \cup {f}
    <2>1. Writers \cap {r} = {} /\ Writers' \cap {r} = {r}
      BY <1>4
    <2>2. {file[s] : s \in {}} = {} /\ {file'[s] : s \in {r}} = {f}
      BY <1>3
    <2> QED
      BY <1>1, <2>1, <2>2, OthersWrite
  <1>6. TmpFiles' = [TmpFiles EXCEPT ![NameOf[f]] = TmpFiles'[NameOf[f]]]
    BY <1>1, <1>3, TmpsStay DEF Open
  <1>7. FinalFiles' = FinalFiles
    BY <1>1, FinalsStay DEF Named
  <1>8. \A g \in Writing : NameOf[g] # NameOf[f]
    BY <1>1, <1>5, OthersApart
  <1>9. Replacing!Opens(f)
    BY <1>5, <1>6, <1>7, <1>8 DEF Replacing!Opens, Replacing!Touches
  <1> QED
    BY <1>3, <1>9

\* What a writing receiver does to its file.
LEMMA WriterStep ==
  ASSUME DirInv, Apart, NEW r \in Receivers, Step(r), r \in Writers
  PROVE  \E f \in Files : Replacing!Writes(f) \/ Replacing!Closes(f) \/ Replacing!Saves(f)
  <1> DEFINE f == file[r]
  <1>1. DirTypeOK /\ pc[r] \in Open
    BY DEF DirInv, Writers
  <1>2. /\ f \in To[r] /\ f \in Files /\ NameOf[f] = Final(r) /\ TmpPath(f) = Tmp(r)
        /\ Final(r) \in Names /\ Final(r) \in Paths /\ Tmp(r) \in Paths /\ Tmp(r) \notin Names
    BY <1>1, OpenHas, PathsOf DEF Final, Tmp
  <1>3. f \in Writing
    BY DEF Writing
  <1>4. CASE r \in Writers' /\ UNCHANGED file
    <2>1. Writing' = Writing
      BY <1>1, <1>4, OthersWrite
    <2>2. ~Named(r)
      BY <1>4 DEF Named, Writers
    <2>3. FinalFiles' = FinalFiles
      BY <2>2, FinalsStay
    <2>4. TmpFiles' = [TmpFiles EXCEPT ![NameOf[f]] = TmpFiles'[NameOf[f]]]
      BY <1>2, <1>4, TmpsStay
    <2>5. Replacing!Writes(f)
      BY <1>3, <2>1, <2>3, <2>4 DEF Replacing!Writes, Replacing!Touches
    <2> QED
      BY <1>2, <2>5
  <1>5. ASSUME r \notin Writers' PROVE Writing' = Writing \ {f}
    <2>1. Writing = Others(r) \cup {f} /\ Writing' = Others(r)
      BY <1>1, <1>5, OthersWrite
    <2>2. f \notin Others(r)
      BY <1>1, <1>2, OthersApart
    <2> QED
      BY <2>1, <2>2
  <1>6. CASE r \notin Writers' /\ UNCHANGED content /\ (dir' = dir \/ dir' = Unlinked(Tmp(r)))
    <2>1. \/ TmpFiles' = TmpFiles /\ FinalFiles' = FinalFiles
          \/ TmpFiles' = [TmpFiles EXCEPT ![NameOf[f]] = NoFile] /\ FinalFiles' = FinalFiles
      <3>1. CASE dir' = dir
        BY <1>6, <3>1 DEF TmpFiles, FinalFiles, At
      <3>2. CASE dir' = Unlinked(Tmp(r))
        BY <1>1, <1>2, <1>6, <3>2, UnlinkTakes
      <3> QED
        BY <1>6, <3>1, <3>2
    <2>2. Replacing!Closes(f)
      BY <1>3, <1>5, <1>6, <2>1 DEF Replacing!Closes
    <2> QED
      BY <1>2, <2>2
  <1>7. CASE r \notin Writers' /\ Named(r)
    <2>1. /\ dir[Tmp(r)] = fd[r] /\ fd[r] # NoInode /\ content[fd[r]] = Whole(f)
          /\ content' = content
          /\ dir' = [Unlinked(Tmp(r)) EXCEPT ![Final(r)] = dir[Tmp(r)]]
      BY <1>7 DEF Named, DirInv, TmpIsOurs, HashedInv
    <2>2. \A q \in Paths : dir'[q] = IF q = Final(r) THEN fd[r]
                                     ELSE IF q = Tmp(r) THEN NoInode ELSE dir[q]
      BY <1>1, <1>2, <2>1 DEF Unlinked, DirTypeOK
    <2>3. ASSUME NEW q \in Paths
          PROVE  At(q)' = IF q = Final(r) THEN Whole(f)
                          ELSE IF q = Tmp(r) THEN NoFile ELSE At(q)
      BY <2>1, <2>2 DEF At
    <2>4. ASSUME NEW n \in Names
          PROVE  /\ n \in Paths /\ TmpOf[n] \in Paths
                 /\ n # Tmp(r) /\ TmpOf[n] # Final(r)
                 /\ TmpOf[n] = Tmp(r) <=> n = Final(r)
      BY <1>2 DEF Paths, Apart, TmpPath
    <2>5. FinalFiles' = [FinalFiles EXCEPT ![NameOf[f]] = Whole(f)]
      BY <1>2, <2>3, <2>4 DEF FinalFiles
    <2>6. TmpFiles' = [TmpFiles EXCEPT ![NameOf[f]] = NoFile]
      BY <1>2, <2>3, <2>4 DEF TmpFiles
    <2>7. TmpFiles[NameOf[f]] = Whole(f)
      BY <1>2, <2>1 DEF TmpFiles, At, TmpPath
    <2>8. Replacing!Saves(f)
      BY <1>2, <1>3, <1>5, <1>7, <2>5, <2>6, <2>7 DEF Replacing!Saves
    <2> QED
      BY <1>2, <2>8
  <1>8. ~Creates(r)
    BY DEF Creates, Writers, Open
  <1> QED
    BY <1>1, <1>4, <1>6, <1>7, <1>8, WritingSteps

LEMMA ReplacingStep ==
  ASSUME DirInv, Apart, [Next]_vars
  PROVE  [Replacing!Next]_(Replacing!vars)
  <1>1. ASSUME NEW r \in Receivers, Step(r) PROVE [Replacing!Next]_(Replacing!vars)
    <2>1. DirTypeOK
      BY DEF DirInv
    <2>2. CASE Creates(r)
      BY <2>2, OpensStep DEF Replacing!Next
    <2>3. CASE r \in Writers
      BY <1>1, <2>3, WriterStep DEF Replacing!Next
    <2>4. CASE /\ r \notin Writers /\ r \notin Writers'
               /\ UNCHANGED content
               /\ dir' = dir \/ (pc[r] = "renamed" /\ dir' = Unlinked(Tmp(r)))
      <3>1. dir' = dir
        <4>1. CASE pc[r] = "renamed" /\ dir' = Unlinked(Tmp(r))
          <5>1. dir[Tmp(r)] = NoInode /\ Tmp(r) \in Paths
            BY <2>1, <4>1, OpenHas DEF DirInv, RenamedInv, Open
          <5> QED
            BY <2>1, <4>1, <5>1 DEF Unlinked, DirTypeOK
        <4> QED
          BY <2>4, <4>1
      <3>2. Writing' = Writing
        BY <1>1, <2>1, <2>4, OthersWrite
      <3>3. TmpFiles' = TmpFiles /\ FinalFiles' = FinalFiles
        BY <2>4, <3>1 DEF TmpFiles, FinalFiles, At
      <3> QED
        BY <3>2, <3>3 DEF Replacing!vars
    <2> QED
      BY <1>1, <2>1, <2>2, <2>3, <2>4, WritingSteps
  <1>2. CASE UNCHANGED vars
    BY <1>2 DEF vars, Writing, Writers, TmpFiles, FinalFiles, At, Replacing!vars
  <1> QED
    BY <1>1, <1>2 DEF Next

LEMMA ReplacingInit == Init => Replacing!Init
  <1> SUFFICES ASSUME Init PROVE Replacing!Init
    OBVIOUS
  <1>1. Writing = {}
    BY DEF Init, Writing, Writers, Open
  <1>2. ASSUME NEW n \in Names PROVE At(n) = NoFile /\ At(TmpOf[n]) = NoFile
    BY DEF Init, At, Paths
  <1> QED
    BY <1>1, <1>2 DEF Replacing!Init, TmpFiles, FinalFiles

\* The system calls of any number of receivers implement WriteThenRename, as
\* the handlers of the receiver of Udpcp do: cut into calls that may be the last
\* of their process, they still write no tmp file but their own, and that
\* reaches the final path whole or not at all.
THEOREM DirectoryReplaces == ASSUME Apart PROVE Spec => WritesThenRenames
  <1>1. DirInv /\ [Next]_vars => [Replacing!Next]_(Replacing!vars)
    BY ReplacingStep
  <1> QED
    BY <1>1, DirInvariant, ReplacingInit, PTL DEF Spec, WritesThenRenames, Replacing!Spec
=============================================================================
