SPECIFICATION Spec
CONSTANTS
    f1 = f1
    f2 = f2
    g = g
    r1 = r1
    r2 = r2
    Files = {f1, f2, g}
    Receivers = {r1, r2}
    To <- MCTo
    NameOf <- MCApartNames
    TmpOf <- MCApartTmps
    Chunks = {1, 2}
    Zero = Zero
    Damaged = Damaged
    Inodes = {i1, i2, i3, i4}
    NoInode = NoInode
    NoFile = NoFile
SYMMETRY InodeSymmetry
PROPERTIES ReplacedAtOnce WritesThenRenames
CHECK_DEADLOCK FALSE
