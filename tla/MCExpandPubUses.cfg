\* expand_pub_uses.py over a two-level tree, all flags, kills anywhere.
CONSTANTS
    fa = fa  fb = fb  fm = fm  fc = fc
    Files <- MCFiles
    Dir <- MCDir
    Base <- MCBase
    WalkOrder <- MCWalkOrder
    Items <- MCItems
    ItemOrder <- MCItemOrder
    MaxItems = 1
    Disks <- MCDisks
    BadSets <- MCBadSets
    Targets <- MCTargets
    DirTarget = DirTarget
    NoFile = NoFile  NoBak = NoBak  NoText = NoText
SPECIFICATION Spec
INVARIANT TypeOK
INVARIANT RecoverableAfterKill
INVARIANT OnlyWildcardsRewritten
INVARIANT ListsMatchModules
PROPERTY AtomicWrites
\* The script stops: done, crashed or killed.
CHECK_DEADLOCK FALSE
