\* A finished --apply run against the preview of a run without it.
CONSTANTS
    fa = fa  fb = fb  fm = fm  fc = fc
    Files <- MCFiles
    Dir <- MCDir
    Base <- MCBase
    WalkOrder <- MCWalkOrder
    Items <- MCItems
    ItemOrder <- MCItemOrder
    MaxItems = 1
    Disks <- MCDisks
    BadSets <- MCBadSets
    Targets <- MCTargets
    DirTarget = DirTarget
    NoFile = NoFile  NoBak = NoBak  NoText = NoText
SPECIFICATION Spec
INVARIANT PreviewMatchesApply
\* The script stops: done, crashed or killed.
CHECK_DEADLOCK FALSE
