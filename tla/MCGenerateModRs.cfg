\* generate_mod_rs.py: the recursive walk and the mod.rs it leaves.
CONSTANTS
    r = r
    x = x
    y = y
    NoModRs = NoModRs
    OldModRs = OldModRs
    Truncated = Truncated
    NoCall = NoCall
    Dirs <- MCDirs
    Root = r
    NameOrder <- MCNameOrder
    Trees <- MCTrees
SPECIFICATION Spec
INVARIANT TypeOK
INVARIANT TreeRegenerated
INVARIANT ModulesResolve
\* main returns, or the process is killed: the run really stops.
CHECK_DEADLOCK FALSE
