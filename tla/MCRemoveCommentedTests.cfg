\* remove_commented_tests.py: the rewrite, the backup, the total.
CONSTANTS
    f1 = f1
    f2 = f2
    NoBackup = NoBackup
    Files <- MCFiles
    Texts <- MCTexts
    Lists <- MCLists
SPECIFICATION Spec
INVARIANT TypeOK
INVARIANT AppliedFilesClean
INVARIANT RecoverableAfterKill
INVARIANT ExitCodeReportsBlocks
INVARIANT UntouchedUnlessMatched
\* The script exits, or is killed: the run really stops.
CHECK_DEADLOCK FALSE
