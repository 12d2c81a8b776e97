\* The driver over lists of up to two files, a file listed twice included: exit code, untouched files, written content.
CONSTANTS
    f1 = f1
    f2 = f2
    Files <- MCFiles
    Lists <- MCLists
    Texts <- MCTexts
    Configs <- MCConfigs
SPECIFICATION Spec
INVARIANT TypeOK
INVARIANT ExitCodeReportsChanges
INVARIANT AppliedFilesTransformed
PROPERTY UntouchedUnlessChanged
\* The script exits (done, aborted or killed): the run really stops.
CHECK_DEADLOCK FALSE
