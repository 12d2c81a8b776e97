\* An undecodable file among the listed ones.
CONSTANTS
    f1 = f1
    f2 = f2
    Files <- MCFiles
    Lists <- MCLists
    Texts <- MCTexts
    Configs <- MCConfigs
SPECIFICATION Spec
INVARIANT ReadableFilesAllScanned
\* The script exits (done, aborted or killed): the run really stops.
CHECK_DEADLOCK FALSE
