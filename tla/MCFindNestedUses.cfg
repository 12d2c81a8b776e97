\* find_nested_uses.py --segment on a .rs file against the same file
\* reached through its directory.
CONSTANT Cases <- SegmentCases
SPECIFICATION Spec
INVARIANT SegmentsFileMatchesDir
\* main returns once the loop is over.
CHECK_DEADLOCK FALSE
