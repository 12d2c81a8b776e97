\* find_long_uses.py --segment on .rs files against scan_for_segments on
\* the same files.
CONSTANTS
    Args <- MCArgs
    Unbound = Unbound
SPECIFICATION Spec
INVARIANT SegmentsFileMatchesDir
\* main returns or raises once its loop is over.
CHECK_DEADLOCK FALSE
