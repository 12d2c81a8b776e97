\* process_file against apply_transformations_to_text and against spec.md
\* 4.1, every file, every flag.
CONSTANT Cases <- AllCases
SPECIFICATION Spec
INVARIANT TypeOK
INVARIANT ScanMatchesApply
INVARIANT ReportedIffRewritten
INVARIANT RewriteMatchesSpecInScope
\* process_file returns and the script moves on: the scan really stops.
CHECK_DEADLOCK FALSE
