\* --line-doc-only with block doc comments.
CONSTANT Cases <- LineDocOnlyCases
SPECIFICATION Spec
INVARIANT RewriteMatchesSpec
\* process_file returns and the script moves on: the scan really stops.
CHECK_DEADLOCK FALSE
