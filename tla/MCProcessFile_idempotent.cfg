\* Disable mode applied twice to line-doc fences.
CONSTANT Cases <- LineDocDisableCases
SPECIFICATION Spec
INVARIANT DisableIdempotent
\* process_file returns and the script moves on: the scan really stops.
CHECK_DEADLOCK FALSE
