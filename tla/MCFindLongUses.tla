-------------------------- MODULE MCFindLongUses --------------------------
(***************************************************************************)
(* Argument lists of one or two paths: a .rs file or a directory holding  *)
(* one .rs file, of one or two lines from five shapes, readable or not,   *)
(* or a path that is neither; with and without --segment, and with the    *)
(* package `tools` importable or not.                                      *)
(***************************************************************************)
EXTENDS FindLongUses

StdDeep    == <<"USE", "STD", "::", "ID", "::", "ID", "::", "ID", ";">>      \* use std::a::b::c;
UseSeg     == <<"USE", "CRATE", "::", "SEG", "::", "ID", ";">>               \* use crate::seg::X;
UseDeepSeg == <<"USE", "CRATE", "::", "ID", "::", "SEG", "::", "ID", ";">>   \* use crate::a::seg::X;
FnReuse    == <<"ID", "REUSE", "P", "{">>                                     \* fn reuse() {
Stmt       == <<"ID", "P", "ID", ";">>                                        \* f(x);

Shapes == {StdDeep, UseSeg, UseDeepSeg, FnReuse, Stmt}

MCRsFiles == [lines: UNION {[1..k -> Shapes] : k \in 1..2}, ok: BOOLEAN]

MCArgOne ==
  {[kind |-> "file", files |-> <<f>>] : f \in MCRsFiles}
    \cup {[kind |-> "dir", files |-> <<f>>] : f \in MCRsFiles}
    \cup {[kind |-> "other", files |-> <<>>]}

MCArgs == UNION {[1..k -> MCArgOne] : k \in 1..2}
=============================================================================
