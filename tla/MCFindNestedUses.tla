------------------------- MODULE MCFindNestedUses -------------------------
(***************************************************************************)
(* Files of up to three lines drawn from line shapes of Rust source, as    *)
(* FindNestedUses tokens, with every combination of the flags.             *)
(***************************************************************************)
EXTENDS FindNestedUses

UseDeepSeg == <<"USE", "CRATE", "::", "ID", "::", "SEG", "::", "ID", ";">>   \* use crate::a::seg::X;
UseSeg     == <<"USE", "CRATE", "::", "SEG", "::", "ID", ";">>               \* use crate::seg::X;
UseSegList == <<"USE", "ID", "::", "SEG", "::", "{", "ID", ",", "ID", "}", ";">> \* use a::seg::{X, Y};
UseSplit   == <<"USE", "CRATE", "::", "{", "SEG", "::", "ID", ",", "ID", "}", ";">> \* use crate::{seg::X, Y};
UseOpen    == <<"USE", "ID", "::", "{">>                                      \* use a::{
ListEnd    == <<"ID", "::", "SEG", ",", "ID", "}", ";">>                      \*     b::seg, Y};
UseStdDeep == <<"USE", "STD", "::", "ID", "::", "SEG", "::", "ID", ";">>     \* use std::a::seg::X;
FnReuse    == <<"ID", "REUSE", "P", "{">>                                     \* fn reuse() {
Stmt       == <<"ID", "P", "ID", ";">>                                        \* f(x);
Close      == <<"}">>                                                         \* }

Shapes == {UseDeepSeg, UseSeg, UseSegList, UseSplit, UseOpen, ListEnd,
           UseStdDeep, FnReuse, Stmt, Close}

MCFiles == UNION {[1..k -> Shapes] : k \in 1..3}

SegmentCases == [text: MCFiles, flags: {f \in Flags : f.segment}]
=============================================================================
