----------------------- MODULE MCRemoveCommentedTests -----------------------
(***************************************************************************)
(* Two files of up to three lines each, every mix of line classes, listed  *)
(* once each or the first one twice (a path given twice, or a file and its *)
(* directory).                                                             *)
(***************************************************************************)
EXTENDS RemoveCommentedTests

CONSTANTS f1, f2

MCFiles == {f1, f2}
MCTexts == UNION {[1..n -> LineKinds] : n \in 0..3}
MCLists == {<<f1, f2>>, <<f1, f1>>}
=============================================================================
