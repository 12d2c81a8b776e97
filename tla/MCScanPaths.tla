---------------------------- MODULE MCScanPaths ----------------------------
(***************************************************************************)
(* ScanPaths over two files holding small Rust texts.                      *)
(***************************************************************************)
EXTENDS ScanPaths

CONSTANTS f1, f2

MCFiles == {f1, f2}

\* A line-doc example, a block-doc example, and code without fences.
DocText   == <<"LD", "F3", "RUST", "NL", "LD", "CODE", "NL", "LD", "F3", "NL">>
BlockText == <<"BO", "NL", "F3", "RUST", "NL", "F3", "NL", "BC", "NL">>
CodeText  == <<"CODE", "NL">>
MCTexts == {DocText, BlockText, CodeText}

\* Lists as the walk builds them, up to two entries in any order: a file
\* given itself and through its directory is listed twice.
MCLists == UNION {[1..n -> MCFiles] : n \in 0..2}

MCConfigs == [delete: BOOLEAN, only_rust: BOOLEAN, line_doc_only: BOOLEAN]
=============================================================================
