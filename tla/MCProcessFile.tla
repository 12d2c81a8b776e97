--------------------------- MODULE MCProcessFile ---------------------------
(***************************************************************************)
(* Model-checking instances of ProcessFile and FenceSpec: the files are    *)
(* all sequences of up to MaxLines lines drawn from a set of line shapes,  *)
(* the flags a set of combinations.  Each cfg picks both.                  *)
(***************************************************************************)
EXTENDS FenceSpec

\* Line shapes of Rust source, as FenceText tokens.
LDRust  == <<"LD", "F3", "RUST", "NL">>   \* /// ```rust
LDBare  == <<"LD", "F3", "NL">>           \* /// ```
LDTxt   == <<"LD", "F3", "TXT", "NL">>    \* /// ```text
LDText  == <<"LD", "CODE", "NL">>         \* /// some docs
Code    == <<"CODE", "NL">>               \* fn f() {}
LCFence == <<"LC", "F3", "NL">>           \* // ``` in a plain comment
BOpen   == <<"BO", "NL">>                 \* /**
BFRust  == <<"F3", "RUST", "NL">>         \*  * ```rust
BFBare  == <<"F3", "NL">>                 \*  * ```
BClose  == <<"BC", "NL">>                 \*  */
FenceBC == <<"F3", "BC", "NL">>           \*  * ``` */

LineDocShapes == {LDRust, LDBare, LDTxt, LDText, Code, LCFence}
BlockShapes   == {BOpen, BFRust, BFBare, BClose}

\* Every file of 1 to n lines of the given shapes.
Files(shapes, n) == UNION {[1..k -> shapes] : k \in 1..n}

AllFlags == Flags
DeleteFlags  == {c \in AllFlags : c.delete /\ ~c.line_doc_only}
DisableFlags == {c \in AllFlags : ~c.delete}
LDOFlags     == {c \in AllFlags : c.line_doc_only}

\* Four lines: a block comment with a whole fence inside it.
AllFiles        == Files(LineDocShapes \cup BlockShapes \cup {FenceBC}, 4)
WellFormedFiles == Files(LineDocShapes \cup BlockShapes, 4)
LineDocFiles    == Files(LineDocShapes, 4)
BlockFiles      == Files(BlockShapes \cup {Code}, 4)

Cross(fs, cs) == [text: fs, flags: cs]

\* Every file with every flag combination.
AllCases == Cross(AllFiles, AllFlags)
\* Where spec.md 4.1 and the code are meant to agree: deleting on files
\* whose block comments end on a line of their own, disabling in line-doc
\* comments.
InSpecScope ==
  \/ flags \in DeleteFlags /\ Range(text) \subseteq LineDocShapes \cup BlockShapes
  \/ flags \in DisableFlags /\ Range(text) \subseteq LineDocShapes

\* On every file in the scope of spec.md 4.1 above, the text process_file
\* produces is the one the spec describes (RewriteMatchesSpec); outside it
\* the block_disable and line_doc_only runs show where the two part.
RewriteMatchesSpecInScope == InSpecScope => RewriteMatchesSpec

\* Disabling inside block doc comments, without --line-doc-only (which
\* leaves block comments alone and is the line_doc_only run's question).
BlockDisableFlags == {c \in DisableFlags : ~c.line_doc_only}
BlockDisableCases == Cross(BlockFiles, BlockDisableFlags)
\* --line-doc-only with block doc comments.
LineDocOnlyCases == Cross(BlockFiles, LDOFlags)
\* Disabling line-doc fences, for running the rewrite twice.
LineDocDisableCases == Cross(LineDocFiles, DisableFlags)
=============================================================================
