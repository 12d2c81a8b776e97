---------------------------- MODULE ProcessFile ----------------------------
(***************************************************************************)
(* process_file of src/tools/remove_doc_tests.py: the dry-run scan of one  *)
(* file.  Each step is one iteration of its while loop over the lines; the *)
(* last step returns (changed, count_of_changes).  The file, delete,       *)
(* only_rust and line_doc_only are chosen in Init and never change.        *)
(***************************************************************************)
EXTENDS ApplyTransformations

\* delete, only_rust and line_doc_only.
Flags == [delete: BOOLEAN, only_rust: BOOLEAN, line_doc_only: BOOLEAN]

CONSTANT
    Cases       \* the files (sequences of lines) and flags the scan is given

ASSUME Cases \subseteq [text: Seq(Seq(Tokens)), flags: Flags]

VARIABLES
    text,               \* lines = s.splitlines(keepends=True)
    flags,              \* the three keyword arguments
    i,                  \* the loop index, 1-based
    in_block_comment,
    in_fence,
    in_fence_line_doc,
    out_lines,
    changes,
    result              \* the returned (changed, count), once done

vars == <<text, flags, i, in_block_comment, in_fence, in_fence_line_doc,
          out_lines, changes, result>>

Running == ~result.done
Line == text[i]

\* The first statement of the loop body: entering a block (doc) comment.
InBlock == in_block_comment \/ OpensBlock(Line)

Init ==
  /\ \E c \in Cases : text = c.text /\ flags = c.flags
  /\ i = 1
  /\ in_block_comment = FALSE
  /\ in_fence = FALSE
  /\ in_fence_line_doc = FALSE
  /\ out_lines = <<>>
  /\ changes = 0
  /\ result = [done |-> FALSE, changed |-> FALSE, count |-> 0]

\* Mutant: any line with backticks closes the fence (--line-doc-only lost).
IsFenceCloseAnyLine(line) == HasBackticks(line)

\* A line that closes the open fence: backticks, and when --line-doc-only
\* is set, a line-doc line.
IsFenceClose(line) ==
  HasBackticks(line) /\ (~flags.line_doc_only \/ IsLineDoc(line))

\* The line-doc line carries a fence in its rest.
LineDocFence(line) == IsLineDoc(line) /\ FenceAt(LineDocRest(line)) # 0
LineDocLang(line) == Strip(LangRaw(LineDocRest(line)))

\* Inside a block comment, the line carries a fence.
BlockFence(line) == FenceAt(line) # 0
BlockLang(line) == Strip(LangRaw(line))

\* Mutant: the index is advanced twice, skipping a line.
AdvanceSkip == i' = i + 2
Advance == i' = i + 1
Emit(l) == out_lines' = Append(out_lines, l)

\* The open fence ends on this line: dropped when deleting, kept otherwise.
FenceClose ==
  /\ Running /\ i <= Len(text) /\ in_fence /\ IsFenceClose(Line)
  /\ in_block_comment' = InBlock
  /\ in_fence' = FALSE /\ in_fence_line_doc' = FALSE
  /\ IF flags.delete
       THEN changes' = changes + 1 /\ UNCHANGED out_lines
       ELSE Emit(Line) /\ UNCHANGED changes
  /\ Advance /\ UNCHANGED <<text, flags, result>>

\* A line inside the open fence: dropped when deleting, kept otherwise.
FenceBody ==
  /\ Running /\ i <= Len(text) /\ in_fence /\ ~IsFenceClose(Line)
  /\ in_block_comment' = InBlock
  /\ IF flags.delete THEN UNCHANGED out_lines ELSE Emit(Line)
  /\ Advance
  /\ UNCHANGED <<text, flags, in_fence, in_fence_line_doc, changes, result>>

\* A fence on a line-doc line whose tag fails --only-rust: kept as it is
\* (both early returns, with and without a tag).
LineDocFiltered ==
  /\ Running /\ i <= Len(text) /\ ~in_fence /\ LineDocFence(Line)
  /\ FilteredOut(flags.only_rust, LineDocLang(Line))
  /\ in_block_comment' = InBlock
  /\ Emit(Line) /\ Advance
  /\ UNCHANGED <<text, flags, in_fence, in_fence_line_doc, changes, result>>

\* Mutant: a disabled line-doc fence is not marked open.
LineDocOpenNoFence ==
  /\ Running /\ i <= Len(text) /\ ~in_fence /\ LineDocFence(Line)
  /\ ~FilteredOut(flags.only_rust, LineDocLang(Line))
  /\ in_block_comment' = InBlock
  /\ changes' = changes + 1
  /\ IF flags.delete
       THEN in_fence' = TRUE /\ in_fence_line_doc' = TRUE /\ UNCHANGED out_lines
       ELSE /\ Emit(DisableFence(Line, LineDocRest(Line), 1))
            /\ UNCHANGED <<in_fence, in_fence_line_doc>>
  /\ Advance /\ UNCHANGED <<text, flags, result>>

\* A fence opens on a line-doc line: dropped, or its tag gets ignore.
LineDocOpen ==
  /\ Running /\ i <= Len(text) /\ ~in_fence /\ LineDocFence(Line)
  /\ ~FilteredOut(flags.only_rust, LineDocLang(Line))
  /\ in_block_comment' = InBlock
  /\ in_fence' = TRUE /\ in_fence_line_doc' = TRUE
  /\ changes' = changes + 1
  /\ IF flags.delete THEN UNCHANGED out_lines
                     ELSE Emit(DisableFence(Line, LineDocRest(Line), 1))
  /\ Advance /\ UNCHANGED <<text, flags, result>>

\* A fence inside a block comment whose tag fails --only-rust.
BlockFiltered ==
  /\ Running /\ i <= Len(text) /\ ~in_fence /\ ~LineDocFence(Line)
  /\ InBlock /\ BlockFence(Line)
  /\ FilteredOut(flags.only_rust, BlockLang(Line))
  /\ in_block_comment' = TRUE
  /\ Emit(Line) /\ Advance
  /\ UNCHANGED <<text, flags, in_fence, in_fence_line_doc, changes, result>>

\* Mutant: a disabled block fence is rewritten but not counted.
BlockOpenUncounted ==
  /\ Running /\ i <= Len(text) /\ ~in_fence /\ ~LineDocFence(Line)
  /\ InBlock /\ BlockFence(Line)
  /\ ~FilteredOut(flags.only_rust, BlockLang(Line))
  /\ in_block_comment' = TRUE
  /\ IF flags.delete
       THEN /\ in_fence' = TRUE /\ in_fence_line_doc' = FALSE
            /\ changes' = changes + 1 /\ UNCHANGED out_lines
       ELSE /\ Emit(DisableFence(Line, Line, 0))
            /\ UNCHANGED <<in_fence, in_fence_line_doc, changes>>
  /\ Advance /\ UNCHANGED <<text, flags, result>>

\* A fence inside a block comment: deleting opens a fence and drops the
\* line; disabling rewrites the line and opens no fence.
BlockOpen ==
  /\ Running /\ i <= Len(text) /\ ~in_fence /\ ~LineDocFence(Line)
  /\ InBlock /\ BlockFence(Line)
  /\ ~FilteredOut(flags.only_rust, BlockLang(Line))
  /\ in_block_comment' = TRUE
  /\ changes' = changes + 1
  /\ IF flags.delete
       THEN /\ in_fence' = TRUE /\ in_fence_line_doc' = FALSE
            /\ UNCHANGED out_lines
       ELSE /\ Emit(DisableFence(Line, Line, 0))
            /\ UNCHANGED <<in_fence, in_fence_line_doc>>
  /\ Advance /\ UNCHANGED <<text, flags, result>>

\* Mutant: */ no longer ends the block comment.
DefaultNoClose ==
  /\ Running /\ i <= Len(text) /\ ~in_fence /\ ~LineDocFence(Line)
  /\ ~(InBlock /\ BlockFence(Line))
  /\ in_block_comment' = InBlock
  /\ Emit(Line) /\ Advance
  /\ UNCHANGED <<text, flags, in_fence, in_fence_line_doc, changes, result>>

\* Any other line is kept; */ ends a block comment.
Default ==
  /\ Running /\ i <= Len(text) /\ ~in_fence /\ ~LineDocFence(Line)
  /\ ~(InBlock /\ BlockFence(Line))
  /\ in_block_comment' = (InBlock /\ ~ClosesBlock(Line))
  /\ Emit(Line) /\ Advance
  /\ UNCHANGED <<text, flags, in_fence, in_fence_line_doc, changes, result>>

\* After the loop: a change is reported only when the text differs.
Finish ==
  /\ Running /\ i > Len(text)
  /\ result' = IF changes > 0 /\ Join(out_lines) # Join(text)
                 THEN [done |-> TRUE, changed |-> TRUE, count |-> changes]
                 ELSE [done |-> TRUE, changed |-> FALSE, count |-> 0]
  /\ UNCHANGED <<text, flags, i, in_block_comment, in_fence,
                 in_fence_line_doc, out_lines, changes>>

Next ==
  \/ FenceClose \/ FenceBody
  \/ LineDocFiltered \/ LineDocOpen
  \/ BlockFiltered \/ BlockOpen
  \/ Default
  \/ Finish

Spec == Init /\ [][Next]_vars /\ WF_vars(Next)

Done == result.done

TypeOK ==
  /\ text \in Seq(Seq(Tokens))
  /\ flags \in Flags
  /\ i \in 1..Len(text) + 1
  /\ in_block_comment \in BOOLEAN
  /\ in_fence \in BOOLEAN
  /\ in_fence_line_doc \in BOOLEAN
  /\ out_lines \in Seq(Seq(Tokens))
  /\ changes \in 0..Len(text)
  /\ result \in [done: BOOLEAN, changed: BOOLEAN, count: 0..Len(text)]

(***************************************************************************)
(* Properties of process_file against apply_transformations_to_text.      *)
(***************************************************************************)

\* The dry-run scan and the scan whose text --apply writes are two copies
\* of one loop: after every iteration the lines process_file has kept are
\* exactly those apply_transformations_to_text keeps for the same prefix.
ScanMatchesApply ==
  out_lines = ApplyLines(SubSeq(text, 1, i - 1), flags)

\* scan_paths writes a file iff process_file reports it changed: a file is
\* reported exactly when the text --apply would write differs from it.
ReportedIffRewritten ==
  Done => (result.changed <=>
             ApplyTransformationsToText(Join(text), flags) # Join(text))

=============================================================================
