------------------------- MODULE ApplyTransformations -------------------------
(***************************************************************************)
(* apply_transformations_to_text of src/tools/remove_doc_tests.py: the     *)
(* second copy of the scan, the one whose result --apply writes.  It is a  *)
(* pure function of the text and the flags, so it is an operator: the      *)
(* while loop is a fold of ApplyStep over the lines.                       *)
(***************************************************************************)
EXTENDS FenceText

\* The loop's state before the first line.
ScanStart == [in_block_comment |-> FALSE, in_fence |-> FALSE,
              in_fence_line_doc |-> FALSE]

(***************************************************************************)
(* One iteration on line l from state st: the lines it appends (none or    *)
(* one) and the state it leaves.  cfg holds delete, only_rust and          *)
(* line_doc_only.                                                          *)
(***************************************************************************)
ApplyStep(st, l, cfg) ==
  LET ibc   == st.in_block_comment \/ OpensBlock(l)
      close == HasBackticks(l) /\ (~cfg.line_doc_only \/ IsLineDoc(l))
      rest  == LineDocRest(l)
      ldf   == IsLineDoc(l) /\ FenceAt(rest) # 0
      keep(e, s) == [emit |-> e, st |-> s]
      S(b, f, d) == [in_block_comment |-> b, in_fence |-> f,
                     in_fence_line_doc |-> d]
  IN CASE st.in_fence /\ close ->
            keep(IF cfg.delete THEN <<>> ELSE <<l>>, S(ibc, FALSE, FALSE))
       [] st.in_fence ->
            keep(IF cfg.delete THEN <<>> ELSE <<l>>,
                 S(ibc, TRUE, st.in_fence_line_doc))
       [] ldf /\ FilteredOut(cfg.only_rust, Strip(LangRaw(rest))) ->
            keep(<<l>>, S(ibc, FALSE, st.in_fence_line_doc))
       [] ldf ->
            keep(IF cfg.delete THEN <<>> ELSE <<DisableFence(l, rest, 1)>>,
                 S(ibc, TRUE, TRUE))
       [] ibc /\ FenceAt(l) # 0
              /\ FilteredOut(cfg.only_rust, Strip(LangRaw(l))) ->
            keep(<<l>>, S(TRUE, FALSE, st.in_fence_line_doc))
       [] ibc /\ FenceAt(l) # 0 ->
            IF cfg.delete THEN keep(<<>>, S(TRUE, TRUE, FALSE))
            ELSE keep(<<DisableFence(l, l, 0)>>,
                      S(TRUE, FALSE, st.in_fence_line_doc))
       [] OTHER ->
            keep(<<l>>, S(ibc /\ ~ClosesBlock(l), FALSE, st.in_fence_line_doc))

\* The while loop: the lines appended for the given lines, from state st.
RECURSIVE ApplyLoop(_, _, _)
ApplyLoop(lines, st, cfg) ==
  IF lines = <<>> THEN <<>>
  ELSE LET r == ApplyStep(st, Head(lines), cfg)
       IN r.emit \o ApplyLoop(Tail(lines), r.st, cfg)

\* The out_lines of the whole loop over the given lines.
ApplyLines(lines, cfg) == ApplyLoop(lines, ScanStart, cfg)

\* The function itself: splitlines, the loop, ''.join(out_lines).
ApplyTransformationsToText(s, cfg) == Join(ApplyLines(SplitLines(s), cfg))

=============================================================================
