----------------------------- MODULE FenceSpec -----------------------------
(***************************************************************************)
(* What spec.md (sections 4.1 and 8) promises of the doc-fence rewriter,   *)
(* as a reference definition over the same token lines, and the            *)
(* properties that compare the scan of ProcessFile with it.                *)
(*                                                                         *)
(* The reference is the three-state line scanner the spec describes:       *)
(* normal, inside a block doc comment, inside a fence opened from a        *)
(* line-doc or from a block-doc comment.  It gives every line a role:      *)
(* "open", "body" or "close" of a qualifying fence, or "other".            *)
(***************************************************************************)
EXTENDS ProcessFile

RefStart == [blk |-> FALSE, fence |-> "none"]

(***************************************************************************)
(* One line of the reference scan: its role and the state after it.       *)
(*  - a block doc comment is entered by a line opening one and left at a   *)
(*    line holding */;                                                     *)
(*  - outside a fence, a line-doc line with a fence that passes the        *)
(*    language filter opens a line-doc fence; so does a fence inside a    *)
(*    block doc comment open a block fence, unless line_doc_only is set;   *)
(*  - inside a fence, a line with a fence marker closes it, which must be  *)
(*    a line-doc line if the fence is a line-doc one and line_doc_only is  *)
(*    set.                                                                 *)
(***************************************************************************)
RefStep(st, l, cfg) ==
  LET blk  == (st.blk \/ OpensBlock(l)) /\ ~ClosesBlock(l)
      inblk == st.blk \/ OpensBlock(l)
      rest == LineDocRest(l)
      r(role, f) == [role |-> role, st |-> [blk |-> blk, fence |-> f]]
  IN CASE st.fence # "none" ->
            IF HasBackticks(l)
               /\ (st.fence = "line" /\ cfg.line_doc_only => IsLineDoc(l))
            THEN r("close", "none") ELSE r("body", st.fence)
       [] IsLineDoc(l) /\ FenceAt(rest) # 0
          /\ ~FilteredOut(cfg.only_rust, Strip(LangRaw(rest))) ->
            r("open", "line")
       [] inblk /\ ~cfg.line_doc_only /\ ~IsLineDoc(l) /\ FenceAt(l) # 0
          /\ ~FilteredOut(cfg.only_rust, Strip(LangRaw(l))) ->
            r("open", "block")
       [] OTHER -> r("other", "none")

RECURSIVE RefRolesFrom(_, _, _)
RefRolesFrom(lines, st, cfg) ==
  IF lines = <<>> THEN <<>>
  ELSE LET r == RefStep(st, Head(lines), cfg)
       IN <<r.role>> \o RefRolesFrom(Tail(lines), r.st, cfg)

\* The role of every line of a file.
RefRoles(lines, cfg) == RefRolesFrom(lines, RefStart, cfg)

\* The opening line with its tag extended by ignore, terminator kept.
RefDisabled(l) ==
  LET nl   == l # <<>> /\ Last(l) = "NL"
      body == IF nl THEN Front(l) ELSE l
  IN DisableFence(body, body, 0) \o (IF nl THEN <<"NL">> ELSE <<>>)

\* The promised output: delete drops the fences with what they enclose;
\* disable rewrites the opening lines only.
RefOutput(lines, cfg) ==
  LET role == RefRoles(lines, cfg)
  IN IF cfg.delete
       THEN FlattenSeq([k \in 1..Len(lines) |->
                          IF role[k] = "other" THEN <<lines[k]>> ELSE <<>>])
       ELSE [k \in 1..Len(lines) |->
               IF role[k] = "open" THEN RefDisabled(lines[k]) ELSE lines[k]]

(***************************************************************************)
(* Properties (spec.md 4.1 and 8) of the scan of process_file.             *)
(***************************************************************************)

\* The text process_file produces is the one spec.md 4.1 describes: in
\* delete mode every qualifying fence and all it encloses is gone and
\* nothing else; in disable mode only the opening lines differ, by the
\* ignore suffix, and line structure, enclosed lines and closing fences
\* stay byte-identical.
RewriteMatchesSpec ==
  Done => Join(out_lines) = Join(RefOutput(text, flags))

\* Disable mode is idempotent (spec.md 8): rewriting the rewritten text
\* again with the same flags changes nothing.
DisableIdempotent ==
  Done /\ ~flags.delete =>
    ApplyTransformationsToText(Join(out_lines), flags) = Join(out_lines)

=============================================================================
