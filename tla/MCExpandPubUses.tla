-------------------------- MODULE MCExpandPubUses --------------------------
(***************************************************************************)
(* A target directory holding a.rs and b.rs, and a subdirectory s holding  *)
(* mod.rs and c.rs; items X and Y; --max-items 1.  Each file starts with   *)
(* one or two lines drawn from wildcard uses that resolve to another file  *)
(* (or, in s, to a sibling) and item declarations.                         *)
(***************************************************************************)
EXTENDS ExpandPubUses

CONSTANTS fa, fb, fm, fc

MCFiles == {fa, fb, fm, fc}
MCDir == (fa :> <<>>) @@ (fb :> <<>>) @@ (fm :> <<"s">>) @@ (fc :> <<"s">>)
MCBase == (fa :> "a") @@ (fb :> "b") @@ (fm :> "mod") @@ (fc :> "c")
\* os.walk yields the top directory first; its files are sorted.
MCWalkOrder == <<fa, fb, fc, fm>>

Item(n) == [k |-> "item", path |-> <<>>, names |-> <<n>>]
Glob(p) == [k |-> "glob", path |-> p, names |-> <<>>]

IX == Item("X")
IY == Item("Y")

\* The texts of one or two lines over a set of lines.
Upto2(ls) == {<<l>> : l \in ls} \cup {<<l1, l2>> : l1, l2 \in ls}

MCDisks ==
  {(fa :> ta) @@ (fb :> tb) @@ (fm :> tm) @@ (fc :> tc) :
     <<ta, tb, tm, tc>> \in Upto2({Glob(<<"b">>), Glob(<<"s", "c">>), IX})
                          \X Upto2({Glob(<<"a">>), Glob(<<"s">>), IY})
                          \X Upto2({Glob(<<"c">>), IX})
                          \X {<<IX>>, <<IX, IY>>}}

MCItems == {"X", "Y"}
MCItemOrder == <<"X", "Y">>

MCBadSets == {{}, {fc}}
MCTargets == {DirTarget, fm}
=============================================================================
