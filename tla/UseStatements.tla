--------------------------- MODULE UseStatements ---------------------------
(***************************************************************************)
(* The line tests shared by src/tools/find_nested_uses.py and              *)
(* src/tools/find_long_uses.py: the use-statement regexes, the path part,  *)
(* its segments and prefix, the ignore test, _collect_full_use_statement   *)
(* and scan_for_segments, which find_long_uses imports from                *)
(* find_nested_uses.                                                       *)
(*                                                                         *)
(* A line is a sequence of tokens, and only the lexemes the tests tell     *)
(* apart are tokens: the keywords use and pub, the identifiers crate, std, *)
(* core and the searched segment, an identifier ending in "use" (reuse),   *)
(* any other identifier, ::, {, }, comma, ; and other punctuation.         *)
(* Whitespace is left out; an identifier never holds "use" elsewhere.      *)
(* The ignored prefixes are the defaults without crate::types (no token    *)
(* spells types): std and crate::core.  One --segment is searched.         *)
(***************************************************************************)
EXTENDS Naturals, Sequences, SequencesExt

Tokens == {"USE", "PUB", "CRATE", "STD", "CORE", "SEG", "REUSE", "ID",
           "::", "{", "}", ",", ";", "P"}

\* The tokens [A-Za-z0-9_] spans.
IdentTok == {"USE", "PUB", "CRATE", "STD", "CORE", "SEG", "REUSE", "ID"}

Count(t, x) == Len(SelectSeq(t, LAMBDA y : y = x))
Has(t, x) == Contains(t, x)
HasSub(t, s) == s \in SubSeqs(t)

\* "use" in line: the keyword, or an identifier that contains it.
HasUse(t) == Has(t, "USE") \/ Has(t, "REUSE")

\* The tokens after the regexes' ^\s*(?:pub\s+)?use\s+, or <<>>.
StartsUse(l) == Len(l) > 0 /\ (l[1] = "USE" \/ (Len(l) > 1 /\ l[1] = "PUB" /\ l[2] = "USE"))
AfterKw(l) == IF l[1] = "PUB" THEN SubSeq(l, 3, Len(l)) ELSE SubSeq(l, 2, Len(l))

\* SPLIT_USE_RE: a path, ::{, a group with :: in it before the first },
\* and a ; later on the line.
SplitRE(l) ==
  StartsUse(l) /\
  LET r == AfterKw(l)
      b == SelectInSeq(r, LAMBDA x : x = "{")
      c == IF b = 0 THEN 0 ELSE SelectInSubSeq(r, b, Len(r), LAMBDA x : x = "}")
  IN /\ b > 2 /\ r[b - 1] = "::"
     /\ \A k \in 1..(b - 2) : r[k] \in IdentTok \cup {"::"}
     /\ c > 0 /\ Has(SubSeq(r, b + 1, c - 1), "::")
     /\ Has(SubSeq(r, c + 1, Len(r)), ";")

\* DEEP_USE_RE: four identifiers joined by ::, and a ; later on the line.
DeepRE(l) ==
  StartsUse(l) /\
  LET r == AfterKw(l)
  IN /\ Len(r) >= 8
     /\ \A k \in {1, 3, 5, 7} : r[k] \in IdentTok
     /\ \A k \in {2, 4, 6} : r[k] = "::"
     /\ Has(SubSeq(r, 8, Len(r)), ";")

\* text.split('use', 1)[1].split(';', 1)[0].strip()
PathPart(t) ==
  LET u == SelectInSeq(t, LAMBDA x : x \in {"USE", "REUSE"})
      r == SubSeq(t, u + 1, Len(t))
      s == SelectInSeq(r, LAMBDA x : x = ";")
  IN IF s = 0 THEN r ELSE SubSeq(r, 1, s - 1)

\* path_part.split('::'), then the non-empty pieces.
RECURSIVE SplitOn(_)
SplitOn(t) ==
  LET k == SelectInSeq(t, LAMBDA x : x = "::")
  IN IF k = 0 THEN <<t>>
     ELSE <<SubSeq(t, 1, k - 1)>> \o SplitOn(SubSeq(t, k + 1, Len(t)))
Segments(pp) == SelectSeq(SplitOn(pp), LAMBDA s : s # <<>>)

\* crate::<second segment>, or the first segment.
Prefix(sg) ==
  IF sg[1] = <<"CRATE">> /\ Len(sg) >= 2 THEN <<"CRATE", "::">> \o sg[2] ELSE sg[1]

IgnorePrefixes == {<<"STD">>, <<"CRATE", "::", "CORE">>}

\* any(prefix == ip or prefix.startswith(f"{ip}::") for ip in ignore_prefixes)
IgnoredPrefix(p) == \E ip \in IgnorePrefixes : p = ip \/ IsPrefix(ip \o <<"::">>, p)
Ignored(sg) == IgnoredPrefix(Prefix(sg))

\* f"::{seg}::" in path_part or path_part.endswith(f"::{seg}") or
\* f"::{seg}," in path_part
SegHit(pp) ==
  HasSub(pp, <<"::", "SEG", "::">>) \/ IsSuffix(<<"::", "SEG">>, pp)
    \/ HasSub(pp, <<"::", "SEG", ",">>)

Bal(t) == Count(t, "{") - Count(t, "}")

\* _collect_full_use_statement from line i: append lines while no ; has
\* been seen or braces are open; past the last line the loop breaks with
\* the index one beyond it.  Returns <<text, end index>>.
RECURSIVE CollectFrom(_, _, _)
CollectFrom(ls, i, t) ==
  IF Has(t, ";") /\ Bal(t) <= 0 THEN <<t, i>>
  ELSE IF i + 1 > Len(ls) THEN <<t, i + 1>>
  ELSE CollectFrom(ls, i + 1, t \o ls[i + 1])
Collect(ls, i) == CollectFrom(ls, i, ls[i])

\* The statement from line i is reported: it has segments and its
\* prefix is not ignored.
Reportable(pp) == Segments(pp) # <<>> /\ ~Ignored(Segments(pp))

\* The while loop of scan_for_segments over one file's lines.
RECURSIVE SegLoop(_, _)
SegLoop(ls, i) ==
  IF i > Len(ls) THEN {}
  ELSE IF ~HasUse(ls[i]) THEN SegLoop(ls, i + 1)
  ELSE LET c == Collect(ls, i)
           pp == PathPart(c[1])
       IN (IF Reportable(pp) /\ SegHit(pp) THEN {i} ELSE {}) \cup SegLoop(ls, c[2] + 1)
ScanForSegments(ls) == SegLoop(ls, 1)

=============================================================================
