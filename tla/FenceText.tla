----------------------------- MODULE FenceText -----------------------------
(***************************************************************************)
(* The text of a Rust source file as src/tools/remove_doc_tests.py sees    *)
(* it, and the regular expressions and the string rewrite it applies to a  *)
(* line.                                                                   *)
(*                                                                         *)
(* A line is a sequence of tokens.  Only the lexemes the regular           *)
(* expressions tell apart are tokens; spaces are dropped (every pattern    *)
(* the script uses allows or strips them):                                 *)
(*   "LD"    a line-doc prefix, /// or //!                                 *)
(*   "LC"    a plain // comment marker                                     *)
(*   "BO"    a block-doc opener, /** or /*!                                *)
(*   "BC"    the block closer */                                           *)
(*   "F3"    a fence of three backticks, "F4" of four                      *)
(*   "RUST", "IGN", "TXT"  the words rust, ignore and any other tag word   *)
(*   "COMMA" a comma, "CODE" any other text, "NL" the line terminator      *)
(* A file is a sequence of lines; its text is their concatenation.         *)
(***************************************************************************)
EXTENDS Naturals, Sequences, SequencesExt

Tokens == {"LD", "LC", "BO", "BC", "F3", "F4", "RUST", "IGN", "TXT",
           "COMMA", "CODE", "NL"}
FenceTokens == {"F3", "F4"}

\* The text of a list of lines: ''.join(lines).
Join(lines) == FlattenSeq(lines)

\* s.splitlines(keepends=True): cut a text after every line terminator.
RECURSIVE SplitLines(_)
SplitLines(s) ==
  IF s = <<>> THEN <<>>
  ELSE LET ends == {k \in 1..Len(s) : s[k] = "NL"}
           cut  == IF ends = {} THEN Len(s) ELSE Min(ends)
       IN <<SubSeq(s, 1, cut)>> \o SplitLines(SubSeq(s, cut + 1, Len(s)))

\* OPENING_LINE_DOC_RE.match(line): the line starts with /// or //!.
IsLineDoc(line) == line # <<>> /\ Head(line) = "LD"

\* Its group 'rest': what follows the prefix, up to the line terminator
\* ('.' does not match it and '$' matches just before it).
LineDocRest(line) ==
  SubSeq(line, 2, IF Last(line) = "NL" THEN Len(line) - 1 ELSE Len(line))

\* OPENING_BLOCK_START_RE.match(line.lstrip()): the line opens /** or /*!.
OpensBlock(line) == line # <<>> /\ Head(line) = "BO"

\* CLOSING_BLOCK_RE.search(line): */ anywhere on the line.
ClosesBlock(line) == \E k \in 1..Len(line) : line[k] = "BC"

\* '```' in line: three or more backticks anywhere on the line.
HasBackticks(line) == \E k \in 1..Len(line) : line[k] \in FenceTokens

\* FENCE_RE.search(s): the index of the first fence of s, 0 when none.
FenceAt(s) ==
  LET ks == {k \in 1..Len(s) : s[k] \in FenceTokens}
  IN IF ks = {} THEN 0 ELSE Min(ks)

\* Its group 'lang': [^`]*, everything after the fence up to the next
\* backtick or the end of s, the line terminator included.
LangRaw(s) ==
  LET k    == FenceAt(s)
      nxt  == {j \in k+1..Len(s) : s[j] \in FenceTokens}
      stop == IF nxt = {} THEN Len(s) ELSE Min(nxt) - 1
  IN SubSeq(s, k + 1, stop)

\* f.group('lang').strip(): the tag without surrounding whitespace.
RECURSIVE Strip(_)
Strip(t) ==
  CASE t # <<>> /\ Head(t) = "NL" -> Strip(Tail(t))
    [] t # <<>> /\ Last(t) = "NL" -> Strip(Front(t))
    [] OTHER -> t

\* 'rust' in lang.
MentionsRust(lang) == \E k \in 1..Len(lang) : lang[k] = "RUST"

\* The language filter of --only-rust: the fence is left alone.
FilteredOut(only_rust, lang) == only_rust /\ ~MentionsRust(lang)

(***************************************************************************)
(* line.replace(fence + lang_raw, fence + lang + (',' if lang) + 'ignore') *)
(* where the fence was found in s, the suffix of line that starts after    *)
(* its first off tokens (off = 1 for the rest of a line-doc line, 0 for a  *)
(* whole line).  A line holds one fence, so the pattern occurs once.  When *)
(* s is the whole line, lang_raw holds the line terminator and the         *)
(* replacement drops it.                                                   *)
(***************************************************************************)
DisableFence(line, s, off) ==
  LET k    == FenceAt(s)
      raw  == LangRaw(s)
      lang == Strip(raw)
      tag  == lang \o (IF lang = <<>> THEN <<>> ELSE <<"COMMA">>) \o <<"IGN">>
  IN ReplaceSubSeqAt(off + k, <<s[k]>> \o tag, <<s[k]>> \o raw, line)

=============================================================================
