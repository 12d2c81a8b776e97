--------------------------- MODULE FindLongUses ----------------------------
(***************************************************************************)
(* src/tools/find_long_uses.py: main walks its path arguments in order.  A *)
(* .rs file is read line by line: a line NESTED_USE_RE matches sets the    *)
(* local `prefix` and is reported unless the prefix is ignored; with       *)
(* --segment every line holding "use" is then tested for the segment,     *)
(* against whatever `prefix` holds at that point.  A directory goes to     *)
(* scan (the same depth test over every .rs file under it) and, with       *)
(* --segment, to scan_for_segments imported from find_nested_uses.        *)
(*                                                                         *)
(* A path argument is a record: a .rs file (its lines, and whether it      *)
(* decodes as UTF-8), a directory (the .rs files os.walk yields, in that   *)
(* order) or anything else.  A finding is <<argument, file, line>>.        *)
(* The line tests are those of UseStatements.                              *)
(***************************************************************************)
EXTENDS UseStatements

CONSTANTS
    Args,       \* the path-argument lists main may be given
    Unbound     \* `prefix` before any assignment

RsFile == [lines: Seq(Seq(Tokens)), ok: BOOLEAN]
Arg == [kind: {"file"}, files: Seq(RsFile)] \cup [kind: {"dir"}, files: Seq(RsFile)]
         \cup [kind: {"other"}, files: {<<>>}]

ASSUME Args \subseteq Seq(Arg)

VARIABLES
    roots,      \* the path arguments
    segment,    \* whether --segment SEG is given
    importable, \* whether the package `tools` is on sys.path
    r,          \* the index of the argument the loop is at
    i,          \* the line index in a file argument, 1-based
    prefix,     \* main's local `prefix`: Unbound or a path prefix
    nested,     \* nested_findings
    segf,       \* segment_findings
    exit,       \* main's return value, or the traceback's 1
    status      \* "running", "done", "crashed"

vars == <<roots, segment, importable, r, i, prefix, nested, segf, exit, status>>

\* NESTED_USE_RE: the regex find_nested_uses calls DEEP_USE_RE.
NestedUseRE(l) == DeepRE(l)

\* The prefix main and scan derive from a line NESTED_USE_RE matched.
LongPrefix(l) == Prefix(Segments(PathPart(l)))

\* f"::{seg}::" in path_part or path_part.endswith(f"::{seg}")
LongSegHit(pp) == HasSub(pp, <<"::", "SEG", "::">>) \/ IsSuffix(<<"::", "SEG">>, pp)

\* The path part the segment loop takes: '' when "use" is not in the line.
SegPath(l) == IF HasUse(l) THEN PathPart(l) ELSE <<>>

\* scan(root): the lines of the readable files that NESTED_USE_RE matches
\* and whose prefix is not ignored; a file that fails to decode is skipped.
Scan(k) ==
  LET fs == roots[k].files
      hits(f) == {n \in DOMAIN fs[f].lines :
                    NestedUseRE(fs[f].lines[n]) /\ ~IgnoredPrefix(LongPrefix(fs[f].lines[n]))}
  IN UNION {{<<k, f, n>> : n \in hits(f)} : f \in {g \in DOMAIN fs : fs[g].ok}}

\* scan_for_segments(root, ...) over the readable files.
SegScan(k) ==
  LET fs == roots[k].files
  IN UNION {{<<k, f, n>> : n \in ScanForSegments(fs[f].lines)} : f \in {g \in DOMAIN fs : fs[g].ok}}

Init ==
  /\ roots \in Args
  /\ segment \in BOOLEAN
  /\ importable \in BOOLEAN
  /\ r = 1 /\ i = 1 /\ prefix = Unbound
  /\ nested = {} /\ segf = {} /\ exit = 0 /\ status = "running"

Arg1 == roots[r]
InFile == status = "running" /\ r <= Len(roots) /\ Arg1.kind = "file"
Lines == Arg1.files[1].lines

\* The prefix after the depth test of line l.
PrefixAfter(l) == IF NestedUseRE(l) THEN LongPrefix(l) ELSE prefix

\* The segment test reads `prefix` on this line.
ReadsPrefix(l) == segment /\ SegPath(l) # <<>>

\* One iteration of the for loop over a file's lines: the depth test,
\* then the segment test.
FileLine ==
  /\ InFile /\ Arg1.files[1].ok /\ i <= Len(Lines)
  /\ LET l == Lines[i]
         p == PrefixAfter(l)
     IN /\ ~(ReadsPrefix(l) /\ p = Unbound)
        /\ nested' = IF NestedUseRE(l) /\ ~IgnoredPrefix(p)
                       THEN nested \cup {<<r, 1, i>>} ELSE nested
        /\ segf' = IF ReadsPrefix(l) /\ ~IgnoredPrefix(p) /\ LongSegHit(SegPath(l))
                     THEN segf \cup {<<r, 1, i>>} ELSE segf
        /\ prefix' = p
  /\ i' = i + 1
  /\ UNCHANGED <<roots, segment, importable, r, exit, status>>

\* The segment test reads `prefix` before any line set it: NameError,
\* which nothing catches.
PrefixUnbound ==
  /\ InFile /\ Arg1.files[1].ok /\ i <= Len(Lines)
  /\ ReadsPrefix(Lines[i]) /\ PrefixAfter(Lines[i]) = Unbound
  /\ status' = "crashed" /\ exit' = 1
  /\ UNCHANGED <<roots, segment, importable, r, i, prefix, nested, segf>>

\* Iterating the file decodes it: UnicodeDecodeError, which nothing catches.
FileUndecodable ==
  /\ InFile /\ ~Arg1.files[1].ok
  /\ status' = "crashed" /\ exit' = 1
  /\ UNCHANGED <<roots, segment, importable, r, i, prefix, nested, segf>>

\* The file's lines are done: the next argument.
FileDone ==
  /\ InFile /\ Arg1.files[1].ok /\ i > Len(Lines)
  /\ r' = r + 1 /\ i' = 1
  /\ UNCHANGED <<roots, segment, importable, prefix, nested, segf, exit, status>>

InDir == status = "running" /\ r <= Len(roots) /\ Arg1.kind = "dir"

\* A directory: scan, then with --segment the import and scan_for_segments.
DirArg ==
  /\ InDir /\ (segment => importable)
  /\ nested' = nested \cup Scan(r)
  /\ segf' = IF segment THEN segf \cup SegScan(r) ELSE segf
  /\ r' = r + 1
  /\ UNCHANGED <<roots, segment, importable, i, prefix, exit, status>>

\* from tools.find_nested_uses import ...: ModuleNotFoundError.
DirImportFails ==
  /\ InDir /\ segment /\ ~importable
  /\ status' = "crashed" /\ exit' = 1
  /\ UNCHANGED <<roots, segment, importable, r, i, prefix, nested, segf>>

\* Neither a .rs file nor a directory: nothing is done with it.
OtherArg ==
  /\ status = "running" /\ r <= Len(roots) /\ Arg1.kind = "other"
  /\ r' = r + 1
  /\ UNCHANGED <<roots, segment, importable, i, prefix, nested, segf, exit, status>>

\* After the loop: return 2 if nested_findings or segment_findings.
Finish ==
  /\ status = "running" /\ r > Len(roots)
  /\ exit' = IF nested # {} \/ segf # {} THEN 2 ELSE 0
  /\ status' = "done"
  /\ UNCHANGED <<roots, segment, importable, r, i, prefix, nested, segf>>

Next == FileLine \/ PrefixUnbound \/ FileUndecodable \/ FileDone \/ DirArg
          \/ DirImportFails \/ OtherArg \/ Finish

Spec == Init /\ [][Next]_vars /\ WF_vars(Next)

TypeOK ==
  /\ roots \in Args /\ segment \in BOOLEAN /\ importable \in BOOLEAN
  /\ r \in 1..(Len(roots) + 1)
  /\ prefix \in {Unbound} \cup Seq(Tokens)
  /\ nested \subseteq (1..Len(roots)) \X Nat \X Nat
  /\ segf \subseteq (1..Len(roots)) \X Nat \X Nat
  /\ exit \in {0, 1, 2} /\ status \in {"running", "done", "crashed"}

(***************************************************************************)
(* Properties.                                                             *)
(***************************************************************************)

\* With --segment, a run that finishes reports for each .rs file given as
\* an argument the segment findings scan_for_segments reports for it when
\* its directory is given instead: the --segment help promises every use
\* line holding the segment, whichever way the file is reached, and the
\* `prefix` the test reads must be the line's own.
SegmentsFileMatchesDir ==
  status = "done" /\ segment =>
    \A k \in DOMAIN roots :
      roots[k].kind = "file" =>
        {t[3] : t \in {t \in segf : t[1] = k}} = ScanForSegments(roots[k].files[1].lines)

=============================================================================
