--------------------------- MODULE FindNestedUses ---------------------------
(***************************************************************************)
(* src/tools/find_nested_uses.py: reports split uses (a braced group whose *)
(* entries hold paths), deep uses (four or more path segments) and uses    *)
(* naming a --segment.  A .rs file given as an argument goes through the   *)
(* while loop of main, which collects multi-line statements and gives each *)
(* statement to the first of three branches that takes it; a directory     *)
(* goes through a line scan for split uses, scan and scan_for_segments.    *)
(*                                                                         *)
(* The line tests are those of UseStatements.                              *)
(***************************************************************************)
EXTENDS UseStatements

Flags == [only_deep: BOOLEAN, deep: BOOLEAN, segment: BOOLEAN]

CONSTANT Cases
ASSUME Cases \subseteq [text: Seq(Seq(Tokens)), flags: Flags]

VARIABLES
    text,     \* the lines of the file argument
    flags,    \* --only-deep, --deep, and whether --segment SEG is given
    idx,      \* the loop index of main, 1-based
    split,    \* split_findings: line numbers
    nested,   \* nested_findings: line numbers
    segs,     \* segment_findings: line numbers
    exit,     \* main's return value once it has returned
    status    \* "scan", "done"

vars == <<text, flags, idx, split, nested, segs, exit, status>>

(***************************************************************************)
(* The directory branch of main.                                           *)
(***************************************************************************)

\* The os.walk loop of main: each line SPLIT_USE_RE matches on its own.
DirSplit(ls) == {i \in DOMAIN ls : SplitRE(ls[i]) /\ Reportable(PathPart(ls[i]))}

\* scan(r, ...): NESTED_USE_RE is not defined in this module, so the first
\* line of every file raises NameError, which the except Exception around
\* the file swallows: no file yields a finding.
ScanDeep(ls) == {}

\* With --segment, main extends segment_findings by scan_for_segments(r).
DirSegments(ls) == ScanForSegments(ls)

(***************************************************************************)
(* The file branch of main: the while loop over the lines of the file.     *)
(***************************************************************************)

Init ==
  /\ \E c \in Cases : text = c.text /\ flags = c.flags
  /\ idx = 1 /\ split = {} /\ nested = {} /\ segs = {}
  /\ exit = 0 /\ status = "scan"

Line == text[idx]

\* The branch each line goes to, in the order main tries them.
TakenBySplit(l) == ~flags.only_deep /\ (SplitRE(l) \/ (HasUse(l) /\ Has(l, "{")))
TakenByDeep(l) ==
  ~TakenBySplit(l) /\ (flags.only_deep \/ flags.segment \/ flags.deep) /\ DeepRE(l)
TakenBySegment(l) == ~TakenBySplit(l) /\ ~TakenByDeep(l) /\ flags.segment /\ HasUse(l)

Scanning == status = "scan" /\ idx <= Len(text)

\* Split-use detection: the statement from this line is collected,
\* reported unless its prefix is ignored, and skipped over.
SplitBranch ==
  /\ Scanning /\ TakenBySplit(Line)
  /\ LET c == Collect(text, idx)
     IN /\ split' = IF Reportable(PathPart(c[1])) THEN split \cup {idx} ELSE split
        /\ idx' = c[2] + 1
  /\ UNCHANGED <<text, flags, nested, segs, exit, status>>

\* Deep-use detection, tried with --only-deep, --segment or --deep.
DeepBranch ==
  /\ Scanning /\ TakenByDeep(Line)
  /\ LET c == Collect(text, idx)
     IN /\ nested' = IF Reportable(PathPart(c[1])) THEN nested \cup {idx} ELSE nested
        /\ idx' = c[2] + 1
  /\ UNCHANGED <<text, flags, split, segs, exit, status>>

\* Segment detection on a line holding "use".
SegmentBranch ==
  /\ Scanning /\ TakenBySegment(Line)
  /\ LET c == Collect(text, idx)
         pp == PathPart(c[1])
     IN /\ segs' = IF Reportable(pp) /\ SegHit(pp) THEN segs \cup {idx} ELSE segs
        /\ idx' = c[2] + 1
  /\ UNCHANGED <<text, flags, split, nested, exit, status>>

\* No branch takes the line: idx += 1.
NextLine ==
  /\ Scanning
  /\ ~TakenBySplit(Line) /\ ~TakenByDeep(Line) /\ ~TakenBySegment(Line)
  /\ idx' = idx + 1
  /\ UNCHANGED <<text, flags, split, nested, segs, exit, status>>

\* The loop is over: main prints what its flags select and returns 2 when
\* it printed a finding.
Finish ==
  /\ status = "scan" /\ idx > Len(text)
  /\ LET printed == \/ split # {} /\ ~flags.only_deep
                    \/ nested # {} /\ (flags.only_deep \/ flags.deep)
                    \/ flags.segment /\ segs # {}
     IN exit' = IF printed THEN 2 ELSE 0
  /\ status' = "done"
  /\ UNCHANGED <<text, flags, idx, split, nested, segs>>

Next == SplitBranch \/ DeepBranch \/ SegmentBranch \/ NextLine \/ Finish

Spec == Init /\ [][Next]_vars /\ WF_vars(Next)

TypeOK ==
  /\ text \in Seq(Seq(Tokens)) /\ flags \in Flags
  /\ idx \in 1..(Len(text) + 2)
  /\ split \subseteq DOMAIN text /\ nested \subseteq DOMAIN text
  /\ segs \subseteq DOMAIN text
  /\ exit \in {0, 2} /\ status \in {"scan", "done"}

(***************************************************************************)
(* Properties.                                                             *)
(***************************************************************************)

\* With --segment, a .rs file given as the argument yields the segment
\* findings that scan_for_segments yields for it when its directory is
\* the argument: the --segment help promises to report every use line
\* that contains the segment, whichever way the file is reached.
SegmentsFileMatchesDir ==
  status = "done" /\ flags.segment => segs = DirSegments(text)

=============================================================================
