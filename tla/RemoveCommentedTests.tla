------------------------ MODULE RemoveCommentedTests ------------------------
(***************************************************************************)
(* src/tools/remove_commented_tests.py: process_file's loop over the lines *)
(* of each listed file, the backup and the rewrite under --apply, the     *)
(* running total and the exit code.  Each write_text is two steps, the     *)
(* truncating open and the data, and the process may be killed between    *)
(* any two steps.                                                          *)
(*                                                                         *)
(* A line is abstracted to the class the two regular expressions tell      *)
(* apart:                                                                  *)
(*   "test_attr"  // #[test]    (TEST_ATTR_RE)                             *)
(*   "comment"    any other line starting with //                          *)
(*   "doc"        a /// or //! doc comment, which also starts with //      *)
(*   "blank"      a line that strip()s to ""                               *)
(*   "code"       anything else                                            *)
(***************************************************************************)
EXTENDS Naturals, Sequences, SequencesExt

LineKinds == {"test_attr", "comment", "doc", "blank", "code"}

CONSTANTS
    Files,      \* the file paths the walk may produce
    Lists,      \* the files lists scan_paths may build
    Texts,      \* the contents a file may hold: sequences of lines
    NoBackup    \* no .bak file exists

ASSUME Lists \subseteq Seq(Files)
ASSUME Texts \subseteq Seq(LineKinds)
ASSUME NoBackup \notin Seq(LineKinds)

VARIABLES
    files,          \* the files list
    pos,            \* the index of the file the for loop is at
    orig,           \* each file's content when the run started
    disk,           \* each file's content on disk
    bak,            \* each file's .bak sibling, NoBackup when there is none
    apply,          \* --apply
    lines,          \* process_file: s.splitlines(keepends=True)
    i,              \* its loop index, 1-based
    out_lines,
    removed_blocks,
    changed,
    total,          \* scan_paths: total_removed
    stage,          \* "next", "loop", or the write step under way
    status          \* "running", "done", "killed"

vars == <<files, pos, orig, disk, bak, apply, lines, i, out_lines,
          removed_blocks, changed, total, stage, status>>

\* TEST_ATTR_RE.match(line)
IsTestAttr(l) == l = "test_attr"
\* re.match(r"^\s*//", line)
StartsComment(l) == l \in {"test_attr", "comment", "doc"}
\* line.strip() == ""
IsBlank(l) == l = "blank"

\* The inner while loop: the first index from j on that is not a comment.
RECURSIVE SkipComments(_, _)
SkipComments(ls, j) ==
  IF j <= Len(ls) /\ StartsComment(ls[j]) THEN SkipComments(ls, j + 1) ELSE j

\* Mutant: the trailing line is dropped whether it is blank or not.
AfterBlockAnyLine(ls, j) ==
  LET k == SkipComments(ls, j + 1)
  IN IF k <= Len(ls) THEN k + 1 ELSE k

\* The index after a block starting at j: the attribute line, the
\* comment lines after it and one blank line, if there is one.
AfterBlock(ls, j) ==
  LET k == SkipComments(ls, j + 1)
  IN IF k <= Len(ls) /\ IsBlank(ls[k]) THEN k + 1 ELSE k

\* The write steps of one file: the backup's open('w') and data, then the
\* file's.
WriteStages == <<"bak_trunc", "bak_data", "trunc", "data">>

Init ==
  /\ files \in Lists
  /\ pos = 1
  /\ orig \in [Files -> Texts]
  /\ disk = orig
  /\ bak = [f \in Files |-> NoBackup]
  /\ apply \in BOOLEAN
  /\ lines = <<>> /\ i = 1 /\ out_lines = <<>>
  /\ removed_blocks = 0 /\ changed = FALSE
  /\ total = 0
  /\ stage = "next"
  /\ status = "running"

Current == files[pos]

\* The for loop calls process_file(f, apply), which reads the file.
ReadFile ==
  /\ status = "running" /\ stage = "next" /\ pos <= Len(files)
  /\ lines' = disk[Current]
  /\ i' = 1 /\ out_lines' = <<>> /\ removed_blocks' = 0 /\ changed' = FALSE
  /\ stage' = "loop"
  /\ UNCHANGED <<files, pos, orig, disk, bak, apply, total, status>>

\* Mutant: the block is removed but not counted.
RemoveBlockUncounted ==
  /\ status = "running" /\ stage = "loop" /\ i <= Len(lines)
  /\ IsTestAttr(lines[i])
  /\ changed' = TRUE
  /\ i' = AfterBlock(lines, i)
  /\ UNCHANGED <<files, pos, orig, disk, bak, apply, lines, out_lines,
                 removed_blocks, total, stage, status>>

\* A // #[test] line: it, the comment lines after it and one blank line
\* are dropped.
RemoveBlock ==
  /\ status = "running" /\ stage = "loop" /\ i <= Len(lines)
  /\ IsTestAttr(lines[i])
  /\ removed_blocks' = removed_blocks + 1
  /\ changed' = TRUE
  /\ i' = AfterBlock(lines, i)
  /\ UNCHANGED <<files, pos, orig, disk, bak, apply, lines, out_lines, total,
                 stage, status>>

\* Mutant: the index is advanced twice, skipping a line.
KeepLineSkip ==
  /\ status = "running" /\ stage = "loop" /\ i <= Len(lines)
  /\ ~IsTestAttr(lines[i])
  /\ out_lines' = Append(out_lines, lines[i])
  /\ i' = i + 2
  /\ UNCHANGED <<files, pos, orig, disk, bak, apply, lines, removed_blocks,
                 changed, total, stage, status>>

\* Any other line is kept.
KeepLine ==
  /\ status = "running" /\ stage = "loop" /\ i <= Len(lines)
  /\ ~IsTestAttr(lines[i])
  /\ out_lines' = Append(out_lines, lines[i])
  /\ i' = i + 1
  /\ UNCHANGED <<files, pos, orig, disk, bak, apply, lines, removed_blocks,
                 changed, total, stage, status>>

\* process_file returns to the for loop, which adds the count of a
\* changed file to the total and moves to the next file.
Return ==
  /\ pos' = pos + 1
  /\ total' = IF changed THEN total + removed_blocks ELSE total
  /\ stage' = "next"

\* Mutant: --apply rewrites (and backs up) the file even when unchanged.
EndLoopWriteAll ==
  /\ status = "running" /\ stage = "loop" /\ i > Len(lines)
  /\ IF apply THEN stage' = WriteStages[1] /\ UNCHANGED <<pos, total>>
              ELSE Return
  /\ UNCHANGED <<files, orig, disk, bak, apply, lines, i, out_lines,
                 removed_blocks, changed, status>>

\* The loop has ended: nothing to write unless changed and --apply.
EndLoop ==
  /\ status = "running" /\ stage = "loop" /\ i > Len(lines)
  /\ IF changed /\ apply THEN stage' = WriteStages[1] /\ UNCHANGED <<pos, total>>
                         ELSE Return
  /\ UNCHANGED <<files, orig, disk, bak, apply, lines, i, out_lines,
                 removed_blocks, changed, status>>

\* Mutant: the file is written before its backup.
WriteStepFileFirst ==
  /\ status = "running" /\ stage \in {WriteStages[k] : k \in 1..4}
  /\ LET k == CHOOSE j \in 1..4 : WriteStages[j] = stage
     IN /\ CASE k = 1 -> disk' = [disk EXCEPT ![Current] = <<>>] /\ UNCHANGED bak
             [] k = 2 -> disk' = [disk EXCEPT ![Current] = out_lines] /\ UNCHANGED bak
             [] k = 3 -> bak' = [bak EXCEPT ![Current] = <<>>] /\ UNCHANGED disk
             [] k = 4 -> bak' = [bak EXCEPT ![Current] = lines] /\ UNCHANGED disk
        /\ IF k = 4 THEN Return ELSE stage' = WriteStages[k + 1] /\ UNCHANGED <<pos, total>>
  /\ UNCHANGED <<files, orig, apply, lines, i, out_lines, removed_blocks,
                 changed, status>>

\* One step of backup.write_text(s) then path.write_text(''.join(out_lines)).
WriteStep ==
  /\ status = "running" /\ stage \in {WriteStages[k] : k \in 1..4}
  /\ LET k == CHOOSE j \in 1..4 : WriteStages[j] = stage
     IN /\ CASE k = 1 -> bak' = [bak EXCEPT ![Current] = <<>>] /\ UNCHANGED disk
             [] k = 2 -> bak' = [bak EXCEPT ![Current] = lines] /\ UNCHANGED disk
             [] k = 3 -> disk' = [disk EXCEPT ![Current] = <<>>] /\ UNCHANGED bak
             [] k = 4 -> disk' = [disk EXCEPT ![Current] = out_lines] /\ UNCHANGED bak
        /\ IF k = 4 THEN Return ELSE stage' = WriteStages[k + 1] /\ UNCHANGED <<pos, total>>
  /\ UNCHANGED <<files, orig, apply, lines, i, out_lines, removed_blocks,
                 changed, status>>

\* Every file done: scan_paths returns the total and the script exits.
Finish ==
  /\ status = "running" /\ stage = "next" /\ pos > Len(files)
  /\ status' = "done"
  /\ UNCHANGED <<files, pos, orig, disk, bak, apply, lines, i, out_lines,
                 removed_blocks, changed, total, stage>>

\* The process is killed between two steps.
Kill ==
  /\ status = "running"
  /\ status' = "killed"
  /\ UNCHANGED <<files, pos, orig, disk, bak, apply, lines, i, out_lines,
                 removed_blocks, changed, total, stage>>

\* sys.exit(2) when total > 0, else 0.
ExitCode == IF total > 0 THEN 2 ELSE 0

Next == ReadFile \/ RemoveBlock \/ KeepLine \/ EndLoop \/ WriteStep
          \/ Finish \/ Kill

\* Kill is the environment's and never forced; the script itself runs on.
Spec == Init /\ [][Next]_vars
          /\ WF_vars(ReadFile \/ RemoveBlock \/ KeepLine \/ EndLoop
                       \/ WriteStep \/ Finish)

TypeOK ==
  /\ files \in Lists
  /\ pos \in 1..Len(files) + 1
  /\ orig \in [Files -> Texts]
  /\ disk \in [Files -> Seq(LineKinds)]
  /\ bak \in [Files -> Seq(LineKinds) \cup {NoBackup}]
  /\ apply \in BOOLEAN
  /\ lines \in Seq(LineKinds)
  /\ i \in 1..Len(lines) + 1
  /\ out_lines \in Seq(LineKinds)
  /\ removed_blocks \in 0..Len(lines)
  /\ changed \in BOOLEAN
  /\ total \in Nat
  /\ stage \in {"next", "loop"} \cup {WriteStages[k] : k \in 1..4}
  /\ status \in {"running", "done", "killed"}

(***************************************************************************)
(* Properties.                                                             *)
(***************************************************************************)

Listed == {files[k] : k \in 1..Len(files)}
HasTest(t) == \E k \in 1..Len(t) : IsTestAttr(t[k])
\* The lines of live code, in order.
Live(t) == SelectSeq(t, LAMBDA l : l = "code")

\* After a finished --apply run no listed file holds a // #[test] line any
\* more, and each holds exactly the code lines it held before, in order:
\* the inner loop and the trailing-blank check of process_file remove
\* commented lines and separators only, whatever follows a block.
AppliedFilesClean ==
  status = "done" /\ apply =>
    \A f \in Listed : ~HasTest(disk[f]) /\ Live(disk[f]) = Live(orig[f])

\* Killed at any step, every file's original content is still on disk,
\* in the file or in its .bak (spec.md 3 and 5: the backup is written
\* before the overwrite).
RecoverableAfterKill ==
  \A f \in Files : disk[f] = orig[f] \/ bak[f] = orig[f]

\* A finished run exits 2 exactly when some listed file holds a commented
\* test, with or without --apply: the count of every changed file reaches
\* the total.
ExitCodeReportsBlocks ==
  status = "done" =>
    (ExitCode = 2 <=> \E f \in Listed : HasTest(orig[f]))

\* A file without a commented test is never rewritten and gets no backup
\* (spec.md 3: files with zero matches are left untouched).
UntouchedUnlessMatched ==
  \A f \in Files : disk[f] # orig[f] \/ bak[f] # NoBackup => HasTest(orig[f])

=============================================================================
