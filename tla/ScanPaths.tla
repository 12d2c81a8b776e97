----------------------------- MODULE ScanPaths -----------------------------
(***************************************************************************)
(* scan_paths and the exit code of src/tools/remove_doc_tests.py: the      *)
(* files are scanned one after the other; a file process_file reports      *)
(* changed is counted and, with --apply, read again, transformed by        *)
(* apply_transformations_to_text and written, twice.  Each write_text is   *)
(* two steps, the truncating open and the write, and the process may be    *)
(* killed between any two steps.                                           *)
(*                                                                         *)
(* process_file's verdict is "apply_transformations_to_text changes the    *)
(* text", and its count is positive with it: ProcessFile checks both       *)
(* (ScanMatchesApply, ReportedIffRewritten), so this module composes the   *)
(* operator rather than the loop.                                          *)
(***************************************************************************)
EXTENDS ApplyTransformations, FiniteSets

CONSTANTS
    Files,          \* the file paths the walk may produce
    Lists,          \* the files lists the walk may build from the paths
    Texts,          \* the contents a file may hold
    Configs         \* the flag combinations: [delete, only_rust, line_doc_only]

ASSUME Lists \subseteq Seq(Files)
ASSUME Texts \subseteq Seq(Tokens)

VARIABLES
    files,      \* the files list built from the paths
    pos,        \* the index of the file the loop is at
    scanned,    \* the files whose process_file returned
    orig,       \* each file's content when the run started
    readable,   \* whether read_text(encoding='utf-8') succeeds on it
    disk,       \* each file's content on disk
    flags,      \* delete, only_rust, line_doc_only
    apply,      \* --apply
    changed,    \* the files with ch true; total > 0 iff it is not empty
    stage,      \* "scan", or the step of the writes of the current file
    newc,       \* new_content of the current file
    status      \* "running", "done", "aborted" (exception), "killed"

vars == <<files, pos, scanned, orig, readable, disk, flags, apply, changed,
          stage, newc, status>>

Transform(t) == ApplyTransformationsToText(t, flags)

\* The write steps of one file: open('w') truncates, then the data.
WriteStages == <<"trunc1", "data1", "trunc2", "data2">>

Init ==
  /\ files \in Lists
  /\ pos = 1
  /\ scanned = {}
  /\ orig \in [Files -> Texts]
  /\ readable \in [Files -> BOOLEAN]
  /\ disk = orig
  /\ flags \in Configs
  /\ apply \in BOOLEAN
  /\ changed = {}
  /\ stage = "scan"
  /\ newc = <<>>
  /\ status = "running"

Current == files[pos]
AtFile == pos <= Len(files)

\* process_file on a file that does not decode: the exception leaves
\* scan_paths and the script.
ReadFails ==
  /\ status = "running" /\ stage = "scan" /\ AtFile
  /\ ~readable[Current]
  /\ status' = "aborted"
  /\ UNCHANGED <<files, pos, scanned, orig, readable, disk, flags, apply,
                 changed, stage, newc>>

\* Mutant: total is only added to when writing.
ProcessNextCountOnApply ==
  /\ status = "running" /\ stage = "scan" /\ AtFile
  /\ readable[Current]
  /\ LET ch == Transform(disk[Current]) # disk[Current]
     IN /\ scanned' = scanned \cup {Current}
        /\ changed' = IF ch /\ apply THEN changed \cup {Current} ELSE changed
        /\ IF ch /\ apply
             THEN stage' = WriteStages[1] /\ newc' = Transform(disk[Current])
                  /\ UNCHANGED pos
             ELSE pos' = pos + 1 /\ UNCHANGED <<stage, newc>>
  /\ UNCHANGED <<files, orig, readable, disk, flags, apply, status>>

\* Mutant: every file is written under --apply, changed or not.
ProcessNextWriteAll ==
  /\ status = "running" /\ stage = "scan" /\ AtFile
  /\ readable[Current]
  /\ LET ch == Transform(disk[Current]) # disk[Current]
     IN /\ scanned' = scanned \cup {Current}
        /\ changed' = IF ch THEN changed \cup {Current} ELSE changed
        /\ IF apply
             THEN stage' = WriteStages[1] /\ newc' = Transform(disk[Current])
                  /\ UNCHANGED pos
             ELSE pos' = pos + 1 /\ UNCHANGED <<stage, newc>>
  /\ UNCHANGED <<files, orig, readable, disk, flags, apply, status>>

\* Mutant: the loop index moves past the next file.
ProcessNextSkip ==
  /\ status = "running" /\ stage = "scan" /\ AtFile
  /\ readable[Current]
  /\ LET ch == Transform(disk[Current]) # disk[Current]
     IN /\ scanned' = scanned \cup {Current}
        /\ changed' = IF ch THEN changed \cup {Current} ELSE changed
        /\ IF ch /\ apply
             THEN stage' = WriteStages[1] /\ newc' = Transform(disk[Current])
                  /\ UNCHANGED pos
             ELSE pos' = pos + 2 /\ UNCHANGED <<stage, newc>>
  /\ UNCHANGED <<files, orig, readable, disk, flags, apply, status>>

\* process_file returns; a changed file is counted and, with --apply,
\* read again and transformed (the .bak name is computed, never written).
ProcessNext ==
  /\ status = "running" /\ stage = "scan" /\ AtFile
  /\ readable[Current]
  /\ LET ch == Transform(disk[Current]) # disk[Current]
     IN /\ scanned' = scanned \cup {Current}
        /\ changed' = IF ch THEN changed \cup {Current} ELSE changed
        /\ IF ch /\ apply
             THEN /\ stage' = WriteStages[1]
                  /\ newc' = Transform(disk[Current])
                  /\ UNCHANGED pos
             ELSE /\ pos' = pos + 1
                  /\ UNCHANGED <<stage, newc>>
  /\ UNCHANGED <<files, orig, readable, disk, flags, apply, status>>

\* Mutant: the second write_text writes its data before truncating.
WriteStepSwapped ==
  /\ status = "running" /\ stage # "scan"
  /\ LET k == CHOOSE j \in 1..4 : WriteStages[j] = stage
     IN /\ disk' = [disk EXCEPT ![Current] =
                      IF k \in {1, 4} THEN <<>> ELSE newc]
        /\ IF k = 4 THEN stage' = "scan" /\ pos' = pos + 1
                    ELSE stage' = WriteStages[k + 1] /\ UNCHANGED pos
  /\ UNCHANGED <<files, scanned, orig, readable, flags, apply, changed,
                 newc, status>>

\* One step of f.write_text(new_content), done twice.
WriteStep ==
  /\ status = "running" /\ stage # "scan"
  /\ LET k == CHOOSE j \in 1..4 : WriteStages[j] = stage
     IN /\ disk' = [disk EXCEPT ![Current] =
                      IF k \in {1, 3} THEN <<>> ELSE newc]
        /\ IF k = 4 THEN stage' = "scan" /\ pos' = pos + 1
                    ELSE stage' = WriteStages[k + 1] /\ UNCHANGED pos
  /\ UNCHANGED <<files, scanned, orig, readable, flags, apply, changed,
                 newc, status>>

\* Every file scanned: scan_paths returns total and the script exits.
Finish ==
  /\ status = "running" /\ stage = "scan" /\ ~AtFile
  /\ status' = "done"
  /\ UNCHANGED <<files, pos, scanned, orig, readable, disk, flags, apply,
                 changed, stage, newc>>

\* The process is killed (Ctrl-C, a signal) between two steps.
Kill ==
  /\ status = "running"
  /\ status' = "killed"
  /\ UNCHANGED <<files, pos, scanned, orig, readable, disk, flags, apply,
                 changed, stage, newc>>

\* sys.exit(2) when total > 0, else 0; an exception exits 1.
ExitCode ==
  CASE status = "done" /\ changed # {} -> 2
    [] status = "done"                 -> 0
    [] OTHER                           -> 1

Next == ReadFails \/ ProcessNext \/ WriteStep \/ Finish \/ Kill

\* Kill is the environment's and never forced; the scan itself runs on.
Spec == Init /\ [][Next]_vars
          /\ WF_vars(ReadFails \/ ProcessNext \/ WriteStep \/ Finish)

TypeOK ==
  /\ files \in Lists
  /\ pos \in 1..Len(files) + 1
  /\ scanned \subseteq Files
  /\ orig \in [Files -> Texts]
  /\ readable \in [Files -> BOOLEAN]
  /\ disk \in [Files -> Seq(Tokens)]
  /\ apply \in BOOLEAN
  /\ changed \subseteq scanned
  /\ stage \in {"scan"} \cup {WriteStages[k] : k \in 1..4}
  /\ status \in {"running", "done", "aborted", "killed"}

(***************************************************************************)
(* Properties of the driver.                                               *)
(***************************************************************************)

\* The files the run was given.
Listed == {files[k] : k \in 1..Len(files)}

\* A run that finishes exits 2 exactly when some listed file has fences
\* to rewrite, with or without --apply (spec.md 6, exit code).
ExitCodeReportsChanges ==
  status = "done" =>
    (ExitCode = 2 <=> \E f \in Listed : Transform(orig[f]) # orig[f])

\* A file's content changes only once process_file has reported it
\* changed: files with nothing to rewrite are never touched (spec.md 3).
UntouchedUnlessChanged ==
  [][\A f \in Files : disk'[f] # disk[f] => f \in changed']_vars

\* The files listed exactly once.
ListedOnce == {f \in Listed : Cardinality({k \in 1..Len(files) : files[k] = f}) = 1}

\* After a finished --apply run every file listed once holds the transform
\* of the content it had before the run (spec.md 6, output), through the
\* second read, the two write_text calls and the other file's pass.  A
\* file listed twice is transformed twice, which the disable_twice run
\* shows is not the same in disable mode.
AppliedFilesTransformed ==
  status = "done" /\ apply =>
    \A f \in ListedOnce : disk[f] = Transform(orig[f])

\* An unreadable file is skipped and the run goes on: when the run ends,
\* every readable listed file has been scanned (spec.md 7).
ReadableFilesAllScanned ==
  status \in {"done", "aborted"} =>
    \A f \in Listed : readable[f] => f \in scanned

=============================================================================
