--------------------------- MODULE AtomicRewrite ---------------------------
(***************************************************************************)
(* What a rewriting tool with backups promises (spec.md 3 and 5): the      *)
(* listed files are taken in order, and each is replaced in one step by   *)
(* its rewrite of the disk as it is at that moment, or is left alone       *)
(* without --apply.  The run may stop at any point (kill, crash) and       *)
(* otherwise goes on until every file is done.  Between two replacements   *)
(* no file is ever seen in any other state: a reader who takes the .bak    *)
(* of a file under rewrite sees its old text.                              *)
(***************************************************************************)
EXTENDS Naturals, Sequences

CONSTANTS
    Files,
    Rewrite(_, _)   \* Rewrite(f, d): the new text of f when the disk is d

VARIABLES
    disk,     \* the text of each file
    apply,    \* --apply
    todo,     \* the files to process, in order
    pos,      \* how many of them are done
    status    \* "running", "done", "stopped"

vars == <<disk, apply, todo, pos, status>>

Init == pos = 0 /\ status = "running"

\* The next file is replaced by its rewrite, at once.
Step ==
  /\ status = "running" /\ pos < Len(todo)
  /\ LET f == todo[pos + 1]
     IN disk' = [disk EXCEPT ![f] = IF apply THEN Rewrite(f, disk) ELSE @]
  /\ pos' = pos + 1
  /\ UNCHANGED <<apply, todo, status>>

Finish ==
  /\ status = "running" /\ pos = Len(todo)
  /\ status' = "done"
  /\ UNCHANGED <<disk, apply, todo, pos>>

\* The process is killed or fails.
Stop ==
  /\ status = "running"
  /\ status' = "stopped"
  /\ UNCHANGED <<disk, apply, todo, pos>>

Next == Step \/ Finish \/ Stop

\* The steps a run may take.
Safety == Init /\ [][Next]_vars

\* A run that is not stopped finishes.
Spec == Safety /\ WF_vars(Step \/ Finish)

=============================================================================
