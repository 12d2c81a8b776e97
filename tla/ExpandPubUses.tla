--------------------------- MODULE ExpandPubUses ---------------------------
(***************************************************************************)
(* src/tools/expand_pub_uses.py: walk_and_process visits the .rs files     *)
(* under the target in os.walk order; process_file replaces each line      *)
(* pub use <path>::*; whose module resolves and has between 1 and          *)
(* max_items public items by pub use <path>::{items};, reading the module  *)
(* file as it is on disk at that moment.  With --apply a changed file is   *)
(* written after a .bak copy; each write is two steps (the truncating open *)
(* and the data) and the process may be killed between any two steps.     *)
(*                                                                         *)
(* A line is abstracted to what the regular expressions tell apart: a pub  *)
(* item declaration (ITEM_RE) with its name, a wildcard pub use of a path  *)
(* (PUB_USE_WILDCARD_RE), or a pub use list of a path with the names it    *)
(* lists.  A file is its directory (the names below the target), its base  *)
(* name ("mod" for mod.rs) and its text.                                   *)
(***************************************************************************)
EXTENDS Naturals, Sequences, SequencesExt

CONSTANTS
    Files,        \* the .rs files under the target
    Dir,          \* Dir[f]: the directories from the target down to f
    Base,         \* Base[f]: the file name without .rs
    WalkOrder,    \* every file, in the order os.walk and sorted(files) give
    Items,        \* the names items may have
    ItemOrder,    \* Items in sorted order
    MaxItems,     \* --max-items
    Disks,        \* the contents the files may start with
    BadSets,      \* the sets of files that may not be valid UTF-8
    Targets,      \* the target argument: DirTarget or a file
    DirTarget,    \* the target is the directory
    NoFile, NoBak, NoText

ASSUME Dir \in [Files -> Seq(STRING)] /\ Base \in [Files -> STRING]
ASSUME WalkOrder \in Seq(Files) /\ MaxItems \in Nat
ASSUME Targets \subseteq Files \cup {DirTarget}
ASSUME BadSets \subseteq SUBSET Files

Line == [k: {"item", "glob", "list"}, path: Seq(STRING), names: Seq(Items)]

VARIABLES
    disk,         \* disk[f]: the text of f
    bak,          \* bak[f]: the text of f.bak, or NoBak
    orig,         \* the texts at the start, for the properties
    undecodable,  \* the files whose bytes are not UTF-8
    apply, recursive, include_mods,
    todo,         \* the files walk_and_process will pass to process_file
    pos,          \* how many of them process_file has finished
    new,          \* new_lines of the file being written, else NoText
    stage,        \* "scan", or the write step under way
    status        \* "running", "done", "crashed", "killed"

vars == <<disk, bak, orig, undecodable, apply, recursive, include_mods, todo,
          pos, new, stage, status>>

IsGlob(ln) == ln.k = "glob"
Rank(n) == CHOOSE k \in 1..Len(ItemOrder) : ItemOrder[k] = n

\* A directory exists when it holds a file or a directory.
IsDir(d) == \E f \in Files : Len(d) <= Len(Dir[f]) /\ SubSeq(Dir[f], 1, Len(d)) = d
FileAt(d, b) == {f \in Files : Dir[f] = d /\ Base[f] = b}

\* resolve_module(base_dir, path): descend through the directories of all
\* parts but the last, then try <last>.rs, then <last>/mod.rs.
Resolve(d, p) ==
  LET up == SubSeq(p, 1, Len(p) - 1)
      cur == d \o up
      cands == FileAt(cur, Last(p)) \cup FileAt(cur \o <<Last(p)>>, "mod")
  IN IF (\A k \in 1..Len(up) : IsDir(d \o SubSeq(up, 1, k))) /\ cands # {}
       THEN IF FileAt(cur, Last(p)) # {} THEN CHOOSE f \in FileAt(cur, Last(p)) : TRUE
                                         ELSE CHOOSE f \in cands : TRUE
       ELSE NoFile

\* The names gather_public_items collects from a text: ITEM_RE names and
\* the names of explicit pub use lists.
Exports(t) ==
  {t[i].names[1] : i \in {i \in DOMAIN t : t[i].k = "item"}} \cup
  UNION {Range(t[i].names) : i \in {i \in DOMAIN t : t[i].k = "list"}}

\* Mutant: the nested wildcard check is dropped.
GatherNestedToo(t) ==
  IF Exports(t) = {} THEN <<>>
  ELSE SetToSortSeq(Exports(t), LAMBDA a, b : Rank(a) < Rank(b))

\* gather_public_items on a text: <<>> stands for None (a module holding a
\* wildcard pub use, or one without public items), else the sorted names.
Gather(t) ==
  IF (\E i \in DOMAIN t : IsGlob(t[i])) \/ Exports(t) = {} THEN <<>>
  ELSE SetToSortSeq(Exports(t), LAMBDA a, b : Rank(a) < Rank(b))

\* Mutant: modules with more than max_items items are expanded too.
ExpandNoBound(f, ln, dk) ==
  LET m == Resolve(Dir[f], ln.path)
      items == IF m = NoFile THEN <<>> ELSE Gather(dk[m])
  IN IF ~IsGlob(ln) \/ items = <<>> THEN ln
     ELSE [k |-> "list", path |-> ln.path, names |-> items]

\* One iteration of process_file's loop over the lines of f, reading the
\* module files from dk.
Expand(f, ln, dk) ==
  LET m == Resolve(Dir[f], ln.path)
      items == IF m = NoFile THEN <<>> ELSE Gather(dk[m])
  IN IF ~IsGlob(ln) \/ items = <<>> \/ Len(items) > MaxItems THEN ln
     ELSE [k |-> "list", path |-> ln.path, names |-> items]

NewLines(f, dk) == [i \in DOMAIN dk[f] |-> Expand(f, dk[f][i], dk)]

\* Reading f, or one of the module files its wildcard lines resolve to,
\* raises UnicodeDecodeError: neither open is inside a handler that
\* catches it (gather_public_items catches OSError only).
ReadRaises(f, dk) ==
  \/ f \in undecodable
  \/ \E i \in DOMAIN dk[f] :
       IsGlob(dk[f][i]) /\ Resolve(Dir[f], dk[f][i].path) \in undecodable

\* walk_and_process: the files os.walk reaches (the top directory only
\* unless --recursive), skipping mod.rs unless --include-mods; or the one
\* file given.
Selected(t, rec, mods) ==
  IF t = DirTarget
    THEN SelectSeq(WalkOrder, LAMBDA f : (rec \/ Dir[f] = <<>>) /\ (Base[f] # "mod" \/ mods))
    ELSE IF Base[t] # "mod" \/ mods THEN <<t>> ELSE <<>>

Init ==
  /\ disk \in Disks
  /\ orig = disk
  /\ bak = [f \in Files |-> NoBak]
  /\ undecodable \in BadSets
  /\ apply \in BOOLEAN /\ recursive \in BOOLEAN /\ include_mods \in BOOLEAN
  /\ \E t \in Targets : todo = Selected(t, recursive, include_mods)
  /\ pos = 0 /\ new = NoText /\ stage = "scan" /\ status = "running"

File == todo[pos + 1]

\* process_file(f) raises on a read: the exception ends the run.
ReadFails ==
  /\ status = "running" /\ stage = "scan" /\ pos < Len(todo)
  /\ ReadRaises(File, disk)
  /\ status' = "crashed"
  /\ UNCHANGED <<disk, bak, orig, undecodable, apply, recursive, include_mods,
                 todo, pos, new, stage>>

\* Mutant: walk_and_process steps over the next file too.
ScanKeepSkip ==
  /\ status = "running" /\ stage = "scan" /\ pos < Len(todo)
  /\ ~ReadRaises(File, disk)
  /\ ~(apply /\ NewLines(File, disk) # disk[File])
  /\ pos' = pos + 2
  /\ UNCHANGED <<disk, bak, orig, undecodable, apply, recursive, include_mods,
                 todo, new, stage, status>>

\* process_file(f) returns without writing: no line changed, or no
\* --apply (it returns 'WOULD CHANGE').
ScanKeep ==
  /\ status = "running" /\ stage = "scan" /\ pos < Len(todo)
  /\ ~ReadRaises(File, disk)
  /\ ~(apply /\ NewLines(File, disk) # disk[File])
  /\ pos' = pos + 1
  /\ UNCHANGED <<disk, bak, orig, undecodable, apply, recursive, include_mods,
                 todo, new, stage, status>>

\* process_file(f) has changed a line and --apply is given: the writes
\* begin.
ScanChanged ==
  /\ status = "running" /\ stage = "scan" /\ pos < Len(todo)
  /\ ~ReadRaises(File, disk)
  /\ apply /\ NewLines(File, disk) # disk[File]
  /\ new' = NewLines(File, disk)
  /\ stage' = "bak_trunc"
  /\ UNCHANGED <<disk, bak, orig, undecodable, apply, recursive, include_mods,
                 todo, pos, status>>

\* Mutant: the file is overwritten before its .bak is written.
WriteStepFileFirst ==
  /\ status = "running" /\ stage # "scan"
  /\ CASE stage = "bak_trunc" -> disk' = [disk EXCEPT ![File] = <<>>] /\ stage' = "bak_data" /\ UNCHANGED <<bak, new, pos>>
       [] stage = "bak_data" -> disk' = [disk EXCEPT ![File] = new] /\ stage' = "trunc" /\ UNCHANGED <<bak, new, pos>>
       [] stage = "trunc" -> bak' = [bak EXCEPT ![File] = <<>>] /\ stage' = "data" /\ UNCHANGED <<disk, new, pos>>
       [] stage = "data" -> bak' = [bak EXCEPT ![File] = orig[File]] /\ stage' = "scan"
                             /\ new' = NoText /\ pos' = pos + 1 /\ UNCHANGED disk
  /\ UNCHANGED <<orig, undecodable, apply, recursive, include_mods, todo, status>>

\* Mutant: the .bak receives the new lines instead of the old ones.
WriteStepBakNew ==
  /\ status = "running" /\ stage # "scan"
  /\ CASE stage = "bak_trunc" -> bak' = [bak EXCEPT ![File] = <<>>] /\ stage' = "bak_data" /\ UNCHANGED <<disk, new, pos>>
       [] stage = "bak_data" -> bak' = [bak EXCEPT ![File] = new] /\ stage' = "trunc" /\ UNCHANGED <<disk, new, pos>>
       [] stage = "trunc" -> disk' = [disk EXCEPT ![File] = <<>>] /\ stage' = "data" /\ UNCHANGED <<bak, new, pos>>
       [] stage = "data" -> disk' = [disk EXCEPT ![File] = new] /\ stage' = "scan"
                             /\ new' = NoText /\ pos' = pos + 1 /\ UNCHANGED bak
  /\ UNCHANGED <<orig, undecodable, apply, recursive, include_mods, todo, status>>

\* The four steps of process_file's writes: open(bak_path, 'w'), the
\* write of ''.join(lines), open(path, 'w'), the write of new_lines.
WriteStep ==
  /\ status = "running" /\ stage # "scan"
  /\ CASE stage = "bak_trunc" -> bak' = [bak EXCEPT ![File] = <<>>] /\ stage' = "bak_data" /\ UNCHANGED <<disk, new, pos>>
       [] stage = "bak_data" -> bak' = [bak EXCEPT ![File] = disk[File]] /\ stage' = "trunc" /\ UNCHANGED <<disk, new, pos>>
       [] stage = "trunc" -> disk' = [disk EXCEPT ![File] = <<>>] /\ stage' = "data" /\ UNCHANGED <<bak, new, pos>>
       [] stage = "data" -> disk' = [disk EXCEPT ![File] = new] /\ stage' = "scan"
                             /\ new' = NoText /\ pos' = pos + 1 /\ UNCHANGED bak
  /\ UNCHANGED <<orig, undecodable, apply, recursive, include_mods, todo, status>>

\* Every file has been processed: main prints the results and exits.
Finish ==
  /\ status = "running" /\ stage = "scan" /\ pos = Len(todo)
  /\ status' = "done"
  /\ UNCHANGED <<disk, bak, orig, undecodable, apply, recursive, include_mods,
                 todo, pos, new, stage>>

\* The process is killed between two steps.
Kill ==
  /\ status = "running"
  /\ status' = "killed"
  /\ UNCHANGED <<disk, bak, orig, undecodable, apply, recursive, include_mods,
                 todo, pos, new, stage>>

Next == ReadFails \/ ScanKeep \/ ScanChanged \/ WriteStep \/ Finish \/ Kill

\* The script runs on while it is not killed.
Spec == Init /\ [][Next]_vars
          /\ WF_vars(ReadFails \/ ScanKeep \/ ScanChanged \/ WriteStep \/ Finish)

TypeOK ==
  /\ \A f \in Files : disk[f] \in Seq(Line) /\ orig[f] \in Seq(Line)
                      /\ (bak[f] = NoBak \/ bak[f] \in Seq(Line))
  /\ undecodable \subseteq Files
  /\ apply \in BOOLEAN /\ recursive \in BOOLEAN /\ include_mods \in BOOLEAN
  /\ todo \in Seq(Files) /\ pos \in 0..Len(todo)
  /\ new = NoText \/ new \in Seq(Line)
  /\ stage \in {"scan", "bak_trunc", "bak_data", "trunc", "data"}
  /\ status \in {"running", "done", "crashed", "killed"}

(***************************************************************************)
(* Properties.                                                             *)
(***************************************************************************)

\* Whatever step the run is killed after, every file's original text is
\* on disk at its path or in its .bak: process_file writes the .bak in
\* full before it truncates the file.
RecoverableAfterKill ==
  \A f \in Files : disk[f] = orig[f] \/ bak[f] = orig[f]

\* The list line written for a wildcard line of the original text.
Replaced(f, i) ==
  IsGlob(orig[f][i]) /\ disk[f][i].k = "list" /\ disk[f][i].path = orig[f][i].path

\* Outside the write of its data, every file has the lines it started
\* with, except wildcard lines replaced by a list of the same path naming
\* between 1 and max_items items: no line is lost, added or moved, and no
\* module over the bound or without items is expanded.
OnlyWildcardsRewritten ==
  \A f \in Files :
    ~(stage = "data" /\ File = f) =>
      /\ Len(disk[f]) = Len(orig[f])
      /\ \A i \in DOMAIN orig[f] :
           \/ disk[f][i] = orig[f][i]
           \/ Replaced(f, i) /\ Len(disk[f][i].names) \in 1..MaxItems

\* When the run is over, every list it wrote names exactly the items the
\* module it resolves to declares or re-exports as that module finally
\* is: no module is expanded and then changed under the list (the nested
\* wildcard skip of gather_public_items and the walk order have to agree).
ListsMatchModules ==
  status = "done" =>
    \A f \in Files : \A i \in DOMAIN orig[f] :
      Replaced(f, i) =>
        LET m == Resolve(Dir[f], orig[f][i].path)
        IN m # NoFile /\ Range(disk[f][i].names) = Exports(disk[m])

\* The text a reader recovers for each file: the .bak while the file itself
\* is truncated or being written, else the file.
Recovered == [f \in Files |-> IF stage \in {"trunc", "data"} /\ f = File THEN bak[f] ELSE disk[f]]

Atomic == INSTANCE AtomicRewrite
            WITH disk <- Recovered, Rewrite <- NewLines,
                 status <- IF status \in {"killed", "crashed"} THEN "stopped" ELSE status

\* The run implements AtomicRewrite: with the .bak standing in for a file
\* under rewrite, each file in walk order is replaced at once by its
\* expansion against the files as they are then, and nothing else changes.
AtomicWrites == Atomic!Safety

\* The preview is what --apply does (the module docstring: by default the
\* tool prints the proposed changes): after a finished --apply run, each
\* processed file holds exactly the lines a run without --apply proposed
\* for it, and the other files are unchanged.
PreviewMatchesApply ==
  status = "done" /\ apply =>
    \A f \in Files :
      disk[f] = IF f \in Range(todo) THEN NewLines(f, orig) ELSE orig[f]

=============================================================================
