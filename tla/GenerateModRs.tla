--------------------------- MODULE GenerateModRs ---------------------------
(***************************************************************************)
(* src/tools/generate_mod_rs.py: generate_mod_rs computes a directory's    *)
(* mod.rs from its listing; main prints it, or with --apply walk_and_write *)
(* writes it, and with --recursive descends into every eligible            *)
(* subdirectory, depth first in name order.  Each write is two steps, the  *)
(* truncating open and the data, and the process may be killed between     *)
(* any two steps.                                                          *)
(*                                                                         *)
(* A directory is abstracted to what the listing tests see: the base names *)
(* of its .rs module files (not mod.rs, not starting with '_'), its        *)
(* subdirectories, whether it holds a mod.rs, and whether listdir on it    *)
(* fails.  A mod.rs this tool wrote holds the sequence of names it         *)
(* declares; the text (pub mod n; ... pub use n::*;) is a function of it.  *)
(***************************************************************************)
EXTENDS Naturals, Sequences, SequencesExt

CONSTANTS
    Dirs,       \* the directories of the tree
    Root,       \* the dir argument
    NameOrder,  \* the names files and directories may have, in sorted order
    Trees,      \* the shapes the tree may have: [parent, name] of each subdir
    NoModRs,    \* the directory has no mod.rs
    OldModRs,   \* a mod.rs this run has not written
    Truncated,  \* a mod.rs emptied by open(outpath, 'w'), its data not written
    NoCall      \* no call of walk_and_write is pending

Names == {NameOrder[k] : k \in 1..Len(NameOrder)}
Subdirs == Dirs \ {Root}

ASSUME Root \in Dirs
ASSUME Trees \subseteq [parent: [Subdirs -> Dirs], name: [Subdirs -> Names]]

VARIABLES
    tree,       \* the directory tree, fixed
    rs,         \* the module names of each directory's .rs files
    readable,   \* whether os.listdir succeeds on the directory
    modrs,      \* each directory's mod.rs: NoModRs, OldModRs, Truncated or
                \* the names
    apply,      \* --apply
    recursive,  \* --recursive
    stack,      \* walk_and_write's frames: [dir, the subdirs left to visit]
    cur,        \* the directory walk_and_write was just called on, or Root
                \* before the first call; NoCall when none is pending
    wstage,     \* "open" while a write is under way, else "none"
    status      \* "running", "done", "killed"

vars == <<tree, rs, readable, modrs, apply, recursive, stack, cur, wstage,
          status>>

Children(d) == {c \in Subdirs : tree.parent[c] = d}
Rank(n) == CHOOSE k \in 1..Len(NameOrder) : NameOrder[k] = n

\* sorted(os.listdir(dirpath)), the subdirectories only.
SortedChildren(d) ==
  SetToSortSeq(Children(d), LAMBDA a, b : Rank(tree.name[a]) < Rank(tree.name[b]))

\* The has_rs or has_modrs test on a subdirectory whose listing succeeds:
\* a mod.rs also ends with .rs.
Eligible(c) == readable[c] /\ (rs[c] # {} \/ modrs[c] # NoModRs)

\* Mutant: mod.rs itself is not skipped and is declared as module "mod".
GenerateModRsWithModRs(d) ==
  LET dirnames == {tree.name[c] : c \in {c \in Children(d) : Eligible(c)}}
      count(n) == (IF n \in dirnames THEN 1 ELSE 0) + (IF n \in rs[d] THEN 1 ELSE 0)
  IN FlattenSeq([k \in 1..Len(NameOrder) |->
                   [j \in 1..count(NameOrder[k]) |-> NameOrder[k]]])
     \o (IF modrs[d] # NoModRs THEN <<"mod">> ELSE <<>>)

\* generate_mod_rs(d): the names of the eligible subdirectories and of the
\* module files, sorted; a file and a directory of the same name give the
\* name twice.
GenerateModRs(d) ==
  LET dirnames == {tree.name[c] : c \in {c \in Children(d) : Eligible(c)}}
      count(n) == (IF n \in dirnames THEN 1 ELSE 0) + (IF n \in rs[d] THEN 1 ELSE 0)
  IN FlattenSeq([k \in 1..Len(NameOrder) |->
                   [j \in 1..count(NameOrder[k]) |-> NameOrder[k]]])

Init ==
  /\ tree \in Trees
  /\ rs \in [Dirs -> SUBSET Names]
  /\ readable \in [Dirs -> BOOLEAN]
  /\ readable[Root]
  /\ modrs \in [Dirs -> {NoModRs, OldModRs}]
  /\ apply \in BOOLEAN
  /\ recursive \in BOOLEAN
  /\ stack = <<>>
  /\ cur = Root
  /\ wstage = "none"
  /\ status = "running"

\* main without --apply prints generate_mod_rs(dir) and exits.
DryRun ==
  /\ status = "running" /\ ~apply
  /\ status' = "done"
  /\ UNCHANGED <<tree, rs, readable, modrs, apply, recursive, stack, cur, wstage>>

\* write_mod_rs(cur): open(outpath, 'w') truncates mod.rs.
OpenModRs ==
  /\ status = "running" /\ apply /\ cur # NoCall /\ wstage = "none"
  /\ modrs' = [modrs EXCEPT ![cur] = Truncated]
  /\ wstage' = "open"
  /\ UNCHANGED <<tree, rs, readable, apply, recursive, stack, cur, status>>

\* Mutant: walk_and_write never descends.
WriteModRsNoRecurse ==
  /\ status = "running" /\ apply /\ cur # NoCall /\ wstage = "open"
  /\ modrs' = [modrs EXCEPT ![cur] = GenerateModRs(cur)]
  /\ wstage' = "none"
  /\ cur' = NoCall
  /\ UNCHANGED <<tree, rs, readable, apply, recursive, stack, status>>

\* f.write(out) of write_mod_rs; then, with --recursive, walk_and_write
\* lists the directory (after the write) to visit its subdirectories.
WriteModRs ==
  /\ status = "running" /\ apply /\ cur # NoCall /\ wstage = "open"
  /\ modrs' = [modrs EXCEPT ![cur] = GenerateModRs(cur)]
  /\ wstage' = "none"
  /\ cur' = NoCall
  /\ stack' = IF recursive
                THEN <<[dir |-> cur, todo |-> SortedChildren(cur)]>> \o stack
                ELSE stack
  /\ UNCHANGED <<tree, rs, readable, apply, recursive, status>>

Top == Head(stack)
Visit == Head(Top.todo)
PopVisit == stack' = <<[Top EXCEPT !.todo = Tail(@)]>> \o Tail(stack)

\* Mutant: a subdirectory holding a mod.rs but no other module file is
\* not descended into.
ToVisitRsOnly(c) == readable[c] /\ rs[c] # {}

\* walk_and_write's own copy of the test: listdir succeeds and the
\* subdirectory has a .rs file or a mod.rs.
ToVisit(c) == readable[c] /\ (rs[c] # {} \/ modrs[c] # NoModRs)

\* The for loop reaches an eligible subdirectory: walk_and_write(path).
Descend ==
  /\ status = "running" /\ cur = NoCall /\ stack # <<>> /\ Top.todo # <<>>
  /\ ToVisit(Visit)
  /\ cur' = Visit
  /\ PopVisit
  /\ UNCHANGED <<tree, rs, readable, modrs, apply, recursive, wstage, status>>

\* The for loop passes over a subdirectory it cannot list (OSError) or
\* that has no .rs file and no mod.rs.
Skip ==
  /\ status = "running" /\ cur = NoCall /\ stack # <<>> /\ Top.todo # <<>>
  /\ ~ToVisit(Visit)
  /\ PopVisit
  /\ UNCHANGED <<tree, rs, readable, modrs, apply, recursive, cur, wstage, status>>

\* The for loop is over: walk_and_write returns to its caller.
Return ==
  /\ status = "running" /\ cur = NoCall /\ stack # <<>> /\ Top.todo = <<>>
  /\ stack' = Tail(stack)
  /\ UNCHANGED <<tree, rs, readable, modrs, apply, recursive, cur, wstage, status>>

\* The outermost walk_and_write has returned: main exits.
Finish ==
  /\ status = "running" /\ apply /\ cur = NoCall /\ stack = <<>>
  /\ status' = "done"
  /\ UNCHANGED <<tree, rs, readable, modrs, apply, recursive, stack, cur, wstage>>

\* The process is killed between two steps.
Kill ==
  /\ status = "running"
  /\ status' = "killed"
  /\ UNCHANGED <<tree, rs, readable, modrs, apply, recursive, stack, cur, wstage>>

Next == DryRun \/ OpenModRs \/ WriteModRs \/ Descend \/ Skip \/ Return
          \/ Finish \/ Kill

\* Kill is the environment's and never forced; the walk itself runs on.
Spec == Init /\ [][Next]_vars
          /\ WF_vars(DryRun \/ OpenModRs \/ WriteModRs \/ Descend \/ Skip
                       \/ Return \/ Finish)

TypeOK ==
  /\ tree \in Trees
  /\ rs \in [Dirs -> SUBSET Names]
  /\ readable \in [Dirs -> BOOLEAN]
  /\ \A d \in Dirs : modrs[d] \in {NoModRs, OldModRs, Truncated} \/ modrs[d] \in Seq(Names)
  /\ apply \in BOOLEAN /\ recursive \in BOOLEAN
  /\ stack \in Seq([dir: Dirs, todo: Seq(Subdirs)])
  /\ cur \in Dirs \cup {NoCall}
  /\ wstage \in {"none", "open"}
  /\ status \in {"running", "done", "killed"}

(***************************************************************************)
(* Properties.                                                             *)
(***************************************************************************)

\* The directory holds a mod.rs this run wrote.
Written(d) == modrs[d] \notin {NoModRs, OldModRs, Truncated}

\* The directory is reached from the root's mod.rs through pub mod lines
\* (a pub mod line names the directory when no module file has its name).
RECURSIVE Declared(_)
Declared(d) ==
  \/ d = Root
  \/ LET p == tree.parent[d]
     IN /\ d # Root /\ Declared(p) /\ Written(p)
        /\ tree.name[d] \in Range(modrs[p]) /\ tree.name[d] \notin rs[p]

\* After a finished recursive --apply run, every directory the root's
\* mod.rs reaches through pub mod lines holds the mod.rs generate_mod_rs
\* gives for the tree as it is at the end: none keeps an old mod.rs, a
\* truncated one, or one computed before a subdirectory's mod.rs changed
\* under it.
TreeRegenerated ==
  status = "done" /\ apply /\ recursive =>
    \A d \in Dirs : Declared(d) => modrs[d] = GenerateModRs(d)

\* After a finished recursive --apply run, every name a written mod.rs
\* declares is a module file of its directory or a subdirectory holding a
\* mod.rs: each pub mod line has a file behind it.
ModulesResolve ==
  status = "done" /\ apply /\ recursive =>
    \A d \in Dirs : Written(d) =>
      \A n \in Range(modrs[d]) :
        n \in rs[d] \/ \E c \in Children(d) : tree.name[c] = n /\ modrs[c] # NoModRs

=============================================================================
