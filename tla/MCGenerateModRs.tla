-------------------------- MODULE MCGenerateModRs --------------------------
(***************************************************************************)
(* A root and two subdirectories, nested or side by side, named from two   *)
(* names, so that a subdirectory may share its name with a module file of  *)
(* its parent; every mix of module files, old mod.rs and unreadable        *)
(* subdirectories.                                                         *)
(***************************************************************************)
EXTENDS GenerateModRs

CONSTANTS r, x, y

MCDirs == {r, x, y}
MCNameOrder == <<"a", "b">>
MCTrees ==
  { [parent |-> (x :> r @@ y :> x), name |-> (x :> "a" @@ y :> "a")],
    [parent |-> (x :> r @@ y :> r), name |-> (x :> "a" @@ y :> "b")],
    [parent |-> (x :> r @@ y :> r), name |-> (x :> "b" @@ y :> "a")] }
=============================================================================
