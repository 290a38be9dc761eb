-------------------------------- MODULE MCFs --------------------------------
(* The inode cache and the tree, and file data, for TLC.                     *)
(* The parts share no state in these models: a behaviour runs one of them    *)
(* and leaves the others in their initial states.                            *)
EXTENDS FsTree, FileData, TLC

VARIABLE part

\* The step A of one part while the rest stays as it is.
Of(which, rest, A) == part = which /\ A /\ UNCHANGED <<part, rest>>

MCInit ==
  /\ part \in {"tree", "data"}
  /\ TreeInit /\ DataInit

MCNext ==
  \/ Of("tree", <<dataVars>>, TreeNext)
  \/ Of("data", <<treeVars>>, DataNext)

MCSpec == MCInit /\ [][MCNext]_<<part, treeVars, dataVars>>

(* System calls on /a and /a/b, and on b from the current directory.         *)

MCCall(op, path, type, to) == [do |-> op, path |-> path, type |-> type, to |-> to]

a == <<"/", "a">>
ab == <<"/", "a", "b">>
b == <<"b">>

MCCalls ==
  {MCCall("chdir", a, "", <<>>), MCCall("chdir", <<"/">>, "", <<>>),
   MCCall("unlink", a, "", <<>>), MCCall("unlink", b, "", <<>>),
   MCCall("create", a, "DIR", <<>>), MCCall("create", b, "FILE", <<>>),
   MCCall("link1", b, "", ab), MCCall("open", ab, "", <<>>)}

\* Inode 1 is written with 7, inode 2 with 8.
MCWritten == (1 :> {7}) @@ (2 :> {8})

\* Nothing tells one process from another.
MCSymmetry == Permutations(TreeProc)
=============================================================================
