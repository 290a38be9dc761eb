------------------------------ MODULE MCTables ------------------------------
(* The two tables of the kernel whose entries live as long as their counts   *)
(* say, for TLC: the buffers of bcache and the open files of ftable.  A      *)
(* behaviour runs one of the two parts and leaves the other in its initial   *)
(* state.                                                                    *)
EXTENDS BufferCache, FileTable, TLC

VARIABLE part

\* The step A of one part while the rest stays as it is.
Of(which, rest, A) == part = which /\ A /\ UNCHANGED <<part, rest>>

MCInit ==
  /\ part \in {"buffers", "files"}
  /\ Init /\ FileInit

MCNext ==
  \/ Of("buffers", fileVars, Next)
  \/ Of("files", vars, FileNext)

MCSpec == MCInit /\ [][MCNext]_<<part, vars, fileVars>>

\* Nothing orders processes, buffers or blocks.
MCSymmetry == Permutations(Proc) \cup Permutations(Buf) \cup Permutations(Block)
=============================================================================
