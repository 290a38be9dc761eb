------------------------------ MODULE MCKernel ------------------------------
(* Memory, the console, traps and the disk driver, for TLC.  The parts share *)
(* no state in these models: a behaviour runs one of them and leaves the     *)
(* others in their initial states.                                           *)
EXTENDS Memory, Console, Trap, VirtioDisk, TLC

VARIABLE part

\* The step A of one part while the rest stays as it is.
Of(which, rest, A) == part = which /\ A /\ UNCHANGED <<part, rest>>

MCInit ==
  /\ part \in {"memory", "console", "trap", "disk"}
  /\ MemInit /\ ConsInit /\ TrapInit /\ DiskInit

MCNext ==
  \/ Of("memory", <<consVars, trapVars, diskVars>>, MemNext)
  \/ Of("console", <<memVars, trapVars, diskVars>>, ConsNext)
  \/ Of("trap", <<memVars, consVars, diskVars>>, TrapNext)
  \/ Of("disk", <<memVars, consVars, trapVars>>, DiskNext)

MCSpec == MCInit /\ [][MCNext]_<<part, memVars, consVars, trapVars, diskVars>>

\* A program with bss, and one with a gap between its segments.
MCImages ==
  {<<[vaddr |-> 0, memsz |-> 2, filesz |-> 1]>>,
   <<[vaddr |-> 0, memsz |-> 1, filesz |-> 1], [vaddr |-> 3, memsz |-> 1, filesz |-> 1]>>}

\* Nothing tells one buffer from another.
MCSymmetry == Permutations(DiskBuf)
=============================================================================
