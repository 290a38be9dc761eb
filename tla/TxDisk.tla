------------------------------- MODULE TxDisk -------------------------------
(* What kernel/log.c promises to the file system, with no log in sight:     *)
(* a disk whose contents change only by whole groups of finished FS         *)
(* operations.  `durable' is what a reboot would find, `mem' what running   *)
(* operations read and write, `active' the operations between begin_op()    *)
(* and end_op().                                                            *)
CONSTANTS Proc, Block, Val, Zero

VARIABLES durable, mem, active

vars == <<durable, mem, active>>

Init ==
  /\ durable = [b \in Block |-> Zero]
  /\ mem = durable
  /\ active = {}

Begin(p) ==
  /\ p \notin active
  /\ active' = active \cup {p}
  /\ UNCHANGED <<durable, mem>>

Write(p, b, v) ==
  /\ p \in active
  /\ mem' = [mem EXCEPT ![b] = v]
  /\ UNCHANGED <<durable, active>>

End(p) ==
  /\ p \in active
  /\ active' = active \ {p}
  /\ UNCHANGED <<durable, mem>>

\* The only step that reaches the disk: no operation is half done when it
\* happens, so a reboot never finds a part of one.
Commit ==
  /\ active = {}
  /\ durable' = mem
  /\ UNCHANGED <<mem, active>>

Crash ==
  /\ mem' = durable
  /\ active' = {}
  /\ UNCHANGED durable

Next ==
  \/ \E p \in Proc : Begin(p) \/ End(p)
  \/ \E p \in Proc, b \in Block, v \in Val : Write(p, b, v)
  \/ Commit
  \/ Crash

Spec == Init /\ [][Next]_vars
=============================================================================
