------------------------------ MODULE Monitor ------------------------------
(* What sleep() and wakeup() promise to the code that uses them: waiting     *)
(* under a lock and waking are atomic, as in a monitor.  A process waits on  *)
(* a channel only while nothing is there for it, and whoever supplies        *)
(* something wakes all.                                                      *)
EXTENDS Naturals

CONSTANTS Proc, Chan

VARIABLES
  items,   \* what the condition of a channel counts
  waiting  \* the processes waiting on a channel

vars == <<items, waiting>>

Init ==
  /\ items = [c \in Chan |-> 0]
  /\ waiting = [c \in Chan |-> {}]

Wait(p, c) ==
  /\ items[c] = 0
  /\ waiting' = [waiting EXCEPT ![c] = @ \cup {p}]
  /\ UNCHANGED items

Get(p, c) ==
  /\ p \notin waiting[c]
  /\ items[c] > 0
  /\ items' = [items EXCEPT ![c] = @ - 1]
  /\ UNCHANGED waiting

Put(c) ==
  /\ items' = [items EXCEPT ![c] = @ + 1]
  /\ waiting' = [waiting EXCEPT ![c] = {}]

\* kill() ends a wait.
Interrupt(p, c) ==
  /\ waiting' = [waiting EXCEPT ![c] = @ \ {p}]
  /\ UNCHANGED items

Next ==
  \E c \in Chan :
    \/ Put(c)
    \/ \E p \in Proc : Wait(p, c) \/ Get(p, c) \/ Interrupt(p, c)

Spec == Init /\ [][Next]_vars
=============================================================================
