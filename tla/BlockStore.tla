----------------------------- MODULE BlockStore -----------------------------
(* What the buffer cache promises: every disk block has one contents, and   *)
(* one process at a time uses it.                                           *)
CONSTANTS Proc, Block, Val, Zero, None

VARIABLES
  contents,  \* the current contents of a block
  user       \* the process between bread() and brelse() of a block

vars == <<contents, user>>

Init ==
  /\ contents = [b \in Block |-> Zero]
  /\ user = [b \in Block |-> None]

Take(p, b) ==
  /\ user[b] = None
  /\ user' = [user EXCEPT ![b] = p]
  /\ UNCHANGED contents

Change(b, v) ==
  /\ user[b] # None
  /\ contents' = [contents EXCEPT ![b] = v]
  /\ UNCHANGED user

Drop(b) ==
  /\ user[b] # None
  /\ user' = [user EXCEPT ![b] = None]
  /\ UNCHANGED contents

Next ==
  \E b \in Block :
    \/ \E p \in Proc : Take(p, b)
    \/ \E v \in Val : Change(b, v)
    \/ Drop(b)

Spec == Init /\ [][Next]_vars
=============================================================================
