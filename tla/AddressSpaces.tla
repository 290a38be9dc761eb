--------------------------- MODULE AddressSpaces ----------------------------
(* What the memory system promises processes: each has pages of its own that *)
(* only its own stores, sbrk() and exec() change, fork() copies them, and a  *)
(* call that runs out of memory changes nothing.  A page is its contents and *)
(* whether user code may reach it.                                           *)
EXTENDS Naturals, Sequences

CONSTANTS MemProc, Images, ImagePages(_)
CONSTANT MaxPages   \* bound on the pages of a process

VARIABLE mem   \* per process, the sequence of its pages

Zeroed == [val |-> "zero", u |-> TRUE]
Guard == [val |-> "zero", u |-> FALSE]

Reached(p, i, n) == {k \in i..(i + n - 1) : \A j \in i..k : j \in DOMAIN mem[p] /\ mem[p][j].u}

Store(p, i, n) ==
  mem' = [mem EXCEPT ![p] = [j \in DOMAIN @ |->
    IF j \in Reached(p, i, n) THEN [@[j] EXCEPT !.val = "data"] ELSE @[j]]]

Grow(p, n) == mem' = [mem EXCEPT ![p] = @ \o [i \in 1..n |-> Zeroed]]
Shrink(p, n) == n <= Len(mem[p]) /\ mem' = [mem EXCEPT ![p] = SubSeq(@, 1, Len(@) - n)]
Fork(p, c) == mem[c] = <<>> /\ mem' = [mem EXCEPT ![c] = mem[p]]
Exit(p) == mem' = [mem EXCEPT ![p] = <<>>]

Exec(p, img) ==
  \E stack \in {"zero", "data"} :
    mem' = [mem EXCEPT ![p] = ImagePages(img) \o <<Guard, [val |-> stack, u |-> TRUE]>>]

SpacesInit == \E p \in MemProc : mem = [q \in MemProc |-> IF q = p THEN <<[val |-> "data", u |-> TRUE]>> ELSE <<>>]

SpacesNext ==
  /\ mem' # mem
  /\ \E p \in MemProc :
      \/ \E i, n \in 1..MaxPages : Store(p, i, n)
      \/ \E n \in 1..MaxPages : Grow(p, n) \/ Shrink(p, n)
      \/ \E c \in MemProc \ {p} : Fork(p, c)
      \/ Exit(p)
      \/ \E img \in Images : Exec(p, img)

SpacesSpec == SpacesInit /\ [][SpacesNext]_mem
=============================================================================
