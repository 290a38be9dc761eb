-------------------------------- MODULE Fifo --------------------------------
(* What a pipe promises: a bounded queue of bytes with two ends, each of      *)
(* which is closed once.                                                      *)
EXTENDS Naturals, Sequences

CONSTANTS Size, Byte

VARIABLES q, readopen, writeopen

Init == q = <<>> /\ readopen = 1 /\ writeopen = 1

Put(b) ==
  /\ writeopen = 1 /\ Len(q) < Size
  /\ q' = Append(q, b)
  /\ UNCHANGED <<readopen, writeopen>>

Get ==
  /\ readopen = 1 /\ q # <<>>
  /\ q' = Tail(q)
  /\ UNCHANGED <<readopen, writeopen>>

CloseRead ==
  /\ readopen = 1 /\ readopen' = 0
  /\ UNCHANGED <<q, writeopen>>

CloseWrite ==
  /\ writeopen = 1 /\ writeopen' = 0
  /\ UNCHANGED <<q, readopen>>

Next == (\E b \in Byte : Put(b)) \/ Get \/ CloseRead \/ CloseWrite

Spec == Init /\ [][Next]_<<q, readopen, writeopen>>
=============================================================================
