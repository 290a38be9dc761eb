----------------------------- MODULE FlatFiles ------------------------------
(* What file data promises: a file is a sequence of bytes that only its own  *)
(* writes and truncations change, and a write replaces or extends it at the  *)
(* given offset with a prefix of the data.                                   *)
EXTENDS Naturals, Sequences, FiniteSetsExt

CONSTANTS FileIno, Byte, MaxLen

VARIABLE flat

\* The bytes that differ; those past the old end count as different.
Touched(old, new) == {k \in DOMAIN new : k > Len(old) \/ new[k] # old[k]}

\* The contents of one file before and after a truncation, or after the write
\* of one byte value over a stretch that starts no later than the old end.
Change(old, new) ==
  \/ new = <<>>
  \/ /\ Len(new) >= Len(old)
     /\ LET t == Touched(old, new) IN \A k \in Min(t)..Max(t) : new[k] = new[Max(t)]

FlatInit == flat \in [FileIno -> UNION {[1..n -> Byte] : n \in 0..MaxLen}]

FlatNext ==
  /\ flat' # flat
  /\ DOMAIN flat' = FileIno
  /\ \E i \in FileIno :
       /\ \A j \in FileIno \ {i} : flat'[j] = flat[j]
       /\ Change(flat[i], flat'[i])

FlatSpec == FlatInit /\ [][FlatNext]_flat
=============================================================================
