------------------------------ MODULE NameMap -------------------------------
(* What a directory promises: a partial function from names to inodes, in    *)
(* which a name is bound only when it is free and unbound only when it is    *)
(* bound.                                                                    *)
EXTENDS Naturals

CONSTANTS Key, Inum

VARIABLE map

Bind(n, i) ==
  /\ n \notin DOMAIN map
  /\ map' = [m \in DOMAIN map \cup {n} |-> IF m = n THEN i ELSE map[m]]

Unbind(n) ==
  /\ n \in DOMAIN map
  /\ map' = [m \in DOMAIN map \ {n} |-> map[m]]

MapInit == map = [n \in {} |-> 0]

MapNext == map' # map /\ \E n \in Key : Unbind(n) \/ \E i \in Inum : Bind(n, i)

MapSpec == MapInit /\ [][MapNext]_map
=============================================================================
