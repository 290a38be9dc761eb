------------------------------ MODULE Umalloc -------------------------------
(* The memory allocator of user programs (user/umalloc.c): a circular list   *)
(* of free blocks in address order.  Addresses and sizes count Header units; *)
(* a block of size n is a Header and n - 1 units of data.  Address 0 is      *)
(* base, the list's first element, below the heap.                           *)
EXTENDS Naturals, Sequences, SequencesExt, FiniteSets, FiniteSetsExt

CONSTANTS
  HeapStart,   \* p->sz when the program starts
  HeapLimit,   \* sbrk() fails beyond it
  MinCore,     \* the 4096 units that morecore() asks for at least
  HdrSize,     \* sizeof(Header)
  Requests     \* the nbytes that the program asks for

VARIABLES
  ptr, size,   \* s.ptr and s.size of each Header
  freep,       \* NoList before the first call
  inuse,       \* the blocks that malloc() returned and the program still has
  brk,         \* end of the heap
  own          \* units that the program got from sbrk() by itself

heapVars == <<ptr, size, freep, inuse, brk, own>>

base == 0
NoList == HeapLimit
Unit == 0..(HeapLimit - 1)

ASSUME HeapAssumption == HeapStart > 1 /\ HeapLimit > HeapStart /\ MinCore > 0 /\ HdrSize > 0

\* The list as the code finds it at one moment.
Heap(p, s, f) == [ptr |-> p, size |-> s, freep |-> f]

HeapInit ==
  /\ ptr = [u \in Unit |-> base] /\ size = [u \in Unit |-> 0] /\ freep = NoList
  /\ inuse = {} /\ brk = HeapStart /\ own = {}

\* The list from f on, once around at least.
Around == (HeapLimit - HeapStart) \div 2 + 2
Walk(h, f) == FoldLeft(LAMBDA s, k : Append(s, h.ptr[s[k]]), <<f>>, [k \in 1..Around |-> k])

\* The first element from freep on that is in S.
Search(h, S) == LET w == Walk(h, h.freep) IN w[Min({k \in DOMAIN w : w[k] \in S})]

\* Where the loop of free() stops: bp goes between p and p->s.ptr.
Between(h, bp, p) == (bp > p /\ bp < h.ptr[p]) \/ (p >= h.ptr[p] /\ (bp > p \/ bp < h.ptr[p]))

Joins(h, p, bp) == p + h.size[p] = bp

\* Headers that are not on the list are forgotten.
Forget(h, u) == [h EXCEPT !.ptr[u] = base, !.size[u] = 0]

\* free(), for the block at bp.
free_block(h, bp) ==
  LET p == Search(h, {q \in Unit : Between(h, bp, q)})
      nx == h.ptr[p]
      up == IF bp + h.size[bp] = nx
            THEN Forget([h EXCEPT !.size[bp] = @ + h.size[nx], !.ptr[bp] = h.ptr[nx]], nx)
            ELSE [h EXCEPT !.ptr[bp] = nx]
      down == IF Joins(up, p, bp)
              THEN Forget([up EXCEPT !.size[p] = @ + up.size[bp], !.ptr[p] = up.ptr[bp]], bp)
              ELSE [up EXCEPT !.ptr[p] = bp]
  IN  [down EXCEPT !.freep = p]

\* Mutant: no unit for the Header.
NoHeaderUnit(nbytes) == (nbytes + HdrSize - 1) \div HdrSize

nunits(nbytes) == (nbytes + HdrSize - 1) \div HdrSize + 1

\* The list that malloc() starts with.
FirstUse(h) == IF h.freep = NoList THEN [h EXCEPT !.ptr[base] = base, !.size[base] = 0, !.freep = base] ELSE h

Core(nu) == Max({nu, MinCore})

\* morecore(), when sbrk() succeeds.
morecore(h, nu) == free_block([h EXCEPT !.size[brk] = Core(nu)], brk)

\* Take nu units from the end of the block after prevp.
Take(h, prevp, nu) ==
  LET p == h.ptr[prevp]
      rest == h.size[p] - nu
  IN  IF rest = 0 THEN [h |-> [h EXCEPT !.ptr[prevp] = h.ptr[p], !.ptr[p] = base, !.freep = prevp], at |-> p]
      ELSE [h |-> [h EXCEPT !.size[p] = rest, !.size[p + rest] = nu, !.freep = prevp], at |-> p + rest]

\* Some block on the list is large enough.
Fits(h, nu) == \E p \in ToSet(Walk(h, h.freep)) : h.size[p] >= nu

Set(h) == ptr' = h.ptr /\ size' = h.size /\ freep' = h.freep

\* malloc(): first fit from freep->s.ptr on; at freep again, morecore() and on
\* from the new freep, whose list now holds a block that fits.
malloc(nbytes) ==
  LET h == FirstUse(Heap(ptr, size, freep))
      nu == nunits(nbytes)
      Got(g) == LET t == Take(g, Search(g, {q \in Unit : g.size[g.ptr[q]] >= nu}), nu)
                IN  Set(t.h) /\ inuse' = inuse \cup {[at |-> t.at, nbytes |-> nbytes]}
  IN  /\ \/ Fits(h, nu) /\ Got(h) /\ UNCHANGED brk
         \/ ~Fits(h, nu) /\ brk + Core(nu) <= HeapLimit /\ Got(morecore(h, nu)) /\ brk' = brk + Core(nu)
         \/ ~Fits(h, nu) /\ brk + Core(nu) > HeapLimit /\ Set(h) /\ UNCHANGED <<inuse, brk>>
      /\ UNCHANGED own

Free ==
  /\ \E b \in inuse : Set(free_block(Heap(ptr, size, freep), b.at)) /\ inuse' = inuse \ {b}
  /\ UNCHANGED <<brk, own>>

\* sbrk() called by the program itself, between calls of malloc().
sbrk ==
  /\ brk < HeapLimit
  /\ brk' = brk + 1 /\ own' = own \cup {brk}
  /\ UNCHANGED <<ptr, size, freep, inuse>>

HeapNext == (\E n \in Requests : malloc(n)) \/ Free \/ sbrk

HeapSpec == HeapInit /\ [][HeapNext]_heapVars

----------------------------------------------------------------------------
(* Properties *)

HeapTypeOK ==
  /\ ptr \in [Unit -> Unit] /\ size \in [Unit -> 0..HeapLimit] /\ freep \in Unit \cup {NoList}
  /\ brk \in HeapStart..HeapLimit /\ own \subseteq HeapStart..(brk - 1)

\* The blocks on the list other than base.
Listed == IF freep = NoList THEN {} ELSE ToSet(Walk(Heap(ptr, size, freep), base)) \ {base}
Extent(u) == u..(u + size[u] - 1)

\* The list holds the free blocks in increasing order of address, from base
\* around to base, and no two of them are adjacent: all joins happened.
ListOrdered ==
  freep # NoList =>
    /\ freep \in Listed \cup {base}
    /\ \A u \in Listed \cup {base} : ptr[u] = base \/ (ptr[u] > u /\ ptr[u] # u + size[u])
    /\ \A u \in Listed : size[u] > 0

\* Every unit of the heap belongs to exactly one block, free, in use or the
\* program's own, and a block in use has room for the bytes asked for: splits
\* and joins lose no memory and hand out none twice.
HeapExact ==
  LET blocks == Listed \cup {b.at : b \in inuse}
  IN  /\ HeapTypeOK /\ ListOrdered
      /\ (UNION {Extent(u) : u \in blocks}) \cup own = HeapStart..(brk - 1)
      /\ \A u, v \in blocks : u # v => Extent(u) \cap Extent(v) = {}
      /\ \A u \in blocks : Extent(u) \cap own = {}
      /\ \A b \in inuse : (size[b.at] - 1) * HdrSize >= b.nbytes
=============================================================================
