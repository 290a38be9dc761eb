------------------------------- MODULE Memory -------------------------------
(* Physical pages (kernel/kalloc.c), user page tables (kernel/vm.c) and what *)
(* allocproc(), fork(), growproc(), freeproc() (kernel/proc.c), exec()       *)
(* (kernel/exec.c) and sys_exec() (kernel/sysfile.c) do with them, running   *)
(* out of memory included.  Page tables have three levels, with PX entries   *)
(* each instead of 512.  A step is one iteration of a loop over pages or one *)
(* call that allocates or frees a whole table; processes interleave between  *)
(* steps.  Free pages are all alike, so the free list is what is left of     *)
(* NPAGE, and a page gets its name when kalloc() returns it: the use it is   *)
(* for, and a number when that name is taken.                                *)
EXTENDS Naturals, Sequences, SequencesExt, FiniteSets, FiniteSetsExt, Functions

CONSTANTS
  NPAGE,     \* physical pages that kinit() frees
  PX,        \* entries of a page-table page
  PGSIZE,
  UintMod,   \* 2^32 for growproc()'s uint sz
  Brk,       \* magnitudes of the arguments of sbrk()
  MaxArgs, MaxCopy,   \* bounds: argument pages of exec, pages of one copy
  MemProc,
  Images     \* programs: sequences of segments [vaddr, memsz, filesz]

VARIABLES
  content,   \* the pages not on kmem.freelist, and what they hold
  pt,        \* p->pagetable
  tf,        \* p->trapframe
  sz,        \* p->sz
  pst,       \* "UNUSED", "EMBRYO" (in allocproc or fork) or "USED"
  job,       \* the rest of each process's system call
  mpanic

memVars == <<content, pt, tf, sz, pst, job, mpanic>>

MAXVA == PX * PX * PX
TRAMPOLINE == MAXVA - 1
TRAPFRAME == MAXVA - 2
TrampolineText == <<"trampoline">>
NoPage == <<>>

ASSUME MemAssumption ==
  /\ NPAGE \in Nat /\ PX \in Nat \ {0, 1} /\ PGSIZE \in Nat \ {0}
  /\ UintMod <= TRAPFRAME * PGSIZE

\* A table: its page-table pages, by level and index, and its leaf entries.
NoTable == [tab |-> <<>>, leaf |-> <<>>]
NoJob == [op |-> "none", t |-> NoTable, sz |-> 0, a |-> 0, to |-> 0, segs |-> <<>>, argv |-> {}, child |-> 0]
PGROUNDUP(n) == ((n + PGSIZE - 1) \div PGSIZE) * PGSIZE
Pages(n) == PGROUNDUP(n) \div PGSIZE
Bind(f, x, v) == [y \in DOMAIN f \cup {x} |-> IF y = x THEN v ELSE f[y]]

----------------------------------------------------------------------------
(* kalloc.c and vm.c, as functions of the pages U in use and the table t *)

kalloc(U, x) == IF Cardinality(U) = NPAGE THEN NoPage
                ELSE <<x, CHOOSE n \in 0..NPAGE : <<x, n>> \notin U /\ \A m \in 0..(n - 1) : <<x, m>> \in U>>

Tables(va) == << <<1, va \div (PX * PX)>>, <<0, va \div PX>> >>

\* walk(t, va, 1): the missing page-table pages, as far as there are free ones.
walk(U, t, va, p) ==
  LET miss == SelectSeq(Tables(va), LAMBDA x : x \notin DOMAIN t.tab)
      One(r, x) == LET g == kalloc(r.used, <<p, x[1], x[2]>>)
                   IN  IF g = NoPage THEN [r EXCEPT !.ok = FALSE]
                       ELSE [ok |-> r.ok, used |-> r.used \cup {g}, t |-> [r.t EXCEPT !.tab = Bind(@, x, g)]]
  IN  FoldLeft(One, [ok |-> TRUE, used |-> U, t |-> t], miss)

\* mappages() for one page; "remap" is the panic.
mappages(U, t, va, pa, u, p) ==
  LET w == walk(U, t, va, p)
  IN  IF ~w.ok THEN w
      ELSE [w EXCEPT !.t.leaf = Bind(@, va, [pa |-> pa, u |-> u])]

Remaps(t, va) == va \in DOMAIN t.leaf

\* walkaddr() on page va.
walkaddr(t, va) == va \in DOMAIN t.leaf /\ t.leaf[va].u

\* uvmunmap() of the pages V: the table, and the pages given back.
uvmunmap(t, V) == [t EXCEPT !.leaf = Restrict(@, DOMAIN @ \ V)]
Backing(t, V) == {t.leaf[va].pa : va \in V \cap DOMAIN t.leaf}
Unmapped(t, V) == ~(V \subseteq DOMAIN t.leaf)

UserPages(n) == 0..(Pages(n) - 1)

\* Mutant: uvmfree() frees the pages below sz rounded down.
UvmfreeShort(t, n) == Range(t.tab) \cup Backing(t, 0..((n \div PGSIZE) - 1))

\* Pages that uvmfree() gives back: user memory, then freewalk().
uvmfree(t, n) == Range(t.tab) \cup Backing(t, UserPages(n))

\* proc_freepagetable() panics on a page below sz that is not mapped, or in
\* freewalk() on a leaf that is left.
FreePanics(t, n) == DOMAIN t.leaf # {TRAMPOLINE, TRAPFRAME} \cup UserPages(n)

\* proc_pagetable(): uvmcreate(), then the trampoline and the trap frame; on
\* failure everything is given back.
proc_pagetable(U, frame, p) ==
  LET top == kalloc(U, <<p, 2, 0>>)
      tramp == mappages(U \cup {top}, [NoTable EXCEPT !.tab = Bind(@, <<2, 0>>, top)], TRAMPOLINE, TrampolineText, FALSE, p)
      both == mappages(tramp.used, tramp.t, TRAPFRAME, frame, FALSE, p)
  IN  IF top # NoPage /\ tramp.ok /\ both.ok THEN both
      ELSE [ok |-> FALSE, used |-> U, t |-> NoTable]

----------------------------------------------------------------------------
(* userinit(): one page of initcode *)

First == CHOOSE p \in MemProc : TRUE
InitFrame == kalloc({}, <<First, 3, 0>>)
InitTable ==
  LET made == proc_pagetable({InitFrame}, InitFrame, First)
      g == kalloc(made.used, <<First, 4, 0>>)
  IN  mappages(made.used \cup {g}, made.t, 0, g, TRUE, First)

MemInit ==
  /\ content = [g \in InitTable.used |-> IF g = InitTable.t.leaf[0].pa THEN "data" ELSE "junk"]
  /\ pt = [p \in MemProc |-> IF p = First THEN InitTable.t ELSE NoTable]
  /\ tf = [p \in MemProc |-> IF p = First THEN InitFrame ELSE NoPage]
  /\ sz = [p \in MemProc |-> IF p = First THEN PGSIZE ELSE 0]
  /\ pst = [p \in MemProc |-> IF p = First THEN "USED" ELSE "UNUSED"]
  /\ job = [p \in MemProc |-> NoJob]
  /\ mpanic = FALSE

used == DOMAIN content

Idle(p) == pst[p] = "USED" /\ job[p] = NoJob /\ ~mpanic
Busy(p, op) == job[p].op = op /\ ~mpanic

\* The pages U are in use now, those of V with contents v; the rest of them
\* keep their contents, and what kfree() got is gone.
Hold(U, V, v) ==
  content' = [g \in U |-> IF g \in V THEN v ELSE IF g \in used THEN content[g] ELSE "junk"]

----------------------------------------------------------------------------
(* growproc() *)

\* The pages uvmalloc() unmaps again: those it mapped, up to a, beyond old.
uvmdealloc(a, old) == Pages(old)..(a - 1)

\* sbrk() by n or -n, in uint arithmetic: a request that wraps changes nothing.
growproc(p) ==
  /\ Idle(p)
  /\ \E n \in Brk :
       \/ LET new == (sz[p] + n) % UintMod
          IN  /\ new > sz[p]
              /\ job' = [job EXCEPT ![p] = [NoJob EXCEPT !.op = "grow", !.t = pt[p], !.a = Pages(sz[p]), !.to = new]]
              /\ UNCHANGED <<content, pt, sz, mpanic>>
       \/ LET new == (UintMod + sz[p] - n) % UintMod
              V == uvmdealloc(Pages(sz[p]), new)
          IN  /\ new < sz[p]
              /\ Hold(used \ Backing(pt[p], V), {}, "")
              /\ pt' = [pt EXCEPT ![p] = uvmunmap(@, V)]
              /\ mpanic' = Unmapped(pt[p], V)
              /\ sz' = [sz EXCEPT ![p] = new]
              /\ UNCHANGED job
  /\ UNCHANGED <<tf, pst>>

\* One page of a loop of uvmalloc() or uvmcopy() for process q: kalloc() and
\* mappages(), whose failure gives the page back.
NewPage(p, q) == kalloc(used, <<q, 4, job[p].a>>)
MapPage(p, q, u) ==
  LET g == NewPage(p, q)
      m == mappages(used \cup {g}, job[p].t, job[p].a, g, u, q)
  IN  IF g = NoPage THEN [ok |-> FALSE, used |-> used, t |-> job[p].t]
      ELSE IF m.ok THEN m ELSE [m EXCEPT !.used = @ \ {g}]

\* The loop of uvmalloc() has more to do.
Loop(p, op, to) == Busy(p, op) /\ job[p].a * PGSIZE < to

\* uvmalloc() could not map page a: the earlier ones are unmapped; page-table
\* pages made on the way stay in the table.
GrowFails(p, m) ==
  LET V == uvmdealloc(job[p].a, sz[p])
  IN  /\ Hold(m.used \ Backing(m.t, V), {}, "")
      /\ pt' = [pt EXCEPT ![p] = uvmunmap(m.t, V)]

GrowPage(p) ==
  /\ Loop(p, "grow", job[p].to)
  /\ LET m == MapPage(p, p, TRUE)
     IN  \/ /\ m.ok /\ Hold(m.used, {NewPage(p, p)}, "zero")
            /\ job' = [job EXCEPT ![p].t = m.t, ![p].a = @ + 1]
            /\ pt' = [pt EXCEPT ![p] = m.t]
         \/ /\ ~m.ok /\ GrowFails(p, m)
            /\ job' = [job EXCEPT ![p] = NoJob]
  /\ mpanic' = Remaps(job[p].t, job[p].a)
  /\ UNCHANGED <<tf, sz, pst>>

GrowDone(p) ==
  /\ Busy(p, "grow") /\ ~Loop(p, "grow", job[p].to)
  /\ sz' = [sz EXCEPT ![p] = job[p].to]
  /\ job' = [job EXCEPT ![p] = NoJob]
  /\ UNCHANGED <<content, pt, tf, pst, mpanic>>

----------------------------------------------------------------------------
(* fork() *)

\* allocproc(): the trap frame and the page table.  When it fails, what it had
\* is given back and fork() returns -1: no change.
allocproc(p) ==
  /\ Idle(p)
  /\ \E c \in MemProc :
       LET frame == kalloc(used, <<c, 3, 0>>)
           made == proc_pagetable(used \cup {frame}, frame, c)
       IN  /\ pst[c] = "UNUSED" /\ frame # NoPage /\ made.ok
           /\ Hold(made.used, {}, "")
           /\ tf' = [tf EXCEPT ![c] = frame]
           /\ pst' = [pst EXCEPT ![c] = "EMBRYO"]
           /\ job' = [job EXCEPT ![p] = [NoJob EXCEPT !.op = "fork", !.t = made.t, !.child = c]]
  /\ UNCHANGED <<pt, sz, mpanic>>

\* The child's table with the page just mapped.
CopiedLeaf(m, p, q) == m.t

uvmcopy(p) ==
  /\ Loop(p, "fork", sz[p])
  /\ LET i == job[p].a
         c == job[p].child
         m == MapPage(p, c, pt[p].leaf[i].u)
         bad == uvmunmap(m.t, 0..(i - 1))
     IN  /\ mpanic' = (Unmapped(pt[p], {i}) \/ Remaps(job[p].t, i))
         /\ \/ /\ m.ok /\ Hold(m.used, {NewPage(p, c)}, content[pt[p].leaf[i].pa])
               /\ job' = [job EXCEPT ![p].t = CopiedLeaf(m, p, c), ![p].a = @ + 1]
               /\ UNCHANGED <<tf, pst>>
            \/ /\ ~m.ok
               /\ Hold(m.used \ (Backing(m.t, 0..(i - 1)) \cup uvmfree(bad, sz[c]) \cup {tf[c]}), {}, "")
               /\ tf' = [tf EXCEPT ![c] = NoPage] /\ pst' = [pst EXCEPT ![c] = "UNUSED"]
               /\ job' = [job EXCEPT ![p] = NoJob]
  /\ UNCHANGED <<pt, sz>>

fork(p) ==
  /\ Busy(p, "fork") /\ ~Loop(p, "fork", sz[p])
  /\ LET c == job[p].child
     IN  /\ pt' = [pt EXCEPT ![c] = job[p].t] /\ sz' = [sz EXCEPT ![c] = sz[p]]
         /\ pst' = [pst EXCEPT ![c] = "USED"]
  /\ job' = [job EXCEPT ![p] = NoJob]
  /\ UNCHANGED <<content, tf, mpanic>>

\* exit() and the parent's wait(): freeproc().
freeproc(p) ==
  /\ Idle(p) /\ p # First
  /\ Hold(used \ ({tf[p]} \cup uvmfree(pt[p], sz[p])), {}, "")
  /\ mpanic' = FreePanics(pt[p], sz[p])
  /\ pt' = [pt EXCEPT ![p] = NoTable] /\ tf' = [tf EXCEPT ![p] = NoPage]
  /\ sz' = [sz EXCEPT ![p] = 0] /\ pst' = [pst EXCEPT ![p] = "UNUSED"]
  /\ UNCHANGED job

----------------------------------------------------------------------------
(* exec() *)

\* sys_exec() copies n arguments to pages of their own; exec() then makes an
\* empty table.  When one of these fails all is given back: no change.
sys_exec(p) ==
  /\ Idle(p)
  /\ \E img \in Images, n \in 0..MaxArgs :
       LET args == {kalloc(used, <<p, 5, i>>) : i \in 1..n}
           made == proc_pagetable(used \cup args, tf[p], p)
       IN  /\ Cardinality(used) + n <= NPAGE /\ made.ok
           /\ Hold(made.used, {}, "")
           /\ job' = [job EXCEPT ![p] = [NoJob EXCEPT !.op = "exec", !.t = made.t, !.argv = args,
                        !.segs = img, !.to = Head(img).vaddr + Head(img).memsz]]
  /\ UNCHANGED <<pt, tf, sz, pst, mpanic>>

\* The size that bad: passes to proc_freepagetable().
ExecBadSize(p, s) == s

\* bad: U, less the new table, which maps s bytes, and the argument pages.
ExecBad(p, U, t, s) ==
  /\ Hold(U \ (uvmfree(t, ExecBadSize(p, s)) \cup job[p].argv), {}, "")
  /\ mpanic' = FreePanics(t, ExecBadSize(p, s))
  /\ job' = [job EXCEPT ![p] = NoJob]
  /\ UNCHANGED <<pt, sz>>

ExecPage(p) ==
  /\ Loop(p, "exec", job[p].to)
  /\ LET m == MapPage(p, p, TRUE)
         V == uvmdealloc(job[p].a, job[p].sz)
     IN  \/ /\ m.ok /\ Hold(m.used, {NewPage(p, p)}, "zero")
            /\ job' = [job EXCEPT ![p].t = m.t, ![p].a = @ + 1]
            /\ mpanic' = Remaps(job[p].t, job[p].a)
            /\ UNCHANGED <<pt, sz>>
         \/ ~m.ok /\ ExecBad(p, m.used \ Backing(m.t, V), uvmunmap(m.t, V), job[p].sz)
  /\ UNCHANGED <<tf, pst>>

\* A segment is mapped: loadseg() its file part, or fail because the segment
\* is not aligned or the file is too short.  Then the next segment, or the
\* guard page and the stack.
ExecSegment(p) ==
  /\ Busy(p, "exec") /\ ~Loop(p, "exec", job[p].to) /\ job[p].segs # <<>>
  /\ LET seg == Head(job[p].segs)
         rest == Tail(job[p].segs)
         s == Max({job[p].sz, job[p].to})
         loadseg == (seg.vaddr \div PGSIZE)..(seg.vaddr \div PGSIZE + Pages(seg.filesz) - 1)
     IN  \/ /\ seg.vaddr % PGSIZE = 0
            /\ Hold(used, Backing(job[p].t, loadseg), "data")
            /\ mpanic' = \E va \in loadseg : ~walkaddr(job[p].t, va)
            /\ job' = [job EXCEPT ![p] = [@ EXCEPT !.segs = rest, !.a = Pages(s),
                 !.sz = IF rest = <<>> THEN PGROUNDUP(s) ELSE s,
                 !.to = IF rest = <<>> THEN PGROUNDUP(s) + 2 * PGSIZE ELSE Head(rest).vaddr + Head(rest).memsz]]
            /\ UNCHANGED <<pt, sz>>
         \/ ExecBad(p, used, job[p].t, s)
  /\ UNCHANGED <<tf, pst>>

uvmclear(t, va) == [t EXCEPT !.leaf[va].u = FALSE]

\* The stack is mapped: clear the guard page, push the arguments, commit, and
\* free the old image.  The arguments may not fit.
ExecCommit(p) ==
  /\ Busy(p, "exec") /\ ~Loop(p, "exec", job[p].to) /\ job[p].segs = <<>>
  /\ LET t == uvmclear(job[p].t, Pages(job[p].to) - 2)
         stack == t.leaf[Pages(job[p].to) - 1]
     IN  \/ /\ Hold(used \ (uvmfree(pt[p], sz[p]) \cup job[p].argv), {stack.pa}, "data")
            /\ mpanic' = (FreePanics(pt[p], sz[p]) \/ ~stack.u)
            /\ pt' = [pt EXCEPT ![p] = t] /\ sz' = [sz EXCEPT ![p] = job[p].to]
            /\ job' = [job EXCEPT ![p] = NoJob]
         \/ ExecBad(p, used, t, job[p].to)
  /\ UNCHANGED <<tf, pst>>

----------------------------------------------------------------------------
(* User stores, and copyout() into user memory *)

\* Mutant: copyout() does not look at PTE_U.
CopyAny(t, va) == va \in DOMAIN t.leaf

\* A page that copyin(), copyout() and copyinstr() go through.
CopyTo(t, va) == walkaddr(t, va)

copyout(p) ==
  /\ Idle(p)
  /\ \E va \in 0..(MAXVA - 1), n \in 1..MaxCopy :
       LET done == {w \in va..(va + n - 1) : \A v \in va..w : CopyTo(pt[p], v)}
       IN  Hold(used, Backing(pt[p], done), "data")
  /\ UNCHANGED <<pt, tf, sz, pst, job, mpanic>>

----------------------------------------------------------------------------
MemNext ==
  \E p \in MemProc :
    \/ growproc(p) \/ GrowPage(p) \/ GrowDone(p)
    \/ allocproc(p) \/ uvmcopy(p) \/ fork(p) \/ freeproc(p)
    \/ sys_exec(p) \/ ExecPage(p) \/ ExecSegment(p) \/ ExecCommit(p)
    \/ copyout(p)

MemSpec == MemInit /\ [][MemNext]_memVars

----------------------------------------------------------------------------
(* Properties *)

TableOK(t) == Range(t.tab) \subseteq used /\ DOMAIN t.leaf \subseteq 0..(MAXVA - 1)

MemTypeOK ==
  /\ Cardinality(used) <= NPAGE /\ Range(content) \subseteq {"junk", "zero", "data"}
  /\ \A p \in MemProc : TableOK(pt[p]) /\ TableOK(job[p].t)
  /\ tf \in [MemProc -> used \cup {NoPage}] /\ sz \in [MemProc -> 0..(MAXVA * PGSIZE)]
  /\ pst \in [MemProc -> {"UNUSED", "EMBRYO", "USED"}] /\ mpanic \in BOOLEAN

\* Users of page g: table entries and fields that hold it.
TableUses(t, g) == Cardinality({x \in DOMAIN t.tab : t.tab[x] = g})
                 + Cardinality({va \in DOMAIN t.leaf \ {TRAMPOLINE, TRAPFRAME} : t.leaf[va].pa = g})
Uses(p, g) == TableUses(pt[p], g) + (IF tf[p] = g THEN 1 ELSE 0)
            + (IF job[p].op \in {"fork", "exec"} THEN TableUses(job[p].t, g) ELSE 0)
            + (IF g \in job[p].argv THEN 1 ELSE 0)

Refs(p) == LET In(t) == Range(t.tab) \cup Backing(t, DOMAIN t.leaf)
           IN  (In(pt[p]) \cup In(job[p].t) \cup {tf[p]} \cup job[p].argv) \ {NoPage, TrampolineText}

\* Every physical page is either on the free list or used in exactly one place:
\* nothing is freed twice or while mapped, and no error path of fork(), exec()
\* or sbrk() leaks a page.
PagesExact ==
  /\ \A g \in used : MapThenSumSet(LAMBDA p : Uses(p, g), MemProc) = 1
  /\ \A p \in MemProc : Refs(p) \subseteq used

\* Outside system calls a table maps exactly the pages below p->sz, the trap
\* frame of its process and the trampoline.
SizeExact ==
  \A p \in MemProc : pst[p] = "USED" /\ job[p].op # "grow" =>
    /\ DOMAIN pt[p].leaf = UserPages(sz[p]) \cup {TRAMPOLINE, TRAPFRAME}
    /\ pt[p].leaf[TRAPFRAME] = [pa |-> tf[p], u |-> FALSE]

\* Pages and page tables stay exact, and no panic of vm.c is reached: "remap",
\* "uvmunmap: not mapped", "freewalk: leaf", "uvmcopy: page not present",
\* "loadseg: address should exist".
MemoryExact == MemTypeOK /\ PagesExact /\ SizeExact /\ ~mpanic

\* The pages of an image in AddressSpaces.
ImagePages(img) ==
  LET last == Max({Pages(img[i].vaddr + img[i].memsz) : i \in DOMAIN img})
      FromFile(k) == \E i \in DOMAIN img : k - 1 \in (img[i].vaddr \div PGSIZE)..((img[i].vaddr \div PGSIZE) + Pages(img[i].filesz) - 1)
  IN  [k \in 1..last |-> [val |-> IF FromFile(k) THEN "data" ELSE "zero", u |-> TRUE]]

UserMemory == [p \in MemProc |-> [k \in 1..Pages(sz[p]) |->
  [val |-> content[pt[p].leaf[k - 1].pa], u |-> pt[p].leaf[k - 1].u]]]

Spaces == INSTANCE AddressSpaces WITH mem <- UserMemory, MaxPages <- MAXVA

\* The page tables implement private memories: what a process sees changes
\* only by its own stores, sbrk() and exec(), a child starts with a copy, the
\* guard page is never written, and a failed call changes nothing.
Isolation == Spaces!SpacesSpec
=============================================================================
