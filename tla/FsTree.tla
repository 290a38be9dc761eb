------------------------------- MODULE FsTree -------------------------------
(* The inode cache, directories and path names (kernel/fs.c) and the system  *)
(* calls that change the tree (kernel/sysfile.c).  A step is what runs under *)
(* one hold of a lock up to the next point where another process can see or  *)
(* delay it: an ilock() that may wait, a critical section of icache.lock, or *)
(* ialloc()'s change of the disk inode.  todo[p] is what the system call of  *)
(* p has still to do, one record per such step.  A directory is its entries  *)
(* by name and its "..": slots, sizes and blocks are in module FileData.     *)
(* iget() finds an entry by its inode number under icache.lock, so the cache *)
(* is a function of inode numbers of which at most NINODE are in use.        *)
EXTENDS Naturals, Sequences, SequencesExt, FiniteSets, FiniteSetsExt

CONSTANTS
  NINODES,   \* inodes 1..NINODES on the disk, sb.ninodes - 1; 1 is the root
  NINODE,    \* entries of the inode cache
  TreeProc,
  Name,      \* names of directory entries
  Calls,     \* system calls to try: do, path, type (of create), to (of link);
             \* a path is a sequence of names, first "/" when it is absolute
  MaxLink,   \* bound: link() is not called with more links than this
  NoOne

ASSUME TreeAssumption == NINODES \in Nat \ {0} /\ NINODE \in Nat /\ {".", ".."} \cap Name = {}

VARIABLES
  dinode,    \* on disk: type and nlink
  dents,     \* contents of directories: entries, 0 for none
  dotdot,    \* contents of directories: the entry ".."
  icache,    \* ref, valid, and the copy of type and nlink
  ilocked,   \* holder of ip->lock
  tcwd,      \* p->cwd
  tfd,       \* an open file of each process, 0 when closed
  ttodo,
  tpanic     \* the panic that was reached, "" for none

treeVars == <<dinode, dents, dotdot, icache, ilocked, tcwd, tfd, ttodo, tpanic>>

Inum == 1..NINODES
ROOTINO == 1
NoEntries == [n \in Name |-> 0]
FreeInode == [type |-> "FREE", nlink |-> 0]
FreeEntry == [ref |-> 0, valid |-> FALSE, type |-> "FREE", nlink |-> 0]

\* mkfs makes a root with one link and "..", itself; everyone starts there.
TreeInit ==
  /\ dinode = [i \in Inum |-> IF i = ROOTINO THEN [type |-> "DIR", nlink |-> 1] ELSE FreeInode]
  /\ dents = [i \in Inum |-> NoEntries]
  /\ dotdot = [i \in Inum |-> IF i = ROOTINO THEN ROOTINO ELSE 0]
  /\ icache = [i \in Inum |-> IF i = ROOTINO THEN [FreeEntry EXCEPT !.ref = Cardinality(TreeProc)] ELSE FreeEntry]
  /\ ilocked = [i \in Inum |-> NoOne]
  /\ tcwd = [p \in TreeProc |-> ROOTINO]
  /\ tfd = [p \in TreeProc |-> 0]
  /\ ttodo = [p \in TreeProc |-> <<>>]
  /\ tpanic = ""

----------------------------------------------------------------------------
(* Inodes in memory *)

NoCall == [do |-> "", ip |-> 0, dp |-> 0, name |-> "", path |-> <<>>, type |-> "", new |-> <<>>]
Do(op, s) == [NoCall EXCEPT !.do = op, !.ip = s]

Cached == {i \in Inum : icache[i].ref > 0}

\* iget() and idup(): the cache C with one more reference to i.
iget(C, i) ==
  IF i = 0 THEN C
  ELSE IF C[i].ref > 0 THEN [C EXCEPT ![i].ref = @ + 1]
  ELSE [C EXCEPT ![i] = [FreeEntry EXCEPT !.ref = 1]]

\* The inode as ilock() leaves it: read from disk unless the copy is valid.
Locked(s) == IF icache[s].valid THEN icache[s]
             ELSE [icache[s] EXCEPT !.valid = TRUE, !.type = dinode[s].type,
                                    !.nlink = dinode[s].nlink]
CanLock(s) == ilocked[s] = NoOne
Loaded(s) == [icache EXCEPT ![s] = Locked(s)]

Call(p, op) == ttodo[p] # <<>> /\ Head(ttodo[p]).do = op /\ tpanic = ""
Cur(p) == Head(ttodo[p])
Then(p, ops) == ttodo' = [ttodo EXCEPT ![p] = ops \o Tail(@)]

\* iupdate(): the disk inode after the copy of i became x.
iupdate(i, x) == [dinode EXCEPT ![i] = [type |-> x.type, nlink |-> x.nlink]]

LastRef(s) == icache[s].ref = 1

Unused(s) == LastRef(s) /\ icache[s].valid /\ icache[s].nlink = 0

\* iput(): the section under icache.lock.
iput(p) ==
  /\ Call(p, "iput")
  /\ LET s == Cur(p).ip
     IN  \/ /\ Unused(s) /\ CanLock(s)
            /\ ilocked' = [ilocked EXCEPT ![s] = p]
            /\ Then(p, <<Do("ifree", s), Do("iref", s)>>)
            /\ UNCHANGED icache
         \/ /\ ~Unused(s)
            /\ icache' = [icache EXCEPT ![s] = IF @.ref = 1 THEN FreeEntry ELSE [@ EXCEPT !.ref = @ - 1]]
            /\ Then(p, <<>>)
            /\ UNCHANGED ilocked
  /\ UNCHANGED <<dinode, dents, dotdot, tcwd, tfd, tpanic>>

\* The entry after the inode was freed: valid is 0.
Invalid(x) == [x EXCEPT !.valid = FALSE, !.type = "FREE"]

\* ... itrunc(), type 0 and iupdate(), then valid = 0 and releasesleep() ...
IputFree(p) ==
  /\ Call(p, "ifree")
  /\ LET s == Cur(p).ip
     IN  /\ dinode' = [dinode EXCEPT ![s] = FreeInode]
         /\ dents' = [dents EXCEPT ![s] = NoEntries]
         /\ dotdot' = [dotdot EXCEPT ![s] = 0]
         /\ icache' = [icache EXCEPT ![s] = Invalid(@)]
         /\ ilocked' = [ilocked EXCEPT ![s] = NoOne]
  /\ Then(p, <<>>)
  /\ UNCHANGED <<tcwd, tfd, tpanic>>

\* ... and icache.lock again for ref--.
IputRef(p) ==
  /\ Call(p, "iref")
  /\ icache' = [icache EXCEPT ![Cur(p).ip] = IF @.ref = 1 THEN FreeEntry ELSE [@ EXCEPT !.ref = @ - 1]]
  /\ Then(p, <<>>)
  /\ UNCHANGED <<dinode, dents, dotdot, ilocked, tcwd, tfd, tpanic>>

iunlock(p) ==
  /\ Call(p, "iunlock")
  /\ ilocked' = [ilocked EXCEPT ![Cur(p).ip] = NoOne]
  /\ Then(p, <<>>)
  /\ UNCHANGED <<dinode, dents, dotdot, icache, tcwd, tfd, tpanic>>

\* dirlookup() of name n in directory s: an inode number or 0.
dirlookup(s, n) == IF n = "." THEN s ELSE IF n = ".." THEN dotdot[s] ELSE dents[s][n]

\* The panics of iget() and of an ilock() followed by the iget() of inode i, 0
\* for none.
IgetPanic(i) == IF i # 0 /\ icache[i].ref = 0 /\ Cardinality(Cached) = NINODE THEN "iget: no inodes" ELSE ""
LockPanic(s, i) == IF Locked(s).type = "FREE" THEN "ilock: no type" ELSE IgetPanic(i)

----------------------------------------------------------------------------
(* Path names.  A lookup is a record "walk" with the call to make on its     *)
(* result as new[1], and what to do instead on failure as the rest of new.   *)

Parent(c) == c.new[1].do \in {"unlink", "create", "link"}
LastName(c) == Parent(c) /\ Len(c.path) = 1
Found(c) == <<[c.new[1] EXCEPT !.ip = c.ip, !.name = IF Parent(c) THEN c.path[1] ELSE ""]>>
NotFound(c) == <<Do("iput", c.ip)>> \o Tail(c.new)

\* namex() up to its loop: from the root when the path begins with "/", else
\* from the current directory.
Namex(p, path, new) ==
  LET abs == path # <<>> /\ Head(path) = "/"
      from == IF abs THEN ROOTINO ELSE tcwd[p]
  IN  /\ icache' = iget(icache, from)
      /\ ttodo' = [ttodo EXCEPT ![p] =
           <<[NoCall EXCEPT !.do = "walk", !.ip = from, !.path = IF abs THEN Tail(path) ELSE path, !.new = new]>>]

\* The loop of namex(): one path element, with ip locked; or its end.
namex(p) ==
  /\ Call(p, "walk")
  /\ LET c == Cur(p)
         s == c.ip
         dir == Locked(s).type = "DIR"
         next == dirlookup(s, c.path[1])
     IN  \/ /\ c.path = <<>>
            /\ Then(p, IF Parent(c) THEN NotFound(c) ELSE Found(c))
            /\ UNCHANGED <<icache, tpanic>>
         \/ /\ c.path # <<>> /\ CanLock(s)
            /\ icache' = IF dir /\ ~LastName(c) /\ next # 0 THEN iget(Loaded(s), next) ELSE Loaded(s)
            /\ Then(p, IF ~dir THEN NotFound(c)
                       ELSE IF LastName(c) THEN Found(c)
                       ELSE IF next = 0 THEN NotFound(c)
                       ELSE <<Do("iput", s), [c EXCEPT !.ip = next, !.path = Tail(@)]>>)
            /\ tpanic' = LockPanic(s, IF dir /\ ~LastName(c) THEN next ELSE 0)
  /\ UNCHANGED <<dinode, dents, dotdot, ilocked, tcwd, tfd>>

----------------------------------------------------------------------------
(* System calls *)

Start(p) == ttodo[p] = <<>> /\ tpanic = ""

\* A system call with path arguments: what to do with the inode of the first.
\* One that may open a file is made only while the process has none open.
TreeCall(p) ==
  /\ Start(p)
  /\ \E a \in Calls :
       /\ a.do = "open" \/ a.type = "FILE" => tfd[p] = 0
       /\ a.do = "link1" => \A i \in Inum : dinode[i].type = "FILE" => dinode[i].nlink < MaxLink
       /\ Namex(p, a.path, <<[NoCall EXCEPT !.do = a.do, !.type = a.type, !.path = a.to]>>)
  /\ UNCHANGED <<dinode, dents, dotdot, ilocked, tcwd, tfd, tpanic>>

\* sys_open() of an existing file; without a free descriptor it is put back.
sys_open(p) ==
  /\ Call(p, "open") /\ CanLock(Cur(p).ip)
  /\ icache' = Loaded(Cur(p).ip)
  /\ tpanic' = LockPanic(Cur(p).ip, 0)
  /\ \/ tfd' = [tfd EXCEPT ![p] = Cur(p).ip] /\ Then(p, <<>>)
     \/ Then(p, <<Do("iput", Cur(p).ip)>>) /\ UNCHANGED tfd
  /\ UNCHANGED <<dinode, dents, dotdot, ilocked, tcwd>>

sys_close(p) ==
  /\ Start(p) /\ tfd[p] # 0
  /\ ttodo' = [ttodo EXCEPT ![p] = <<Do("iput", tfd[p])>>]
  /\ tfd' = [tfd EXCEPT ![p] = 0]
  /\ UNCHANGED <<dinode, dents, dotdot, icache, ilocked, tcwd, tpanic>>

sys_chdir(p) ==
  /\ Call(p, "chdir") /\ CanLock(Cur(p).ip)
  /\ icache' = Loaded(Cur(p).ip)
  /\ tpanic' = LockPanic(Cur(p).ip, 0)
  /\ IF Locked(Cur(p).ip).type = "DIR"
     THEN tcwd' = [tcwd EXCEPT ![p] = Cur(p).ip] /\ Then(p, <<Do("iput", tcwd[p])>>)
     ELSE Then(p, <<Do("iput", Cur(p).ip)>>) /\ UNCHANGED tcwd
  /\ UNCHANGED <<dinode, dents, dotdot, ilocked, tfd>>

----------------------------------------------------------------------------
(* link *)

\* nlink of the inode in slot s changed by d - 1.
Linked(s, d) == [Locked(s) EXCEPT !.nlink = (@ + d) - 1]

\* The old name: nlink++ unless it is a directory; then the new one.
LinkOld(p) ==
  /\ Call(p, "link1") /\ CanLock(Cur(p).ip)
  /\ LET s == Cur(p).ip
         x == Linked(s, 2)
     IN  /\ tpanic' = LockPanic(s, 0)
         /\ IF x.type = "DIR"
            THEN icache' = Loaded(s) /\ Then(p, <<Do("iput", s)>>) /\ UNCHANGED dinode
            ELSE /\ icache' = [icache EXCEPT ![s] = x]
                 /\ dinode' = iupdate(s, x)
                 /\ Then(p, <<[NoCall EXCEPT !.do = "namei", !.path = Cur(p).path, !.dp = s]>>)
  /\ UNCHANGED <<dents, dotdot, ilocked, tcwd, tfd>>

LinkNew(p) ==
  /\ Call(p, "namei")
  /\ Namex(p, Cur(p).path, <<[NoCall EXCEPT !.do = "link", !.dp = Cur(p).dp], Do("unlinked", Cur(p).dp)>>)
  /\ UNCHANGED <<dinode, dents, dotdot, ilocked, tcwd, tfd, tpanic>>

\* The parent of the new name is found (ip; dp is the inode to link): dirlink()
\* or, when the name is there, bad.
sys_link(p) ==
  /\ Call(p, "link") /\ CanLock(Cur(p).ip)
  /\ LET s == Cur(p).ip
         old == Cur(p).dp
         there == dirlookup(s, Cur(p).name)
     IN  /\ tpanic' = LockPanic(s, there)
         /\ IF there # 0
            THEN /\ icache' = iget(Loaded(s), there)
                 /\ ilocked' = [ilocked EXCEPT ![s] = p]
                 /\ Then(p, <<Do("iput", there), Do("iunlock", s), Do("iput", s), Do("unlinked", old)>>)
                 /\ UNCHANGED dents
            ELSE /\ icache' = Loaded(s)
                 /\ dents' = [dents EXCEPT ![s][Cur(p).name] = old]
                 /\ Then(p, <<Do("iput", s), Do("iput", old)>>)
                 /\ UNCHANGED ilocked
  /\ UNCHANGED <<dinode, dotdot, tcwd, tfd>>

\* bad: of sys_link(), nlink--.
LinkBad(p) ==
  /\ Call(p, "unlinked") /\ CanLock(Cur(p).ip)
  /\ LET x == Linked(Cur(p).ip, 0)
     IN  icache' = [icache EXCEPT ![Cur(p).ip] = x] /\ dinode' = iupdate(Cur(p).ip, x)
  /\ tpanic' = LockPanic(Cur(p).ip, 0)
  /\ Then(p, <<Do("iput", Cur(p).ip)>>)
  /\ UNCHANGED <<dents, dotdot, ilocked, tcwd, tfd>>

----------------------------------------------------------------------------
(* unlink *)

\* The parent is locked and the entry looked up.
sys_unlink(p) ==
  /\ Call(p, "unlink") /\ CanLock(Cur(p).ip)
  /\ LET s == Cur(p).ip
         i == dirlookup(s, Cur(p).name)
     IN  IF Cur(p).name \in {".", ".."} \/ i = 0
         THEN /\ icache' = Loaded(s) /\ Then(p, <<Do("iput", s)>>)
              /\ tpanic' = LockPanic(s, 0) /\ UNCHANGED ilocked
         ELSE /\ icache' = iget(Loaded(s), i)
              /\ ilocked' = [ilocked EXCEPT ![s] = p]
              /\ tpanic' = LockPanic(s, i)
              /\ Then(p, <<[Do("unlink2", i) EXCEPT !.dp = s, !.name = Cur(p).name]>>)
  /\ UNCHANGED <<dinode, dents, dotdot, tcwd, tfd>>

isdirempty(i) == dents[i] = NoEntries

\* Parent and inode locked: the entry goes, and ".." with it.
UnlinkEntry(p) ==
  /\ Call(p, "unlink2") /\ CanLock(Cur(p).ip)
  /\ LET s == Cur(p).ip
         d == Cur(p).dp
         x == Locked(s)
         up == [icache[d] EXCEPT !.nlink = @ - 1]
     IN  /\ tpanic' = IF x.nlink < 1 THEN "unlink: nlink < 1" ELSE LockPanic(s, 0)
         /\ IF x.type = "DIR" /\ ~isdirempty(s)
            THEN /\ icache' = Loaded(s)
                 /\ Then(p, <<Do("iput", s), Do("iunlock", d), Do("iput", d)>>)
                 /\ UNCHANGED <<dinode, dents, ilocked>>
            ELSE /\ dents' = [dents EXCEPT ![d][Cur(p).name] = 0]
                 /\ ilocked' = [ilocked EXCEPT ![d] = NoOne, ![s] = p]
                 /\ Then(p, <<Do("iput", d), Do("unlink3", s)>>)
                 /\ IF x.type = "DIR"
                    THEN icache' = [Loaded(s) EXCEPT ![d] = up] /\ dinode' = iupdate(d, up)
                    ELSE icache' = Loaded(s) /\ UNCHANGED dinode
  /\ UNCHANGED <<dotdot, tcwd, tfd>>

\* nlink-- of the inode, still locked, after the parent is put.
UnlinkInode(p) ==
  /\ Call(p, "unlink3")
  /\ LET s == Cur(p).ip
         x == [icache[s] EXCEPT !.nlink = @ - 1]
     IN  /\ icache' = [icache EXCEPT ![s] = x] /\ dinode' = iupdate(s, x)
         /\ ilocked' = [ilocked EXCEPT ![s] = NoOne]
         /\ Then(p, <<Do("iput", s)>>)
  /\ UNCHANGED <<dents, dotdot, tcwd, tfd, tpanic>>

----------------------------------------------------------------------------
(* create, for open with O_CREATE, mkdir and mknod *)

FreeInodes == {i \in Inum : dinode[i].type = "FREE"}
ialloc == CHOOSE i \in FreeInodes : \A j \in FreeInodes : i <= j

create(p) ==
  /\ Call(p, "create") /\ CanLock(Cur(p).ip)
  /\ LET s == Cur(p).ip
         i == dirlookup(s, Cur(p).name)
     IN  IF i # 0
         THEN /\ icache' = iget(Loaded(s), i)
              /\ Then(p, <<Do("iput", s), [Do("create2", i) EXCEPT !.type = Cur(p).type]>>)
              /\ tpanic' = LockPanic(s, i)
              /\ UNCHANGED <<dinode, ilocked>>
         ELSE IF FreeInodes = {}
         THEN tpanic' = "ialloc: no inodes" /\ UNCHANGED <<dinode, icache, ilocked, ttodo>>
         ELSE /\ icache' = Loaded(s)
              /\ dinode' = [dinode EXCEPT ![ialloc] = [type |-> Cur(p).type, nlink |-> 0]]
              /\ ilocked' = [ilocked EXCEPT ![s] = p]
              /\ Then(p, <<[Cur(p) EXCEPT !.do = "create3", !.dp = s, !.ip = ialloc]>>)
              /\ tpanic' = LockPanic(s, 0)
  /\ UNCHANGED <<dents, dotdot, tcwd, tfd>>

\* The name exists: open it if both are files and there is a descriptor.
CreateOld(p) ==
  /\ Call(p, "create2") /\ CanLock(Cur(p).ip)
  /\ icache' = Loaded(Cur(p).ip)
  /\ tpanic' = LockPanic(Cur(p).ip, 0)
  /\ \/ /\ Cur(p).type = "FILE" /\ Locked(Cur(p).ip).type = "FILE"
        /\ tfd' = [tfd EXCEPT ![p] = Cur(p).ip] /\ Then(p, <<>>)
     \/ Then(p, <<Do("iput", Cur(p).ip)>>) /\ UNCHANGED tfd
  /\ UNCHANGED <<dinode, dents, dotdot, ilocked, tcwd>>

\* ialloc()'s iget().
CreateGet(p) ==
  /\ Call(p, "create3")
  /\ icache' = iget(icache, Cur(p).ip)
  /\ tpanic' = IgetPanic(Cur(p).ip)
  /\ Then(p, <<[Cur(p) EXCEPT !.do = "create4"]>>)
  /\ UNCHANGED <<dinode, dents, dotdot, ilocked, tcwd, tfd>>

\* Mutant: no link for "..".
NoDotDotLink(d, t) == icache[d]

\* The parent, with a link for the ".." of a new directory.
DotDotLink(d, t) == [icache[d] EXCEPT !.nlink = IF t = "DIR" THEN @ + 1 ELSE @]

CreateNew(p) ==
  /\ Call(p, "create4") /\ CanLock(Cur(p).ip)
  /\ LET s == Cur(p).ip
         d == Cur(p).dp
         x == [Locked(s) EXCEPT !.nlink = 1]
         up == DotDotLink(d, Cur(p).type)
     IN  /\ icache' = [icache EXCEPT ![s] = x, ![d] = up]
         /\ dinode' = [iupdate(s, x) EXCEPT ![d].nlink = up.nlink]
         /\ dents' = [dents EXCEPT ![d][Cur(p).name] = s]
         /\ dotdot' = [dotdot EXCEPT ![s] = IF Cur(p).type = "DIR" THEN d ELSE 0]
         /\ ilocked' = [ilocked EXCEPT ![d] = NoOne, ![s] = p]
         /\ tpanic' = LockPanic(s, 0)
         /\ Then(p, <<Do("iput", d), [Cur(p) EXCEPT !.do = "create5", !.dp = 0]>>)
  /\ UNCHANGED <<tcwd, tfd>>

\* Back in the system call, the new inode locked: open keeps it, if there is a
\* descriptor; mkdir puts it.
Created(p) ==
  /\ Call(p, "create5")
  /\ ilocked' = [ilocked EXCEPT ![Cur(p).ip] = NoOne]
  /\ \/ Cur(p).type = "FILE" /\ tfd' = [tfd EXCEPT ![p] = Cur(p).ip] /\ Then(p, <<>>)
     \/ Then(p, <<Do("iput", Cur(p).ip)>>) /\ UNCHANGED tfd
  /\ UNCHANGED <<dinode, dents, dotdot, icache, tcwd, tpanic>>

\* panic() does not return.
panic == tpanic # "" /\ UNCHANGED treeVars

----------------------------------------------------------------------------
TreeNext ==
  \/ panic
  \/ \E p \in TreeProc :
    \/ iput(p) \/ IputFree(p) \/ IputRef(p) \/ iunlock(p) \/ namex(p) \/ TreeCall(p)
    \/ sys_open(p) \/ sys_close(p) \/ sys_chdir(p)
    \/ LinkOld(p) \/ LinkNew(p) \/ sys_link(p) \/ LinkBad(p)
    \/ sys_unlink(p) \/ UnlinkEntry(p) \/ UnlinkInode(p)
    \/ create(p) \/ CreateOld(p) \/ CreateGet(p) \/ CreateNew(p) \/ Created(p)

TreeSpec == TreeInit /\ [][TreeNext]_treeVars

----------------------------------------------------------------------------
(* Properties *)

TreeTypeOK ==
  /\ dinode \in [Inum -> [type : {"FREE", "FILE", "DIR"}, nlink : 0..(MaxLink + NINODES + Cardinality(TreeProc))]]
  /\ dents \in [Inum -> [Name -> Inum \cup {0}]] /\ dotdot \in [Inum -> Inum \cup {0}]
  /\ icache \in [Inum -> [ref : 0..(4 * Cardinality(TreeProc)), valid : BOOLEAN,
                          type : {"FREE", "FILE", "DIR"}, nlink : 0..(MaxLink + NINODES + Cardinality(TreeProc))]]
  /\ ilocked \in [Inum -> TreeProc \cup {NoOne}]
  /\ tcwd \in [TreeProc -> Inum] /\ tfd \in [TreeProc -> Inum \cup {0}]

\* References that the rest of a system call holds: an iput() each, and those
\* of the step under way.
Holds(c, s) ==
  CASE c.do = "iref" -> IF c.ip = s THEN 1 ELSE 0
    [] c.do \in {"ifree", "iunlock"} -> 0
    [] c.do = "create3" -> IF c.dp = s THEN 1 ELSE 0
    [] c.do = "walk" -> (IF c.ip = s THEN 1 ELSE 0) + (IF c.new[1].dp = s THEN 1 ELSE 0)
    [] OTHER -> (IF c.ip = s THEN 1 ELSE 0) + (IF c.dp = s THEN 1 ELSE 0)

Held(p, s) == FoldLeft(LAMBDA n, c : n + Holds(c, s), 0, ttodo[p])

\* An entry of the inode cache counts exactly its users (current directories,
\* open files, system calls under way), whatever error path they took.
CacheExact ==
  \A s \in Inum :
    icache[s].ref = Cardinality({p \in TreeProc : tcwd[p] = s}) + Cardinality({p \in TreeProc : tfd[p] = s})
                    + MapThenSumSet(LAMBDA p : Held(p, s), TreeProc)

\* A valid copy agrees with the disk, also while an inode is freed and given
\* out again at once by ialloc().
CacheCoherent ==
  \A s \in Inum : icache[s].ref > 0 /\ icache[s].valid =>
    dinode[s] = [type |-> icache[s].type, nlink |-> icache[s].nlink]

\* An inode that is open or a current directory is not freed, though all its
\* names may be gone.
InUseAllocated ==
  \A p \in TreeProc :
    /\ dinode[tcwd[p]].type = "DIR"
    /\ tfd[p] # 0 => dinode[tfd[p]].type # "FREE"

Entries(j) == {<<d, n>> \in Inum \X Name : dents[d][n] = j}

\* When iput() holds the last reference to an inode without links, nobody has
\* it locked, so that its acquiresleep() under icache.lock does not sleep.
IputNoWait ==
  \A p \in TreeProc : Call(p, "iput") /\ Unused(Cur(p).ip) => CanLock(Cur(p).ip)

\* Every entry names an allocated inode, and nlink is never below the entries
\* that name the inode and, for a directory, the ".." of those it contains; so
\* an inode is not freed while a name leads to it.
LinksCover ==
  \A j \in Inum :
    LET needed == Cardinality(Entries(j)) + Cardinality({c \in Inum : dotdot[c] = j /\ (c = j \/ Entries(c) # {})})
    IN  needed > 0 => dinode[j].type # "FREE" /\ dinode[j].nlink >= needed

\* Directories form a tree: a directory has one name, in the directory that
\* its ".." says.
OneParent ==
  \A c \in Inum : dinode[c].type = "DIR" => \A e \in Entries(c) : Entries(c) = {e} /\ e[1] = dotdot[c]

\* ilock() never finds a freed inode, sys_unlink() never an inode without
\* links, and the inode cache does not run out while it has an entry for every
\* inode; only the disk may run out of inodes.
TreeNoPanic == tpanic \in {"", "ialloc: no inodes"}

\* The inode cache, the inodes on disk and the directories agree after every
\* step, at the grain of the inode locks, of concurrent system calls.
TreeExact ==
  /\ TreeTypeOK /\ CacheExact /\ CacheCoherent /\ InUseAllocated
  /\ LinksCover /\ OneParent /\ IputNoWait /\ TreeNoPanic
=============================================================================
