---------------------------- MODULE BufferCache ----------------------------
(* The buffer cache (kernel/bio.c): a list of NBUF buffers in LRU order,     *)
(* bget(), bread(), bwrite(), brelse(), bpin() and bunpin(), used by         *)
(* processes that change a block and either write it through or, like        *)
(* log_write(), pin it until install_trans() writes and unpins it.           *)
(* bcache.lock makes each of its critical sections one step; the sleeping    *)
(* lock of every buffer is a SleepLock.                                      *)
EXTENDS Naturals, Sequences, FiniteSets, Functions

CONSTANTS
  Proc,
  Buf,      \* bcache.buf[]
  Block, Val, Zero,
  NoBlock,  \* blockno of a buffer never used
  None,
  MaxPins   \* blocks the log pins at most

ASSUME BufAssumption ==
  /\ NoBlock \notin Block /\ Zero \in Val /\ MaxPins \in Nat
  /\ None \notin Proc \cup Buf
  /\ IsFiniteSet(Proc) /\ IsFiniteSet(Buf)

VARIABLES
  blockno, valid, refcnt, data,  \* fields of struct buf
  lru,      \* the list from bcache.head.next on
  disk,
  pinned,   \* blocks log_write() has pinned
  pc,       \* where a process is in bread() ... brelse()
  want,     \* its blockno argument
  buf,      \* the buffer bget() found for it
  locked, pid, spc, slk  \* the sleeping locks

SL == INSTANCE SleepLock WITH Lock <- Buf

bufVars == <<blockno, valid, refcnt, data, lru>>
lockVars == <<locked, pid, spc, slk>>
vars == <<bufVars, disk, pinned, pc, want, buf, lockVars>>

Init ==
  /\ blockno = [i \in Buf |-> NoBlock]
  /\ valid = [i \in Buf |-> 0]
  /\ refcnt = [i \in Buf |-> 0]
  /\ data = [i \in Buf |-> Zero]
  /\ lru \in Bijection(1..Cardinality(Buf), Buf)
  /\ disk = [b \in Block |-> Zero]
  /\ pinned = {}
  /\ pc = [p \in Proc |-> "idle"]
  /\ want = [p \in Proc |-> NoBlock]
  /\ buf = [p \in Proc |-> None]
  /\ SL!Init

Goto(p, l) == pc' = [pc EXCEPT ![p] = l]

Cached(b) == {i \in Buf : blockno[i] = b}

\* Places of the list with a buffer that bget() may recycle, and the one that
\* its scan from head.prev meets first.
Unused == {k \in DOMAIN lru : refcnt[lru[k]] = 0}
LeastRecent == {k \in Unused : \A l \in Unused : l <= k}

----------------------------------------------------------------------------
(* bread *)

\* Mutant: bget() forgets b->refcnt++ for a cached block.
BgetHitUncounted(p, b) ==
  /\ pc[p] = "idle"
  /\ \E i \in Cached(b) :
       /\ buf' = [buf EXCEPT ![p] = i]
       /\ SL!Call(p, i)
  /\ want' = [want EXCEPT ![p] = b]
  /\ Goto(p, "bget")
  /\ UNCHANGED <<blockno, valid, refcnt, data, lru, disk, pinned>>

\* The part of bget() under bcache.lock, then the call of acquiresleep().
BgetHit(p, b) ==
  /\ pc[p] = "idle"
  /\ \E i \in Cached(b) :
       /\ refcnt' = [refcnt EXCEPT ![i] = @ + 1]
       /\ buf' = [buf EXCEPT ![p] = i]
       /\ SL!Call(p, i)
  /\ want' = [want EXCEPT ![p] = b]
  /\ Goto(p, "bget")
  /\ UNCHANGED <<blockno, valid, data, lru, disk, pinned>>

\* Mutant: bcache.lock is given up between the lookup and the recycling.
BgetRecycleBlind(p, b) ==
  /\ pc[p] = "idle"
  /\ \E k \in LeastRecent : LET i == lru[k] IN
       /\ blockno' = [blockno EXCEPT ![i] = b]
       /\ valid' = [valid EXCEPT ![i] = 0]
       /\ refcnt' = [refcnt EXCEPT ![i] = 1]
       /\ buf' = [buf EXCEPT ![p] = i]
       /\ SL!Call(p, i)
  /\ want' = [want EXCEPT ![p] = b]
  /\ Goto(p, "bget")
  /\ UNCHANGED <<data, lru, disk, pinned>>

\* Mutant: a recycled buffer keeps its valid flag.
BgetRecycleValid(p, b) ==
  /\ pc[p] = "idle"
  /\ Cached(b) = {}
  /\ \E k \in LeastRecent : LET i == lru[k] IN
       /\ blockno' = [blockno EXCEPT ![i] = b]
       /\ refcnt' = [refcnt EXCEPT ![i] = 1]
       /\ buf' = [buf EXCEPT ![p] = i]
       /\ SL!Call(p, i)
  /\ want' = [want EXCEPT ![p] = b]
  /\ Goto(p, "bget")
  /\ UNCHANGED <<valid, data, lru, disk, pinned>>

BgetRecycle(p, b) ==
  /\ pc[p] = "idle"
  /\ Cached(b) = {}
  /\ \E k \in LeastRecent : LET i == lru[k] IN
       /\ blockno' = [blockno EXCEPT ![i] = b]
       /\ valid' = [valid EXCEPT ![i] = 0]
       /\ refcnt' = [refcnt EXCEPT ![i] = 1]
       /\ buf' = [buf EXCEPT ![p] = i]
       /\ SL!Call(p, i)
  /\ want' = [want EXCEPT ![p] = b]
  /\ Goto(p, "bget")
  /\ UNCHANGED <<data, lru, disk, pinned>>

\* panic("bget: no buffers")
BgetPanic(p, b) ==
  /\ pc[p] = "idle"
  /\ Cached(b) = {} /\ Unused = {}
  /\ Goto(p, "panic")
  /\ UNCHANGED <<bufVars, disk, pinned, want, buf, lockVars>>

\* acquiresleep(): bget() returns when the lock is taken.
BgetLock(p) ==
  /\ pc[p] = "bget"
  /\ SL!AcquireSleep(p)
  /\ Goto(p, IF spc'[p] = "in" THEN "bread" ELSE "bget")
  /\ UNCHANGED <<bufVars, disk, pinned, want, buf>>

\* if(!b->valid) virtio_disk_rw(b, 0)
Bread(p) ==
  /\ pc[p] = "bread"
  /\ data' = [data EXCEPT ![buf[p]] = IF valid[buf[p]] = 1 THEN @ ELSE disk[want[p]]]
  /\ valid' = [valid EXCEPT ![buf[p]] = 1]
  /\ Goto(p, "use")
  /\ UNCHANGED <<blockno, refcnt, lru, disk, pinned, want, buf, lockVars>>

----------------------------------------------------------------------------
(* What a caller does with a buffer *)

Change(p, v) ==
  /\ pc[p] = "use"
  /\ data' = [data EXCEPT ![buf[p]] = v]
  /\ Goto(p, "changed")
  /\ UNCHANGED <<blockno, valid, refcnt, lru, disk, pinned, want, buf, lockVars>>

\* bwrite() of a block outside of a transaction (write_head, write_log).
Bwrite(p) ==
  /\ pc[p] = "changed" /\ want[p] \notin pinned
  /\ disk' = [disk EXCEPT ![want[p]] = data[buf[p]]]
  /\ Goto(p, "done")
  /\ UNCHANGED <<bufVars, pinned, want, buf, lockVars>>

\* bpin() by log_write(), once per transaction.
Bpin(p) ==
  /\ pc[p] = "changed"
  /\ \/ /\ want[p] \in pinned
        /\ UNCHANGED <<refcnt, pinned>>
     \/ /\ want[p] \notin pinned /\ Cardinality(pinned) < MaxPins
        /\ refcnt' = [refcnt EXCEPT ![buf[p]] = @ + 1]
        /\ pinned' = pinned \cup {want[p]}
  /\ Goto(p, "done")
  /\ UNCHANGED <<blockno, valid, data, lru, disk, want, buf, lockVars>>

\* bwrite() and bunpin() by install_trans() of a commit.
Bunpin(p) ==
  /\ pc[p] = "use" /\ want[p] \in pinned
  /\ disk' = [disk EXCEPT ![want[p]] = data[buf[p]]]
  /\ refcnt' = [refcnt EXCEPT ![buf[p]] = @ - 1]
  /\ pinned' = pinned \ {want[p]}
  /\ Goto(p, "done")
  /\ UNCHANGED <<blockno, valid, data, lru, want, buf, lockVars>>

----------------------------------------------------------------------------
(* brelse *)

BrelseUnlock(p) ==
  /\ pc[p] \in {"use", "done"}
  /\ SL!ReleaseSleep(p)
  /\ Goto(p, IF SL!HoldingSleep(p, buf[p]) THEN "brelse" ELSE "panic")
  /\ UNCHANGED <<bufVars, disk, pinned, want, buf>>

\* The list with buffer i taken out and put behind bcache.head.
MoveToHead(i) ==
  LET at == CHOOSE k \in DOMAIN lru : lru[k] = i
  IN  [k \in DOMAIN lru |-> IF k = 1 THEN i ELSE IF k <= at THEN lru[k - 1] ELSE lru[k]]

Brelse(p) ==
  LET i == buf[p] IN
  /\ pc[p] = "brelse"
  /\ refcnt' = [refcnt EXCEPT ![i] = @ - 1]
  /\ lru' = IF refcnt[i] = 1 THEN MoveToHead(i) ELSE lru
  /\ want' = [want EXCEPT ![p] = NoBlock]
  /\ buf' = [buf EXCEPT ![p] = None]
  /\ Goto(p, "idle")
  /\ UNCHANGED <<blockno, valid, data, disk, pinned, lockVars>>

\* kill() of a process that sleeps in acquiresleep().
Killed(p) ==
  /\ SL!Killed(p)
  /\ UNCHANGED <<bufVars, disk, pinned, pc, want, buf>>

----------------------------------------------------------------------------

Step(p) ==
  \/ BgetLock(p) \/ Bread(p)
  \/ Bwrite(p) \/ Bpin(p) \/ Bunpin(p)
  \/ BrelseUnlock(p) \/ Brelse(p) \/ Killed(p)

Next ==
  \E p \in Proc :
    \/ \E b \in Block : BgetHit(p, b) \/ BgetRecycle(p, b) \/ BgetPanic(p, b)
    \/ \E v \in Val : Change(p, v)
    \/ Step(p)

Spec == Init /\ [][Next]_vars

----------------------------------------------------------------------------
(* Properties *)

TypeOK ==
  /\ blockno \in [Buf -> Block \cup {NoBlock}]
  /\ valid \in [Buf -> {0, 1}]
  /\ refcnt \in [Buf -> Nat]
  /\ data \in [Buf -> Val]
  /\ lru \in Seq(Buf) /\ \A i \in Buf : \E k \in DOMAIN lru : lru[k] = i
  /\ disk \in [Block -> Val]
  /\ pinned \subseteq Block
  /\ pc \in [Proc -> {"idle", "bget", "bread", "use", "changed", "done", "brelse", "panic"}]
  /\ want \in [Proc -> Block \cup {NoBlock}]
  /\ buf \in [Proc -> Buf \cup {None}]
  /\ SL!TypeOK

Users(i) == {p \in Proc : buf[p] = i}

\* A block has at most one buffer: the lookup and the recycling in bget() are
\* one critical section.
OneBuffer == \A i, j \in Buf : blockno[i] = blockno[j] /\ i # j => blockno[i] = NoBlock

\* b->refcnt counts the processes between bget() and the end of brelse() and the
\* pin of the log, so a buffer in use, or waited for, is never recycled: it
\* keeps the block its user asked for until brelse() is over.
RefcntExact ==
  /\ \A i \in Buf :
       refcnt[i] = Cardinality(Users(i)) + (IF blockno[i] \in pinned THEN 1 ELSE 0)
  /\ \A p \in Proc : buf[p] # None => blockno[buf[p]] = want[p]

\* Nobody sleeps for a buffer that no process has: the brelse() that wakes it is
\* still to come.
NoLostRelease == SL!SleeperHasHolder

Using(p, b) == want[p] = b /\ pc[p] \in {"bread", "use", "changed", "done"}

Contents ==
  [b \in Block |->
     IF \E i \in Cached(b) : valid[i] = 1
       THEN data[CHOOSE i \in Cached(b) : valid[i] = 1]
       ELSE disk[b]]

User ==
  [b \in Block |->
     IF \E p \in Proc : Using(p, b) THEN CHOOSE p \in Proc : Using(p, b) ELSE None]

BS == INSTANCE BlockStore WITH contents <- Contents, user <- User

\* "Only one process at a time can use a buffer", and it finds what the last
\* one left there, cached or not.
Coherent == BS!Spec
=============================================================================
