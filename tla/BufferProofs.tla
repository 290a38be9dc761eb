---------------------------- MODULE BufferProofs ----------------------------
(* Proofs about BufferCache and the sleeping locks it uses, for any           *)
(* processes, buffers and blocks: mutual exclusion and no lost release of a   *)
(* sleeping lock, one buffer per block, and exact reference counts.           *)
(*                                                                            *)
(* The argument.  A process keeps the buffer bget() gave it until brelse(),   *)
(* and has its sleeping lock while it uses it (Places).  The reference count  *)
(* is the number of such processes, plus the log's pin (RefcntExact), so a    *)
(* recycled buffer has no user and its block is not pinned.                   *)
EXTENDS BufferCache, FiniteSetTheorems, TLAPS

----------------------------------------------------------------------------
(* The sleeping locks, whoever uses them; Buf is any set of locks *)

\* A process that is in acquiresleep() or past it is there for a lock.
ForALock == \A p \in Proc : spc[p] # "out" => slk[p] \in Buf

\* A lock that is taken has a holder who will release it.
HeldByOne == \A l \in Buf : locked[l] = 1 => \E p \in Proc : spc[p] = "in" /\ slk[p] = l

\* The inductive invariant of the sleeping locks.
LockInv == SL!TypeOK /\ ForALock /\ HeldByOne /\ SL!Mutex /\ SL!SleeperHasHolder

\* initsleeplock().
LEMMA LockInit == SL!Init => LockInv
  BY DEF SL!Init, LockInv, SL!TypeOK, ForALock, HeldByOne, SL!Mutex, SL!SleeperHasHolder

\* A step that only moves p, from outside of the lock to outside of it, towards
\* no sleep.
LEMMA TryStep ==
  ASSUME LockInv, NEW p \in Proc, NEW l \in Buf, spc[p] # "in",
         spc' = [spc EXCEPT ![p] = "try"], slk' = [slk EXCEPT ![p] = l],
         UNCHANGED <<locked, pid>>
  PROVE  LockInv'
<1>1. SL!TypeOK' /\ ForALock'
  BY DEF LockInv, SL!TypeOK, ForALock
<1>2. \A q \in Proc : spc'[q] = "in" <=> spc[q] = "in"
  BY DEF LockInv, SL!TypeOK
<1>3. \A q \in Proc : spc[q] = "in" => slk'[q] = slk[q]
  BY DEF LockInv, SL!TypeOK
<1>4. SL!Mutex'
  BY <1>2, <1>3 DEF LockInv, SL!Mutex, SL!HoldingSleep
<1>5. HeldByOne'
  BY <1>2, <1>3 DEF LockInv, HeldByOne
<1>6. SL!SleeperHasHolder'
  <2> SUFFICES ASSUME NEW q \in Proc, spc'[q] = "asleep"
               PROVE  \E r \in Proc : spc'[r] = "in" /\ slk'[r] = slk'[q]
    BY DEF SL!SleeperHasHolder
  <2>1. spc[q] = "asleep" /\ slk'[q] = slk[q]
    BY DEF LockInv, SL!TypeOK
  <2>2. PICK r \in Proc : spc[r] = "in" /\ slk[r] = slk[q]
    BY <2>1 DEF LockInv, SL!SleeperHasHolder
  <2> QED
    BY <1>2, <1>3, <2>1, <2>2
<1> QED
  BY <1>1, <1>4, <1>5, <1>6 DEF LockInv

\* acquiresleep() of a held lock goes to sleep behind its holder.
LEMMA SleepStep ==
  ASSUME LockInv, NEW p \in Proc, spc[p] = "try", locked[slk[p]] = 1,
         spc' = [spc EXCEPT ![p] = "asleep"], UNCHANGED <<locked, pid, slk>>
  PROVE  LockInv'
<1>1. SL!TypeOK' /\ ForALock'
  BY DEF LockInv, SL!TypeOK, ForALock
<1>2. \A q \in Proc : spc'[q] = "in" <=> spc[q] = "in"
  BY DEF LockInv, SL!TypeOK
<1>3. SL!Mutex' /\ HeldByOne'
  BY <1>2 DEF LockInv, SL!Mutex, SL!HoldingSleep, HeldByOne
<1>4. \E r \in Proc : spc[r] = "in" /\ slk[r] = slk[p]
  BY DEF LockInv, ForALock, HeldByOne
<1>5. \A q \in Proc : spc'[q] = "asleep" => q = p \/ spc[q] = "asleep"
  BY DEF LockInv, SL!TypeOK
<1>6. SL!SleeperHasHolder'
  BY <1>2, <1>4, <1>5 DEF LockInv, SL!SleeperHasHolder
<1> QED
  BY <1>1, <1>3, <1>6 DEF LockInv

\* acquiresleep() of a free lock: nobody was past it, nobody slept on it.
LEMMA EnterStep ==
  ASSUME LockInv, NEW p \in Proc, spc[p] = "try", locked[slk[p]] = 0,
         locked' = [locked EXCEPT ![slk[p]] = 1], pid' = [pid EXCEPT ![slk[p]] = p],
         spc' = [spc EXCEPT ![p] = "in"], UNCHANGED slk
  PROVE  LockInv'
<1>0. slk[p] \in Buf
  BY DEF LockInv, ForALock
<1>1. SL!TypeOK' /\ ForALock'
  BY <1>0 DEF LockInv, SL!TypeOK, ForALock
<1>2. \A q \in Proc : spc'[q] = "in" <=> q = p \/ spc[q] = "in"
  BY DEF LockInv, SL!TypeOK
<1>3. \A q \in Proc : spc[q] = "in" => slk[q] \in Buf /\ slk[q] # slk[p]
  BY DEF LockInv, ForALock, SL!Mutex, SL!HoldingSleep
<1>4. SL!Mutex'
  <2>1. \A q \in Proc : spc'[q] = "in" => SL!HoldingSleep(q, slk[q])'
    BY <1>0, <1>2, <1>3 DEF LockInv, SL!TypeOK, SL!Mutex, SL!HoldingSleep
  <2>2. \A q, r \in Proc : spc'[q] = "in" /\ spc'[r] = "in" /\ slk[q] = slk[r] => q = r
    BY <1>2, <1>3 DEF LockInv, SL!Mutex
  <2> QED
    BY <2>1, <2>2 DEF SL!Mutex, SL!HoldingSleep
<1>5. HeldByOne'
  BY <1>0, <1>2 DEF LockInv, SL!TypeOK, HeldByOne
<1>6. SL!SleeperHasHolder'
  BY <1>2 DEF LockInv, SL!TypeOK, SL!SleeperHasHolder
<1> QED
  BY <1>1, <1>4, <1>5, <1>6 DEF LockInv

\* releasesleep() leaves nobody past the lock and nobody asleep on it.
LEMMA ReleaseStep ==
  ASSUME LockInv, NEW p \in Proc, SL!ReleaseSleep(p)
  PROVE  LockInv'
<1>0. slk[p] \in Buf /\ spc[p] = "in"
  BY DEF LockInv, ForALock, SL!ReleaseSleep
<1>1. SL!TypeOK' /\ ForALock'
  BY <1>0 DEF LockInv, SL!TypeOK, ForALock, SL!ReleaseSleep
<1>2. \A q \in Proc : /\ spc'[q] = "in" <=> spc[q] = "in" /\ q # p
                      /\ q # p => slk'[q] = slk[q]
  BY DEF SL!ReleaseSleep, LockInv, SL!TypeOK
<1>3. \A q \in Proc : spc[q] = "in" /\ q # p => slk[q] \in Buf /\ slk[q] # slk[p]
  BY <1>0 DEF LockInv, ForALock, SL!Mutex
<1>4. \A l \in Buf : l # slk[p] => locked'[l] = locked[l] /\ pid'[l] = pid[l]
  BY DEF SL!ReleaseSleep, LockInv, SL!TypeOK
<1>5. SL!Mutex'
  BY <1>2, <1>3, <1>4 DEF LockInv, SL!Mutex, SL!HoldingSleep
<1>6. HeldByOne'
  <2> SUFFICES ASSUME NEW l \in Buf, locked'[l] = 1
               PROVE  \E q \in Proc : spc'[q] = "in" /\ slk'[q] = l
    BY DEF HeldByOne
  <2>1. l # slk[p]
    BY <1>0 DEF SL!ReleaseSleep, LockInv, SL!TypeOK
  <2>2. PICK q \in Proc : spc[q] = "in" /\ slk[q] = l
    BY <1>4, <2>1 DEF LockInv, HeldByOne
  <2> QED
    BY <1>2, <2>1, <2>2
<1>7. SL!SleeperHasHolder'
  <2> SUFFICES ASSUME NEW q \in Proc, spc'[q] = "asleep"
               PROVE  \E r \in Proc : spc'[r] = "in" /\ slk'[r] = slk'[q]
    BY DEF SL!SleeperHasHolder
  <2>1. q # p /\ spc[q] = "asleep" /\ slk[q] # slk[p]
    BY DEF SL!ReleaseSleep
  <2>2. PICK r \in Proc : spc[r] = "in" /\ slk[r] = slk[q]
    BY <2>1 DEF LockInv, SL!SleeperHasHolder
  <2> QED
    BY <1>2, <2>1, <2>2
<1> QED
  BY <1>1, <1>5, <1>6, <1>7 DEF LockInv

\* The steps of the locks keep their invariant.
LEMMA LockInvStep ==
  ASSUME LockInv, [SL!Next]_(SL!vars)
  PROVE  LockInv'
<1>1. CASE UNCHANGED SL!vars
  BY <1>1 DEF SL!vars, LockInv, SL!TypeOK, ForALock, HeldByOne, SL!Mutex, SL!SleeperHasHolder, SL!HoldingSleep
<1>2. ASSUME NEW p \in Proc, NEW l \in Buf, SL!Call(p, l)  PROVE LockInv'
  BY <1>2, TryStep DEF SL!Call
<1>3. ASSUME NEW p \in Proc, SL!AcquireSleep(p)  PROVE LockInv'
  BY <1>3, SleepStep, EnterStep DEF SL!AcquireSleep
<1>4. ASSUME NEW p \in Proc, SL!ReleaseSleep(p)  PROVE LockInv'
  BY <1>4, ReleaseStep
<1>5. ASSUME NEW p \in Proc, SL!Killed(p)  PROVE LockInv'
  <2>1. slk[p] \in Buf /\ slk' = [slk EXCEPT ![p] = slk[p]]
    BY <1>5 DEF SL!Killed, LockInv, SL!TypeOK, ForALock
  <2> QED
    BY <1>5, <2>1, TryStep DEF SL!Killed
<1> QED
  BY <1>1, <1>2, <1>3, <1>4, <1>5 DEF SL!Next

\* Their invariant holds wherever sleeping locks are used.
LEMMA LockInvHolds == SL!Spec => []LockInv
<1>1. LockInv /\ [SL!Next]_(SL!vars) => LockInv'
  BY LockInvStep
<1> QED
  BY <1>1, LockInit, PTL DEF SL!Spec

\* acquiresleep() and releasesleep() exclude: one process at a time is between
\* them, and holdingsleep() is true for it.
THEOREM MutexHolds == SL!Spec => []SL!Mutex
<1>1. LockInv => SL!Mutex
  BY DEF LockInv
<1> QED
  BY <1>1, LockInvHolds, PTL

\* Nobody sleeps in acquiresleep() on a lock that no process will release.
THEOREM SleeperHasHolderHolds == SL!Spec => []SL!SleeperHasHolder
<1>1. LockInv => SL!SleeperHasHolder
  BY DEF LockInv
<1> QED
  BY <1>1, LockInvHolds, PTL

----------------------------------------------------------------------------
(* The inductive invariant of the cache *)

\* The sleeping lock and the buffer of a process at each place.
Places ==
  \A p \in Proc :
    /\ pc[p] \in {"idle", "panic"} => buf[p] = None /\ spc[p] = "out"
    /\ pc[p] = "bget" => spc[p] \in {"try", "asleep"}
    /\ pc[p] \in {"bread", "use", "changed", "done"} => spc[p] = "in"
    /\ pc[p] = "brelse" => spc[p] = "out"
    /\ pc[p] \notin {"idle", "panic"} => buf[p] \in Buf /\ want[p] \in Block
    /\ pc[p] \notin {"idle", "panic", "brelse"} => slk[p] = buf[p]

\* What is known to be in a buffer.
Filled ==
  /\ \A i \in Buf : valid[i] = 1 => blockno[i] \in Block
  /\ \A p \in Proc : pc[p] \in {"use", "changed", "done"} => valid[buf[p]] = 1
  /\ \A b \in pinned : \E i \in Buf : blockno[i] = b /\ valid[i] = 1

\* The inductive invariant.
IInv == TypeOK /\ LockInv /\ Places /\ OneBuffer /\ RefcntExact /\ Filled

USE BufAssumption DEF BufAssumption

\* After binit() no buffer is in use.
LEMMA InitInv == Init => IInv
<1> SUFFICES ASSUME Init  PROVE IInv
  OBVIOUS
<1>1. Cardinality(Buf) \in Nat
  BY FS_CardinalityType
<1>2. lru \in [1..Cardinality(Buf) -> Buf] /\ \A i \in Buf : \E k \in 1..Cardinality(Buf) : lru[k] = i
  BY DEF Init, Bijection, Injection, Surjection
<1>3. lru \in Seq(Buf) /\ DOMAIN lru = 1..Cardinality(Buf)
  BY <1>1, <1>2
<1>4. SL!Init
  BY DEF Init, SL!Init
<1>5. LockInv
  BY <1>4, LockInit
<1>6. TypeOK
  BY <1>2, <1>3 DEF Init, TypeOK, SL!Init, SL!TypeOK
<1>7. Places /\ OneBuffer /\ Filled
  BY DEF Init, Places, OneBuffer, Filled, SL!Init
<1>8. \A i \in Buf : Users(i) = {}
  BY DEF Init, Users
<1>9. \A i \in Buf : Cardinality(Users(i)) = 0
  BY <1>8, FS_EmptySet
<1>10. RefcntExact
  BY <1>9 DEF Init, RefcntExact
<1> QED
  BY <1>5, <1>6, <1>7, <1>10 DEF IInv

\* The steps of the cache are steps of the sleeping locks.
LEMMA LockStep ==
  ASSUME IInv, [Next]_vars
  PROVE  LockInv'
<1>1. [SL!Next]_(SL!vars)
  <2>1. ASSUME NEW p \in Proc, NEW b \in Block, BgetHit(p, b) \/ BgetRecycle(p, b)
        PROVE  SL!Next
    <3>1. \E i \in Buf : SL!Call(p, i)
      BY <2>1 DEF BgetHit, BgetRecycle, Cached, LeastRecent, Unused, IInv, TypeOK
    <3> QED
      BY ZenonT(30), <3>1 DEF SL!Call, SL!Call, SL!Next
  <2>2. ASSUME NEW p \in Proc, BgetLock(p)  PROVE SL!Next
    BY <2>2 DEF BgetLock, SL!AcquireSleep, SL!AcquireSleep, SL!Next
  <2>3. ASSUME NEW p \in Proc, BrelseUnlock(p)  PROVE SL!Next
    BY <2>3 DEF BrelseUnlock, SL!ReleaseSleep, SL!ReleaseSleep, SL!Next
  <2>4. ASSUME NEW p \in Proc, Killed(p)  PROVE SL!Next
    BY <2>4 DEF Killed, SL!Killed, SL!Next
  <2>5. ASSUME UNCHANGED lockVars  PROVE UNCHANGED SL!vars
    BY <2>5 DEF lockVars, SL!vars
  <2> QED
    BY <2>1, <2>2, <2>3, <2>4, <2>5
    DEF Next, Step, BgetPanic, Change, Bread, Bwrite, Bpin, Bunpin, Brelse, vars
<1> QED
  BY <1>1, LockInvStep DEF IInv

----------------------------------------------------------------------------
(* The steps of bget() and brelse() *)

\* bget() of a cached block: its buffer i gets one user more.
Hits(p, b, i) ==
  /\ blockno[i] = b /\ pc[p] = "idle" /\ buf[p] = None
  /\ refcnt' = [refcnt EXCEPT ![i] = @ + 1]
  /\ buf' = [buf EXCEPT ![p] = i]
  /\ spc' = [spc EXCEPT ![p] = "try"] /\ slk' = [slk EXCEPT ![p] = i]
  /\ want' = [want EXCEPT ![p] = b]
  /\ pc' = [pc EXCEPT ![p] = "bget"]
  /\ UNCHANGED <<blockno, valid, data, lru, disk, pinned, locked, pid>>

\* bget() of a block that is not cached: the buffer i it takes has no user, and
\* the log has not pinned its block.
Recycles(p, b, i) ==
  /\ (\A j \in Buf : blockno[j] # b) /\ b \notin pinned
  /\ pc[p] = "idle" /\ buf[p] = None
  /\ Users(i) = {} /\ blockno[i] \notin pinned
  /\ refcnt' = [refcnt EXCEPT ![i] = 1]
  /\ blockno' = [blockno EXCEPT ![i] = b]
  /\ valid' = [valid EXCEPT ![i] = 0]
  /\ buf' = [buf EXCEPT ![p] = i]
  /\ spc' = [spc EXCEPT ![p] = "try"] /\ slk' = [slk EXCEPT ![p] = i]
  /\ want' = [want EXCEPT ![p] = b]
  /\ pc' = [pc EXCEPT ![p] = "bget"]
  /\ UNCHANGED <<data, lru, disk, pinned, locked, pid>>

\* acquiresleep() in bget(): p goes to sleep, or takes the lock, which was free.
Locks(p) ==
  /\ pc[p] = "bget" /\ spc[p] = "try" /\ slk[p] = buf[p]
  /\ \/ spc' = [spc EXCEPT ![p] = "asleep"] /\ pc' = pc
     \/ /\ locked[buf[p]] = 0
        /\ spc' = [spc EXCEPT ![p] = "in"]
        /\ pc' = [pc EXCEPT ![p] = "bread"]
  /\ UNCHANGED <<bufVars, disk, pinned, want, buf, slk>>

\* releasesleep() in brelse(): p holds the lock, so there is no panic.
Unlocks(p) ==
  /\ pc[p] \in {"use", "done"} /\ pc' = [pc EXCEPT ![p] = "brelse"]
  /\ spc'[p] = "out" /\ slk'[p] = None
  /\ \A q \in Proc : q # p =>
       /\ slk'[q] = slk[q]
       /\ spc'[q] = spc[q] \/ (spc[q] = "asleep" /\ spc'[q] = "try")
  /\ UNCHANGED <<bufVars, disk, pinned, want, buf>>

\* bget() of a cached block counts one user more.
LEMMA HitIs ==
  ASSUME IInv, NEW p \in Proc, NEW b \in Block, BgetHit(p, b)
  PROVE  \E i \in Buf : Hits(p, b, i)
<1>1. pc[p] = "idle" /\ buf[p] = None
  BY DEF BgetHit, IInv, Places
<1> QED
  BY <1>1 DEF BgetHit, Hits, Cached, SL!Call, Goto

\* The users of a buffer can be counted.
LEMMA CountedIs ==
  ASSUME NEW i \in Buf
  PROVE  /\ IsFiniteSet(Users(i)) /\ Cardinality(Users(i)) \in Nat
         /\ Users(i) # {} => Cardinality(Users(i)) > 0
<1>1. Users(i) \subseteq Proc
  BY DEF Users
<1>2. IsFiniteSet(Users(i)) /\ Cardinality(Users(i)) \in Nat
  BY <1>1, FS_Subset, FS_CardinalityType
<1>3. Cardinality(Users(i)) = 0 <=> Users(i) = {}
  BY <1>2, FS_EmptySet
<1> QED
  BY <1>2, <1>3

\* The list still has every buffer when one of them has moved to its head.
LEMMA MoveIs ==
  ASSUME TypeOK, NEW i \in Buf
  PROVE  MoveToHead(i) \in Seq(Buf) /\ \A j \in Buf : \E k \in DOMAIN MoveToHead(i) : MoveToHead(i)[k] = j
<1> DEFINE at == CHOOSE k \in DOMAIN lru : lru[k] = i
<1>1. lru \in Seq(Buf) /\ \A j \in Buf : \E k \in DOMAIN lru : lru[k] = j
  BY DEF TypeOK
<1>2. DOMAIN lru = 1..Len(lru) /\ Len(lru) \in Nat /\ \A k \in 1..Len(lru) : lru[k] \in Buf
  BY <1>1
<1>3. at \in 1..Len(lru) /\ lru[at] = i
  BY <1>1, <1>2
<1> HIDE DEF at
<1>4. MoveToHead(i) = [k \in 1..Len(lru) |-> IF k = 1 THEN i ELSE IF k <= at THEN lru[k - 1] ELSE lru[k]]
  BY <1>2 DEF MoveToHead, at
<1>5. MoveToHead(i) \in [1..Len(lru) -> Buf]
  BY <1>2, <1>4
<1>6. MoveToHead(i) \in Seq(Buf) /\ DOMAIN MoveToHead(i) = 1..Len(lru)
  BY <1>2, <1>5
<1>7. ASSUME NEW j \in Buf  PROVE \E k \in 1..Len(lru) : MoveToHead(i)[k] = j
  <2>1. PICK k \in 1..Len(lru) : lru[k] = j
    BY <1>1, <1>2
  <2>2. CASE j = i
    BY <1>2, <1>3, <1>4, <2>2
  <2>3. CASE j # i /\ k < at
    <3>1. k + 1 \in 1..Len(lru) /\ k + 1 # 1 /\ k + 1 <= at /\ (k + 1) - 1 = k
      BY <1>2, <1>3, <2>3
    <3>2. MoveToHead(i)[k + 1] = lru[k]
      BY <1>4, <3>1
    <3> QED
      BY <2>1, <3>1, <3>2
  <2>4. CASE j # i /\ k > at
    BY <1>2, <1>3, <1>4, <2>1, <2>4
  <2> QED
    BY <1>2, <1>3, <2>1, <2>2, <2>3, <2>4
<1> QED
  BY <1>6, <1>7

\* bget() of a block that is not cached takes over a buffer that nobody uses.
LEMMA RecycleIs ==
  ASSUME IInv, NEW p \in Proc, NEW b \in Block, BgetRecycle(p, b)
  PROVE  \E i \in Buf : Recycles(p, b, i)
<1>1. \A j \in Buf : blockno[j] # b
  BY DEF BgetRecycle, Cached
<1>2. b \notin pinned
  BY <1>1 DEF IInv, Filled
<1>3. PICK k \in LeastRecent :
         /\ blockno' = [blockno EXCEPT ![lru[k]] = b]
         /\ valid' = [valid EXCEPT ![lru[k]] = 0]
         /\ refcnt' = [refcnt EXCEPT ![lru[k]] = 1]
         /\ buf' = [buf EXCEPT ![p] = lru[k]]
         /\ SL!Call(p, lru[k])
  BY DEF BgetRecycle
<1>4. lru[k] \in Buf /\ refcnt[lru[k]] = 0
  BY DEF LeastRecent, Unused, IInv, TypeOK
<1>5. Cardinality(Users(lru[k])) \in Nat /\ (Users(lru[k]) # {} => Cardinality(Users(lru[k])) > 0)
  BY <1>4, CountedIs
<1>6. Cardinality(Users(lru[k])) = 0 /\ blockno[lru[k]] \notin pinned
  BY <1>4, <1>5 DEF IInv, RefcntExact
<1>7. Users(lru[k]) = {}
  BY <1>5, <1>6
<1>8. pc[p] = "idle" /\ buf[p] = None
  BY DEF BgetRecycle, IInv, Places
<1> QED
  BY <1>1, <1>2, <1>3, <1>4, <1>6, <1>7, <1>8 DEF BgetRecycle, Recycles, SL!Call, Goto

\* acquiresleep() at the end of bget() takes the lock, sleeps or sleeps again.
LEMMA BgetLockIs ==
  ASSUME IInv, NEW p \in Proc, BgetLock(p)
  PROVE  Locks(p)
<1>1. pc[p] = "bget" /\ spc[p] = "try" /\ slk[p] = buf[p]
  BY DEF BgetLock, SL!AcquireSleep, IInv, Places
<1>2. pc \in [Proc -> {"idle", "bget", "bread", "use", "changed", "done", "brelse", "panic"}]
      /\ spc \in [Proc -> {"out", "try", "asleep", "in"}]
  BY DEF IInv, TypeOK, SL!TypeOK
<1>3. CASE locked[slk[p]] = 1 /\ spc' = [spc EXCEPT ![p] = "asleep"]
  <2>1. pc' = pc
    BY <1>1, <1>2, <1>3 DEF BgetLock, Goto
  <2> QED
    BY <1>1, <1>3, <2>1 DEF BgetLock, Locks, SL!AcquireSleep
<1>4. CASE locked[slk[p]] = 0 /\ spc' = [spc EXCEPT ![p] = "in"]
  <2>1. pc' = [pc EXCEPT ![p] = "bread"]
    BY <1>1, <1>2, <1>4 DEF BgetLock, Goto
  <2> QED
    BY <1>1, <1>4, <2>1 DEF BgetLock, Locks, SL!AcquireSleep
<1> QED
  BY <1>3, <1>4 DEF BgetLock, SL!AcquireSleep

\* releasesleep() at the start of brelse() gives the lock up.
LEMMA UnlockIs ==
  ASSUME IInv, NEW p \in Proc, BrelseUnlock(p)
  PROVE  Unlocks(p)
<1>1. pc[p] \in {"use", "done"} /\ spc[p] = "in" /\ slk[p] = buf[p] /\ buf[p] \in Buf
  BY DEF BrelseUnlock, IInv, Places
<1>2. SL!HoldingSleep(p, buf[p])
  BY <1>1 DEF IInv, LockInv, SL!Mutex, SL!HoldingSleep
<1>3. pc' = [pc EXCEPT ![p] = "brelse"]
  BY <1>2 DEF BrelseUnlock, Goto
<1> QED
  BY SMTT(30), <1>1, <1>3 DEF BrelseUnlock, Unlocks, SL!ReleaseSleep, IInv, TypeOK, SL!TypeOK

----------------------------------------------------------------------------
(* The invariant *)

\* The variables keep their types.
LEMMA TypeStep ==
  ASSUME IInv, [Next]_vars
  PROVE  TypeOK'
<1>0. SL!TypeOK'
  BY LockStep DEF LockInv, SL!TypeOK
<1>1. ASSUME UNCHANGED vars  PROVE TypeOK'
  BY <1>1, <1>0 DEF vars, bufVars, lockVars, IInv, TypeOK
<1>2. ASSUME NEW p \in Proc, NEW b \in Block, BgetHit(p, b)  PROVE TypeOK'
  <2>1. PICK i \in Buf : Hits(p, b, i)
    BY <1>2, HitIs
  <2> QED
    BY SMTT(30), <2>1, <1>0 DEF Hits, IInv, TypeOK
<1>3. ASSUME NEW p \in Proc, NEW b \in Block, BgetRecycle(p, b)  PROVE TypeOK'
  <2>1. PICK i \in Buf : Recycles(p, b, i)
    BY <1>3, RecycleIs
  <2> QED
    BY SMTT(30), <2>1, <1>0 DEF Recycles, IInv, TypeOK
<1>4. ASSUME NEW p \in Proc, NEW b \in Block, BgetPanic(p, b)  PROVE TypeOK'
  BY ZenonT(30), <1>4, <1>0 DEF BgetPanic, Goto, bufVars, lockVars, IInv, TypeOK
<1>5. ASSUME NEW p \in Proc, NEW v \in Val, Change(p, v)  PROVE TypeOK'
  BY <1>5, <1>0 DEF Change, Goto, lockVars, IInv, TypeOK
<1>6. ASSUME NEW p \in Proc, BgetLock(p)  PROVE TypeOK'
  <2>1. Locks(p)
    BY <1>6, BgetLockIs
  <2> QED
    BY <2>1, <1>0 DEF Locks, bufVars, IInv, TypeOK
<1>7. ASSUME NEW p \in Proc, Bread(p)  PROVE TypeOK'
  <2>1. want[p] \in Block /\ buf[p] \in Buf
    BY <1>7 DEF Bread, IInv, Places
  <2> QED
    BY <1>7, <1>0, <2>1 DEF Bread, Goto, IInv, TypeOK
<1>8. ASSUME NEW p \in Proc, Bwrite(p)  PROVE TypeOK'
  <2>1. want[p] \in Block /\ buf[p] \in Buf
    BY SMTT(30), <1>8 DEF Bwrite, IInv, Places
  <2> QED
    BY <1>8, <1>0, <2>1 DEF Bwrite, Goto, bufVars, IInv, TypeOK
<1>9. ASSUME NEW p \in Proc, Bpin(p)  PROVE TypeOK'
  <2>1. want[p] \in Block /\ buf[p] \in Buf
    BY <1>9 DEF Bpin, IInv, Places
  <2>2. refcnt \in [Buf -> Nat] /\ pinned \subseteq Block
    BY DEF IInv, TypeOK
  <2>3. refcnt' \in [Buf -> Nat] /\ pinned' \subseteq Block
    <3>1. CASE UNCHANGED <<refcnt, pinned>>
      BY <2>2, <3>1
    <3>2. CASE refcnt' = [refcnt EXCEPT ![buf[p]] = @ + 1] /\ pinned' = pinned \cup {want[p]}
      BY SMTT(30), <2>1, <2>2, <3>2
    <3> QED
      BY <1>9, <3>1, <3>2 DEF Bpin
  <2> QED
    BY SMTT(30), <1>9, <1>0, <2>3 DEF Bpin, Goto, IInv, TypeOK
<1>10. ASSUME NEW p \in Proc, Bunpin(p)  PROVE TypeOK'
  <2>1. want[p] \in Block /\ buf[p] \in Buf /\ blockno[buf[p]] = want[p] /\ want[p] \in pinned
    BY <1>10 DEF Bunpin, IInv, Places, RefcntExact
  <2>2. refcnt[buf[p]] > 0
    BY SMTT(30), <2>1, CountedIs DEF IInv, RefcntExact
  <2>3. refcnt' \in [Buf -> Nat] /\ pinned' \subseteq Block /\ disk' \in [Block -> Val]
    BY SMTT(30), <1>10, <2>1, <2>2 DEF Bunpin, IInv, TypeOK
  <2> QED
    BY SMTT(30), <1>10, <1>0, <2>3 DEF Bunpin, Goto, IInv, TypeOK
<1>11. ASSUME NEW p \in Proc, BrelseUnlock(p)  PROVE TypeOK'
  <2>1. Unlocks(p)
    BY <1>11, UnlockIs
  <2> QED
    BY ZenonT(30), <2>1, <1>0 DEF Unlocks, bufVars, IInv, TypeOK
<1>12. ASSUME NEW p \in Proc, Brelse(p)  PROVE TypeOK'
  <2>1. buf[p] \in Buf /\ p \in Users(buf[p])
    BY <1>12 DEF Brelse, IInv, Places, Users
  <2>2. refcnt[buf[p]] > 0
    BY SMTT(30), <2>1, CountedIs DEF IInv, RefcntExact
  <2>3. refcnt' \in [Buf -> Nat]
    BY SMTT(30), <1>12, <2>1, <2>2 DEF Brelse, IInv, TypeOK
  <2>4. lru' \in Seq(Buf) /\ \A i \in Buf : \E k \in DOMAIN lru' : lru'[k] = i
    BY <1>12, <2>1, MoveIs DEF Brelse, IInv, TypeOK
  <2> QED
    BY SMTT(30), <1>12, <1>0, <2>3, <2>4 DEF Brelse, Goto, IInv, TypeOK
<1>13. ASSUME NEW p \in Proc, Killed(p)  PROVE TypeOK'
  BY SMTT(30), <1>13, <1>0 DEF Killed, SL!Killed, bufVars, IInv, TypeOK
<1> QED
  BY SMTT(30), <1>1, <1>2, <1>3, <1>4, <1>5, <1>6, <1>7, <1>8, <1>9, <1>10, <1>11, <1>12, <1>13 DEF Next, Step

\* A process that uses a buffer has its sleeping lock.
LEMMA PlacesStep ==
  ASSUME IInv, [Next]_vars
  PROVE  Places'
<1>0. TypeOK /\ Places /\ spc \in [Proc -> {"out", "try", "asleep", "in"}] /\ slk \in [Proc -> Buf \cup {None}]
      /\ pc \in [Proc -> {"idle", "bget", "bread", "use", "changed", "done", "brelse", "panic"}]
      /\ want \in [Proc -> Block \cup {NoBlock}] /\ buf \in [Proc -> Buf \cup {None}]
  BY DEF IInv, TypeOK, SL!TypeOK
<1>1. ASSUME UNCHANGED vars  PROVE Places'
  BY <1>1, <1>0 DEF vars, bufVars, lockVars, Places
<1>2. ASSUME NEW p \in Proc, NEW b \in Block, BgetHit(p, b)  PROVE Places'
  <2>1. PICK i \in Buf : Hits(p, b, i)
    BY <1>2, HitIs
  <2> QED
    BY <2>1, <1>0 DEF Hits, Places
<1>3. ASSUME NEW p \in Proc, NEW b \in Block, BgetRecycle(p, b)  PROVE Places'
  <2>1. PICK i \in Buf : Recycles(p, b, i)
    BY <1>3, RecycleIs
  <2> QED
    BY <2>1, <1>0 DEF Recycles, Places
<1>4. ASSUME NEW p \in Proc, NEW b \in Block, BgetPanic(p, b)  PROVE Places'
  BY <1>4, <1>0 DEF BgetPanic, Goto, bufVars, lockVars, Places
<1>5. ASSUME NEW p \in Proc, NEW v \in Val, Change(p, v)  PROVE Places'
  BY <1>5, <1>0 DEF Change, Goto, lockVars, Places
<1>6. ASSUME NEW p \in Proc, BgetLock(p)  PROVE Places'
  <2>1. Locks(p)
    BY <1>6, BgetLockIs
  <2> QED
    BY <2>1, <1>0 DEF Locks, bufVars, Places
<1>7. ASSUME NEW p \in Proc, Bread(p)  PROVE Places'
  BY <1>7, <1>0 DEF Bread, Goto, lockVars, Places
<1>8. ASSUME NEW p \in Proc, Bwrite(p)  PROVE Places'
  BY <1>8, <1>0 DEF Bwrite, Goto, bufVars, lockVars, Places
<1>9. ASSUME NEW p \in Proc, Bpin(p)  PROVE Places'
  BY <1>9, <1>0 DEF Bpin, Goto, lockVars, Places
<1>10. ASSUME NEW p \in Proc, Bunpin(p)  PROVE Places'
  BY <1>10, <1>0 DEF Bunpin, Goto, lockVars, Places
<1>11. ASSUME NEW p \in Proc, BrelseUnlock(p)  PROVE Places'
  <2>1. Unlocks(p)
    BY <1>11, UnlockIs
  <2> QED
    BY <2>1, <1>0 DEF Unlocks, bufVars, Places
<1>12. ASSUME NEW p \in Proc, Brelse(p)  PROVE Places'
  BY <1>12, <1>0 DEF Brelse, Goto, lockVars, Places
<1>13. ASSUME NEW p \in Proc, Killed(p)  PROVE Places'
  BY SMTT(30), <1>13, <1>0 DEF Killed, SL!Killed, bufVars, Places
<1> QED
  BY <1>1, <1>2, <1>3, <1>4, <1>5, <1>6, <1>7, <1>8, <1>9, <1>10, <1>11, <1>12, <1>13 DEF Next, Step

\* bget() gives a block a buffer only when it has none.
LEMMA OneStep ==
  ASSUME IInv, [Next]_vars
  PROVE  OneBuffer'
<1>1. ASSUME UNCHANGED vars  PROVE OneBuffer'
  BY <1>1 DEF vars, bufVars, lockVars, IInv, TypeOK, OneBuffer
<1>2. ASSUME NEW p \in Proc, NEW b \in Block, BgetHit(p, b)  PROVE OneBuffer'
  <2>1. PICK i \in Buf : Hits(p, b, i)
    BY <1>2, HitIs
  <2> QED
    BY SMTT(30), <2>1 DEF Hits, IInv, TypeOK, OneBuffer
<1>3. ASSUME NEW p \in Proc, NEW b \in Block, BgetRecycle(p, b)  PROVE OneBuffer'
  <2>1. PICK i \in Buf : Recycles(p, b, i)
    BY <1>3, RecycleIs
  <2> QED
    BY SMTT(30), <2>1 DEF Recycles, IInv, TypeOK, OneBuffer
<1>4. ASSUME NEW p \in Proc, NEW b \in Block, BgetPanic(p, b)  PROVE OneBuffer'
  BY <1>4 DEF BgetPanic, Goto, bufVars, lockVars, IInv, TypeOK, OneBuffer
<1>5. ASSUME NEW p \in Proc, NEW v \in Val, Change(p, v)  PROVE OneBuffer'
  BY SMTT(30), <1>5 DEF Change, Goto, lockVars, IInv, TypeOK, OneBuffer
<1>6. ASSUME NEW p \in Proc, BgetLock(p)  PROVE OneBuffer'
  <2>1. Locks(p)
    BY <1>6, BgetLockIs
  <2> QED
    BY <2>1 DEF Locks, bufVars, IInv, TypeOK, OneBuffer
<1>7. ASSUME NEW p \in Proc, Bread(p)  PROVE OneBuffer'
  BY <1>7 DEF Bread, Goto, lockVars, IInv, TypeOK, OneBuffer
<1>8. ASSUME NEW p \in Proc, Bwrite(p)  PROVE OneBuffer'
  BY <1>8 DEF Bwrite, Goto, bufVars, lockVars, IInv, TypeOK, OneBuffer
<1>9. ASSUME NEW p \in Proc, Bpin(p)  PROVE OneBuffer'
  BY <1>9 DEF Bpin, Goto, lockVars, IInv, TypeOK, OneBuffer
<1>10. ASSUME NEW p \in Proc, Bunpin(p)  PROVE OneBuffer'
  BY SMTT(30), <1>10 DEF Bunpin, Goto, lockVars, IInv, TypeOK, OneBuffer
<1>11. ASSUME NEW p \in Proc, BrelseUnlock(p)  PROVE OneBuffer'
  <2>1. Unlocks(p)
    BY <1>11, UnlockIs
  <2> QED
    BY ZenonT(30), <2>1 DEF Unlocks, bufVars, IInv, TypeOK, OneBuffer
<1>12. ASSUME NEW p \in Proc, Brelse(p)  PROVE OneBuffer'
  BY <1>12 DEF Brelse, Goto, lockVars, IInv, TypeOK, OneBuffer
<1>13. ASSUME NEW p \in Proc, Killed(p)  PROVE OneBuffer'
  BY <1>13 DEF Killed, SL!Killed, bufVars, IInv, TypeOK, OneBuffer
<1> QED
  BY <1>1, <1>2, <1>3, <1>4, <1>5, <1>6, <1>7, <1>8, <1>9, <1>10, <1>11, <1>12, <1>13 DEF Next, Step

\* bget() makes p one user more of buffer i.
LEMMA UserAdded ==
  ASSUME NEW p \in Proc, NEW i \in Buf, buf \in [Proc -> Buf \cup {None}],
         buf[p] = None, buf' = [buf EXCEPT ![p] = i]
  PROVE  /\ Cardinality(Users(i))' = Cardinality(Users(i)) + 1
         /\ \A j \in Buf : j # i => Users(j)' = Users(j)
<1>1. Users(i)' = Users(i) \cup {p} /\ p \notin Users(i)
  BY DEF Users
<1>2. Cardinality(Users(i) \cup {p}) = Cardinality(Users(i)) + 1
  BY <1>1, CountedIs, FS_AddElement
<1>3. \A j \in Buf : j # i => Users(j)' = Users(j)
  BY DEF Users
<1> QED
  BY <1>1, <1>2, <1>3

\* brelse() takes p from the users of its buffer.
LEMMA UserGone ==
  ASSUME NEW p \in Proc, NEW i \in Buf, buf \in [Proc -> Buf \cup {None}],
         buf[p] = i, buf' = [buf EXCEPT ![p] = None]
  PROVE  /\ Cardinality(Users(i))' = Cardinality(Users(i)) - 1
         /\ \A j \in Buf : j # i => Users(j)' = Users(j)
<1>1. Users(i)' = Users(i) \ {p} /\ p \in Users(i)
  BY DEF Users
<1>2. Cardinality(Users(i) \ {p}) = Cardinality(Users(i)) - 1
  BY <1>1, CountedIs, FS_RemoveElement
<1>3. \A j \in Buf : j # i => Users(j)' = Users(j)
  BY DEF Users
<1> QED
  BY <1>1, <1>2, <1>3

\* refcnt goes up and down with the users of a buffer and the pin of the log.
LEMMA CountStep ==
  ASSUME IInv, [Next]_vars
  PROVE  RefcntExact'
<1> DEFINE Pin(j) == IF blockno[j] \in pinned THEN 1 ELSE 0
<1>a. /\ refcnt \in [Buf -> Nat] /\ blockno \in [Buf -> Block \cup {NoBlock}] /\ pinned \subseteq Block
      /\ buf \in [Proc -> Buf \cup {None}] /\ want \in [Proc -> Block \cup {NoBlock}]
      /\ \A j \in Buf : /\ refcnt[j] = Cardinality(Users(j)) + Pin(j)
                        /\ Cardinality(Users(j)) \in Nat /\ Pin(j) \in {0, 1}
      /\ \A p \in Proc : buf[p] # None => blockno[buf[p]] = want[p]
  BY CountedIs DEF IInv, TypeOK, RefcntExact
<1> HIDE DEF Pin
<1>b. UNCHANGED <<refcnt, blockno, pinned, buf, want>> => RefcntExact'
  BY DEF IInv, RefcntExact, Users
<1>1. ASSUME UNCHANGED vars  PROVE RefcntExact'
  <2>1. UNCHANGED <<refcnt, blockno, pinned, buf, want>>
    BY SMTT(30), <1>1 DEF vars, bufVars
  <2> QED
    BY <2>1, <1>b
<1>2. ASSUME NEW p \in Proc, NEW b \in Block, BgetHit(p, b)  PROVE RefcntExact'
  <2>1. PICK i \in Buf : Hits(p, b, i)
    BY <1>2, HitIs
  <2>2. Cardinality(Users(i))' = Cardinality(Users(i)) + 1 /\ \A j \in Buf : j # i => Users(j)' = Users(j)
    BY <1>a, <2>1, UserAdded DEF Hits
  <2>3. \A j \in Buf : refcnt'[j] = Cardinality(Users(j))' + Pin(j)'
    <3>1. refcnt'[i] = refcnt[i] + 1 /\ \A j \in Buf : j # i => refcnt'[j] = refcnt[j]
      BY <1>a, <2>1 DEF Hits
    <3>2. \A j \in Buf : Pin(j)' = Pin(j)
      BY <2>1 DEF Hits, Pin
    <3> QED
      BY <1>a, <2>2, <3>1, <3>2
  <2>4. \A q \in Proc : buf'[q] # None => blockno'[buf'[q]] = want'[q]
    BY <1>a, <2>1 DEF Hits
  <2> QED
    BY <2>3, <2>4 DEF RefcntExact, Pin
<1>3. ASSUME NEW p \in Proc, NEW b \in Block, BgetRecycle(p, b)  PROVE RefcntExact'
  <2>1. PICK i \in Buf : Recycles(p, b, i)
    BY <1>3, RecycleIs
  <2>2. Cardinality(Users(i))' = Cardinality(Users(i)) + 1 /\ \A j \in Buf : j # i => Users(j)' = Users(j)
    BY <1>a, <2>1, UserAdded DEF Recycles
  <2>3. \A j \in Buf : refcnt'[j] = Cardinality(Users(j))' + Pin(j)'
    <3>1. refcnt'[i] = 1 /\ \A j \in Buf : j # i => refcnt'[j] = refcnt[j]
      BY <1>a, <2>1 DEF Recycles
    <3>2. Pin(i)' = 0 /\ \A j \in Buf : j # i => Pin(j)' = Pin(j)
      BY <1>a, <2>1 DEF Recycles, Pin
    <3>3. Cardinality(Users(i)) = 0
      BY <2>1, FS_EmptySet DEF Recycles
    <3> QED
      BY <1>a, <2>2, <3>1, <3>2, <3>3
  <2>4. \A q \in Proc : buf[q] # i
    BY <2>1 DEF Recycles, Users
  <2>5. \A q \in Proc : buf'[q] # None => blockno'[buf'[q]] = want'[q]
    BY <1>a, <2>1, <2>4 DEF Recycles
  <2> QED
    BY <2>3, <2>5 DEF RefcntExact, Pin
<1>4. ASSUME NEW p \in Proc, NEW b \in Block, BgetPanic(p, b)  PROVE RefcntExact'
  <2>1. UNCHANGED <<refcnt, blockno, pinned, buf, want>>
    BY <1>4 DEF BgetPanic, bufVars
  <2> QED
    BY <2>1, <1>b
<1>5. ASSUME NEW p \in Proc, NEW v \in Val, Change(p, v)  PROVE RefcntExact'
  <2>1. UNCHANGED <<refcnt, blockno, pinned, buf, want>>
    BY <1>5 DEF Change
  <2> QED
    BY SMTT(30), <2>1, <1>b
<1>6. ASSUME NEW p \in Proc, BgetLock(p)  PROVE RefcntExact'
  <2>1. Locks(p)
    BY <1>6, BgetLockIs
  <2>2. UNCHANGED <<refcnt, blockno, pinned, buf, want>>
    BY <1>6, <2>1 DEF Locks, bufVars
  <2> QED
    BY <2>2, <1>b
<1>7. ASSUME NEW p \in Proc, Bread(p)  PROVE RefcntExact'
  <2>1. UNCHANGED <<refcnt, blockno, pinned, buf, want>>
    BY <1>7 DEF Bread
  <2> QED
    BY <2>1, <1>b
<1>8. ASSUME NEW p \in Proc, Bwrite(p)  PROVE RefcntExact'
  <2>1. UNCHANGED <<refcnt, blockno, pinned, buf, want>>
    BY <1>8 DEF Bwrite, bufVars
  <2> QED
    BY <2>1, <1>b
<1>9. ASSUME NEW p \in Proc, Bpin(p)  PROVE RefcntExact'
  <2>1. PICK i \in Buf : i = buf[p] /\ want[p] \in Block /\ blockno[i] = want[p]
    BY <1>9, <1>a DEF Bpin, IInv, Places
  <2>2. UNCHANGED <<blockno, buf, want>>
    BY <1>9 DEF Bpin
  <2>3. CASE UNCHANGED <<refcnt, pinned>>
    BY <2>2, <2>3, <1>b
  <2>4. CASE want[p] \notin pinned /\ refcnt' = [refcnt EXCEPT ![i] = @ + 1] /\ pinned' = pinned \cup {want[p]}
    <3>1. refcnt'[i] = refcnt[i] + 1 /\ \A j \in Buf : j # i => refcnt'[j] = refcnt[j]
      BY <1>a, <2>1, <2>4
    <3>2. \A j \in Buf : j # i => blockno[j] # want[p]
      BY <1>a, <2>1 DEF IInv, OneBuffer
    <3>3. Pin(i)' = 1 /\ Pin(i) = 0 /\ \A j \in Buf : j # i => Pin(j)' = Pin(j)
      BY <2>1, <2>2, <2>4, <3>2 DEF Pin
    <3>4. \A j \in Buf : Users(j)' = Users(j)
      BY <2>2 DEF Users
    <3>5. \A j \in Buf : refcnt'[j] = Cardinality(Users(j))' + Pin(j)'
      BY <1>a, <2>1, <3>1, <3>3, <3>4
    <3> QED
      BY <1>a, <2>2, <3>5 DEF RefcntExact, Pin
  <2> QED
    BY SMTT(30), <1>9, <2>1, <2>3, <2>4 DEF Bpin
<1>10. ASSUME NEW p \in Proc, Bunpin(p)  PROVE RefcntExact'
  <2>0. want[p] \in pinned /\ pc[p] = "use"
    BY <1>10 DEF Bunpin
  <2>1. PICK i \in Buf : i = buf[p] /\ want[p] \in Block /\ blockno[i] = want[p] /\ want[p] \in pinned
    BY SMTT(30), <1>a, <2>0 DEF IInv, Places
  <2>2. UNCHANGED <<blockno, buf, want>> /\ pinned' = pinned \ {want[p]}
    BY <1>10 DEF Bunpin
  <2>3. refcnt'[i] = refcnt[i] - 1 /\ \A j \in Buf : j # i => refcnt'[j] = refcnt[j]
    BY <1>10, <1>a, <2>1 DEF Bunpin
  <2>4. \A j \in Buf : j # i => blockno[j] # want[p]
    BY <1>a, <2>1 DEF IInv, OneBuffer
  <2>5. Pin(i)' = 0 /\ Pin(i) = 1 /\ \A j \in Buf : j # i => Pin(j)' = Pin(j)
    BY <2>1, <2>2, <2>4 DEF Pin
  <2>6. \A j \in Buf : Users(j)' = Users(j)
    BY <2>2 DEF Users
  <2>7. \A j \in Buf : refcnt'[j] = Cardinality(Users(j))' + Pin(j)'
    BY SMTT(30), <1>a, <2>1, <2>3, <2>5, <2>6
  <2> QED
    BY SMTT(30), <1>a, <2>2, <2>7 DEF RefcntExact, Pin
<1>11. ASSUME NEW p \in Proc, BrelseUnlock(p)  PROVE RefcntExact'
  <2>1. Unlocks(p)
    BY <1>11, UnlockIs
  <2>2. UNCHANGED <<refcnt, blockno, pinned, buf, want>>
    BY SMTT(30), <1>11, <2>1 DEF Unlocks, bufVars
  <2> QED
    BY <2>2, <1>b
<1>12. ASSUME NEW p \in Proc, Brelse(p)  PROVE RefcntExact'
  <2>1. PICK i \in Buf : i = buf[p]
    BY SMTT(30), <1>12 DEF Brelse, IInv, Places
  <2>2. /\ buf' = [buf EXCEPT ![p] = None] /\ want' = [want EXCEPT ![p] = NoBlock]
        /\ refcnt' = [refcnt EXCEPT ![i] = @ - 1]
        /\ UNCHANGED <<blockno, pinned>>
    BY <1>12, <2>1 DEF Brelse
  <2>3. Cardinality(Users(i))' = Cardinality(Users(i)) - 1 /\ \A j \in Buf : j # i => Users(j)' = Users(j)
    BY <1>a, <2>1, <2>2, UserGone
  <2>4. \A j \in Buf : refcnt'[j] = Cardinality(Users(j))' + Pin(j)'
    <3>1. refcnt'[i] = refcnt[i] - 1 /\ \A j \in Buf : j # i => refcnt'[j] = refcnt[j]
      BY <1>a, <2>2
    <3>2. \A j \in Buf : Pin(j)' = Pin(j)
      BY <2>2 DEF Pin
    <3> QED
      BY <1>a, <2>3, <3>1, <3>2
  <2>5. \A q \in Proc : buf'[q] # None => blockno'[buf'[q]] = want'[q]
    BY <1>a, <2>2
  <2> QED
    BY SMTT(30), <2>4, <2>5 DEF RefcntExact, Pin
<1>13. ASSUME NEW p \in Proc, Killed(p)  PROVE RefcntExact'
  <2>1. UNCHANGED <<refcnt, blockno, pinned, buf, want>>
    BY SMTT(30), <1>13 DEF Killed, bufVars
  <2> QED
    BY <2>1, <1>b
<1> QED
  BY <1>1, <1>2, <1>3, <1>4, <1>5, <1>6, <1>7, <1>8, <1>9, <1>10, <1>11, <1>12, <1>13 DEF Next, Step

\* A buffer in use, or pinned, holds its block.
LEMMA FilledStep ==
  ASSUME IInv, [Next]_vars
  PROVE  Filled'
<1>0. /\ blockno \in [Buf -> Block \cup {NoBlock}] /\ valid \in [Buf -> {0, 1}] /\ pinned \subseteq Block
      /\ buf \in [Proc -> Buf \cup {None}] /\ want \in [Proc -> Block \cup {NoBlock}]
      /\ pc \in [Proc -> {"idle", "bget", "bread", "use", "changed", "done", "brelse", "panic"}]
      /\ \A p \in Proc : pc[p] \notin {"idle", "panic"} =>
           buf[p] \in Buf /\ want[p] \in Block /\ blockno[buf[p]] = want[p]
      /\ Filled
  BY DEF IInv, TypeOK, Places, RefcntExact
<1>1. ASSUME UNCHANGED vars  PROVE Filled'
  BY <1>1, <1>0 DEF vars, bufVars, lockVars, Filled
<1>2. ASSUME NEW p \in Proc, NEW b \in Block, BgetHit(p, b)  PROVE Filled'
  <2>1. PICK i \in Buf : Hits(p, b, i)
    BY <1>2, HitIs
  <2> QED
    BY SMTT(30), <2>1, <1>0 DEF Hits, Filled
<1>3. ASSUME NEW p \in Proc, NEW b \in Block, BgetRecycle(p, b)  PROVE Filled'
  <2>1. PICK i \in Buf : Recycles(p, b, i)
    BY <1>3, RecycleIs
  <2>2. \A q \in Proc : buf[q] # i
    BY <2>1 DEF Recycles, Users
  <2>3. valid'[i] = 0 /\ \A j \in Buf : j # i => valid'[j] = valid[j] /\ blockno'[j] = blockno[j]
    BY SMTT(30), <1>0, <2>1 DEF Recycles
  <2>4. \A j \in Buf : valid'[j] = 1 => blockno'[j] \in Block
    BY SMTT(30), <1>0, <2>3 DEF Filled
  <2>5. \A q \in Proc : pc'[q] \in {"use", "changed", "done"} => valid'[buf'[q]] = 1
    BY <1>0, <2>1, <2>2, <2>3 DEF Recycles, Filled
  <2>6. \A c \in pinned' : \E j \in Buf : blockno'[j] = c /\ valid'[j] = 1
    BY <1>0, <2>1, <2>3 DEF Recycles, Filled
  <2> QED
    BY SMTT(30), <2>4, <2>5, <2>6 DEF Filled
<1>4. ASSUME NEW p \in Proc, NEW b \in Block, BgetPanic(p, b)  PROVE Filled'
  BY <1>4, <1>0 DEF BgetPanic, Goto, bufVars, lockVars, Filled
<1>5. ASSUME NEW p \in Proc, NEW v \in Val, Change(p, v)  PROVE Filled'
  BY <1>5, <1>0 DEF Change, Goto, lockVars, Filled
<1>6. ASSUME NEW p \in Proc, BgetLock(p)  PROVE Filled'
  <2>1. Locks(p)
    BY <1>6, BgetLockIs
  <2> QED
    BY SMTT(30), <2>1, <1>0 DEF Locks, bufVars, Filled
<1>7. ASSUME NEW p \in Proc, Bread(p)  PROVE Filled'
  BY SMTT(30), <1>7, <1>0 DEF Bread, Goto, lockVars, Filled
<1>8. ASSUME NEW p \in Proc, Bwrite(p)  PROVE Filled'
  BY SMTT(30), <1>8, <1>0 DEF Bwrite, Goto, bufVars, lockVars, Filled
<1>9. ASSUME NEW p \in Proc, Bpin(p)  PROVE Filled'
  BY SMTT(30), <1>9, <1>0 DEF Bpin, Goto, lockVars, Filled
<1>10. ASSUME NEW p \in Proc, Bunpin(p)  PROVE Filled'
  BY SMTT(30), <1>10, <1>0 DEF Bunpin, Goto, lockVars, Filled
<1>11. ASSUME NEW p \in Proc, BrelseUnlock(p)  PROVE Filled'
  <2>1. Unlocks(p)
    BY <1>11, UnlockIs
  <2> QED
    BY SMTT(30), <2>1, <1>0 DEF Unlocks, bufVars, Filled
<1>12. ASSUME NEW p \in Proc, Brelse(p)  PROVE Filled'
  BY SMTT(30), <1>12, <1>0 DEF Brelse, Goto, lockVars, Filled
<1>13. ASSUME NEW p \in Proc, Killed(p)  PROVE Filled'
  BY <1>13, <1>0 DEF Killed, SL!Killed, bufVars, Filled
<1> QED
  BY <1>1, <1>2, <1>3, <1>4, <1>5, <1>6, <1>7, <1>8, <1>9, <1>10, <1>11, <1>12, <1>13 DEF Next, Step

\* The invariant is inductive.
LEMMA InvStep ==
  ASSUME IInv, [Next]_vars
  PROVE  IInv'
  BY TypeStep, LockStep, PlacesStep, OneStep, CountStep, FilledStep DEF IInv

\* The invariant holds in every reachable state.
LEMMA InvHolds == Spec => []IInv
<1>1. IInv /\ [Next]_vars => IInv'
  BY InvStep
<1> QED
  BY <1>1, InitInv, PTL DEF Spec

----------------------------------------------------------------------------
(* Theorems *)

\* A block has at most one buffer, however many processes miss it at once.
THEOREM OneBufferHolds == Spec => []OneBuffer
<1>1. IInv => OneBuffer
  BY DEF IInv
<1> QED
  BY <1>1, InvHolds, PTL

\* refcnt counts the users of a buffer and the log's pin, so bget() recycles
\* no buffer that a process uses or waits for.
THEOREM RefcntExactHolds == Spec => []RefcntExact
<1>1. IInv => RefcntExact
  BY DEF IInv
<1> QED
  BY <1>1, InvHolds, PTL

\* Who sleeps for a buffer has a process before it whose brelse() is to come.
THEOREM NoLostReleaseHolds == Spec => []NoLostRelease
<1>1. IInv => NoLostRelease
  BY DEF IInv, LockInv, SL!SleeperHasHolder, NoLostRelease
<1> QED
  BY <1>1, InvHolds, PTL
=============================================================================
