-------------------------------- MODULE Log --------------------------------
(* The write-ahead redo log of kernel/log.c: begin_op, log_write, end_op,   *)
(* the commit run by the last end_op, and recover_from_log at boot, with a  *)
(* power failure possible between any two disk writes.                      *)
(*                                                                          *)
(* The buffer cache is abstracted to what the log needs of it: the cached   *)
(* contents and the reference count of every home block.  A block write is  *)
(* atomic and virtio_disk_rw() returns after it, so one disk write is one   *)
(* step.  log.lock makes the steps that hold it atomic.                     *)
EXTENDS Naturals, Sequences, FiniteSets

CONSTANTS
  Proc,         \* processes that make FS system calls
  InitProc,     \* the first process, which runs fsinit() from forkret()
  Block,        \* home blocks
  Val,          \* block contents
  Zero,         \* contents mkfs leaves
  NotCached,    \* no buffer holds the block
  None,         \* a process holds no buffer
  MAXOPBLOCKS, LOGSIZE,  \* param.h
  nlog,         \* sb.nlog, the blocks of the on-disk log with its header
  OpBlocks,     \* distinct blocks an FS operation logs at most
  RefMod,       \* buf.refcnt is a uint: counts modulo RefMod (2^32)
  Pressure,     \* the working set exceeds NBUF, so bget() recycles buffers
  Crashes       \* power may fail

ASSUME ConstAssumption ==
  /\ InitProc \in Proc
  /\ Zero \in Val
  /\ NotCached \notin Val
  /\ None \notin Block
  /\ MAXOPBLOCKS \in Nat \ {0} /\ LOGSIZE \in Nat /\ nlog \in Nat
  /\ OpBlocks \in 1..MAXOPBLOCKS
  /\ RefMod \in Nat \ {0, 1, 2}
  /\ Pressure \in BOOLEAN /\ Crashes \in BOOLEAN

VARIABLES
  disk,         \* home blocks on disk
  logblk,       \* data blocks of the on-disk log
  header,       \* the header block on disk: block[0..n-1]
  lh,           \* log.lh, the header in memory
  outstanding,  \* log.outstanding
  committing,   \* log.committing
  cache,        \* contents of the buffer of a block, or NotCached
  ref,          \* refcnt of the buffer of a block
  pc,           \* what a process is doing
  tail,         \* the loop variable of write_log() and install_trans()
  held,         \* the buffer a process has modified and not yet logged
  wset          \* blocks its current operation has logged

durableVars == <<disk, logblk, header>>
logVars == <<lh, outstanding, committing>>
bufVars == <<cache, ref>>
procVars == <<pc, tail, held, wset>>
vars == <<durableVars, logVars, bufVars, procVars>>

\* pc values: "off" (before recovery is over), "idle", "begin" (in begin_op,
\* runnable), "sleep" (in begin_op, asleep on &log), "op", "log_write" (past
\* log_write's checks), the steps of commit() and recover_from_log(), and
\* "panic": the process spins in panic() and holds what it held.
PC == {"off", "idle", "begin", "sleep", "op", "log_write",
       "write_log", "write_head", "install", "erase", "wake",
       "read_head", "recover", "clear", "panic"}

InLog(b) == \E i \in 1..Len(lh) : lh[i] = b

BootPC == [p \in Proc |-> IF p = InitProc THEN "read_head" ELSE "off"]

Init ==
  /\ disk = [b \in Block |-> Zero]
  /\ logblk = [i \in 1..LOGSIZE |-> Zero]
  /\ header = <<>>
  /\ lh = <<>> /\ outstanding = 0 /\ committing = 0
  /\ cache = [b \in Block |-> NotCached]
  /\ ref = [b \in Block |-> 0]
  /\ pc = BootPC
  /\ tail = [p \in Proc |-> 1]
  /\ held = [p \in Proc |-> None]
  /\ wset = [p \in Proc |-> {}]

\* A power failure: the disk stays, memory is fresh, InitProc enters fsinit.
Crash ==
  /\ Crashes
  /\ lh' = <<>> /\ outstanding' = 0 /\ committing' = 0
  /\ cache' = [b \in Block |-> NotCached]
  /\ ref' = [b \in Block |-> 0]
  /\ pc' = BootPC
  /\ tail' = [p \in Proc |-> 1]
  /\ held' = [p \in Proc |-> None]
  /\ wset' = [p \in Proc |-> {}]
  /\ UNCHANGED durableVars

\* bread(): the buffer's contents, from the disk when the block is not cached.
Bread(b) == IF cache[b] = NotCached THEN disk[b] ELSE cache[b]

\* b->refcnt++ and b->refcnt-- of a uint
Inc(r) == IF r = RefMod - 1 THEN 0 ELSE r + 1
Dec(r) == IF r = 0 THEN RefMod - 1 ELSE r - 1

\* A read outside of a transaction: bread() then brelse().
ReadBlock(p, b) ==
  /\ pc[p] = "idle"
  /\ \A q \in Proc : held[q] # b
  /\ cache' = [cache EXCEPT ![b] = Bread(b)]
  /\ UNCHANGED <<durableVars, logVars, ref, procVars>>

\* bget() takes the buffer of b for a block outside of the model.
Recycle(b) ==
  /\ Pressure
  /\ cache[b] # NotCached
  /\ ref[b] = 0
  /\ \A q \in Proc : held[q] # b
  /\ cache' = [cache EXCEPT ![b] = NotCached]
  /\ UNCHANGED <<durableVars, logVars, ref, procVars>>

----------------------------------------------------------------------------
(* begin_op *)

Syscall(p) ==
  /\ pc[p] = "idle"
  /\ pc' = [pc EXCEPT ![p] = "begin"]
  /\ UNCHANGED <<durableVars, logVars, bufVars, tail, held, wset>>

\* Mutants of MustWait: begin_op forgets the admitted operations, or a commit.
MustWaitFree == committing = 1 \/ Len(lh) + MAXOPBLOCKS > LOGSIZE
MustWaitCommit == Len(lh) + (outstanding + 1) * MAXOPBLOCKS > LOGSIZE

MustWait == committing = 1 \/ Len(lh) + (outstanding + 1) * MAXOPBLOCKS > LOGSIZE

BeginSleep(p) ==
  /\ pc[p] = "begin"
  /\ MustWait
  /\ pc' = [pc EXCEPT ![p] = "sleep"]
  /\ UNCHANGED <<durableVars, logVars, bufVars, tail, held, wset>>

BeginOp(p) ==
  /\ pc[p] = "begin"
  /\ ~MustWait
  /\ outstanding' = outstanding + 1
  /\ pc' = [pc EXCEPT ![p] = "op"]
  /\ UNCHANGED <<durableVars, lh, committing, bufVars, tail, held, wset>>

\* wakeup(&log) by p, which then returns from end_op.
Wakeup(p) ==
  [q \in Proc |-> IF q = p THEN "idle" ELSE IF pc[q] = "sleep" THEN "begin" ELSE pc[q]]

----------------------------------------------------------------------------
(* log_write *)

TooBig == Len(lh) >= LOGSIZE \/ Len(lh) >= nlog - 1

\* bread(b), modify it, call log_write, which tests the log's size before it
\* takes log.lock.
LogWriteCheck(p, b, v) ==
  /\ pc[p] = "op"
  /\ \A q \in Proc : held[q] # b
  /\ Cardinality(wset[p] \cup {b}) <= OpBlocks
  /\ cache' = [cache EXCEPT ![b] = v]
  /\ ref' = [ref EXCEPT ![b] = Inc(@)]
  /\ held' = [held EXCEPT ![p] = b]
  /\ pc' = [pc EXCEPT ![p] = IF TooBig \/ outstanding < 1 THEN "panic" ELSE "log_write"]
  /\ UNCHANGED <<durableVars, logVars, tail, wset>>

\* Mutant of LogWriteAppend: no bpin().
LogWriteUnpinned(p) ==
  /\ pc[p] = "log_write"
  /\ ref' = [ref EXCEPT ![held[p]] = Dec(@)]
  /\ lh' = IF InLog(held[p]) THEN lh ELSE Append(lh, held[p])
  /\ wset' = [wset EXCEPT ![p] = @ \cup {held[p]}]
  /\ held' = [held EXCEPT ![p] = None]
  /\ pc' = [pc EXCEPT ![p] = "op"]
  /\ UNCHANGED <<durableVars, outstanding, committing, cache, tail>>

\* The part under log.lock, then brelse(b).  bpin() keeps the count brelse()
\* gives back.
LogWriteAppend(p) ==
  /\ pc[p] = "log_write"
  /\ \/ /\ InLog(held[p])
        /\ ref' = [ref EXCEPT ![held[p]] = Dec(@)]
        /\ UNCHANGED lh
     \/ /\ ~InLog(held[p])
        /\ lh' = Append(lh, held[p])
        /\ UNCHANGED ref
  /\ wset' = [wset EXCEPT ![p] = @ \cup {held[p]}]
  /\ held' = [held EXCEPT ![p] = None]
  /\ pc' = [pc EXCEPT ![p] = "op"]
  /\ UNCHANGED <<durableVars, outstanding, committing, cache, tail>>

----------------------------------------------------------------------------
(* end_op and commit *)

EndOp(p) ==
  /\ pc[p] = "op"
  /\ outstanding' = outstanding - 1
  /\ wset' = [wset EXCEPT ![p] = {}]
  /\ \/ /\ outstanding = 1
        /\ committing' = 1
        /\ pc' = [pc EXCEPT ![p] = IF committing = 1 THEN "panic"
                                   ELSE IF Len(lh) > 0 THEN "write_log" ELSE "wake"]
     \/ /\ outstanding # 1
        /\ pc' = IF committing = 1 THEN [pc EXCEPT ![p] = "panic"] ELSE Wakeup(p)
        /\ UNCHANGED committing
  /\ UNCHANGED <<durableVars, lh, bufVars, tail, held>>

\* Mutant of WriteLog: the loop stops one block early.
WriteLogShort(p) ==
  /\ pc[p] = "write_log"
  /\ logblk' = [logblk EXCEPT ![tail[p]] = Bread(lh[tail[p]])]
  /\ cache' = [cache EXCEPT ![lh[tail[p]]] = Bread(lh[tail[p]])]
  /\ tail' = [tail EXCEPT ![p] = @ + 1]
  /\ pc' = [pc EXCEPT ![p] = IF tail[p] + 1 < Len(lh) THEN "write_log" ELSE "write_head"]
  /\ UNCHANGED <<disk, header, logVars, ref, held, wset>>

\* One iteration of the loop: bread() the log block and the cached block, copy,
\* bwrite() the log block, brelse() both.
WriteLog(p) ==
  /\ pc[p] = "write_log"
  /\ logblk' = [logblk EXCEPT ![tail[p]] = Bread(lh[tail[p]])]
  /\ cache' = [cache EXCEPT ![lh[tail[p]]] = Bread(lh[tail[p]])]
  /\ tail' = [tail EXCEPT ![p] = @ + 1]
  /\ pc' = [pc EXCEPT ![p] = IF tail[p] < Len(lh) THEN "write_log" ELSE "write_head"]
  /\ UNCHANGED <<disk, header, logVars, ref, held, wset>>

\* Mutant of WriteHead: the header is filled in and never written.
WriteHeadLost(p) ==
  /\ pc[p] = "write_head"
  /\ tail' = [tail EXCEPT ![p] = 1]
  /\ pc' = [pc EXCEPT ![p] = "install"]
  /\ UNCHANGED <<durableVars, logVars, bufVars, held, wset>>

\* "the real commit"
WriteHead(p) ==
  /\ pc[p] = "write_head"
  /\ header' = lh
  /\ tail' = [tail EXCEPT ![p] = 1]
  /\ pc' = [pc EXCEPT ![p] = "install"]
  /\ UNCHANGED <<disk, logblk, logVars, bufVars, held, wset>>

\* One iteration of install_trans, for commit ("install") and for recovery
\* ("recover"): both bunpin() the destination buffer.
InstallBlock(p) ==
  /\ pc[p] \in {"install", "recover"}
  /\ tail[p] <= Len(lh)
  /\ disk' = [disk EXCEPT ![lh[tail[p]]] = logblk[tail[p]]]
  /\ cache' = [cache EXCEPT ![lh[tail[p]]] = logblk[tail[p]]]
  /\ ref' = [ref EXCEPT ![lh[tail[p]]] = Dec(@)]
  /\ tail' = [tail EXCEPT ![p] = @ + 1]
  /\ UNCHANGED <<logblk, header, logVars, pc, held, wset>>

InstallDone(p) ==
  /\ pc[p] \in {"install", "recover"}
  /\ ~(tail[p] <= Len(lh))
  /\ pc' = [pc EXCEPT ![p] = IF @ = "install" THEN "erase" ELSE "clear"]
  /\ tail' = [tail EXCEPT ![p] = 1]
  /\ UNCHANGED <<durableVars, logVars, bufVars, held, wset>>

\* log.lh.n = 0; write_head()
EraseHead(p) ==
  /\ pc[p] = "erase"
  /\ lh' = <<>>
  /\ header' = <<>>
  /\ pc' = [pc EXCEPT ![p] = "wake"]
  /\ UNCHANGED <<disk, logblk, outstanding, committing, bufVars, tail, held, wset>>

\* Mutant of CommitDone: no wakeup(&log).
CommitDoneSilent(p) ==
  /\ pc[p] = "wake"
  /\ committing' = 0
  /\ pc' = [pc EXCEPT ![p] = "idle"]
  /\ UNCHANGED <<durableVars, lh, outstanding, bufVars, tail, held, wset>>

CommitDone(p) ==
  /\ pc[p] = "wake"
  /\ committing' = 0
  /\ pc' = Wakeup(p)
  /\ UNCHANGED <<durableVars, lh, outstanding, bufVars, tail, held, wset>>

----------------------------------------------------------------------------
(* initlog, recover_from_log *)

ReadHead(p) ==
  /\ pc[p] = "read_head"
  /\ lh' = header
  /\ pc' = [pc EXCEPT ![p] = "recover"]
  /\ UNCHANGED <<durableVars, outstanding, committing, bufVars, tail, held, wset>>

ClearHead(p) ==
  /\ pc[p] = "clear"
  /\ lh' = <<>>
  /\ header' = <<>>
  /\ pc' = [q \in Proc |-> "idle"]
  /\ UNCHANGED <<disk, logblk, outstanding, committing, bufVars, tail, held, wset>>

----------------------------------------------------------------------------

InstallTrans(p) == InstallBlock(p) \/ InstallDone(p)

Commit(p) == WriteLog(p) \/ WriteHead(p) \/ InstallTrans(p) \/ EraseHead(p) \/ CommitDone(p)

Next ==
  \/ \E p \in Proc :
       \/ Syscall(p) \/ BeginSleep(p) \/ BeginOp(p)
       \/ LogWriteAppend(p) \/ EndOp(p)
       \/ Commit(p) \/ ReadHead(p) \/ ClearHead(p)
  \/ \E p \in Proc, b \in Block : ReadBlock(p, b)
  \/ \E p \in Proc, b \in Block, v \in Val : LogWriteCheck(p, b, v)
  \/ \E b \in Block : Recycle(b)
  \/ Crash

Spec == Init /\ [][Next]_vars

\* A runnable process is eventually scheduled, and an FS system call logs
\* finitely many blocks before it calls end_op.
Fairness ==
  \A p \in Proc :
    /\ WF_vars(BeginSleep(p) \/ BeginOp(p))
    /\ WF_vars(LogWriteAppend(p))
    /\ SF_vars(EndOp(p))
    /\ WF_vars(Commit(p) \/ ReadHead(p) \/ ClearHead(p))

FairSpec == Spec /\ Fairness

----------------------------------------------------------------------------
(* Properties *)

TypeOK ==
  /\ disk \in [Block -> Val]
  /\ logblk \in [1..LOGSIZE -> Val]
  /\ header \in Seq(Block)
  /\ lh \in Seq(Block)
  /\ outstanding \in Nat
  /\ committing \in {0, 1}
  /\ cache \in [Block -> Val \cup {NotCached}]
  /\ ref \in [Block -> 0..(RefMod - 1)]
  /\ pc \in [Proc -> PC]
  /\ tail \in [Proc -> Nat \ {0}]
  /\ held \in [Proc -> Block \cup {None}]
  /\ wset \in [Proc -> SUBSET Block]

\* A transaction never outgrows log.lh.block[] and the kernel never panics in
\* the log: begin_op's reservation is what makes log_write's unlocked test of
\* log.lh.n safe against two concurrent log_writes.
NoPanic == Len(lh) <= LOGSIZE /\ \A p \in Proc : pc[p] # "panic"

\* A block of the running transaction stays in the cache until it is
\* installed: log_write's bpin() holds its buffer against bget().
LoggedCached ==
  \A p \in Proc : pc[p] \in {"op", "log_write", "write_log", "write_head"} =>
    \A b \in Block : InLog(b) => cache[b] # NotCached

\* Write-ahead: a home block changes only while the header on disk names it,
\* with the contents the log holds for it.
WriteAhead ==
  [][\A b \in Block : disk'[b] # disk[b] =>
       \E i \in 1..Len(header) : header[i] = b /\ disk'[b] = logblk[i]]_vars

\* The home blocks d with the log blocks lb that header h names copied over them.
Replay(h, lb, d) ==
  [b \in Block |-> IF \E i \in 1..Len(h) : h[i] = b
                     THEN lb[CHOOSE i \in 1..Len(h) : h[i] = b]
                     ELSE d[b]]

\* What a reboot now would make of the disk.
Recovered == Replay(header, logblk, disk)

\* The processes between begin_op and end_op.
Active == {p \in Proc : pc[p] \in {"op", "log_write", "panic"}}

InRecovery == pc[InitProc] \in {"read_head", "recover", "clear"}

\* What a system call would read of each block.
View == IF InRecovery THEN Recovered ELSE [b \in Block |-> Bread(b)]

Tx == INSTANCE TxDisk WITH durable <- Recovered, mem <- View, active <- Active

\* The log implements the transactional disk: a crash, at any disk write and
\* during recovery too, keeps exactly the operations of the last commit.
CrashAtomic == Tx!Spec

\* No lost wakeup: a process asleep in begin_op is woken, unless power keeps
\* failing.
Woken ==
  \/ []<><<Crash>>_vars
  \/ \A p \in Proc : (pc[p] = "sleep") ~> (pc[p] # "sleep")
=============================================================================
