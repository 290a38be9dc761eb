---------------------------- MODULE LogContents ----------------------------
(* Proofs about the data of Log: where the current contents of a block are,  *)
(* what a commit has copied, the reference counts of the buffers, and the    *)
(* inductive invariant.                                                      *)
EXTENDS LogProofs

Held(b) == \E p \in Proc : held[p] = b

\* b's only up-to-date copy is its buffer: it is logged and not yet installed.
Dirty(b) ==
  /\ ~InRecovery
  /\ \E i \in 1..Len(lh) :
       /\ lh[i] = b
       /\ ~\E p \in Proc : pc[p] = "erase" \/ (pc[p] = "install" /\ i < tail[p])

\* Where the current contents of a block are.
Contents ==
  \A b \in Block :
    /\ cache[b] = NotCached \/ cache[b] = disk[b] \/ Dirty(b) \/ Held(b)
    /\ Dirty(b) \/ Held(b) => cache[b] # NotCached

\* What commit and recovery have copied so far.
Copied ==
  \A p \in Proc, i \in 1..Len(lh) :
       /\ \/ pc[p] = "write_log" /\ i < tail[p]
          \/ pc[p] = "write_head"
          \/ pc[p] = "install" /\ i >= tail[p]
          => logblk[i] = cache[lh[i]]
       /\ \/ pc[p] \in {"install", "recover"} /\ i < tail[p]
          \/ pc[p] \in {"erase", "clear"}
          => disk[lh[i]] = logblk[i]

\* bpin/bunpin keep the count of a buffer at zero only when it may be reused.
Pins ==
  Pressure =>
    /\ InRecovery => header = <<>>
    /\ \A b \in Block : ref[b] = (IF Dirty(b) THEN 1 ELSE 0) + (IF Held(b) THEN 1 ELSE 0)

\* The inductive invariant.
IInv == Control /\ Contents /\ Copied /\ Pins

----------------------------------------------------------------------------

USE ConstAssumption DEF ConstAssumption

\* Which blocks have their only current copy in the cache: log_write adds one,
\* install_trans removes one, a power failure removes all.
LEMMA DirtyStep ==
  ASSUME TypeOK, Phases, Holding, Headers, NEW c \in Block
  PROVE  /\ UNCHANGED vars => (Dirty(c)' <=> Dirty(c))
         /\ Crash => ~Dirty(c)'
         /\ \A p \in Proc :
              /\ \/ Syscall(p) \/ BeginSleep(p) \/ BeginOp(p) \/ EndOp(p) \/ WriteLog(p)
                 \/ WriteHead(p) \/ CommitDone(p)
                 => (Dirty(c)' <=> Dirty(c))
              /\ LogWriteAppend(p) => (Dirty(c)' <=> (Dirty(c) \/ c = held[p]))
              /\ InstallBlock(p) => (Dirty(c)' <=> (Dirty(c) /\ c # lh[tail[p]]))
              /\ InstallDone(p) \/ EraseHead(p) \/ ReadHead(p) \/ ClearHead(p)
                 => ~Dirty(c) /\ ~Dirty(c)'
              /\ \A b \in Block : ReadBlock(p, b) => (Dirty(c)' <=> Dirty(c))
              /\ \A b \in Block, v \in Val : LogWriteCheck(p, b, v) => (Dirty(c)' <=> Dirty(c))
         /\ \A b \in Block : Recycle(b) => (Dirty(c)' <=> Dirty(c))
<1> USE DEF Dirty, InRecovery, logVars, procVars
<1>0. /\ pc \in [Proc -> PC] /\ tail \in [Proc -> Nat \ {0}] /\ lh \in Seq(Block)
  BY DEF TypeOK
<1>1. UNCHANGED vars => (Dirty(c)' <=> Dirty(c))
  BY DEF vars
<1>2. Crash => ~Dirty(c)'
  BY DEF Crash, BootPC
<1>3. ASSUME NEW b \in Block, Recycle(b)
      PROVE  Dirty(c)' <=> Dirty(c)
  BY <1>3 DEF Recycle
<1>4. ASSUME NEW p \in Proc, NEW b \in Block, ReadBlock(p, b)
      PROVE  Dirty(c)' <=> Dirty(c)
  BY <1>4 DEF ReadBlock
<1>5. ASSUME NEW p \in Proc, NEW b \in Block, NEW v \in Val, LogWriteCheck(p, b, v)
      PROVE  Dirty(c)' <=> Dirty(c)
  BY ZenonT(30), <1>0, <1>5 DEF LogWriteCheck
<1>6. ASSUME NEW p \in Proc, Syscall(p)
      PROVE  Dirty(c)' <=> Dirty(c)
  BY <1>0, <1>6 DEF Syscall
<1>7. ASSUME NEW p \in Proc, BeginSleep(p)
      PROVE  Dirty(c)' <=> Dirty(c)
  BY <1>0, <1>7 DEF BeginSleep
<1>8. ASSUME NEW p \in Proc, BeginOp(p)
      PROVE  Dirty(c)' <=> Dirty(c)
  BY SMTT(30), <1>0, <1>8 DEF BeginOp
<1>9. ASSUME NEW p \in Proc, EndOp(p)
      PROVE  Dirty(c)' <=> Dirty(c)
  BY ZenonT(30), <1>0, <1>9 DEF EndOp, Wakeup
<1>10. ASSUME NEW p \in Proc, WriteLog(p)
      PROVE  Dirty(c)' <=> Dirty(c)
  BY SMTT(30), <1>0, <1>10 DEF WriteLog
<1>11. ASSUME NEW p \in Proc, WriteHead(p)
      PROVE  Dirty(c)' <=> Dirty(c)
  BY <1>0, <1>11 DEF WriteHead
<1>12. ASSUME NEW p \in Proc, CommitDone(p)
      PROVE  Dirty(c)' <=> Dirty(c)
  BY <1>0, <1>12 DEF CommitDone, Wakeup
<1>13. ASSUME NEW p \in Proc, LogWriteAppend(p)
      PROVE  Dirty(c)' <=> (Dirty(c) \/ c = held[p])
  <2>1. /\ \A q \in Proc : pc[q] \notin CommitPC \cup RecoveryPC
        /\ \A q \in Proc : pc'[q] \notin CommitPC \cup RecoveryPC
    BY <1>0, <1>13 DEF LogWriteAppend, Phases, Active, CommitPC, RecoveryPC
  <2>2. held[p] \in Block
    BY <1>13 DEF LogWriteAppend, Holding, TypeOK
  <2>3. /\ Dirty(c) <=> InLog(c)
        /\ Dirty(c)' <=> InLog(c)'
    BY <2>1 DEF CommitPC, RecoveryPC, InLog
  <2>4. CASE InLog(held[p]) /\ UNCHANGED lh
    BY <2>3, <2>4 DEF InLog
  <2>5. CASE lh' = Append(lh, held[p])
    <3> HIDE DEF Dirty
    <3>1. /\ Len(lh') = Len(lh) + 1 /\ Len(lh) \in Nat
          /\ \A i \in 1..Len(lh) : lh'[i] = lh[i]
          /\ lh'[Len(lh) + 1] = held[p]
      BY <1>0, <2>2, <2>5, AppendFacts
    <3>2. InLog(c)' <=> (InLog(c) \/ c = held[p])
      BY <3>1 DEF InLog
    <3> QED BY <2>3, <3>2
  <2> QED
    BY <1>13, <2>4, <2>5 DEF LogWriteAppend
<1>14. ASSUME NEW p \in Proc, InstallBlock(p)
      PROVE  Dirty(c)' <=> (Dirty(c) /\ c # lh[tail[p]])
  <2>1. CASE pc[p] = "recover"
    BY <1>14, <2>1 DEF InstallBlock, Phases, RecoveryPC
  <2>2. CASE pc[p] = "install"
    <3>1. \A q \in Proc \ {p} : pc[q] \notin {"install", "erase"}
      BY <2>2 DEF Phases, CommitPC
    <3>2. ~InRecovery
      BY <2>2 DEF Phases, RecoveryPC
    <3>3. Dirty(c) <=> \E i \in 1..Len(lh) : lh[i] = c /\ ~(i < tail[p])
      BY <2>2, <3>1, <3>2
    <3>4. Dirty(c)' <=> \E i \in 1..Len(lh) : lh[i] = c /\ ~(i < tail[p] + 1)
      BY <1>0, <1>14, <2>2, <3>1, <3>2 DEF InstallBlock
    <3>5. tail[p] \in 1..Len(lh) /\ Injective(lh)
      BY <1>0, <1>14 DEF InstallBlock, Headers
    <3> HIDE DEF Dirty
    <3> QED
      BY <1>0, <3>3, <3>4, <3>5 DEF Injective
  <2> QED
    BY <1>14, <2>1, <2>2 DEF InstallBlock
<1>15. ASSUME NEW p \in Proc, InstallDone(p)
      PROVE  ~Dirty(c) /\ ~Dirty(c)'
  BY <1>0, <1>15 DEF InstallDone, Phases, RecoveryPC
<1>16. ASSUME NEW p \in Proc, EraseHead(p)
      PROVE  ~Dirty(c) /\ ~Dirty(c)'
  BY <1>0, <1>16 DEF EraseHead
<1>17. ASSUME NEW p \in Proc, ReadHead(p) \/ ClearHead(p)
      PROVE  ~Dirty(c) /\ ~Dirty(c)'
  BY <1>0, <1>17 DEF ReadHead, ClearHead, Phases, RecoveryPC
<1> QED
  BY <1>1, <1>2, <1>3, <1>4, <1>5, <1>6, <1>7, <1>8, <1>9, <1>10, <1>11, <1>12,
     <1>13, <1>14, <1>15, <1>16, <1>17

\* Which buffers are being modified: log_write's caller takes one, log_write
\* gives it back.
LEMMA HeldStep ==
  ASSUME TypeOK, Holding, NEW c \in Block
  PROVE  /\ Crash => ~Held(c)'
         /\ UNCHANGED held => (Held(c)' <=> Held(c))
         /\ \A p \in Proc :
              /\ LogWriteAppend(p) => Held(held[p]) /\ (Held(c)' <=> (Held(c) /\ c # held[p]))
              /\ \A b \in Block, v \in Val : LogWriteCheck(p, b, v) =>
                   ~Held(b) /\ (Held(c)' <=> (Held(c) \/ c = b))
<1>0. held \in [Proc -> Block \cup {None}]
  BY DEF TypeOK
<1>1. Crash => ~Held(c)'
  BY DEF Crash, Held
<1>2. UNCHANGED held => (Held(c)' <=> Held(c))
  BY DEF Held
<1>3. ASSUME NEW p \in Proc, LogWriteAppend(p)
      PROVE  Held(held[p]) /\ (Held(c)' <=> (Held(c) /\ c # held[p]))
  <2>1. held' = [held EXCEPT ![p] = None] /\ held[p] # None
    BY <1>3 DEF LogWriteAppend, Holding
  <2> QED BY <1>0, <2>1 DEF Held, Holding
<1>4. ASSUME NEW p \in Proc, NEW b \in Block, NEW v \in Val, LogWriteCheck(p, b, v)
      PROVE  ~Held(b) /\ (Held(c)' <=> (Held(c) \/ c = b))
  <2>1. held' = [held EXCEPT ![p] = b] /\ held[p] = None /\ \A q \in Proc : held[q] # b
    BY <1>4 DEF LogWriteCheck, Holding
  <2> QED BY <1>0, <2>1 DEF Held
<1> QED
  BY <1>1, <1>2, <1>3, <1>4

\* A block's current contents are in its buffer, or on disk when it has none.
LEMMA ContentsStep ==
  ASSUME TypeOK, Phases, Holding, Headers, Contents, Copied, Pins, Reservation,
         ~(Pressure /\ Crashes), [Next]_vars
  PROVE  Contents'
<1> SUFFICES ASSUME NEW c \in Block
    PROVE  /\ (cache[c] = NotCached \/ cache[c] = disk[c] \/ Dirty(c) \/ Held(c))'
           /\ (Dirty(c) \/ Held(c) => cache[c] # NotCached)'
  BY DEF Contents
<1> DEFINE G == /\ (cache[c] = NotCached \/ cache[c] = disk[c] \/ Dirty(c) \/ Held(c))'
                /\ (Dirty(c) \/ Held(c) => cache[c] # NotCached)'
<1>0. /\ disk \in [Block -> Val] /\ cache \in [Block -> Val \cup {NotCached}]
      /\ lh \in Seq(Block) /\ tail \in [Proc -> Nat \ {0}]
      /\ logblk \in [1..LOGSIZE -> Val] /\ Len(lh) <= LOGSIZE
  BY FS_CardinalityType DEF TypeOK, Reservation
<1>00. /\ cache[c] = NotCached \/ cache[c] = disk[c] \/ Dirty(c) \/ Held(c)
       /\ Dirty(c) \/ Held(c) => cache[c] # NotCached
  BY DEF Contents
<1>a. ASSUME Dirty(c)' <=> Dirty(c), UNCHANGED <<held, cache, disk>>
      PROVE  G
  BY ZenonT(30), <1>a, <1>00, HeldStep
<1>1. ASSUME UNCHANGED vars  PROVE G
  BY ZenonT(30), <1>1, <1>a, DirtyStep DEF vars, procVars, bufVars, durableVars
<1>2. ASSUME Crash  PROVE G
  BY ZenonT(30), <1>2, DirtyStep, HeldStep DEF Crash
<1>3. ASSUME NEW p \in Proc, \/ Syscall(p) \/ BeginSleep(p) \/ BeginOp(p) \/ EndOp(p)
                             \/ WriteHead(p) \/ CommitDone(p)
      PROVE  G
  <2>1. UNCHANGED <<held, cache, disk>>
    BY <1>3 DEF Syscall, BeginSleep, BeginOp, EndOp, WriteHead, CommitDone, bufVars, durableVars
  <2> QED
    BY ZenonT(30), <1>3, <2>1, <1>a, DirtyStep
<1>4. ASSUME NEW p \in Proc, LogWriteAppend(p)  PROVE G
  <2>1. UNCHANGED <<cache, disk>>
    BY <1>4 DEF LogWriteAppend, durableVars
  <2>2. c = held[p] => Held(c)
    BY DEF Held
  <2> QED
    BY ZenonT(30), <1>4, <1>00, <2>1, <2>2, DirtyStep, HeldStep
<1>5. ASSUME NEW p \in Proc, WriteLog(p)  PROVE G
  <2>1. /\ UNCHANGED <<held, disk>>
        /\ cache' = [cache EXCEPT ![lh[tail[p]]] = Bread(lh[tail[p]])]
    BY <1>5 DEF WriteLog
  <2>2. tail[p] \in 1..Len(lh) /\ lh[tail[p]] \in Block
    BY <1>0, <1>5 DEF WriteLog, Headers
  <2>3. CASE c # lh[tail[p]]
    BY ZenonT(30), <1>5, <1>0, <1>00, <2>1, <2>3, DirtyStep, HeldStep
  <2>4. CASE c = lh[tail[p]]
    <3>1. cache'[c] = Bread(c)
      BY <1>0, <2>1, <2>4
    <3>2. Dirty(c)' <=> Dirty(c)
      BY ZenonT(30), <1>5, DirtyStep
    <3>3. Held(c)' <=> Held(c)
      BY <2>1, HeldStep
    <3> QED
      BY <1>0, <1>00, <2>1, <3>1, <3>2, <3>3 DEF Bread
  <2> QED
    BY <2>3, <2>4
<1>6. ASSUME NEW p \in Proc, InstallBlock(p)  PROVE G
  <2>1. /\ UNCHANGED held
        /\ cache' = [cache EXCEPT ![lh[tail[p]]] = logblk[tail[p]]]
        /\ disk' = [disk EXCEPT ![lh[tail[p]]] = logblk[tail[p]]]
    BY <1>6 DEF InstallBlock
  <2>2. tail[p] \in 1..Len(lh) /\ lh[tail[p]] \in Block /\ logblk[tail[p]] \in Val
    BY <1>0, <1>6 DEF InstallBlock
  <2>3. CASE c # lh[tail[p]]
    BY ZenonT(30), <1>6, <1>0, <1>00, <2>1, <2>3, DirtyStep, HeldStep
  <2>4. CASE c = lh[tail[p]]
    <3>1. cache'[c] = logblk[tail[p]] /\ disk'[c] = logblk[tail[p]]
      BY ZenonT(30), <1>0, <2>1, <2>4
    <3> QED BY <2>2, <3>1
  <2> QED
    BY <2>3, <2>4
<1>7. ASSUME NEW p \in Proc, InstallDone(p) \/ EraseHead(p) \/ ReadHead(p) \/ ClearHead(p)
      PROVE  G
  <2>1. UNCHANGED <<held, cache, disk>>
    BY <1>7 DEF InstallDone, EraseHead, ReadHead, ClearHead, bufVars, durableVars
  <2> QED
    BY <1>7, <2>1, <1>a, DirtyStep
<1>8. ASSUME NEW p \in Proc, NEW b \in Block, ReadBlock(p, b)  PROVE G
  <2>1. UNCHANGED <<held, disk>> /\ cache' = [cache EXCEPT ![b] = Bread(b)]
    BY <1>8 DEF ReadBlock, durableVars, procVars
  <2>2. Dirty(c)' <=> Dirty(c)
    BY ZenonT(30), <1>8, DirtyStep
  <2>3. Held(c)' <=> Held(c)
    BY <2>1, HeldStep
  <2> QED
    BY ZenonT(30), <1>0, <1>00, <2>1, <2>2, <2>3 DEF Bread
<1>9. ASSUME NEW p \in Proc, NEW b \in Block, NEW v \in Val, LogWriteCheck(p, b, v)  PROVE G
  <2>1. UNCHANGED disk /\ cache' = [cache EXCEPT ![b] = v]
    BY <1>9 DEF LogWriteCheck, durableVars
  <2>2. Dirty(c)' <=> Dirty(c)
    BY ZenonT(30), <1>9, DirtyStep
  <2>3. Held(c)' <=> (Held(c) \/ c = b)
    BY <1>9, HeldStep
  <2> QED
    BY <1>0, <1>00, <2>1, <2>2, <2>3
<1>10. ASSUME NEW b \in Block, Recycle(b)  PROVE G
  <2>1. UNCHANGED <<held, disk>> /\ cache' = [cache EXCEPT ![b] = NotCached]
    BY ZenonT(30), <1>10 DEF Recycle, durableVars, procVars
  <2>2. Dirty(c)' <=> Dirty(c)
    BY ZenonT(30), <1>10, DirtyStep
  <2>3. Held(c)' <=> Held(c)
    BY <2>1, HeldStep
  <2>4. c = b => ~Dirty(c) /\ ~Held(c)
    BY <1>10 DEF Recycle, Pins, Held
  <2> QED
    BY <1>0, <1>00, <2>1, <2>2, <2>3, <2>4
<1> HIDE DEF G
<1>11. G
  BY SMTT(30), <1>1, <1>2, <1>3, <1>4, <1>5, <1>6, <1>7, <1>8, <1>9, <1>10 DEF Next, Commit, InstallTrans
<1> QED
  BY <1>11 DEF G

----------------------------------------------------------------------------
(* Copies and pins *)

\* A committer's uninstalled blocks are dirty.
LEMMA LoggedDirty ==
  ASSUME TypeOK, Phases, NEW p \in Proc, NEW i \in 1..Len(lh),
         \/ pc[p] \in {"write_log", "write_head"}
         \/ pc[p] = "install" /\ i >= tail[p]
  PROVE  lh[i] \in Block /\ Dirty(lh[i])
<1>1. lh[i] \in Block /\ tail[p] \in Nat /\ i \in Nat
  BY DEF TypeOK
<1>2. ~InRecovery /\ \A q \in Proc \ {p} : pc[q] \notin CommitPC
  BY DEF Phases, CommitPC, RecoveryPC, InRecovery
<1> QED
  BY <1>1, <1>2 DEF Dirty, CommitPC

\* The committer's copies in the log, and then at home, are the cached contents.
LEMMA CopiedStep ==
  ASSUME TypeOK, Phases, Holding, Headers, Contents, Copied, Pins, Reservation,
         TypeOK', Phases', [Next]_vars
  PROVE  Copied'
<1> USE DEF durableVars, logVars, bufVars, procVars
<1>0. /\ disk \in [Block -> Val] /\ cache \in [Block -> Val \cup {NotCached}]
      /\ lh \in Seq(Block) /\ header \in Seq(Block) /\ tail \in [Proc -> Nat \ {0}]
      /\ pc \in [Proc -> PC]
      /\ logblk \in [1..LOGSIZE -> Val] /\ Len(lh) <= LOGSIZE
  BY FS_CardinalityType DEF TypeOK, Reservation
<1>a. ASSUME UNCHANGED <<disk, cache, lh, logblk, tail>>,
             \A q \in Proc : \/ pc'[q] = pc[q]
                             \/ pc'[q] \notin {"write_log", "write_head", "install",
                                               "erase", "recover", "clear"}
                             \/ pc'[q] = "write_log" /\ tail[q] = 1
      PROVE  Copied'
  <2> SUFFICES ASSUME NEW q \in Proc, NEW i \in 1..Len(lh)
               PROVE  /\ \/ pc'[q] = "write_log" /\ i < tail[q]
                         \/ pc'[q] = "write_head"
                         \/ pc'[q] = "install" /\ i >= tail[q]
                         => logblk[i] = cache[lh[i]]
                      /\ \/ pc'[q] \in {"install", "recover"} /\ i < tail[q]
                         \/ pc'[q] \in {"erase", "clear"}
                         => disk[lh[i]] = logblk[i]
    BY <1>a DEF Copied
  <2>1. CASE pc'[q] = pc[q]
    BY <2>1 DEF Copied
  <2>2. CASE pc'[q] # pc[q]
    BY <1>a, <2>2
  <2> QED
    BY <2>1, <2>2
<1>1. CASE UNCHANGED vars
  BY <1>1 DEF Copied, vars
<1>2. CASE Crash
  BY <1>2, <1>0 DEF Crash, BootPC, Copied
<1>3. ASSUME NEW p \in Proc, Syscall(p) \/ BeginSleep(p) \/ BeginOp(p)  PROVE Copied'
  <2>1. UNCHANGED <<disk, cache, lh, logblk, tail>>
    BY <1>3 DEF Syscall, BeginSleep, BeginOp
  <2>2. \A q \in Proc : pc'[q] = pc[q] \/ pc'[q] \in {"begin", "sleep", "op"}
    BY <1>0, <1>3 DEF Syscall, BeginSleep, BeginOp
  <2> QED
    BY <1>a, <2>1, <2>2
<1>4. ASSUME NEW p \in Proc, EndOp(p) \/ CommitDone(p)  PROVE Copied'
  <2>1. UNCHANGED <<disk, cache, lh, logblk, tail>>
    BY <1>4 DEF EndOp, CommitDone
  <2>2. \A q \in Proc : \/ pc'[q] = pc[q] \/ pc'[q] \in {"begin", "idle", "wake", "panic"}
                        \/ pc'[q] = "write_log" /\ tail[q] = 1
    BY <1>0, <1>4 DEF EndOp, CommitDone, Wakeup, Headers
  <2> QED
    BY <1>a, <2>1, <2>2
<1>5. ASSUME NEW p \in Proc, LogWriteAppend(p)  PROVE Copied'
  <2>1. \A q \in Proc : pc[q] \notin CommitPC \cup RecoveryPC
    BY <1>0, <1>5 DEF LogWriteAppend, Phases, Active, CommitPC, RecoveryPC, InRecovery
  <2>2. \A q \in Proc : pc'[q] \notin CommitPC \cup RecoveryPC
    BY <1>0, <1>5, <2>1 DEF LogWriteAppend, CommitPC, RecoveryPC
  <2> QED
    BY <2>2 DEF Copied, CommitPC, RecoveryPC
<1>6. ASSUME NEW p \in Proc, NEW b \in Block, NEW v \in Val, LogWriteCheck(p, b, v)
      PROVE  Copied'
  <2>1. \A q \in Proc : pc[q] \notin CommitPC \cup RecoveryPC
    BY <1>0, <1>6 DEF LogWriteCheck, Phases, Active, CommitPC, RecoveryPC, InRecovery
  <2>2. \A q \in Proc : pc'[q] \notin CommitPC \cup RecoveryPC
    BY <1>0, <1>6, <2>1 DEF LogWriteCheck, CommitPC, RecoveryPC
  <2> QED
    BY <2>2 DEF Copied, CommitPC, RecoveryPC
<1>7. ASSUME NEW p \in Proc, WriteLog(p)  PROVE Copied'
  <2>1. \A q \in Proc \ {p} : pc[q] \notin CommitPC \cup RecoveryPC /\ pc'[q] = pc[q]
    BY <1>0, <1>7 DEF WriteLog, Phases, CommitPC, RecoveryPC, InRecovery
  <2>2. /\ pc[p] = "write_log" /\ tail[p] \in 1..Len(lh) /\ UNCHANGED lh
        /\ logblk' = [logblk EXCEPT ![tail[p]] = Bread(lh[tail[p]])]
        /\ cache' = [cache EXCEPT ![lh[tail[p]]] = Bread(lh[tail[p]])]
        /\ tail'[p] = tail[p] + 1
        /\ pc'[p] = IF tail[p] < Len(lh) THEN "write_log" ELSE "write_head"
    BY <1>0, <1>7 DEF WriteLog, Headers
  <2>3. cache[lh[tail[p]]] # NotCached /\ lh[tail[p]] \in Block
    BY <2>2, LoggedDirty DEF Contents
  <2>4. UNCHANGED cache /\ logblk' = [logblk EXCEPT ![tail[p]] = cache[lh[tail[p]]]]
    BY <1>0, <2>2, <2>3 DEF Bread
  <2>5. \A i \in 1..Len(lh) : i < tail[p] => logblk[i] = cache[lh[i]]
    BY <2>2 DEF Copied
  <2>6. \A i \in 1..Len(lh) : i < tail[p] + 1 => logblk'[i] = cache[lh[i]]
    <3> SUFFICES ASSUME NEW i \in 1..Len(lh), i < tail[p] + 1
                 PROVE  logblk'[i] = cache[lh[i]]
      OBVIOUS
    <3>1. i \in 1..LOGSIZE /\ tail[p] \in Nat /\ (i < tail[p] \/ i = tail[p])
      BY <1>0, <2>2
    <3> QED
      BY <1>0, <2>4, <2>5, <3>1
  <2>7. \A i \in 1..Len(lh) : (pc'[p] = "write_log" => (i < tail'[p] => logblk'[i] = cache'[lh'[i]]))
    BY <2>2, <2>4, <2>6
  <2>8. \A i \in 1..Len(lh) : (pc'[p] = "write_head" => logblk'[i] = cache'[lh'[i]])
    <3>1. pc'[p] = "write_head" => tail[p] = Len(lh)
      BY <1>0, <2>2
    <3> QED
      BY <1>0, <2>4, <2>2, <2>6, <3>1
  <2>9. pc'[p] \in {"write_log", "write_head"} /\ UNCHANGED lh
    BY <2>2
  <2> QED
    BY SMTT(30), <2>1, <2>7, <2>8, <2>9 DEF Copied, CommitPC, RecoveryPC
<1>8. ASSUME NEW p \in Proc, WriteHead(p)  PROVE Copied'
  <2>1. \A q \in Proc \ {p} : pc[q] \notin CommitPC \cup RecoveryPC /\ pc'[q] = pc[q]
    BY <1>0, <1>8 DEF WriteHead, Phases, CommitPC, RecoveryPC, InRecovery
  <2> QED
    BY <1>0, <1>8, <2>1 DEF WriteHead, Copied, CommitPC, RecoveryPC
<1>9. ASSUME NEW p \in Proc, InstallBlock(p)  PROVE Copied'
  <2>1. \A q \in Proc \ {p} : pc[q] \notin CommitPC \cup RecoveryPC /\ pc'[q] = pc[q]
    BY <1>0, <1>9 DEF InstallBlock, Phases, CommitPC, RecoveryPC, InRecovery
  <2>2. /\ pc[p] \in {"install", "recover"} /\ tail[p] \in 1..Len(lh)
        /\ UNCHANGED <<lh, logblk, pc>>
        /\ cache' = [cache EXCEPT ![lh[tail[p]]] = logblk[tail[p]]]
        /\ disk' = [disk EXCEPT ![lh[tail[p]]] = logblk[tail[p]]]
        /\ tail'[p] = tail[p] + 1
        /\ Injective(lh)
    BY <1>0, <1>9 DEF InstallBlock, Headers
  <2>3. \A i \in 1..Len(lh) :
          /\ lh[i] \in Block
          /\ disk'[lh[i]] = IF i = tail[p] THEN logblk[i] ELSE disk[lh[i]]
          /\ i # tail[p] => cache'[lh[i]] = cache[lh[i]]
    BY <1>0, <2>2 DEF Injective
  <2>4. \A i \in 1..Len(lh) : pc'[p] = "install" /\ i >= tail'[p] => logblk'[i] = cache'[lh'[i]]
    <3> SUFFICES ASSUME NEW i \in 1..Len(lh), pc[p] = "install", i >= tail[p] + 1
                 PROVE  logblk[i] = cache'[lh[i]]
      BY <2>2
    <3>1. i >= tail[p] /\ i # tail[p]
      BY <1>0
    <3> QED
      BY <2>3, <3>1 DEF Copied
  <2>5. \A i \in 1..Len(lh) : i < tail'[p] => disk'[lh'[i]] = logblk'[i]
    <3> SUFFICES ASSUME NEW i \in 1..Len(lh), i < tail[p] + 1
                 PROVE  disk'[lh[i]] = logblk[i]
      BY <2>2
    <3>1. i = tail[p] \/ i < tail[p]
      BY <1>0
    <3> QED
      BY <2>2, <2>3, <3>1 DEF Copied
  <2> QED
    BY ZenonT(30), <2>1, <2>2, <2>4, <2>5 DEF Copied, CommitPC, RecoveryPC
<1>10. ASSUME NEW p \in Proc, InstallDone(p)  PROVE Copied'
  <2>1. \A q \in Proc \ {p} : pc[q] \notin CommitPC \cup RecoveryPC /\ pc'[q] = pc[q]
    BY <1>0, <1>10 DEF InstallDone, Phases, CommitPC, RecoveryPC, InRecovery
  <2>2. \A i \in 1..Len(lh) : disk[lh[i]] = logblk[i]
    BY <1>0, <1>10 DEF InstallDone, Copied
  <2> QED
    BY <1>0, <1>10, <2>1, <2>2 DEF InstallDone, Copied, CommitPC, RecoveryPC
<1>11. ASSUME NEW p \in Proc, EraseHead(p) \/ ClearHead(p)  PROVE Copied'
  <2>1. lh' = <<>>
    BY <1>11 DEF EraseHead, ClearHead
  <2> QED
    BY <2>1 DEF Copied
<1>12. ASSUME NEW p \in Proc, ReadHead(p)  PROVE Copied'
  <2>1. \A q \in Proc \ {p} : pc'[q] = "off"
    BY <1>0, <1>12 DEF ReadHead, Phases, RecoveryPC, InRecovery
  <2>2. tail'[p] = 1 /\ pc'[p] = "recover"
    BY SMTT(30), <1>0, <1>12 DEF ReadHead, Headers
  <2> QED
    BY <2>1, <2>2 DEF Copied
<1>13. ASSUME NEW b \in Block, UNCHANGED <<disk, lh, logblk, tail, pc>>,
              cache[b] = NotCached \/ (~Dirty(b) /\ ~Held(b)),
              NEW w, cache' = [cache EXCEPT ![b] = w]
       PROVE  Copied'
  <2>1. ~Dirty(b)
    BY <1>13 DEF Contents
  <2>2. ASSUME NEW p \in Proc, NEW i \in 1..Len(lh),
               \/ pc[p] \in {"write_log", "write_head"}
               \/ pc[p] = "install" /\ i >= tail[p]
        PROVE  cache'[lh[i]] = cache[lh[i]]
    BY <1>0, <1>13, <2>1, <2>2, LoggedDirty
  <2>3. disk' = disk /\ lh' = lh /\ logblk' = logblk /\ tail' = tail /\ pc' = pc
    BY <1>13
  <2> SUFFICES ASSUME NEW q \in Proc, NEW i \in 1..Len(lh')
               PROVE  /\ (\/ pc'[q] = "write_log" /\ i < tail'[q]
                          \/ pc'[q] = "write_head"
                          \/ pc'[q] = "install" /\ i >= tail'[q])
                         => logblk'[i] = cache'[lh'[i]]
                      /\ (\/ pc'[q] \in {"install", "recover"} /\ i < tail'[q]
                          \/ pc'[q] \in {"erase", "clear"})
                         => disk'[lh'[i]] = logblk'[i]
    BY Zenon DEF Copied
  <2>4. i \in 1..Len(lh)
    BY <2>3
  <2> QED
    BY SMTT(30), <2>2, <2>3, <2>4 DEF Copied
<1>14. ASSUME NEW p \in Proc, NEW b \in Block, ReadBlock(p, b)  PROVE Copied'
  <2>1. UNCHANGED <<disk, lh, logblk, tail, pc>> /\ cache' = [cache EXCEPT ![b] = Bread(b)]
    BY <1>14 DEF ReadBlock
  <2>2. CASE cache[b] = NotCached
    BY ZenonT(30), <1>13, <2>1, <2>2
  <2>3. CASE cache[b] # NotCached
    BY <1>0, <2>1, <2>3 DEF Bread, Copied
  <2> QED
    BY <2>2, <2>3
<1>15. ASSUME NEW b \in Block, Recycle(b)  PROVE Copied'
  <2>1. ~Dirty(b) /\ ~Held(b)
    BY <1>15 DEF Recycle, Pins, Held
  <2>2. UNCHANGED <<disk, lh, logblk, tail, pc>> /\ cache' = [cache EXCEPT ![b] = NotCached]
    BY <1>15 DEF Recycle
  <2> QED
    BY ZenonT(30), <1>13, <2>1, <2>2
<1> QED
  BY <1>1, <1>2, <1>3, <1>4, <1>5, <1>6, <1>7, <1>8, <1>9, <1>10, <1>11, <1>12,
     <1>14, <1>15 DEF Next, Commit, InstallTrans

\* Without recovered buffers, bpin and bunpin balance: the count of a buffer is
\* zero only when it is neither logged nor in use.
LEMMA PinsStep ==
  ASSUME TypeOK, Phases, Holding, Headers, Pins, ~(Pressure /\ Crashes), [Next]_vars
  PROVE  Pins'
<1> SUFFICES ASSUME Pressure
             PROVE  /\ (InRecovery => header = <<>>)'
                    /\ \A c \in Block : (ref[c] = (IF Dirty(c) THEN 1 ELSE 0) + (IF Held(c) THEN 1 ELSE 0))'
  BY DEF Pins
<1> USE DEF durableVars, logVars, bufVars, procVars
<1>0. pc \in [Proc -> PC] /\ ref \in [Block -> 0..(RefMod - 1)] /\ lh \in Seq(Block)
  BY DEF TypeOK
<1>00. /\ InRecovery => header = <<>>
       /\ \A c \in Block : ref[c] = (IF Dirty(c) THEN 1 ELSE 0) + (IF Held(c) THEN 1 ELSE 0)
       /\ ~Crash
  BY DEF Pins, Crash
<1>1. (InRecovery => header = <<>>)'
  <2>2. ASSUME NEW p \in Proc, Syscall(p) \/ BeginSleep(p) \/ BeginOp(p) \/ LogWriteAppend(p)
        PROVE  (InRecovery => header = <<>>)'
    BY <1>0, <1>00, <2>2 DEF Syscall, BeginSleep, BeginOp, LogWriteAppend, InRecovery
  <2>3. ASSUME NEW p \in Proc, EndOp(p) \/ CommitDone(p)
        PROVE  (InRecovery => header = <<>>)'
    BY <1>0, <1>00, <2>3 DEF EndOp, CommitDone, Wakeup, InRecovery
  <2>4. ASSUME NEW p \in Proc, WriteLog(p) \/ WriteHead(p)
        PROVE  (InRecovery => header = <<>>)'
    <3>1. ~InRecovery
      BY <2>4 DEF WriteLog, WriteHead, Phases, InRecovery
    <3> QED
      BY <1>0, <2>4, <3>1 DEF WriteLog, WriteHead, InRecovery
  <2>5. ASSUME NEW p \in Proc, InstallTrans(p) \/ EraseHead(p)
        PROVE  (InRecovery => header = <<>>)'
    BY <1>0, <1>00, <2>5 DEF InstallTrans, InstallBlock, InstallDone, EraseHead, InRecovery
  <2>6. ASSUME NEW p \in Proc, ReadHead(p) \/ ClearHead(p)
        PROVE  (InRecovery => header = <<>>)'
    <3>1. p = InitProc
      BY <2>6 DEF ReadHead, ClearHead, Phases, RecoveryPC
    <3> QED
      BY <1>0, <1>00, <2>6, <3>1 DEF ReadHead, ClearHead, InRecovery
  <2>7. ASSUME NEW p \in Proc, NEW b \in Block, ReadBlock(p, b) \/ Recycle(b)
        PROVE  (InRecovery => header = <<>>)'
    BY <1>00, <2>7 DEF ReadBlock, Recycle, InRecovery
  <2>8. ASSUME NEW p \in Proc, NEW b \in Block, NEW v \in Val, LogWriteCheck(p, b, v)
        PROVE  (InRecovery => header = <<>>)'
    BY <1>0, <1>00, <2>8 DEF LogWriteCheck, InRecovery
  <2>9. CASE UNCHANGED vars
    BY <1>00, <2>9 DEF vars, InRecovery
  <2> QED
    BY SMTT(30), <1>00, <2>2, <2>3, <2>4, <2>5, <2>6, <2>7, <2>8, <2>9 DEF Next, Commit
<1>2. ASSUME NEW c \in Block
      PROVE  (ref[c] = (IF Dirty(c) THEN 1 ELSE 0) + (IF Held(c) THEN 1 ELSE 0))'
  <2> DEFINE G == (ref[c] = (IF Dirty(c) THEN 1 ELSE 0) + (IF Held(c) THEN 1 ELSE 0))'
  <2>0. ref[c] = (IF Dirty(c) THEN 1 ELSE 0) + (IF Held(c) THEN 1 ELSE 0)
    BY <1>00
  <2>a. ASSUME Dirty(c)' <=> Dirty(c), UNCHANGED <<held, ref>>  PROVE G
    BY ZenonT(30), <2>0, <2>a, HeldStep
  <2>1. ASSUME UNCHANGED vars  PROVE G
    BY ZenonT(30), <2>1, <2>a, DirtyStep DEF vars
  <2>2. ASSUME NEW p \in Proc, \/ Syscall(p) \/ BeginSleep(p) \/ BeginOp(p) \/ EndOp(p)
                               \/ WriteLog(p) \/ WriteHead(p) \/ CommitDone(p)
        PROVE  G
    <3>1. UNCHANGED <<held, ref>>
      BY <2>2 DEF Syscall, BeginSleep, BeginOp, EndOp, WriteLog, WriteHead, CommitDone
    <3> QED
      BY ZenonT(30), <2>2, <2>a, <3>1, DirtyStep
  <2>3. ASSUME NEW p \in Proc, LogWriteAppend(p)  PROVE G
    <3>1. Dirty(c)' <=> (Dirty(c) \/ c = held[p])
      BY ZenonT(30), <2>3, DirtyStep
    <3>2. Held(held[p]) /\ (Held(c)' <=> (Held(c) /\ c # held[p]))
      BY <2>3, HeldStep
    <3>3. held[p] \in Block /\ (Dirty(held[p]) <=> InLog(held[p]))
      BY ZenonT(30), <2>3 DEF LogWriteAppend, Holding, TypeOK, Dirty, InLog, InRecovery, Phases, Active, CommitPC
    <3>4. CASE InLog(held[p]) /\ ref' = [ref EXCEPT ![held[p]] = Dec(ref[held[p]])]
      <4>0. Held(held[p]) /\ Dirty(held[p]) /\ held[p] \in Block
        BY <3>2, <3>3, <3>4
      <4>1. ref[held[p]] = 1 + 1
        BY <1>00, <4>0
      <4>2. CASE c = held[p]
        <5>1. Dirty(c)' /\ ~Held(c)'
          BY <3>1, <3>2, <4>2
        <5>2. ref'[c] = Dec(ref[c])
          BY <1>0, <3>4, <4>2
        <5>3. ref'[c] = 1
          BY <4>1, <4>2, <5>2 DEF Dec
        <5> QED BY <5>1, <5>3
      <4>3. CASE c # held[p]
        BY SMTT(30), <1>0, <2>0, <3>1, <3>2, <3>4, <4>3
      <4> QED BY <4>2, <4>3
    <3>5. CASE ~InLog(held[p]) /\ UNCHANGED ref
      BY SMTT(30), <1>0, <1>00, <2>0, <3>1, <3>2, <3>3, <3>5
    <3> QED
      BY ZenonT(30), <2>3, <3>4, <3>5 DEF LogWriteAppend
  <2>4. ASSUME NEW p \in Proc, InstallBlock(p)  PROVE G
    <3>1. Dirty(c)' <=> (Dirty(c) /\ c # lh[tail[p]])
      BY ZenonT(30), <2>4, DirtyStep
    <3>2. Held(c)' <=> Held(c)
      BY ZenonT(30), <2>4, HeldStep DEF InstallBlock
    <3>3. pc[p] = "install" /\ tail[p] \in 1..Len(lh)
      <4>1. CASE pc[p] = "recover"
        <5>1. InRecovery /\ lh = header
          BY <4>1 DEF Phases, Headers, RecoveryPC, InRecovery
        <5>2. lh = <<>>
          BY SMTT(30), <5>1, <1>00
        <5> QED BY <2>4, <5>2 DEF InstallBlock, TypeOK
      <4> QED BY <2>4, <4>1 DEF InstallBlock, TypeOK
    <3>4. lh[tail[p]] \in Block /\ Dirty(lh[tail[p]])
      <4>1. tail[p] >= tail[p]
        BY SMTT(30), <3>3
      <4> QED BY SMTT(30), <3>3, <4>1, LoggedDirty
    <3>5. ~Held(lh[tail[p]])
      <4>1. Active = {}
        BY <3>3 DEF Phases, CommitPC
      <4>2. \A q \in Proc : held[q] = None
        BY <4>1 DEF Active, Holding
      <4> QED BY SMTT(30), <3>4, <4>2 DEF Held
    <3>6. ref' = [ref EXCEPT ![lh[tail[p]]] = Dec(ref[lh[tail[p]]])]
      BY <2>4 DEF InstallBlock
    <3>7. ref[lh[tail[p]]] = 1
      <4>1. PICK b \in Block : b = lh[tail[p]]
        BY <3>4
      <4>2. Dirty(b) /\ ~Held(b)
        BY ZenonT(30), <3>4, <3>5, <4>1
      <4>3. ref[b] = 1
        BY <1>00, <4>2
      <4> QED BY <4>1, <4>3
    <3> QED
      BY <1>0, <2>0, <3>1, <3>2, <3>4, <3>5, <3>6, <3>7 DEF Dec
  <2>5. ASSUME NEW p \in Proc, InstallDone(p) \/ EraseHead(p) \/ ReadHead(p) \/ ClearHead(p)
        PROVE  G
    <3>1. UNCHANGED <<held, ref>>
      BY <2>5 DEF InstallDone, EraseHead, ReadHead, ClearHead
    <3> QED
      BY ZenonT(30), <2>5, <2>a, <3>1, DirtyStep
  <2>6. ASSUME NEW p \in Proc, NEW b \in Block, ReadBlock(p, b)  PROVE G
    <3>1. UNCHANGED <<held, ref>>
      BY ZenonT(30), <2>6 DEF ReadBlock
    <3> QED
      BY ZenonT(30), <2>6, <2>a, <3>1, DirtyStep
  <2>7. ASSUME NEW p \in Proc, NEW b \in Block, NEW v \in Val, LogWriteCheck(p, b, v)  PROVE G
    <3>1. Dirty(c)' <=> Dirty(c)
      BY ZenonT(30), <2>7, DirtyStep
    <3>2. ~Held(b) /\ (Held(c)' <=> (Held(c) \/ c = b))
      BY <2>7, HeldStep
    <3>3. ref' = [ref EXCEPT ![b] = Inc(ref[b])]
      BY ZenonT(30), <2>7 DEF LogWriteCheck
    <3>4. ref[b] \in {0, 1}
      BY <1>00, <3>2
    <3> QED
      BY <1>0, <2>0, <3>1, <3>2, <3>3, <3>4 DEF Inc
  <2>8. ASSUME NEW b \in Block, Recycle(b)  PROVE G
    <3>1. UNCHANGED <<held, ref>>
      BY ZenonT(30), <2>8 DEF Recycle
    <3> QED
      BY ZenonT(30), <2>8, <2>a, <3>1, DirtyStep
  <2> HIDE DEF G
  <2>9. G
    BY SMTT(30), <1>00, <2>1, <2>2, <2>3, <2>4, <2>5, <2>6, <2>7, <2>8 DEF Next, Commit, InstallTrans
  <2> QED
    BY <2>9 DEF G
<1> QED
  BY <1>1, <1>2

\* The boot state.
LEMMA InitInv == Init => IInv
<1> SUFFICES ASSUME Init PROVE IInv
  OBVIOUS
<1>1. Control
  BY InitControl
<1> USE DEF Init, BootPC
<1>2. InRecovery
  BY DEF InRecovery
<1>3. \A b \in Block : ~Dirty(b) /\ ~Held(b)
  BY <1>2 DEF Dirty, Held
<1>4. Contents /\ Copied /\ Pins
  BY <1>3 DEF Contents, Copied, Pins
<1> QED
  BY <1>1, <1>4 DEF IInv

LEMMA InvStep ==
  ASSUME IInv, [Next]_vars, ~(Pressure /\ Crashes)
  PROVE  IInv'
<1>1. Control'
  BY ControlStep DEF IInv, Control
<1>2. Contents' /\ Copied' /\ Pins'
  BY <1>1, ContentsStep, CopiedStep, PinsStep DEF IInv, Control
<1> QED
  BY SMTT(30), <1>1, <1>2 DEF IInv, Control

LEMMA Invariance ==
  ASSUME ~(Pressure /\ Crashes)
  PROVE  Spec => []IInv
<1>1. IInv /\ [Next]_vars => IInv'
  BY InvStep
<1> QED
  BY <1>1, InitInv, PTL DEF Spec

\* The blocks of a transaction keep their buffers until they are installed:
\* log_write's bpin() is enough against bget() as long as recovery has not
\* taken back references it never took.
THEOREM LoggedCachedHolds ==
  ASSUME ~(Pressure /\ Crashes)
  PROVE  Spec => []LoggedCached
<1>1. ASSUME IInv  PROVE LoggedCached
  <2> SUFFICES ASSUME NEW p \in Proc, pc[p] \in {"op", "log_write", "write_log", "write_head"},
                      NEW b \in Block, InLog(b)
               PROVE  cache[b] # NotCached
    BY DEF LoggedCached
  <2>1. ~InRecovery
    BY <1>1 DEF IInv, Control, Phases, InRecovery
  <2>2. \A q \in Proc : pc[q] # "erase" /\ pc[q] # "install"
    BY <1>1 DEF IInv, Control, Phases, Active, CommitPC
  <2>3. Dirty(b)
    BY <2>1, <2>2 DEF Dirty, InLog
  <2> QED BY <1>1, <2>3 DEF IInv, Contents
<1>2. IInv => LoggedCached
  BY <1>1
<1> QED
  BY <1>2, Invariance, PTL
=============================================================================
