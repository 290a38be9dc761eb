----------------------------- MODULE LogRefines -----------------------------
(* Proof that the log implements the transactional disk of TxDisk. *)
EXTENDS LogContents

USE ConstAssumption DEF ConstAssumption

\* A block that header h names gets its logged contents, any other block keeps
\* what its home block holds.
LEMMA ReplayAt ==
  ASSUME NEW h \in Seq(Block), Injective(h), NEW lb, NEW d
  PROVE  /\ \A i \in 1..Len(h) : Replay(h, lb, d)[h[i]] = lb[i]
         /\ \A b \in Block : (\A i \in 1..Len(h) : h[i] # b) => Replay(h, lb, d)[b] = d[b]
<1>1. ASSUME NEW i \in 1..Len(h)  PROVE Replay(h, lb, d)[h[i]] = lb[i]
  <2> DEFINE k == CHOOSE j \in 1..Len(h) : h[j] = h[i]
  <2>1. h[i] \in Block
    OBVIOUS
  <2>2. k \in 1..Len(h) /\ h[k] = h[i]
    OBVIOUS
  <2>3. k = i
    BY <2>2 DEF Injective
  <2>4. Replay(h, lb, d)[h[i]] = lb[k]
    BY ZenonT(30), <2>1 DEF Replay
  <2> QED BY ZenonT(30), <2>3, <2>4
<1>2. ASSUME NEW b \in Block, \A i \in 1..Len(h) : h[i] # b
      PROVE  Replay(h, lb, d)[b] = d[b]
  BY <1>2 DEF Replay
<1> QED BY <1>1, <1>2

\* A step that leaves the disk, the phase and every block as a system call
\* reads it alone is invisible.
LEMMA SameView ==
  ASSUME UNCHANGED durableVars, InRecovery' <=> InRecovery, Active' = Active,
         \A b \in Block : Bread(b)' = Bread(b)
  PROVE  UNCHANGED <<Recovered, View, Active>>
<1>1. Recovered' = Recovered
  BY DEF durableVars, Recovered
<1>2. View' = View
  BY <1>1 DEF View
<1> QED BY <1>1, <1>2

\* Steps of a system call: begin_op and end_op are Begin and End, a block
\* modified in its buffer is Write, the rest is invisible.
LEMMA SyscallSteps ==
  ASSUME IInv, NEW p \in Proc
  PROVE  /\ Syscall(p) \/ BeginSleep(p) => UNCHANGED <<Recovered, View, Active>>
         /\ BeginOp(p) => Tx!Begin(p)
         /\ LogWriteAppend(p) => UNCHANGED <<Recovered, View, Active>>
         /\ EndOp(p) => Tx!End(p)
         /\ \A b \in Block : ReadBlock(p, b) => UNCHANGED <<Recovered, View, Active>>
         /\ \A b \in Block, v \in Val : LogWriteCheck(p, b, v) => Tx!Write(p, b, v)
<1> USE DEF durableVars, logVars, bufVars, procVars
<1>0. /\ pc \in [Proc -> PC] /\ cache \in [Block -> Val \cup {NotCached}] /\ disk \in [Block -> Val]
  BY DEF IInv, Control, TypeOK
<1>1. ASSUME Syscall(p) \/ BeginSleep(p)  PROVE UNCHANGED <<Recovered, View, Active>>
  <2>1. UNCHANGED durableVars /\ UNCHANGED cache /\ (InRecovery' <=> InRecovery) /\ Active' = Active
    BY <1>0, <1>1 DEF Syscall, BeginSleep, InRecovery, Active
  <2> QED BY <2>1, SameView DEF Bread
<1>2. ASSUME BeginOp(p)  PROVE Tx!Begin(p)
  <2>1. UNCHANGED durableVars /\ UNCHANGED cache /\ (InRecovery' <=> InRecovery)
    BY <1>0, <1>2 DEF BeginOp, InRecovery
  <2>2. p \notin Active /\ Active' = Active \cup {p}
    BY <1>0, <1>2 DEF BeginOp, Active
  <2>3. Recovered' = Recovered /\ View' = View
    BY <2>1 DEF Recovered, View, Bread
  <2> QED BY <2>2, <2>3 DEF Tx!Begin
<1>3. ASSUME LogWriteAppend(p)  PROVE UNCHANGED <<Recovered, View, Active>>
  <2>1. UNCHANGED durableVars /\ UNCHANGED cache /\ (InRecovery' <=> InRecovery) /\ Active' = Active
    BY <1>0, <1>3 DEF LogWriteAppend, InRecovery, Active
  <2> QED BY <2>1, SameView DEF Bread
<1>4. ASSUME EndOp(p)  PROVE Tx!End(p)
  <2>1. committing # 1
    BY <1>4 DEF EndOp, IInv, Control, Phases, Active
  <2>2. UNCHANGED durableVars /\ UNCHANGED cache /\ (InRecovery' <=> InRecovery)
    BY <1>0, <1>4, <2>1 DEF EndOp, Wakeup, InRecovery
  <2>3. p \in Active /\ Active' = Active \ {p}
    BY <1>0, <1>4, <2>1 DEF EndOp, Wakeup, Active
  <2>4. Recovered' = Recovered /\ View' = View
    BY <2>2 DEF Recovered, View, Bread
  <2> QED BY <2>3, <2>4 DEF Tx!End
<1>5. ASSUME NEW b \in Block, ReadBlock(p, b)  PROVE UNCHANGED <<Recovered, View, Active>>
  <2>1. UNCHANGED <<durableVars, pc>> /\ cache' = [cache EXCEPT ![b] = Bread(b)]
    BY <1>5 DEF ReadBlock
  <2>2. \A c \in Block : Bread(c)' = Bread(c)
    BY <1>0, <2>1 DEF Bread
  <2> QED BY <2>1, <2>2, SameView DEF InRecovery, Active
<1>6. ASSUME NEW b \in Block, NEW v \in Val, LogWriteCheck(p, b, v)  PROVE Tx!Write(p, b, v)
  <2>1. ~InRecovery
    BY <1>6 DEF LogWriteCheck, IInv, Control, Phases, InRecovery
  <2>2. UNCHANGED durableVars /\ cache' = [cache EXCEPT ![b] = v]
    BY <1>6 DEF LogWriteCheck
  <2>3. ~InRecovery' /\ p \in Active /\ Active' = Active
    BY <1>0, <1>6, <2>1 DEF LogWriteCheck, InRecovery, Active
  <2>4. \A c \in Block : Bread(c)' = IF c = b THEN v ELSE Bread(c)
    BY <1>0, <2>2 DEF Bread
  <2>5. View' = [View EXCEPT ![b] = v]
    BY ZenonT(30), <2>1, <2>3, <2>4 DEF View
  <2>6. Recovered' = Recovered
    BY <2>2 DEF Recovered
  <2> QED BY <2>3, <2>5, <2>6 DEF Tx!Write
<1> QED BY <1>1, <1>2, <1>3, <1>4, <1>5, <1>6

\* Erasing the header of an installed transaction changes nothing.
LEMMA Erased ==
  ASSUME header \in Seq(Block), Injective(header), header' = <<>>, UNCHANGED <<disk, logblk>>,
         \A i \in 1..Len(header) : disk[header[i]] = logblk[i]
  PROVE  Recovered = [b \in Block |-> disk[b]] /\ Recovered' = Recovered
<1>1. ASSUME NEW b \in Block  PROVE Replay(header, logblk, disk)[b] = disk[b]
  <2>1. CASE \E i \in 1..Len(header) : header[i] = b
    BY <2>1, ReplayAt
  <2>2. CASE \A i \in 1..Len(header) : header[i] # b
    BY <2>2, ReplayAt
  <2> QED BY <2>1, <2>2
<1>2. Recovered = [b \in Block |-> disk[b]]
  BY <1>1 DEF Recovered, Replay
<1>3. Recovered' = [b \in Block |-> disk[b]]
  BY DEF Recovered, Replay
<1> QED BY <1>2, <1>3

\* The write of the header is the commit; the other steps of commit() and of
\* recovery are invisible.
LEMMA CommitSteps ==
  ASSUME IInv, NEW p \in Proc
  PROVE  /\ WriteLog(p) => UNCHANGED <<Recovered, View, Active>>
         /\ WriteHead(p) => Tx!Commit
         /\ InstallBlock(p) => UNCHANGED <<Recovered, View, Active>>
         /\ InstallDone(p) => UNCHANGED <<Recovered, View, Active>>
         /\ EraseHead(p) => UNCHANGED <<Recovered, View, Active>>
         /\ CommitDone(p) => UNCHANGED <<Recovered, View, Active>>
<1> USE DEF durableVars, logVars, bufVars, procVars
<1>0. /\ pc \in [Proc -> PC] /\ cache \in [Block -> Val \cup {NotCached}] /\ disk \in [Block -> Val]
      /\ lh \in Seq(Block) /\ header \in Seq(Block) /\ tail \in [Proc -> Nat \ {0}]
      /\ logblk \in [1..LOGSIZE -> Val] /\ Len(lh) \in Nat
  BY DEF IInv, Control, TypeOK
<1>00. Injective(lh) /\ Injective(header) /\ TypeOK /\ Phases
  BY ZenonT(30) DEF IInv, Control, Headers
<1>000. Len(lh) <= LOGSIZE
  <2>1. Cardinality(Reserve) \in Nat /\ Len(lh) + Cardinality(Reserve) <= LOGSIZE
    BY FS_CardinalityType DEF IInv, Control, Reservation
  <2> QED BY <1>0, <2>1
<1>a. ASSUME pc[p] \in {"write_log", "write_head", "install"}, NEW i \in 1..Len(lh),
             pc[p] = "install" => i >= tail[p]
      PROVE  cache[lh[i]] # NotCached
  <2>1. Dirty(lh[i]) /\ lh[i] \in Block
    BY <1>0, <1>00, <1>a, LoggedDirty
  <2> QED BY <2>1 DEF IInv, Contents
<1>1. ASSUME WriteLog(p)  PROVE UNCHANGED <<Recovered, View, Active>>
  <2>1. header = <<>> /\ tail[p] \in 1..Len(lh)
    <3>1. pc[p] = "write_log"
      BY <1>1 DEF WriteLog
    <3>2. \A q \in Proc : pc[q] \notin {"install", "erase", "read_head", "recover", "clear"}
      BY <1>00, <3>1 DEF Phases, CommitPC, RecoveryPC, InRecovery
    <3>3. header = <<>> /\ tail[p] <= Len(lh)
      BY <3>1, <3>2 DEF IInv, Control, Headers
    <3> QED BY <1>0, <3>3
  <2>2. /\ UNCHANGED <<disk, header>> /\ (InRecovery' <=> InRecovery) /\ Active' = Active
        /\ cache' = [cache EXCEPT ![lh[tail[p]]] = Bread(lh[tail[p]])]
    BY <1>0, <1>1 DEF WriteLog, InRecovery, Active
  <2>3. \A b \in Block : Bread(b)' = Bread(b)
    BY <1>0, <2>1, <2>2 DEF Bread
  <2>4. Recovered' = Recovered
    BY <2>1, <2>2 DEF Recovered, Replay
  <2>5. View' = View
    BY <2>2, <2>3, <2>4 DEF View
  <2> QED BY <2>2, <2>4, <2>5
<1>2. ASSUME WriteHead(p)  PROVE Tx!Commit
  <2>1. ~InRecovery /\ Active = {} /\ pc[p] = "write_head"
    BY <1>2 DEF WriteHead, IInv, Control, Phases, CommitPC, InRecovery
  <2>2. /\ UNCHANGED <<disk, logblk, cache>> /\ header' = lh /\ ~InRecovery' /\ Active' = {}
    BY <1>0, <1>2, <2>1 DEF WriteHead, InRecovery, Active
  <2>3. \A b \in Block : ~Held(b)
    BY <2>1 DEF Held, IInv, Control, Holding, Active
  <2>4. Recovered' = Replay(lh, logblk, disk)
    BY <2>2 DEF Recovered
  <2>5. ASSUME NEW b \in Block  PROVE Replay(lh, logblk, disk)[b] = Bread(b)
    <3>1. CASE \E i \in 1..Len(lh) : lh[i] = b
      <4>1. PICK i \in 1..Len(lh) : lh[i] = b
        BY <3>1
      <4>2. logblk[i] = cache[b]
        BY <2>1, <4>1 DEF IInv, Copied
      <4>3. Replay(lh, logblk, disk)[b] = logblk[i]
        BY <1>0, <1>00, <4>1, ReplayAt
      <4>4. cache[b] # NotCached
        BY <1>a, <2>1, <4>1
      <4> QED BY <4>2, <4>3, <4>4 DEF Bread
    <3>2. CASE \A i \in 1..Len(lh) : lh[i] # b
      <4>1. Replay(lh, logblk, disk)[b] = disk[b]
        BY <3>2 DEF Replay
      <4>2. ~Dirty(b)
        BY <3>2 DEF Dirty
      <4>3. cache[b] = NotCached \/ cache[b] = disk[b]
        BY <2>3, <4>2 DEF IInv, Contents
      <4> QED BY <4>1, <4>3 DEF Bread
    <3> QED BY <3>1, <3>2
  <2>6. Recovered' = View
    BY <2>1, <2>4, <2>5 DEF Replay, View
  <2>7. View' = View
    BY <2>1, <2>2 DEF View, Bread
  <2> QED BY <2>1, <2>2, <2>6, <2>7 DEF Tx!Commit
<1>3. ASSUME InstallBlock(p)  PROVE UNCHANGED <<Recovered, View, Active>>
  <2> DEFINE t == tail[p]
  <2>1. header = lh /\ t \in 1..Len(lh) /\ lh[t] \in Block
    BY <1>0, <1>3 DEF InstallBlock, IInv, Control, Headers
  <2>2. /\ disk' = [disk EXCEPT ![lh[t]] = logblk[t]]
        /\ cache' = [cache EXCEPT ![lh[t]] = logblk[t]]
        /\ UNCHANGED <<logblk, header, pc>>
    BY <1>3 DEF InstallBlock
  <2> HIDE DEF t
  <2>3. Recovered' = Recovered
    <3>1. \A b \in Block : (\A i \in 1..Len(header) : header[i] # b) => disk'[b] = disk[b]
      BY <1>0, <2>1, <2>2
    <3>2. Recovered' = Replay(header, logblk, disk')
      BY <2>2 DEF Recovered
    <3>3. Replay(header, logblk, disk') = Replay(header, logblk, disk)
      BY <3>1 DEF Replay
    <3> QED BY <3>2, <3>3 DEF Recovered
  <2>4. CASE InRecovery
    BY <2>2, <2>3, <2>4 DEF View, InRecovery, Active
  <2>5. CASE ~InRecovery
    <3>1. pc[p] = "install"
      BY <1>3, <2>5 DEF InstallBlock, IInv, Control, Phases, RecoveryPC, InRecovery
    <3>2. logblk[t] = cache[lh[t]]
      BY <1>0, <2>1, <3>1 DEF IInv, Copied, t
    <3>3. cache[lh[t]] # NotCached
      BY <1>0, <1>a, <2>1, <3>1 DEF t
    <3>4. \A b \in Block : Bread(b)' = Bread(b)
      BY <1>0, <2>1, <2>2, <3>2, <3>3 DEF Bread
    <3>5. View' = View
      BY <2>2, <2>5, <3>4 DEF View, InRecovery
    <3> QED BY <2>2, <2>3, <3>5 DEF Active
  <2> QED BY <2>4, <2>5
<1>4. ASSUME InstallDone(p)  PROVE UNCHANGED <<Recovered, View, Active>>
  <2>1. UNCHANGED durableVars /\ UNCHANGED cache /\ Active' = Active
    BY <1>0, <1>4 DEF InstallDone, Active
  <2>2. InRecovery' <=> InRecovery
    BY <1>0, <1>4 DEF InstallDone, InRecovery
  <2> QED BY <2>1, <2>2, SameView DEF Bread
<1>5. ASSUME EraseHead(p)  PROVE UNCHANGED <<Recovered, View, Active>>
  <2>1. header = lh /\ \A i \in 1..Len(lh) : disk[lh[i]] = logblk[i]
    BY <1>5 DEF EraseHead, IInv, Control, Headers, Copied
  <2>2. header' = <<>> /\ UNCHANGED <<disk, logblk, cache>>
    BY <1>5 DEF EraseHead
  <2>3. (InRecovery' <=> InRecovery) /\ Active' = Active
    BY <1>0, <1>5 DEF EraseHead, InRecovery, Active
  <2>4. Recovered' = Recovered
    BY <1>0, <1>00, <2>1, <2>2, Erased
  <2>5. View' = View
    BY <2>2, <2>3, <2>4 DEF View, Bread
  <2> QED BY <2>3, <2>4, <2>5
<1>6. ASSUME CommitDone(p)  PROVE UNCHANGED <<Recovered, View, Active>>
  <2>1. UNCHANGED durableVars /\ UNCHANGED cache /\ Active' = Active /\ (InRecovery' <=> InRecovery)
    BY <1>0, <1>6 DEF CommitDone, Wakeup, Active, InRecovery
  <2> QED BY SMTT(30), <2>1, SameView DEF Bread
<1> QED BY <1>1, <1>2, <1>3, <1>4, <1>5, <1>6

\* Recovery, a crash, and bget() taking a buffer.
LEMMA OtherSteps ==
  ASSUME IInv
  PROVE  /\ \A p \in Proc : ReadHead(p) => UNCHANGED <<Recovered, View, Active>>
         /\ \A p \in Proc : ClearHead(p) => UNCHANGED <<Recovered, View, Active>>
         /\ \A b \in Block : Recycle(b) => UNCHANGED <<Recovered, View, Active>>
         /\ Crash => Tx!Crash
<1> USE DEF durableVars, logVars, bufVars, procVars
<1>0. /\ pc \in [Proc -> PC] /\ cache \in [Block -> Val \cup {NotCached}] /\ disk \in [Block -> Val]
      /\ lh \in Seq(Block) /\ header \in Seq(Block)
  BY DEF IInv, Control, TypeOK
<1>00. Injective(header)
  BY DEF IInv, Control, Headers
<1>1. ASSUME NEW p \in Proc, ReadHead(p)  PROVE UNCHANGED <<Recovered, View, Active>>
  <2>1. UNCHANGED durableVars /\ UNCHANGED cache /\ Active' = Active
    BY <1>0, <1>1 DEF ReadHead, Active
  <2>2. InRecovery' <=> InRecovery
    BY <1>0, <1>1 DEF ReadHead, InRecovery
  <2> QED BY <2>1, <2>2, SameView DEF Bread
<1>2. ASSUME NEW p \in Proc, ClearHead(p)  PROVE UNCHANGED <<Recovered, View, Active>>
  <2>1. header = lh /\ \A i \in 1..Len(lh) : disk[lh[i]] = logblk[i]
    BY <1>2 DEF ClearHead, IInv, Control, Headers, Copied
  <2>2. header' = <<>> /\ UNCHANGED <<disk, logblk, cache>>
    BY <1>2 DEF ClearHead
  <2>3. InRecovery /\ Active = {}
    BY <1>2 DEF ClearHead, IInv, Control, Phases, RecoveryPC, InRecovery, Active
  <2>4. ~InRecovery' /\ Active' = {}
    BY <1>0, <1>2 DEF ClearHead, InRecovery, Active
  <2>5. Recovered = [b \in Block |-> disk[b]] /\ Recovered' = Recovered
    BY SMTT(30), <1>0, <1>00, <2>1, <2>2, Erased
  <2>6. \A b \in Block : ~Dirty(b) /\ ~Held(b)
    BY <2>3 DEF Dirty, Held, IInv, Control, Holding, Active
  <2>7. \A b \in Block : Bread(b)' = disk[b]
    BY <2>2, <2>6 DEF IInv, Contents, Bread
  <2>8. View = Recovered /\ View' = [b \in Block |-> disk[b]]
    BY <2>3, <2>4, <2>7 DEF View
  <2> QED BY <2>3, <2>4, <2>5, <2>8
<1>3. ASSUME NEW b \in Block, Recycle(b)  PROVE UNCHANGED <<Recovered, View, Active>>
  <2>1. UNCHANGED durableVars /\ UNCHANGED pc /\ cache' = [cache EXCEPT ![b] = NotCached]
    BY ZenonT(30), <1>3 DEF Recycle
  <2>2. ~Dirty(b) /\ ~Held(b) /\ cache[b] # NotCached
    BY <1>3 DEF Recycle, IInv, Pins
  <2>3. cache[b] = disk[b]
    BY <2>2 DEF IInv, Contents
  <2>4. \A c \in Block : Bread(c)' = Bread(c)
    BY <1>0, <2>1, <2>2, <2>3 DEF Bread
  <2> QED BY <2>1, <2>4, SameView DEF InRecovery, Active
<1>4. ASSUME Crash  PROVE Tx!Crash
  <2>1. UNCHANGED durableVars /\ InRecovery' /\ Active' = {}
    BY <1>4 DEF Crash, BootPC, InRecovery, Active
  <2>2. Recovered' = Recovered
    BY <2>1 DEF Recovered
  <2>3. View' = Recovered
    BY <2>1, <2>2 DEF View
  <2> QED BY <2>1, <2>2, <2>3 DEF Tx!Crash
<1> QED BY <1>1, <1>2, <1>3, <1>4

\* The log implements the transactional disk: system calls see their own
\* writes, and a crash anywhere, in recovery too, leaves exactly the
\* operations of the last commit.
THEOREM Refinement ==
  ASSUME ~(Pressure /\ Crashes)
  PROVE  Spec => CrashAtomic
<1>1. Init => Tx!Init
  <2> SUFFICES ASSUME Init PROVE Tx!Init
    OBVIOUS
  <2>1. Active = {} /\ InRecovery
    BY DEF Init, BootPC, Active, InRecovery
  <2>2. Recovered = [b \in Block |-> Zero]
    BY DEF Init, Recovered, Replay
  <2> QED BY <2>1, <2>2 DEF Tx!Init, View
<1>2. ASSUME IInv, [Next]_vars  PROVE [Tx!Next]_Tx!vars
  <2>1. CASE UNCHANGED vars
    <3>1. UNCHANGED durableVars /\ UNCHANGED cache /\ UNCHANGED pc
      BY <2>1 DEF vars, bufVars, procVars
    <3>2. UNCHANGED <<Recovered, View, Active>>
      BY <3>1, SameView DEF Bread, InRecovery, Active, durableVars
    <3> QED BY <3>2 DEF Tx!vars
  <2>2. ASSUME NEW p \in Proc,
               \/ Syscall(p) \/ BeginSleep(p) \/ BeginOp(p) \/ LogWriteAppend(p) \/ EndOp(p)
               \/ \E b \in Block : ReadBlock(p, b)
               \/ \E b \in Block, v \in Val : LogWriteCheck(p, b, v)
        PROVE  [Tx!Next]_Tx!vars
    BY <1>2, <2>2, SyscallSteps DEF Tx!Next, Tx!vars
  <2>3. ASSUME NEW p \in Proc, Commit(p)  PROVE [Tx!Next]_Tx!vars
    BY <1>2, <2>3, CommitSteps DEF Commit, InstallTrans, Tx!Next, Tx!vars
  <2>4. ASSUME (\E p \in Proc : ReadHead(p) \/ ClearHead(p)) \/ (\E b \in Block : Recycle(b)) \/ Crash
        PROVE  [Tx!Next]_Tx!vars
    BY <1>2, <2>4, OtherSteps DEF Tx!Next, Tx!vars
  <2> QED BY <1>2, <2>1, <2>2, <2>3, <2>4 DEF Next
<1>3. IInv /\ [Next]_vars => [Tx!Next]_Tx!vars
  BY <1>2
<1>4. Spec => Tx!Spec
  BY <1>1, <1>3, Invariance, PTL DEF Spec, Tx!Spec
<1> QED
  BY <1>4 DEF CrashAtomic
=============================================================================
