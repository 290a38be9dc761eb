--------------------------- MODULE BufferRefines ---------------------------
(* Proof that the buffer cache implements the block store of BlockStore.     *)
EXTENDS BufferProofs

USE BufAssumption DEF BufAssumption

\* Between the change and bwrite() or bpin().
Changing(i) == \E p \in Proc : pc[p] = "changed" /\ buf[p] = i

\* What a buffer holds is on the disk, unless its user has just changed it or
\* the log has pinned its block.
CleanAt(i) ==
  valid[i] = 1 /\ blockno[i] \notin pinned /\ ~Changing(i) => data[i] = disk[blockno[i]]

Clean == \A i \in Buf : CleanAt(i)

\* What is not on the disk is pinned or about to be.
LEMMA CleanStep ==
  ASSUME IInv, Clean, [Next]_vars
  PROVE  Clean'
<1> DEFINE Keeps == \A q \in Proc :
      (pc'[q] = "changed" <=> pc[q] = "changed") /\ (pc[q] = "changed" => buf'[q] = buf[q])
<1>0. /\ blockno \in [Buf -> Block \cup {NoBlock}] /\ valid \in [Buf -> {0, 1}] /\ pinned \subseteq Block
      /\ data \in [Buf -> Val] /\ disk \in [Block -> Val]
      /\ buf \in [Proc -> Buf \cup {None}] /\ want \in [Proc -> Block \cup {NoBlock}]
      /\ pc \in [Proc -> {"idle", "bget", "bread", "use", "changed", "done", "brelse", "panic"}]
      /\ \A p \in Proc : pc[p] \notin {"idle", "panic"} =>
           buf[p] \in Buf /\ want[p] \in Block /\ blockno[buf[p]] = want[p]
      /\ \A i \in Buf : valid[i] = 1 => blockno[i] \in Block
      /\ \A i, j \in Buf : blockno[i] = blockno[j] /\ i # j => blockno[i] = NoBlock
  BY DEF IInv, TypeOK, Places, RefcntExact, Filled, OneBuffer
<1>c. ASSUME Keeps  PROVE \A i \in Buf : Changing(i)' <=> Changing(i)
  BY <1>c DEF Changing
<1>b. UNCHANGED <<valid, blockno, data, disk, pinned>> /\ Keeps => Clean'
  BY <1>c DEF Clean, CleanAt
<1> HIDE DEF Keeps
<1>1. ASSUME UNCHANGED vars  PROVE Clean'
  <2>1. UNCHANGED <<valid, blockno, data, disk, pinned>> /\ Keeps
    BY <1>1, <1>0 DEF vars, bufVars, Keeps
  <2> QED
    BY <2>1, <1>b
<1>2. ASSUME NEW p \in Proc, NEW b \in Block, BgetHit(p, b)  PROVE Clean'
  <2>1. PICK i \in Buf : Hits(p, b, i)
    BY <1>2, HitIs
  <2>2. UNCHANGED <<valid, blockno, data, disk, pinned>> /\ Keeps
    BY <1>2, <1>0, <2>1 DEF Hits, Keeps
  <2> QED
    BY <2>2, <1>b
<1>3. ASSUME NEW p \in Proc, NEW b \in Block, BgetRecycle(p, b)  PROVE Clean'
  <2>1. PICK i \in Buf : Recycles(p, b, i)
    BY <1>3, RecycleIs
  <2>2. UNCHANGED <<data, disk, pinned>> /\ Keeps
    BY <1>0, <2>1 DEF Recycles, Keeps
  <2>3. valid'[i] = 0 /\ \A j \in Buf : j # i => valid'[j] = valid[j] /\ blockno'[j] = blockno[j]
    BY <1>0, <2>1 DEF Recycles
  <2>4. \A j \in Buf : Changing(j)' <=> Changing(j)
    BY <1>c, <2>2
  <2>5. \A j \in Buf : j # i => CleanAt(j)'
    BY <2>2, <2>3, <2>4 DEF Clean, CleanAt
  <2>6. CleanAt(i)'
    BY <2>3 DEF CleanAt
  <2> QED
    BY <2>5, <2>6 DEF Clean
<1>4. ASSUME NEW p \in Proc, NEW b \in Block, BgetPanic(p, b)  PROVE Clean'
  <2>1. UNCHANGED <<valid, blockno, data, disk, pinned>> /\ Keeps
    BY <1>4, <1>0 DEF BgetPanic, Goto, bufVars, Keeps
  <2> QED
    BY <2>1, <1>b
<1>5. ASSUME NEW p \in Proc, NEW v \in Val, Change(p, v)  PROVE Clean'
  <2>1. PICK i \in Buf : i = buf[p] /\ want[p] \in Block /\ blockno[i] = want[p]
    BY <1>5, <1>0 DEF Change
  <2>2. \A j \in Buf : j # i => blockno[j] # want[p] /\ (Changing(j)' <=> Changing(j))
    <3>1. \A j \in Buf : j # i => blockno[j] # want[p]
      BY <1>0, <2>1
    <3>2. buf' = buf /\ \A q \in Proc : q # p => pc'[q] = pc[q]
      BY <1>5, <1>0 DEF Change, Goto
    <3> QED
      BY <2>1, <3>1, <3>2 DEF Changing
  <2>3. UNCHANGED <<valid, blockno, disk, pinned>> /\ \A j \in Buf : j # i => data'[j] = data[j]
    BY <1>5, <1>0, <2>1 DEF Change
  <2>4. Changing(i)'
    BY <1>5, <1>0, <2>1 DEF Change, Goto, Changing
  <2>5. \A j \in Buf : j # i => CleanAt(j)'
    BY <1>0, <2>1, <2>2, <2>3 DEF Clean, CleanAt
  <2>6. CleanAt(i)'
    BY <1>0, <2>1, <2>3, <2>4 DEF Clean, CleanAt
  <2> QED
    BY <2>5, <2>6 DEF Clean
<1>6. ASSUME NEW p \in Proc, BgetLock(p)  PROVE Clean'
  <2>1. Locks(p)
    BY <1>6, BgetLockIs
  <2>2. UNCHANGED <<valid, blockno, data, disk, pinned>> /\ Keeps
    BY <1>6, <1>0, <2>1 DEF Locks, bufVars, Keeps
  <2> QED
    BY <2>2, <1>b
<1>7. ASSUME NEW p \in Proc, Bread(p)  PROVE Clean'
  <2>1. PICK i \in Buf : i = buf[p] /\ want[p] \in Block /\ blockno[i] = want[p]
    BY <1>7, <1>0 DEF Bread
  <2>2. \A j \in Buf : j # i => blockno[j] # want[p] /\ (Changing(j)' <=> Changing(j))
    <3>1. \A j \in Buf : j # i => blockno[j] # want[p]
      BY <1>0, <2>1
    <3>2. buf' = buf /\ \A q \in Proc : q # p => pc'[q] = pc[q]
      BY <1>7, <1>0 DEF Bread, Goto
    <3> QED
      BY <2>1, <3>1, <3>2 DEF Changing
  <2>3. UNCHANGED <<blockno, disk, pinned>> /\ \A j \in Buf : j # i => data'[j] = data[j] /\ valid'[j] = valid[j]
    BY <1>7, <1>0, <2>1 DEF Bread
  <2>4. data'[i] = IF valid[i] = 1 THEN data[i] ELSE disk[blockno[i]]
    BY <1>7, <1>0, <2>1 DEF Bread
  <2>5. Changing(i) => Changing(i)'
    BY <1>7, <1>0 DEF Bread, Goto, Changing
  <2>6. \A j \in Buf : j # i => CleanAt(j)'
    BY <1>0, <2>1, <2>2, <2>3 DEF Clean, CleanAt
  <2>7. CleanAt(i)'
    BY <1>0, <2>1, <2>3, <2>4, <2>5 DEF Clean, CleanAt
  <2> QED
    BY <2>6, <2>7 DEF Clean
<1>8. ASSUME NEW p \in Proc, Bwrite(p)  PROVE Clean'
  <2>1. PICK i \in Buf : i = buf[p] /\ want[p] \in Block /\ blockno[i] = want[p]
    BY <1>8, <1>0 DEF Bwrite
  <2>2. \A j \in Buf : j # i => blockno[j] # want[p] /\ (Changing(j)' <=> Changing(j))
    <3>1. \A j \in Buf : j # i => blockno[j] # want[p]
      BY <1>0, <2>1
    <3>2. buf' = buf /\ \A q \in Proc : q # p => pc'[q] = pc[q]
      BY <1>8, <1>0 DEF Bwrite, Goto
    <3> QED
      BY <2>1, <3>1, <3>2 DEF Changing
  <2>3. /\ UNCHANGED <<valid, blockno, data, pinned>> /\ disk'[want[p]] = data[i]
        /\ \A c \in Block : c # want[p] => disk'[c] = disk[c]
    BY <1>8, <1>0, <2>1 DEF Bwrite, bufVars
  <2>4. \A j \in Buf : j # i => CleanAt(j)'
    BY <1>0, <2>1, <2>2, <2>3 DEF Clean, CleanAt
  <2>5. CleanAt(i)'
    BY <1>0, <2>1, <2>3 DEF Clean, CleanAt
  <2> QED
    BY <2>4, <2>5 DEF Clean
<1>9. ASSUME NEW p \in Proc, Bpin(p)  PROVE Clean'
  <2>1. PICK i \in Buf : i = buf[p] /\ want[p] \in Block /\ blockno[i] = want[p]
    BY <1>9, <1>0 DEF Bpin
  <2>2. \A j \in Buf : j # i => blockno[j] # want[p] /\ (Changing(j)' <=> Changing(j))
    <3>1. \A j \in Buf : j # i => blockno[j] # want[p]
      BY <1>0, <2>1
    <3>2. buf' = buf /\ \A q \in Proc : q # p => pc'[q] = pc[q]
      BY <1>9, <1>0 DEF Bpin, Goto
    <3> QED
      BY <2>1, <3>1, <3>2 DEF Changing
  <2>3. /\ UNCHANGED <<valid, blockno, data, disk>> /\ pinned' = pinned \cup {want[p]}
    BY <1>9, <1>0, <2>1 DEF Bpin
  <2>4. \A j \in Buf : j # i => CleanAt(j)'
    BY <1>0, <2>1, <2>2, <2>3 DEF Clean, CleanAt
  <2>5. CleanAt(i)'
    BY <1>0, <2>1, <2>3 DEF Clean, CleanAt
  <2> QED
    BY <2>4, <2>5 DEF Clean
<1>10. ASSUME NEW p \in Proc, Bunpin(p)  PROVE Clean'
  <2>1. PICK i \in Buf : i = buf[p] /\ want[p] \in Block /\ blockno[i] = want[p]
    BY <1>10, <1>0 DEF Bunpin
  <2>2. \A j \in Buf : j # i => blockno[j] # want[p] /\ (Changing(j)' <=> Changing(j))
    <3>1. \A j \in Buf : j # i => blockno[j] # want[p]
      BY <1>0, <2>1
    <3>2. buf' = buf /\ \A q \in Proc : q # p => pc'[q] = pc[q]
      BY <1>10, <1>0 DEF Bunpin, Goto
    <3> QED
      BY <2>1, <3>1, <3>2 DEF Changing
  <2>3. /\ UNCHANGED <<valid, blockno, data>> /\ disk'[want[p]] = data[i] /\ pinned' = pinned \ {want[p]}
        /\ \A c \in Block : c # want[p] => disk'[c] = disk[c]
    BY <1>10, <1>0, <2>1 DEF Bunpin
  <2>4. \A j \in Buf : j # i => CleanAt(j)'
    BY <1>0, <2>1, <2>2, <2>3 DEF Clean, CleanAt
  <2>5. CleanAt(i)'
    BY <1>0, <2>1, <2>3 DEF Clean, CleanAt
  <2> QED
    BY <2>4, <2>5 DEF Clean
<1>11. ASSUME NEW p \in Proc, BrelseUnlock(p)  PROVE Clean'
  <2>1. Unlocks(p)
    BY <1>11, UnlockIs
  <2>2. UNCHANGED <<valid, blockno, data, disk, pinned>> /\ Keeps
    BY <1>11, <1>0, <2>1 DEF Unlocks, bufVars, Keeps
  <2> QED
    BY <2>2, <1>b
<1>12. ASSUME NEW p \in Proc, Brelse(p)  PROVE Clean'
  <2>1. UNCHANGED <<valid, blockno, data, disk, pinned>> /\ Keeps
    BY <1>12, <1>0 DEF Brelse, Goto, Keeps
  <2> QED
    BY <2>1, <1>b
<1>13. ASSUME NEW p \in Proc, Killed(p)  PROVE Clean'
  <2>1. UNCHANGED <<valid, blockno, data, disk, pinned>> /\ Keeps
    BY <1>13, <1>0 DEF Killed, bufVars, Keeps
  <2> QED
    BY <2>1, <1>b
<1> QED
  BY <1>1, <1>2, <1>3, <1>4, <1>5, <1>6, <1>7, <1>8, <1>9, <1>10, <1>11, <1>12, <1>13 DEF Next, Step

\* In every reachable state: this is why recycling a buffer loses nothing.
LEMMA CleanHolds == Spec => []Clean
<1>1. Init => Clean
  BY DEF Init, Clean, CleanAt
<1>2. IInv /\ Clean /\ [Next]_vars => Clean'
  BY CleanStep
<1> QED
  BY <1>1, <1>2, InvHolds, PTL DEF Spec

----------------------------------------------------------------------------
(* The mapping *)

\* Contents is what the one valid buffer of a block holds, else the disk.
Stores ==
  \A c \in Block :
    /\ \A i \in Buf : blockno[i] = c /\ valid[i] = 1 => Contents[c] = data[i]
    /\ (\A i \in Buf : blockno[i] = c => valid[i] # 1) => Contents[c] = disk[c]

\* User is the one process that uses a block.
Serves ==
  \A c \in Block :
    /\ \A p \in Proc : Using(p, c) => User[c] = p
    /\ (\A p \in Proc : ~Using(p, c)) => User[c] = None

\* The mapping is well defined: one buffer, and one user by the sleeping lock.
LEMMA Mapping == IInv => Stores /\ Serves
<1> SUFFICES ASSUME IInv, NEW c \in Block
             PROVE  /\ \A i \in Buf : blockno[i] = c /\ valid[i] = 1 => Contents[c] = data[i]
                    /\ (\A i \in Buf : blockno[i] = c => valid[i] # 1) => Contents[c] = disk[c]
                    /\ \A p \in Proc : Using(p, c) => User[c] = p
                    /\ (\A p \in Proc : ~Using(p, c)) => User[c] = None
  BY DEF Stores, Serves
<1>1. ASSUME NEW i \in Buf, blockno[i] = c, valid[i] = 1  PROVE Contents[c] = data[i]
  <2>1. \A j \in Cached(c) : j = i
    BY <1>1 DEF Cached, IInv, OneBuffer
  <2>2. i \in Cached(c)
    BY <1>1 DEF Cached
  <2>3. (CHOOSE j \in Cached(c) : valid[j] = 1) = i
    BY <1>1, <2>1, <2>2
  <2> QED
    BY <1>1, <2>2, <2>3 DEF Contents
<1>2. ASSUME \A i \in Buf : blockno[i] = c => valid[i] # 1  PROVE Contents[c] = disk[c]
  BY <1>2 DEF Contents, Cached
<1>3. ASSUME NEW p \in Proc, NEW q \in Proc, Using(p, c), Using(q, c)  PROVE p = q
  <2>1. /\ spc[p] = "in" /\ slk[p] = buf[p] /\ buf[p] \in Buf /\ blockno[buf[p]] = c
        /\ spc[q] = "in" /\ slk[q] = buf[q] /\ buf[q] \in Buf /\ blockno[buf[q]] = c
    BY <1>3 DEF Using, IInv, Places, RefcntExact
  <2>2. buf[p] = buf[q]
    BY <2>1 DEF IInv, OneBuffer
  <2> QED
    BY <2>1, <2>2 DEF IInv, LockInv, SL!Mutex
<1>4. ASSUME NEW p \in Proc, Using(p, c)  PROVE User[c] = p
  <2>1. (CHOOSE q \in Proc : Using(q, c)) = p
    BY <1>3, <1>4
  <2> QED
    BY <1>4, <2>1 DEF User
<1>5. ASSUME \A p \in Proc : ~Using(p, c)  PROVE User[c] = None
  BY <1>5 DEF User
<1> QED
  BY <1>1, <1>2, <1>4, <1>5

\* A step that keeps what each buffer and the disk hold keeps Contents.
LEMMA SameContents ==
  ASSUME UNCHANGED <<blockno, valid, data, disk>>
  PROVE  Contents' = Contents
  BY DEF Contents, Cached

\* A step that keeps who uses what keeps User.
LEMMA SameUser ==
  ASSUME \A q \in Proc, c \in Block : Using(q, c)' <=> Using(q, c)
  PROVE  User' = User
<1>1. \A c \in Block : (\E q \in Proc : Using(q, c)') <=> (\E q \in Proc : Using(q, c))
  OBVIOUS
<1>2. \A c \in Block : (CHOOSE q \in Proc : Using(q, c)') = (CHOOSE q \in Proc : Using(q, c))
  OBVIOUS
<1> QED
  BY <1>1, <1>2 DEF User

\* The facts about a process that the steps below need.
LEMMA UserIs ==
  ASSUME IInv, NEW p \in Proc, pc[p] \notin {"idle", "panic"}
  PROVE  /\ buf[p] \in Buf /\ want[p] \in Block /\ blockno[buf[p]] = want[p]
         /\ \A j \in Buf : j # buf[p] => blockno[j] # want[p]
         /\ pc[p] \in {"use", "changed", "done"} => valid[buf[p]] = 1
<1>1. buf[p] \in Buf /\ want[p] \in Block /\ blockno[buf[p]] = want[p]
  BY DEF IInv, Places, RefcntExact
<1> QED
  BY <1>1 DEF IInv, OneBuffer, Filled

\* A step that moves only p keeps who uses what unless p starts or stops.
LEMMA MoveUser ==
  ASSUME NEW p \in Proc, NEW l, pc \in [Proc -> {"idle", "bget", "bread", "use", "changed", "done", "brelse", "panic"}],
         pc' = [pc EXCEPT ![p] = l], UNCHANGED want,
         pc[p] \in {"bread", "use", "changed", "done"} <=> l \in {"bread", "use", "changed", "done"}
  PROVE  User' = User
<1>1. \A q \in Proc : pc'[q] \in {"bread", "use", "changed", "done"} <=> pc[q] \in {"bread", "use", "changed", "done"}
  OBVIOUS
<1>2. \A q \in Proc, c \in Block : Using(q, c)' <=> Using(q, c)
  BY <1>1 DEF Using
<1> QED
  BY <1>2, SameUser

\* virtio_disk_rw() of a block whose buffer is valid: the disk catches up.
LEMMA WriteBack ==
  ASSUME IInv, Stores, Stores', NEW p \in Proc, pc[p] \in {"use", "changed"},
         disk' = [disk EXCEPT ![want[p]] = data[buf[p]]], UNCHANGED <<blockno, valid, data>>
  PROVE  Contents' = Contents
<1>1. /\ buf[p] \in Buf /\ want[p] \in Block /\ blockno[buf[p]] = want[p]
      /\ valid[buf[p]] = 1
  BY UserIs
<1>2. disk \in [Block -> Val]
  BY DEF IInv, TypeOK
<1>3. ASSUME NEW c \in Block  PROVE Contents'[c] = Contents[c]
  <2>1. CASE \E i \in Buf : blockno[i] = c /\ valid[i] = 1
    BY <2>1 DEF Stores
  <2>2. CASE \A i \in Buf : blockno[i] = c => valid[i] # 1
    <3>1. c # want[p] /\ disk'[c] = disk[c]
      BY <1>1, <1>2, <2>2
    <3>2. Contents[c] = disk[c] /\ Contents'[c] = disk'[c]
      BY <2>2 DEF Stores
    <3> QED
      BY <3>1, <3>2
  <2> QED
    BY <2>1, <2>2
<1> QED
  BY <1>3 DEF Contents

\* Recycling a buffer loses nothing: what it holds is on the disk.
LEMMA RecycleKeeps ==
  ASSUME IInv, Clean, Stores, Stores',
         NEW p \in Proc, NEW b \in Block, NEW i \in Buf, Recycles(p, b, i)
  PROVE  Contents' = Contents
<1>1. /\ valid'[i] = 0 /\ UNCHANGED <<data, disk>>
      /\ \A j \in Buf : j # i => valid'[j] = valid[j] /\ blockno'[j] = blockno[j]
  BY DEF Recycles, IInv, TypeOK
<1>2. valid[i] = 1 => data[i] = disk[blockno[i]]
  <2>1. ~Changing(i)
    BY DEF Recycles, Users, Changing
  <2> QED
    BY <2>1 DEF Recycles, Clean, CleanAt
<1>3. ASSUME NEW c \in Block  PROVE Contents'[c] = Contents[c]
  <2>1. CASE \E j \in Buf : j # i /\ blockno[j] = c /\ valid[j] = 1
    BY <1>1, <2>1 DEF Stores
  <2>2. CASE \A j \in Buf : j # i /\ blockno[j] = c => valid[j] # 1
    <3>1. \A j \in Buf : blockno'[j] = c => valid'[j] # 1
      BY <1>1, <2>2
    <3>2. Contents'[c] = disk[c]
      BY <1>1, <3>1 DEF Stores
    <3>3. CASE blockno[i] = c /\ valid[i] = 1
      BY <1>2, <3>2, <3>3 DEF Stores
    <3>4. CASE ~(blockno[i] = c /\ valid[i] = 1)
      <4>1. \A j \in Buf : blockno[j] = c => valid[j] # 1
        BY <2>2, <3>4
      <4> QED
        BY <3>2, <4>1 DEF Stores
    <3> QED
      BY <3>3, <3>4
  <2> QED
    BY <2>1, <2>2
<1> QED
  BY <1>3 DEF Contents

\* bread() of a buffer that is not valid fills it with what the block holds.
LEMMA ReadKeeps ==
  ASSUME IInv, Stores, Stores', NEW p \in Proc, Bread(p)
  PROVE  Contents' = Contents
<1>1. PICK i \in Buf : /\ i = buf[p] /\ blockno[i] = want[p] /\ want[p] \in Block
                       /\ \A j \in Buf : j # i => blockno[j] # want[p]
  BY UserIs DEF Bread
<1>2. /\ data'[i] = (IF valid[i] = 1 THEN data[i] ELSE disk[want[p]]) /\ valid'[i] = 1
      /\ \A j \in Buf : j # i => data'[j] = data[j] /\ valid'[j] = valid[j]
      /\ UNCHANGED <<blockno, disk>>
  BY <1>1 DEF Bread, IInv, TypeOK
<1>3. valid[i] # 1 => Contents[want[p]] = disk[want[p]]
  BY <1>1 DEF Stores
<1>4. ASSUME NEW c \in Block  PROVE Contents'[c] = Contents[c]
  <2>1. CASE c = want[p]
    <3>1. Contents'[c] = data'[i]
      BY <1>1, <1>2, <2>1 DEF Stores
    <3>2. valid[i] = 1 => Contents[c] = data[i]
      BY <1>1, <2>1 DEF Stores
    <3> QED
      BY SMTT(30), <1>2, <1>3, <2>1, <3>1, <3>2
  <2>2. CASE c # want[p]
    <3>1. CASE \E j \in Buf : blockno[j] = c /\ valid[j] = 1
      <4>1. PICK j \in Buf : blockno[j] = c /\ valid[j] = 1 /\ j # i
        BY <1>1, <2>2, <3>1
      <4> QED
        BY <1>2, <4>1 DEF Stores
    <3>2. CASE \A j \in Buf : blockno[j] = c => valid[j] # 1
      BY <1>1, <1>2, <2>2, <3>2 DEF Stores
    <3> QED
      BY <3>1, <3>2
  <2> QED
    BY <2>1, <2>2
<1> QED
  BY <1>4 DEF Contents

\* acquiresleep() of a free lock: nobody else uses the block of the buffer.
LEMMA TakeStep ==
  ASSUME IInv, Serves, Serves', NEW p \in Proc, Locks(p), locked[buf[p]] = 0,
         pc' = [pc EXCEPT ![p] = "bread"]
  PROVE  BS!Take(p, want[p])
<1>1. buf[p] \in Buf /\ want[p] \in Block /\ \A j \in Buf : j # buf[p] => blockno[j] # want[p]
  BY UserIs DEF Locks
<1>2. ASSUME NEW q \in Proc, Using(q, want[p])  PROVE FALSE
  <2>1. /\ spc[q] = "in" /\ slk[q] = buf[q] /\ buf[q] \in Buf /\ blockno[buf[q]] = want[p]
    BY <1>2 DEF Using, IInv, Places, RefcntExact
  <2>2. buf[q] = buf[p]
    BY <1>1, <2>1
  <2>3. locked[buf[q]] = 1
    BY <2>1 DEF IInv, LockInv, SL!Mutex, SL!HoldingSleep
  <2> QED
    BY <2>2, <2>3
<1>3. User[want[p]] = None
  BY <1>1, <1>2 DEF Serves
<1>4. pc \in [Proc -> {"idle", "bget", "bread", "use", "changed", "done", "brelse", "panic"}] /\ want' = want /\ pc[p] = "bget"
  BY DEF Locks, IInv, TypeOK
<1>5. Using(p, want[p])' /\ \A q \in Proc, c \in Block : c # want[p] => (Using(q, c)' <=> Using(q, c))
  BY <1>4 DEF Using
<1>6. User'[want[p]] = p
  BY <1>1, <1>4, <1>5 DEF Serves
<1>7. ASSUME NEW c \in Block, c # want[p]  PROVE User'[c] = User[c]
  <2>1. CASE \E q \in Proc : Using(q, c)
    BY <1>5, <1>7, <2>1 DEF Serves
  <2>2. CASE \A q \in Proc : ~Using(q, c)
    BY <1>5, <1>7, <2>2 DEF Serves
  <2> QED
    BY <2>1, <2>2
<1>8. User' = [User EXCEPT ![want[p]] = p]
  BY <1>1, <1>6, <1>7 DEF User
<1>9. Contents' = Contents
  BY SameContents DEF Locks, bufVars
<1> QED
  BY <1>3, <1>8, <1>9 DEF BS!Take

\* A user of a block changes its contents.
LEMMA ChangeStep ==
  ASSUME IInv, Stores, Stores', Serves, NEW p \in Proc, NEW v \in Val, Change(p, v)
  PROVE  want[p] \in Block /\ BS!Change(want[p], v)
<1>1. PICK i \in Buf : /\ i = buf[p] /\ blockno[i] = want[p] /\ want[p] \in Block /\ valid[i] = 1
                       /\ \A j \in Buf : j # i => blockno[j] # want[p]
  BY UserIs DEF Change
<1>2. User[want[p]] = p
  BY <1>1 DEF Serves, Using, Change
<1>3. /\ data'[i] = v /\ UNCHANGED <<blockno, valid, disk, want>>
      /\ \A j \in Buf : j # i => data'[j] = data[j]
  BY <1>1 DEF Change, IInv, TypeOK
<1>4. Contents'[want[p]] = v
  BY <1>1, <1>3 DEF Stores
<1>5. ASSUME NEW c \in Block, c # want[p]  PROVE Contents'[c] = Contents[c]
  <2>1. CASE \E j \in Buf : blockno[j] = c /\ valid[j] = 1
    <3>1. PICK j \in Buf : blockno[j] = c /\ valid[j] = 1 /\ j # i
      BY <1>1, <1>5, <2>1
    <3> QED
      BY <1>3, <3>1 DEF Stores
  <2>2. CASE \A j \in Buf : blockno[j] = c => valid[j] # 1
    BY <1>3, <2>2 DEF Stores
  <2> QED
    BY <2>1, <2>2
<1>6. Contents' = [Contents EXCEPT ![want[p]] = v]
  <2>1. Contents = [c \in Block |-> Contents[c]] /\ Contents' = [c \in Block |-> Contents'[c]]
    BY DEF Contents
  <2> QED
    BY <1>1, <1>4, <1>5, <2>1
<1>7. pc' = [pc EXCEPT ![p] = "changed"] /\ pc[p] = "use" /\ want' = want
      /\ pc \in [Proc -> {"idle", "bget", "bread", "use", "changed", "done", "brelse", "panic"}]
  BY DEF Change, Goto, IInv, TypeOK
<1>8. User' = User
  BY <1>7, MoveUser
<1> QED
  BY <1>1, <1>2, <1>6, <1>8 DEF BS!Change

\* releasesleep(): the block has no user.
LEMMA DropStep ==
  ASSUME IInv, Serves, Serves', NEW p \in Proc, Unlocks(p)
  PROVE  want[p] \in Block /\ BS!Drop(want[p])
<1>1. want[p] \in Block
  BY UserIs DEF Unlocks
<1>2. /\ pc[p] \in {"use", "done"} /\ pc' = [pc EXCEPT ![p] = "brelse"] /\ want' = want
      /\ pc \in [Proc -> {"idle", "bget", "bread", "use", "changed", "done", "brelse", "panic"}]
  BY DEF Unlocks, IInv, TypeOK
<1>3. Using(p, want[p]) /\ User[want[p]] = p
  BY <1>1, <1>2 DEF Serves, Using
<1>4. \A q \in Proc, c \in Block : Using(q, c)' <=> q # p /\ Using(q, c)
  BY <1>2 DEF Using
<1>5. \A q \in Proc : Using(q, want[p]) => q = p
  BY <1>1, <1>3 DEF Serves
<1>6. User'[want[p]] = None
  BY <1>1, <1>4, <1>5 DEF Serves
<1>7. ASSUME NEW c \in Block, c # want[p]  PROVE User'[c] = User[c]
  <2>1. ~Using(p, c)
    BY <1>7 DEF Using
  <2>2. \A q \in Proc : Using(q, c)' <=> Using(q, c)
    BY <1>4, <2>1
  <2>3. CASE \E q \in Proc : Using(q, c)
    BY <2>2, <2>3 DEF Serves
  <2>4. CASE \A q \in Proc : ~Using(q, c)
    BY <2>2, <2>4 DEF Serves
  <2> QED
    BY <2>3, <2>4
<1>8. User' = [User EXCEPT ![want[p]] = None]
  BY <1>1, <1>6, <1>7 DEF User
<1>9. Contents' = Contents
  BY SameContents DEF Unlocks, bufVars
<1> QED
  BY <1>1, <1>3, <1>8, <1>9 DEF BS!Drop

\* Every step of the cache is a step of the block store, or none.
LEMMA StoreStep ==
  ASSUME IInv, Clean, Stores', Serves', [Next]_vars
  PROVE  BS!Next \/ UNCHANGED <<Contents, User>>
<1>0. /\ IInv /\ Clean /\ Stores /\ Stores' /\ Serves /\ Serves'
      /\ pc \in [Proc -> {"idle", "bget", "bread", "use", "changed", "done", "brelse", "panic"}]
      /\ want \in [Proc -> Block \cup {NoBlock}]
  BY Mapping DEF IInv, TypeOK
<1>1. ASSUME UNCHANGED vars  PROVE BS!Next \/ UNCHANGED <<Contents, User>>
  BY <1>1 DEF vars, bufVars, Contents, Cached, User, Using
<1>2. ASSUME NEW p \in Proc, NEW b \in Block, BgetHit(p, b)  PROVE BS!Next \/ UNCHANGED <<Contents, User>>
  <2>1. PICK i \in Buf : Hits(p, b, i)
    BY <1>2, HitIs
  <2>2. Contents' = Contents
    BY <2>1, SameContents DEF Hits
  <2>3. \A q \in Proc, c \in Block : Using(q, c)' <=> Using(q, c)
    BY <1>0, <2>1 DEF Hits, Using
  <2> QED
    BY <2>2, <2>3, SameUser
<1>3. ASSUME NEW p \in Proc, NEW b \in Block, BgetRecycle(p, b)  PROVE BS!Next \/ UNCHANGED <<Contents, User>>
  <2>1. PICK i \in Buf : Recycles(p, b, i)
    BY <1>3, RecycleIs
  <2>2. Contents' = Contents
    BY <1>0, <2>1, RecycleKeeps
  <2>3. \A q \in Proc, c \in Block : Using(q, c)' <=> Using(q, c)
    BY <1>0, <2>1 DEF Recycles, Using
  <2> QED
    BY <2>2, <2>3, SameUser
<1>4. ASSUME NEW p \in Proc, NEW b \in Block, BgetPanic(p, b)  PROVE BS!Next \/ UNCHANGED <<Contents, User>>
  <2>1. UNCHANGED <<blockno, valid, data, disk, want>> /\ pc' = [pc EXCEPT ![p] = "panic"] /\ pc[p] = "idle"
    BY <1>4 DEF BgetPanic, Goto, bufVars
  <2>2. User' = User
    BY <1>0, <2>1, MoveUser
  <2> QED
    BY <2>1, <2>2, SameContents
<1>5. ASSUME NEW p \in Proc, NEW v \in Val, Change(p, v)  PROVE BS!Next \/ UNCHANGED <<Contents, User>>
  BY <1>0, <1>5, ChangeStep DEF BS!Next
<1>6. ASSUME NEW p \in Proc, BgetLock(p)  PROVE BS!Next \/ UNCHANGED <<Contents, User>>
  <2>1. Locks(p)
    BY <1>6, BgetLockIs
  <2>2. CASE locked[buf[p]] = 0 /\ pc' = [pc EXCEPT ![p] = "bread"]
    <3>1. want[p] \in Block
      BY <2>1, UserIs DEF Locks
    <3> QED
      BY <1>0, <2>1, <2>2, <3>1, TakeStep DEF BS!Next
  <2>3. CASE pc' = pc
    <3>1. UNCHANGED <<blockno, valid, data, disk, want>>
      BY <2>1 DEF Locks, bufVars
    <3>2. \A q \in Proc, c \in Block : Using(q, c)' <=> Using(q, c)
      BY <2>3, <3>1 DEF Using
    <3> QED
      BY <3>1, <3>2, SameContents, SameUser
  <2> QED
    BY <2>1, <2>2, <2>3 DEF Locks
<1>7. ASSUME NEW p \in Proc, Bread(p)  PROVE BS!Next \/ UNCHANGED <<Contents, User>>
  <2>1. want' = want /\ pc' = [pc EXCEPT ![p] = "use"] /\ pc[p] = "bread"
    BY <1>7 DEF Bread, Goto
  <2>2. User' = User
    BY <1>0, <2>1, MoveUser
  <2> QED
    BY <1>0, <1>7, <2>2, ReadKeeps
<1>8. ASSUME NEW p \in Proc, Bwrite(p)  PROVE BS!Next \/ UNCHANGED <<Contents, User>>
  <2>1. /\ UNCHANGED <<blockno, valid, data, want>> /\ pc' = [pc EXCEPT ![p] = "done"] /\ pc[p] = "changed"
        /\ disk' = [disk EXCEPT ![want[p]] = data[buf[p]]]
    BY <1>8 DEF Bwrite, Goto, bufVars
  <2>2. User' = User
    BY <1>0, <2>1, MoveUser
  <2> QED
    BY <1>0, <2>1, <2>2, WriteBack
<1>9. ASSUME NEW p \in Proc, Bpin(p)  PROVE BS!Next \/ UNCHANGED <<Contents, User>>
  <2>1. UNCHANGED <<blockno, valid, data, disk, want>> /\ pc' = [pc EXCEPT ![p] = "done"] /\ pc[p] = "changed"
    BY <1>9 DEF Bpin, Goto
  <2>2. User' = User
    BY <1>0, <2>1, MoveUser
  <2> QED
    BY <2>1, <2>2, SameContents
<1>10. ASSUME NEW p \in Proc, Bunpin(p)  PROVE BS!Next \/ UNCHANGED <<Contents, User>>
  <2>1. /\ UNCHANGED <<blockno, valid, data, want>> /\ pc' = [pc EXCEPT ![p] = "done"] /\ pc[p] = "use"
        /\ disk' = [disk EXCEPT ![want[p]] = data[buf[p]]]
    BY <1>10 DEF Bunpin, Goto
  <2>2. User' = User
    BY <1>0, <2>1, MoveUser
  <2> QED
    BY <1>0, <2>1, <2>2, WriteBack
<1>11. ASSUME NEW p \in Proc, BrelseUnlock(p)  PROVE BS!Next \/ UNCHANGED <<Contents, User>>
  <2>1. Unlocks(p)
    BY <1>11, UnlockIs
  <2> QED
    BY <1>0, <2>1, DropStep DEF BS!Next
<1>12. ASSUME NEW p \in Proc, Brelse(p)  PROVE BS!Next \/ UNCHANGED <<Contents, User>>
  <2>1. UNCHANGED <<blockno, valid, data, disk>>
    BY <1>12 DEF Brelse
  <2>2. \A q \in Proc, c \in Block : Using(q, c)' <=> Using(q, c)
    BY <1>0, <1>12 DEF Brelse, Goto, Using
  <2> QED
    BY <2>1, <2>2, SameContents, SameUser
<1>13. ASSUME NEW p \in Proc, Killed(p)  PROVE BS!Next \/ UNCHANGED <<Contents, User>>
  <2>1. UNCHANGED <<blockno, valid, data, disk, pc, want>>
    BY <1>13 DEF Killed, bufVars
  <2>2. \A q \in Proc, c \in Block : Using(q, c)' <=> Using(q, c)
    BY <2>1 DEF Using
  <2> QED
    BY <2>1, <2>2, SameContents, SameUser
<1> QED
  BY <1>1, <1>2, <1>3, <1>4, <1>5, <1>6, <1>7, <1>8, <1>9, <1>10, <1>11, <1>12, <1>13 DEF Next, Step

\* Before the first bread() every block is zero and has no user.
LEMMA StoreInit == Init => BS!Init
<1> SUFFICES ASSUME Init  PROVE BS!Init
  OBVIOUS
<1>1. Contents = [b \in Block |-> Zero]
  BY DEF Init, Contents, Cached
<1>2. User = [b \in Block |-> None]
  BY DEF Init, User, Using
<1> QED
  BY <1>1, <1>2 DEF BS!Init

\* bread(), bwrite(), brelse(), bpin() and bunpin() implement a store in which
\* every block has one contents and one user at a time, whatever is cached.
THEOREM CoherentHolds == Spec => Coherent
<1>1. IInv /\ IInv' /\ Clean /\ [Next]_vars => [BS!Next]_(BS!vars)
  <2>1. IInv' => Stores' /\ Serves'
    BY Mapping, PTL
  <2> QED
    BY <2>1, StoreStep DEF BS!vars
<1> QED
  BY <1>1, StoreInit, InvHolds, CleanHolds, PTL DEF Spec, Coherent, BS!Spec
=============================================================================
