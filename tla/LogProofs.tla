----------------------------- MODULE LogProofs -----------------------------
(* Proofs about the control part of Log, for any number of processes, blocks *)
(* and log slots: types, the reservation of begin_op() and the write-ahead   *)
(* rule.                                                                     *)
EXTENDS Log, FiniteSetTheorems, TLAPS

CommitPC == {"write_log", "write_head", "install", "erase", "wake"}
RecoveryPC == {"read_head", "recover", "clear"}

\* The log slots admitted operations may still use.
Reserve == {s \in Proc \X (1..MAXOPBLOCKS) :
              s[1] \in Active /\ s[2] > Cardinality(wset[s[1]])}

Injective(s) == \A i, j \in 1..Len(s) : s[i] = s[j] => i = j

\* Who runs when: recovery alone, at most one committer and never beside an
\* operation.
Phases ==
  /\ \A p \in Proc : pc[p] \in RecoveryPC => p = InitProc
  /\ \A p \in Proc : pc[p] = "off" => InRecovery
  /\ InRecovery => \A p \in Proc \ {InitProc} : pc[p] = "off"
  /\ committing = 1 <=> \E p \in Proc : pc[p] \in CommitPC
  /\ \A p, q \in Proc : pc[p] \in CommitPC /\ pc[q] \in CommitPC => p = q
  /\ committing = 1 => Active = {}

Counting == IsFiniteSet(Active) /\ outstanding = Cardinality(Active)

Holding ==
  /\ \A p \in Proc : held[p] # None <=> pc[p] \in {"log_write", "panic"}
  /\ \A p, q \in Proc : held[p] = held[q] /\ held[p] # None => p = q

\* An operation logs at most OpBlocks blocks.
OpSets ==
  \A p \in Proc :
    /\ IsFiniteSet(wset[p]) /\ Cardinality(wset[p]) <= OpBlocks
    /\ p \notin Active => wset[p] = {}
    /\ \A b \in wset[p] : InLog(b)
    /\ held[p] # None => Cardinality(wset[p] \cup {held[p]}) <= OpBlocks

\* What is logged and what is still reserved fit in the log.
Reservation ==
  /\ IsFiniteSet(Reserve)
  /\ Len(lh) + Cardinality(Reserve) <= LOGSIZE

\* The headers, in memory and on disk, and the loop variable.
Headers ==
  /\ Injective(lh) /\ Injective(header) /\ Len(header) <= LOGSIZE
  /\ \A p \in Proc :
       /\ pc[p] \in {"install", "erase", "recover", "clear"} => header = lh
       /\ pc[p] = "read_head" => lh = <<>>
       /\ pc[p] = "write_log" => tail[p] <= Len(lh)
       /\ pc[p] \notin {"write_log", "write_head", "install", "recover"} => tail[p] = 1
  /\ (\A p \in Proc : pc[p] \notin {"install", "erase", "read_head", "recover", "clear"})
       => header = <<>>

\* The part of the invariant that is about control and about headers, which
\* does not depend on how buffers are recycled.
Control == TypeOK /\ Phases /\ Counting /\ Holding /\ OpSets /\ Reservation /\ Headers

----------------------------------------------------------------------------

USE ConstAssumption DEF ConstAssumption

\* uint arithmetic stays in range.
LEMMA IncDec ==
  \A r \in 0..(RefMod - 1) : Inc(r) \in 0..(RefMod - 1) /\ Dec(r) \in 0..(RefMod - 1)
  BY DEF Inc, Dec

\* Every action keeps the variables in their types.
LEMMA TypeStep ==
  ASSUME TypeOK, Counting, Holding, Headers, Reservation, [Next]_vars
  PROVE  TypeOK'
<1> USE DEF TypeOK, PC, durableVars, logVars, bufVars, procVars
<1>1. CASE UNCHANGED vars
  BY <1>1 DEF vars
<1>2. CASE Crash
  BY <1>2 DEF Crash, BootPC
<1>3. ASSUME NEW p \in Proc, Syscall(p)  PROVE TypeOK'
  BY <1>3 DEF Syscall
<1>4. ASSUME NEW p \in Proc, BeginSleep(p)  PROVE TypeOK'
  BY <1>4 DEF BeginSleep
<1>5. ASSUME NEW p \in Proc, BeginOp(p)  PROVE TypeOK'
  BY <1>5 DEF BeginOp
<1>6. ASSUME NEW p \in Proc, LogWriteAppend(p)  PROVE TypeOK'
  <2>1. held[p] \in Block
    BY <1>6 DEF LogWriteAppend, Holding
  <2>2. lh' \in Seq(Block)
    <3> HIDE DEF TypeOK
    <3>1. lh' = lh \/ lh' = Append(lh, held[p])
      BY <1>6 DEF LogWriteAppend
    <3>2. lh \in Seq(Block)
      BY DEF TypeOK
    <3> QED BY <3>1, <3>2, <2>1
  <2>3. ref' \in [Block -> 0..(RefMod - 1)]
    <3> HIDE DEF TypeOK
    <3>1. ref' = ref \/ ref' = [ref EXCEPT ![held[p]] = Dec(ref[held[p]])]
      BY <1>6 DEF LogWriteAppend
    <3>2. ref \in [Block -> 0..(RefMod - 1)]
      BY DEF TypeOK
    <3> QED BY <3>1, <3>2, <2>1 DEF Dec
  <2>4. wset' \in [Proc -> SUBSET Block] /\ held' \in [Proc -> Block \cup {None}]
    BY <1>6, <2>1 DEF LogWriteAppend, InLog, Dec
  <2>5. pc' \in [Proc -> PC] /\ UNCHANGED <<disk, logblk, header, outstanding, committing, cache, tail>>
    BY <1>6 DEF LogWriteAppend, durableVars
  <2> QED
    BY <2>2, <2>3, <2>4, <2>5
<1>7. ASSUME NEW p \in Proc, EndOp(p)  PROVE TypeOK'
  <2>1. p \in Active
    BY <1>7 DEF EndOp, Active
  <2>2. outstanding # 0
    BY <2>1, FS_EmptySet DEF Counting
  <2>3. pc' \in [Proc -> PC]
    BY ZenonT(30), <1>7 DEF EndOp, Wakeup
  <2>4. outstanding' \in Nat /\ committing' \in {0, 1} /\ wset' \in [Proc -> SUBSET Block]
    <3> HIDE DEF TypeOK
    <3>1. outstanding \in Nat /\ committing \in {0, 1} /\ wset \in [Proc -> SUBSET Block]
      BY DEF TypeOK
    <3>2. /\ outstanding' = outstanding - 1 /\ committing' \in {1, committing}
          /\ wset' = [wset EXCEPT ![p] = {}]
      BY <1>7 DEF EndOp
    <3> QED BY <2>2, <3>1, <3>2
  <2> QED
    BY <1>7, <2>3, <2>4 DEF EndOp
<1>8. ASSUME NEW p \in Proc, WriteLog(p)  PROVE TypeOK'
  <2>1. tail[p] \in 1..Len(lh) /\ lh[tail[p]] \in Block
    BY <1>8 DEF WriteLog, Headers
  <2>2. Bread(lh[tail[p]]) \in Val
    BY <2>1 DEF Bread
  <2>3. logblk' \in [1..LOGSIZE -> Val] /\ cache' \in [Block -> Val \cup {NotCached}]
    <3> HIDE DEF TypeOK
    <3>1. /\ logblk' = [logblk EXCEPT ![tail[p]] = Bread(lh[tail[p]])]
          /\ cache' = [cache EXCEPT ![lh[tail[p]]] = Bread(lh[tail[p]])]
      BY <1>8 DEF WriteLog
    <3>2. logblk \in [1..LOGSIZE -> Val] /\ cache \in [Block -> Val \cup {NotCached}]
      BY DEF TypeOK
    <3> QED BY ZenonT(30), <3>1, <3>2, <2>1, <2>2
  <2>4. pc' \in [Proc -> PC] /\ tail' \in [Proc -> Nat \ {0}]
    <3> HIDE DEF TypeOK
    <3>1. \/ pc' = [pc EXCEPT ![p] = "write_log"]
          \/ pc' = [pc EXCEPT ![p] = "write_head"]
      BY ZenonT(30), <1>8 DEF WriteLog
    <3>2. tail' = [tail EXCEPT ![p] = tail[p] + 1]
      BY <1>8 DEF WriteLog
    <3>3. pc \in [Proc -> PC] /\ tail \in [Proc -> Nat \ {0}]
      BY DEF TypeOK
    <3> QED BY <3>1, <3>2, <3>3
  <2>5. UNCHANGED <<disk, header, lh, outstanding, committing, ref, held, wset>>
    BY <1>8 DEF WriteLog
  <2> QED
    BY <2>3, <2>4, <2>5
<1>9. ASSUME NEW p \in Proc, WriteHead(p)  PROVE TypeOK'
  BY <1>9 DEF WriteHead
<1>10. ASSUME NEW p \in Proc, InstallBlock(p)  PROVE TypeOK'
  <2>1. Len(lh) <= LOGSIZE
    BY FS_CardinalityType DEF Reservation
  <2>2. lh[tail[p]] \in Block /\ logblk[tail[p]] \in Val
    BY <1>10, <2>1 DEF InstallBlock
  <2>3. disk' \in [Block -> Val] /\ cache' \in [Block -> Val \cup {NotCached}]
    BY <1>10, <2>2 DEF InstallBlock
  <2>4. ref' \in [Block -> 0..(RefMod - 1)]
    <3> HIDE DEF TypeOK
    <3>1. ref' = [ref EXCEPT ![lh[tail[p]]] = Dec(ref[lh[tail[p]]])]
      BY <1>10 DEF InstallBlock
    <3>2. ref \in [Block -> 0..(RefMod - 1)]
      BY DEF TypeOK
    <3> QED BY <3>1, <3>2, <2>2 DEF Dec
  <2>5. tail' \in [Proc -> Nat \ {0}]
    BY <1>10 DEF InstallBlock
  <2>6. UNCHANGED <<logblk, header, lh, outstanding, committing, pc, held, wset>>
    BY <1>10 DEF InstallBlock, logVars
  <2> QED
    BY <2>3, <2>4, <2>5, <2>6
<1>18. ASSUME NEW p \in Proc, InstallDone(p)  PROVE TypeOK'
  BY <1>18 DEF InstallDone
<1>11. ASSUME NEW p \in Proc, EraseHead(p)  PROVE TypeOK'
  BY <1>11 DEF EraseHead
<1>12. ASSUME NEW p \in Proc, CommitDone(p)  PROVE TypeOK'
  BY <1>12 DEF CommitDone, Wakeup
<1>13. ASSUME NEW p \in Proc, ReadHead(p)  PROVE TypeOK'
  BY <1>13 DEF ReadHead
<1>14. ASSUME NEW p \in Proc, ClearHead(p)  PROVE TypeOK'
  BY <1>14 DEF ClearHead
<1>15. ASSUME NEW p \in Proc, NEW b \in Block, ReadBlock(p, b)  PROVE TypeOK'
  BY <1>15 DEF ReadBlock, Bread
<1>16. ASSUME NEW p \in Proc, NEW b \in Block, NEW v \in Val, LogWriteCheck(p, b, v)
       PROVE  TypeOK'
  BY ZenonT(30), <1>16, IncDec DEF LogWriteCheck
<1>17. ASSUME NEW b \in Block, Recycle(b)  PROVE TypeOK'
  BY <1>17 DEF Recycle
<1> QED
  BY ZenonT(30), <1>1, <1>2, <1>3, <1>4, <1>5, <1>6, <1>7, <1>8, <1>9, <1>10, <1>11, <1>12,
     <1>13, <1>14, <1>15, <1>16, <1>17, <1>18 DEF Next, Commit, InstallTrans

\* The operation p is in: only begin_op adds it and only end_op removes it.
LEMMA ActiveStep ==
  ASSUME TypeOK, Phases, [Next]_vars
  PROVE  \/ Active' = Active /\ outstanding' = outstanding
         \/ Active' = {} /\ outstanding' = 0
         \/ \E p \in Proc : /\ p \notin Active /\ Active' = Active \cup {p}
                            /\ outstanding' = outstanding + 1
         \/ \E p \in Active : Active' = Active \ {p} /\ outstanding' = outstanding - 1
<1> USE DEF Active, logVars, procVars
<1>0. pc \in [Proc -> PC]
  BY DEF TypeOK
<1>1. CASE UNCHANGED vars
  BY <1>1 DEF vars
<1>2. CASE Crash
  BY <1>2 DEF Crash, BootPC
<1>3. ASSUME NEW p \in Proc, Syscall(p) \/ BeginSleep(p)
      PROVE  Active' = Active /\ outstanding' = outstanding
  BY <1>0, <1>3 DEF Syscall, BeginSleep
<1>4. ASSUME NEW p \in Proc, BeginOp(p)
      PROVE  p \notin Active /\ Active' = Active \cup {p} /\ outstanding' = outstanding + 1
  BY <1>0, <1>4 DEF BeginOp
<1>5. ASSUME NEW p \in Proc, LogWriteAppend(p)
      PROVE  Active' = Active /\ outstanding' = outstanding
  BY <1>0, <1>5 DEF LogWriteAppend
<1>6. ASSUME NEW p \in Proc, EndOp(p)
      PROVE  p \in Active /\ Active' = Active \ {p} /\ outstanding' = outstanding - 1
  <2>1. p \in Active /\ committing # 1
    BY <1>6 DEF EndOp, Phases
  <2> QED
    BY <1>0, <1>6, <2>1 DEF EndOp, Wakeup
<1>7. ASSUME NEW p \in Proc, Commit(p)
      PROVE  Active' = Active /\ outstanding' = outstanding
  <2>1. CASE WriteLog(p) \/ WriteHead(p)
    BY <1>0, <2>1 DEF WriteLog, WriteHead
  <2>2. CASE InstallTrans(p)
    BY <1>0, <2>2 DEF InstallTrans, InstallBlock, InstallDone
  <2>3. CASE EraseHead(p) \/ CommitDone(p)
    BY <1>0, <2>3 DEF EraseHead, CommitDone, Wakeup
  <2> QED
    BY <1>7, <2>1, <2>2, <2>3 DEF Commit
<1>8. ASSUME NEW p \in Proc, ReadHead(p) \/ ClearHead(p)
      PROVE  Active' = Active /\ outstanding' = outstanding
  <2>1. CASE ReadHead(p)
    BY <1>0, <2>1 DEF ReadHead
  <2>2. CASE ClearHead(p)
    <3>1. Active = {}
      BY <2>2 DEF ClearHead, Phases, RecoveryPC, InRecovery
    <3> QED
      BY <2>2, <3>1 DEF ClearHead
  <2> QED
    BY <1>8, <2>1, <2>2
<1>9. ASSUME NEW p \in Proc, NEW b \in Block, ReadBlock(p, b)
      PROVE  Active' = Active /\ outstanding' = outstanding
  BY <1>9 DEF ReadBlock
<1>10. ASSUME NEW p \in Proc, NEW b \in Block, NEW v \in Val, LogWriteCheck(p, b, v)
       PROVE  Active' = Active /\ outstanding' = outstanding
  BY <1>0, <1>10 DEF LogWriteCheck
<1>11. ASSUME NEW b \in Block, Recycle(b)
       PROVE  Active' = Active /\ outstanding' = outstanding
  BY <1>11 DEF Recycle
<1> HIDE DEF Active
<1> QED
  BY <1>1, <1>2, <1>3, <1>4, <1>5, <1>6, <1>7, <1>8, <1>9, <1>10, <1>11 DEF Next

\* log.outstanding counts the operations in progress.
LEMMA CountingStep ==
  ASSUME TypeOK, Phases, Counting, [Next]_vars
  PROVE  Counting'
<1>1. CASE Active' = Active /\ outstanding' = outstanding
  BY <1>1 DEF Counting
<1>2. CASE Active' = {} /\ outstanding' = 0
  BY <1>2, FS_EmptySet DEF Counting
<1>3. ASSUME NEW p \in Proc, p \notin Active, Active' = Active \cup {p},
             outstanding' = outstanding + 1
      PROVE  Counting'
  BY <1>3, FS_AddElement DEF Counting
<1>4. ASSUME NEW p \in Active, Active' = Active \ {p}, outstanding' = outstanding - 1
      PROVE  Counting'
  BY <1>4, FS_RemoveElement DEF Counting
<1> QED
  BY <1>1, <1>2, <1>3, <1>4, ActiveStep
\* Recovery runs alone, and one commit at a time with no operation open.
LEMMA PhasesStep ==
  ASSUME TypeOK, Phases, Counting, [Next]_vars
  PROVE  Phases'
<1> USE DEF Phases, CommitPC, RecoveryPC, Active, InRecovery, logVars, procVars
<1>0. pc \in [Proc -> PC] /\ committing \in {0, 1}
  BY DEF TypeOK
<1>1. CASE UNCHANGED vars
  BY <1>1 DEF vars
<1>2. CASE Crash
  BY <1>2 DEF Crash, BootPC
<1>3. ASSUME NEW p \in Proc, Syscall(p)  PROVE Phases'
  BY <1>3, <1>0 DEF Syscall
<1>4. ASSUME NEW p \in Proc, BeginSleep(p)  PROVE Phases'
  BY <1>4, <1>0 DEF BeginSleep
<1>5. ASSUME NEW p \in Proc, BeginOp(p)  PROVE Phases'
  <2>1. committing = 0
    BY <1>5, <1>0 DEF BeginOp, MustWait
  <2> QED
    BY <1>5, <1>0, <2>1 DEF BeginOp
<1>6. ASSUME NEW p \in Proc, LogWriteAppend(p)  PROVE Phases'
  BY <1>6, <1>0 DEF LogWriteAppend
<1>7. ASSUME NEW p \in Proc, EndOp(p)  PROVE Phases'
  <2>1. committing = 0
    BY <1>7, <1>0 DEF EndOp
  <2>2. CASE outstanding = 1
    <3>1. Active = {p}
      <4> HIDE DEF Active
      <4>1. PICK q : Active = {q}
        BY ZenonT(30), <2>2, FS_Singleton DEF Counting
      <4>2. p \in Active
        BY <1>7 DEF EndOp, Active
      <4> QED BY <4>1, <4>2
    <3> QED
      BY <1>7, <1>0, <2>1, <2>2, <3>1 DEF EndOp
  <2>3. CASE outstanding # 1
    BY <1>7, <1>0, <2>1, <2>3 DEF EndOp, Wakeup
  <2> QED
    BY <2>2, <2>3
<1>8. ASSUME NEW p \in Proc, WriteLog(p)  PROVE Phases'
  BY <1>8, <1>0 DEF WriteLog
<1>9. ASSUME NEW p \in Proc, WriteHead(p)  PROVE Phases'
  BY <1>9, <1>0 DEF WriteHead
<1>10. ASSUME NEW p \in Proc, InstallBlock(p)  PROVE Phases'
  BY <1>10, <1>0 DEF InstallBlock
<1>11. ASSUME NEW p \in Proc, InstallDone(p)  PROVE Phases'
  BY <1>11, <1>0 DEF InstallDone
<1>12. ASSUME NEW p \in Proc, EraseHead(p)  PROVE Phases'
  BY <1>12, <1>0 DEF EraseHead
<1>13. ASSUME NEW p \in Proc, CommitDone(p)  PROVE Phases'
  BY <1>13, <1>0 DEF CommitDone, Wakeup
<1>14. ASSUME NEW p \in Proc, ReadHead(p)  PROVE Phases'
  BY <1>14, <1>0 DEF ReadHead
<1>15. ASSUME NEW p \in Proc, ClearHead(p)  PROVE Phases'
  BY <1>15, <1>0 DEF ClearHead
<1>16. ASSUME NEW p \in Proc, NEW b \in Block, ReadBlock(p, b)  PROVE Phases'
  BY <1>16, <1>0 DEF ReadBlock
<1>17. ASSUME NEW p \in Proc, NEW b \in Block, NEW v \in Val, LogWriteCheck(p, b, v)
      PROVE  Phases'
  BY <1>17, <1>0 DEF LogWriteCheck
<1>18. ASSUME NEW b \in Block, Recycle(b)  PROVE Phases'
  BY <1>18, <1>0 DEF Recycle
<1> QED
  BY ZenonT(30), <1>1, <1>2, <1>3, <1>4, <1>5, <1>6, <1>7, <1>8, <1>9, <1>10,
     <1>11, <1>12, <1>13, <1>14, <1>15, <1>16, <1>17, <1>18
     DEF Next, Commit, InstallTrans

\* A buffer is modified by one process at a time.
LEMMA HoldingStep ==
  ASSUME TypeOK, Phases, Holding, [Next]_vars
  PROVE  Holding'
<1> USE DEF Holding, procVars
<1>0. pc \in [Proc -> PC] /\ held \in [Proc -> Block \cup {None}]
  BY DEF TypeOK
<1>1. CASE UNCHANGED vars
  BY <1>1 DEF vars
<1>2. CASE Crash
  BY <1>2 DEF Crash, BootPC
<1>3. ASSUME NEW p \in Proc, Syscall(p)  PROVE Holding'
  BY <1>3, <1>0 DEF Syscall
<1>4. ASSUME NEW p \in Proc, BeginSleep(p)  PROVE Holding'
  BY <1>4, <1>0 DEF BeginSleep
<1>5. ASSUME NEW p \in Proc, BeginOp(p)  PROVE Holding'
  BY <1>5, <1>0 DEF BeginOp
<1>6. ASSUME NEW p \in Proc, LogWriteAppend(p)  PROVE Holding'
  BY <1>6, <1>0 DEF LogWriteAppend
<1>7. ASSUME NEW p \in Proc, EndOp(p)  PROVE Holding'
  <2>1. committing # 1
    BY <1>7 DEF EndOp, Phases, Active
  <2> QED
    BY <1>7, <1>0, <2>1 DEF EndOp, Wakeup
<1>8. ASSUME NEW p \in Proc, WriteLog(p)  PROVE Holding'
  BY <1>8, <1>0 DEF WriteLog
<1>9. ASSUME NEW p \in Proc, WriteHead(p)  PROVE Holding'
  BY <1>9, <1>0 DEF WriteHead
<1>10. ASSUME NEW p \in Proc, InstallBlock(p)  PROVE Holding'
  BY <1>10, <1>0 DEF InstallBlock
<1>11. ASSUME NEW p \in Proc, InstallDone(p)  PROVE Holding'
  BY <1>11, <1>0 DEF InstallDone
<1>12. ASSUME NEW p \in Proc, EraseHead(p)  PROVE Holding'
  BY <1>12, <1>0 DEF EraseHead
<1>13. ASSUME NEW p \in Proc, CommitDone(p)  PROVE Holding'
  BY <1>13, <1>0 DEF CommitDone, Wakeup
<1>14. ASSUME NEW p \in Proc, ReadHead(p)  PROVE Holding'
  BY <1>14, <1>0 DEF ReadHead
<1>15. ASSUME NEW p \in Proc, ClearHead(p)  PROVE Holding'
  <2>1. \A q \in Proc : pc[q] \notin {"log_write", "panic"}
    BY <1>15 DEF ClearHead, Phases, RecoveryPC, InRecovery
  <2> QED
    BY <1>15, <1>0, <2>1 DEF ClearHead
<1>16. ASSUME NEW p \in Proc, NEW b \in Block, ReadBlock(p, b)  PROVE Holding'
  BY <1>16, <1>0 DEF ReadBlock
<1>17. ASSUME NEW p \in Proc, NEW b \in Block, NEW v \in Val, LogWriteCheck(p, b, v)
      PROVE  Holding'
  BY <1>17, <1>0 DEF LogWriteCheck
<1>18. ASSUME NEW b \in Block, Recycle(b)  PROVE Holding'
  BY <1>18, <1>0 DEF Recycle
<1> QED
  BY ZenonT(30), <1>1, <1>2, <1>3, <1>4, <1>5, <1>6, <1>7, <1>8, <1>9, <1>10,
     <1>11, <1>12, <1>13, <1>14, <1>15, <1>16, <1>17, <1>18
     DEF Next, Commit, InstallTrans

\* What Append does to a sequence.
LEMMA AppendFacts ==
  ASSUME NEW s \in Seq(Block), NEW b \in Block
  PROVE  /\ Append(s, b) \in Seq(Block)
         /\ Len(Append(s, b)) = Len(s) + 1
         /\ \A i \in 1..Len(s) : Append(s, b)[i] = s[i]
         /\ Append(s, b)[Len(s) + 1] = b
  OBVIOUS

\* The headers never name a block twice, and the one on disk is the one in memory
\* from write_head to its erasure.
LEMMA HeadersStep ==
  ASSUME TypeOK, Phases, Holding, Reservation, Headers, [Next]_vars
  PROVE  Headers'
<1> USE DEF Headers, durableVars, logVars, procVars
<1>0. /\ pc \in [Proc -> PC] /\ tail \in [Proc -> Nat \ {0}]
      /\ lh \in Seq(Block) /\ header \in Seq(Block)
  BY DEF TypeOK
<1>00. Injective(<<>>) /\ Len(<<>>) = 0 /\ Len(lh) <= LOGSIZE
  BY FS_CardinalityType, <1>0 DEF Injective, Reservation
<1>1. CASE UNCHANGED vars
  BY <1>1 DEF vars
<1>2. CASE Crash
  BY <1>2, <1>0, <1>00 DEF Crash, BootPC
<1>3. ASSUME NEW p \in Proc, Syscall(p)  PROVE Headers'
  BY <1>3, <1>0 DEF Syscall
<1>4. ASSUME NEW p \in Proc, BeginSleep(p)  PROVE Headers'
  BY <1>4, <1>0 DEF BeginSleep
<1>5. ASSUME NEW p \in Proc, BeginOp(p)  PROVE Headers'
  BY SMTT(30), <1>5, <1>0 DEF BeginOp
<1>6. ASSUME NEW p \in Proc, LogWriteAppend(p)  PROVE Headers'
  <2>1. held[p] \in Block
    BY <1>6 DEF LogWriteAppend, Holding, TypeOK
  <2>2. CASE UNCHANGED lh
    BY ZenonT(30), <1>6, <1>0, <2>2 DEF LogWriteAppend
  <2>3. CASE ~InLog(held[p]) /\ lh' = Append(lh, held[p])
    <3>1. Injective(lh)'
      BY SMTT(30), <1>0, <2>1, <2>3, AppendFacts DEF InLog, Injective
    <3>2. \A q \in Proc : pc[q] \notin CommitPC \cup RecoveryPC
      BY <1>6 DEF LogWriteAppend, Phases, Active, CommitPC, RecoveryPC, InRecovery
    <3> QED
      BY SMTT(30), <1>6, <1>0, <3>1, <3>2 DEF LogWriteAppend, CommitPC, RecoveryPC
  <2> QED
    BY <1>6, <2>2, <2>3 DEF LogWriteAppend
<1>7. ASSUME NEW p \in Proc, EndOp(p)  PROVE Headers'
  BY SMTT(30), <1>7, <1>0 DEF EndOp, Wakeup
<1>8. ASSUME NEW p \in Proc, WriteLog(p)  PROVE Headers'
  BY <1>8, <1>0 DEF WriteLog
<1>9. ASSUME NEW p \in Proc, WriteHead(p)  PROVE Headers'
  <2>1. \A q \in Proc \ {p} : pc[q] \notin CommitPC \cup RecoveryPC
    BY <1>9 DEF WriteHead, Phases, CommitPC, RecoveryPC, InRecovery
  <2> QED
    BY <1>9, <1>0, <1>00, <2>1 DEF WriteHead, CommitPC, RecoveryPC
<1>10. ASSUME NEW p \in Proc, InstallBlock(p)  PROVE Headers'
  BY <1>10, <1>0 DEF InstallBlock
<1>11. ASSUME NEW p \in Proc, InstallDone(p)  PROVE Headers'
  BY <1>11, <1>0 DEF InstallDone
<1>12. ASSUME NEW p \in Proc, EraseHead(p)  PROVE Headers'
  <2>1. \A q \in Proc \ {p} : pc[q] \notin CommitPC \cup RecoveryPC
    BY <1>12 DEF EraseHead, Phases, CommitPC, RecoveryPC, InRecovery
  <2> QED
    BY <1>12, <1>0, <1>00, <2>1 DEF EraseHead, CommitPC, RecoveryPC
<1>13. ASSUME NEW p \in Proc, CommitDone(p)  PROVE Headers'
  BY <1>13, <1>0 DEF CommitDone, Wakeup
<1>14. ASSUME NEW p \in Proc, ReadHead(p)  PROVE Headers'
  <2>1. p = InitProc /\ \A q \in Proc \ {p} : pc[q] = "off"
    BY <1>14 DEF ReadHead, Phases, RecoveryPC, InRecovery
  <2> QED
    BY SMTT(30), <1>14, <1>0, <1>00, <2>1 DEF ReadHead
<1>15. ASSUME NEW p \in Proc, ClearHead(p)  PROVE Headers'
  <2>1. p = InitProc /\ \A q \in Proc \ {p} : pc[q] = "off"
    BY <1>15 DEF ClearHead, Phases, RecoveryPC, InRecovery
  <2> QED
    BY <1>15, <1>0, <1>00, <2>1 DEF ClearHead
<1>16. ASSUME NEW p \in Proc, NEW b \in Block, ReadBlock(p, b)  PROVE Headers'
  BY <1>16, <1>0 DEF ReadBlock
<1>17. ASSUME NEW p \in Proc, NEW b \in Block, NEW v \in Val, LogWriteCheck(p, b, v)
      PROVE  Headers'
  BY <1>17, <1>0 DEF LogWriteCheck
<1>18. ASSUME NEW b \in Block, Recycle(b)  PROVE Headers'
  BY <1>18, <1>0 DEF Recycle
<1> QED
  BY ZenonT(30), <1>1, <1>2, <1>3, <1>4, <1>5, <1>6, <1>7, <1>8, <1>9, <1>10,
     <1>11, <1>12, <1>13, <1>14, <1>15, <1>16, <1>17, <1>18
     DEF Next, Commit, InstallTrans

\* No operation logs more distinct blocks than OpBlocks.
LEMMA OpSetsStep ==
  ASSUME TypeOK, Phases, Holding, OpSets, [Next]_vars
  PROVE  OpSets'
<1> USE DEF durableVars, logVars, bufVars, procVars
<1>0. /\ pc \in [Proc -> PC] /\ wset \in [Proc -> SUBSET Block] /\ lh \in Seq(Block)
      /\ held \in [Proc -> Block \cup {None}]
  BY DEF TypeOK
<1>a. ASSUME UNCHANGED <<lh, wset, held>>, Active \subseteq Active'
      PROVE  OpSets'
  BY <1>a DEF OpSets, InLog
<1>b. ASSUME Active = {}, Active' = {}, UNCHANGED <<wset, held>>
      PROVE  OpSets'
  <2>1. \A p \in Proc : wset[p] = {}
    BY ZenonT(30), <1>b DEF OpSets
  <2> QED
    BY <1>b, <2>1, FS_EmptySet DEF OpSets
<1>1. CASE UNCHANGED vars
  BY <1>1, <1>a DEF vars, Active
<1>2. CASE Crash
  BY <1>2, FS_EmptySet DEF Crash, OpSets
<1>3. ASSUME NEW p \in Proc, Syscall(p) \/ BeginSleep(p) \/ BeginOp(p)  PROVE OpSets'
  <2>1. UNCHANGED <<lh, wset, held>> /\ Active \subseteq Active'
    BY <1>0, <1>3 DEF Syscall, BeginSleep, BeginOp, Active
  <2> QED BY <1>a, <2>1
<1>4. ASSUME NEW p \in Proc, LogWriteAppend(p)  PROVE OpSets'
  <2>1. held[p] \in Block /\ held' = [held EXCEPT ![p] = None] /\ Active' = Active /\ p \in Active
    BY <1>0, <1>4 DEF LogWriteAppend, Holding, Active
  <2>2. wset' = [wset EXCEPT ![p] = wset[p] \cup {held[p]}]
    BY <1>4 DEF LogWriteAppend
  <2>3. IsFiniteSet(wset[p] \cup {held[p]}) /\ Cardinality(wset[p] \cup {held[p]}) <= OpBlocks
    BY ZenonT(30), <2>1, FS_AddElement DEF OpSets
  <2>4. \A b \in Block : InLog(b) \/ b = held[p] => InLog(b)'
    <3>1. CASE InLog(held[p]) /\ UNCHANGED lh
      BY <3>1 DEF InLog
    <3>2. CASE lh' = Append(lh, held[p])
      <4>1. /\ Len(lh') = Len(lh) + 1 /\ Len(lh) \in Nat
            /\ \A i \in 1..Len(lh) : lh'[i] = lh[i]
            /\ lh'[Len(lh) + 1] = held[p]
        BY <1>0, <2>1, <3>2, AppendFacts
      <4>2. 1..Len(lh) \subseteq 1..Len(lh') /\ Len(lh) + 1 \in 1..Len(lh')
        BY <4>1
      <4> QED BY <4>1, <4>2 DEF InLog
    <3>3. (InLog(held[p]) /\ UNCHANGED lh) \/ lh' = Append(lh, held[p])
      BY <1>4 DEF LogWriteAppend
    <3> QED BY <3>1, <3>2, <3>3
  <2>5. \A b \in wset'[p] : InLog(b)'
    BY ZenonT(30), <1>0, <2>1, <2>2, <2>4 DEF OpSets
  <2>6. ASSUME NEW q \in Proc, q # p
        PROVE  wset'[q] = wset[q] /\ held'[q] = held[q] /\ \A b \in wset[q] : InLog(b)'
    BY ZenonT(30), <1>0, <2>1, <2>2, <2>4, <2>6 DEF OpSets
  <2> QED
    BY <1>0, <2>1, <2>2, <2>3, <2>5, <2>6 DEF OpSets
<1>5. ASSUME NEW p \in Proc, EndOp(p)  PROVE OpSets'
  <2>1. committing # 1 /\ held[p] = None
    BY <1>5 DEF EndOp, Phases, Active, Holding
  <2>2. UNCHANGED <<lh, held>> /\ wset' = [wset EXCEPT ![p] = {}]
    BY <1>5 DEF EndOp
  <2>3. \A q \in Proc \ {p} : q \notin Active' => q \notin Active
    BY <1>0, <1>5, <2>1 DEF EndOp, Wakeup, Active
  <2>4. \A b : InLog(b)' <=> InLog(b)
    BY SMTT(30), <2>2 DEF InLog
  <2> QED
    BY <1>0, <2>1, <2>2, <2>3, <2>4, FS_EmptySet DEF OpSets
<1>6. ASSUME NEW p \in Proc, WriteLog(p) \/ WriteHead(p) \/ InstallTrans(p)  PROVE OpSets'
  <2>1. UNCHANGED <<lh, wset, held>> /\ Active \subseteq Active'
    BY <1>0, <1>6 DEF WriteLog, WriteHead, InstallTrans, InstallBlock, InstallDone, Active
  <2> QED BY <1>a, <2>1
<1>7. ASSUME NEW p \in Proc, CommitDone(p)  PROVE OpSets'
  <2>1. UNCHANGED <<lh, wset, held>> /\ Active \subseteq Active'
    BY <1>0, <1>7 DEF CommitDone, Wakeup, Active
  <2> QED BY <1>a, <2>1
<1>8. ASSUME NEW p \in Proc, EraseHead(p)  PROVE OpSets'
  <2>1. Active = {}
    BY <1>8 DEF EraseHead, Phases, CommitPC
  <2>2. Active' = {} /\ UNCHANGED <<wset, held>>
    BY <1>0, <1>8, <2>1 DEF EraseHead, Active
  <2> QED BY <1>b, <2>1, <2>2
<1>9. ASSUME NEW p \in Proc, ReadHead(p) \/ ClearHead(p)  PROVE OpSets'
  <2>1. Active = {}
    BY <1>9 DEF ReadHead, ClearHead, Phases, RecoveryPC, InRecovery, Active
  <2>2. Active' = {} /\ UNCHANGED <<wset, held>>
    BY <1>0, <1>9, <2>1 DEF ReadHead, ClearHead, Active
  <2> QED BY <1>b, <2>1, <2>2
<1>10. ASSUME NEW p \in Proc, NEW b \in Block, ReadBlock(p, b) \/ Recycle(b)  PROVE OpSets'
  BY <1>10, <1>a DEF ReadBlock, Recycle, Active
<1>11. ASSUME NEW p \in Proc, NEW b \in Block, NEW v \in Val, LogWriteCheck(p, b, v)
       PROVE  OpSets'
  <2>1. /\ held' = [held EXCEPT ![p] = b] /\ UNCHANGED <<lh, wset>> /\ Active' = Active
        /\ Cardinality(wset[p] \cup {b}) <= OpBlocks
    BY <1>0, <1>11 DEF LogWriteCheck, Active
  <2>2. \A c : InLog(c)' <=> InLog(c)
    BY <2>1 DEF InLog
  <2> QED
    BY ZenonT(30), <1>0, <2>1, <2>2 DEF OpSets
<1> QED
  BY <1>1, <1>2, <1>3, <1>4, <1>5, <1>6, <1>7, <1>8, <1>9, <1>10, <1>11 DEF Next, Commit

\* begin_op's admission test leaves room for every admitted operation, so the
\* append under log.lock fits although the test before it takes no lock.
LEMMA ReservationStep ==
  ASSUME TypeOK, Phases, Counting, Counting', Holding, OpSets, OpSets', Reservation, Headers,
         TypeOK', [Next]_vars
  PROVE  Reservation'
<1> USE DEF durableVars, logVars, bufVars, procVars
<1>0. /\ pc \in [Proc -> PC] /\ wset \in [Proc -> SUBSET Block] /\ lh \in Seq(Block)
      /\ held \in [Proc -> Block \cup {None}] /\ Len(lh) \in Nat /\ Len(lh') \in Nat
  BY DEF TypeOK
<1>00. Cardinality(Reserve) \in Nat /\ IsFiniteSet(Reserve)
  BY SMTT(30), FS_CardinalityType DEF Reservation
<1>a. ASSUME Reserve' \subseteq Reserve, Len(lh') <= Len(lh)  PROVE Reservation'
  <2>1. IsFiniteSet(Reserve') /\ Cardinality(Reserve') <= Cardinality(Reserve)
    BY <1>a, <1>00, FS_Subset
  <2>2. Cardinality(Reserve') \in Nat
    BY <2>1, FS_CardinalityType
  <2> QED BY <1>0, <1>00, <1>a, <2>1, <2>2 DEF Reservation
<1>b. ASSUME Active' \subseteq Active, UNCHANGED wset  PROVE Reserve' \subseteq Reserve
  BY <1>b DEF Reserve
<1>1. CASE UNCHANGED vars
  BY <1>0, <1>1, <1>a DEF vars, Reserve, Active
<1>2. CASE Crash
  <2>1. Reserve' = {} /\ Len(lh') = 0
    BY <1>2 DEF Crash, BootPC, Reserve, Active
  <2> QED BY <1>a, <1>0, <2>1
<1>3. ASSUME NEW p \in Proc, BeginOp(p)  PROVE Reservation'
  <2>1. outstanding' = outstanding + 1 /\ UNCHANGED lh
        /\ ~(Len(lh) + (outstanding + 1) * MAXOPBLOCKS > LOGSIZE)
    BY <1>3 DEF BeginOp, MustWait
  <2>2. Reserve' \subseteq Active' \X (1..MAXOPBLOCKS)
    BY DEF Reserve
  <2>3. IsFiniteSet(Active') /\ Cardinality(Active') = outstanding'
    BY DEF Counting
  <2>4. IsFiniteSet(1..MAXOPBLOCKS) /\ Cardinality(1..MAXOPBLOCKS) = MAXOPBLOCKS
    BY FS_Interval
  <2>5. /\ IsFiniteSet(Active' \X (1..MAXOPBLOCKS))
        /\ Cardinality(Active' \X (1..MAXOPBLOCKS)) = outstanding' * MAXOPBLOCKS
    BY <2>3, <2>4, FS_Product
  <2>6. IsFiniteSet(Reserve') /\ Cardinality(Reserve') <= outstanding' * MAXOPBLOCKS
    BY <2>2, <2>5, FS_Subset
  <2>7. Cardinality(Reserve') \in Nat
    BY <2>6, FS_CardinalityType
  <2>8. outstanding' * MAXOPBLOCKS \in Nat /\ outstanding' * MAXOPBLOCKS = (outstanding + 1) * MAXOPBLOCKS
    BY <2>1, <2>3, FS_CardinalityType
  <2> DEFINE m == outstanding' * MAXOPBLOCKS
  <2>9. m \in Nat /\ ~(Len(lh) + m > LOGSIZE) /\ Cardinality(Reserve') <= m
    BY <2>1, <2>6, <2>8
  <2> HIDE DEF m
  <2>10. Len(lh') + Cardinality(Reserve') <= LOGSIZE
    BY <1>0, <2>1, <2>7, <2>9
  <2> QED BY <2>6, <2>10 DEF Reservation
<1>4. ASSUME NEW p \in Proc, LogWriteAppend(p)  PROVE Reservation'
  <2>1. held[p] \in Block /\ Active' = Active /\ p \in Active
    BY <1>0, <1>4 DEF LogWriteAppend, Holding, Active
  <2>2. wset' = [wset EXCEPT ![p] = wset[p] \cup {held[p]}]
    BY <1>4 DEF LogWriteAppend
  <2> DEFINE n == Cardinality(wset[p])
             m == Cardinality(wset[p] \cup {held[p]})
  <2>3. n \in Nat /\ m \in Nat /\ m = (IF held[p] \in wset[p] THEN n ELSE n + 1) /\ m <= OpBlocks
    BY ZenonT(30), <2>1, FS_AddElement, FS_CardinalityType DEF OpSets
  <2>4. \A q \in Proc : Cardinality(wset'[q]) = IF q = p THEN m ELSE Cardinality(wset[q])
    BY <1>0, <2>2
  <2> HIDE DEF n, m
  <2>5. Reserve' = {s \in Proc \X (1..MAXOPBLOCKS) :
              s[1] \in Active /\ s[2] > (IF s[1] = p THEN m ELSE Cardinality(wset[s[1]]))}
    BY <2>1, <2>4 DEF Reserve
  <2>6. Reserve' \subseteq Reserve
    BY <2>3, <2>5 DEF Reserve, n
  <2>7. CASE UNCHANGED lh
    BY <1>a, <1>0, <2>6, <2>7
  <2>8. CASE ~InLog(held[p]) /\ lh' = Append(lh, held[p])
    <3>1. held[p] \notin wset[p]
      BY ZenonT(30), <2>8 DEF OpSets
    <3>2. m = n + 1 /\ n + 1 \in 1..MAXOPBLOCKS
      BY SMTT(30), <2>3, <3>1
    <3>3. <<p, n + 1>> \in Reserve /\ <<p, n + 1>> \notin Reserve'
      BY <2>1, <2>3, <2>5, <3>2 DEF Reserve, n
    <3>4. Reserve' \subseteq Reserve \ {<<p, n + 1>>}
      BY <2>6, <3>3
    <3>5. /\ IsFiniteSet(Reserve \ {<<p, n + 1>>})
          /\ Cardinality(Reserve \ {<<p, n + 1>>}) = Cardinality(Reserve) - 1
      BY <1>00, <3>3, FS_RemoveElement
    <3>6. IsFiniteSet(Reserve') /\ Cardinality(Reserve') <= Cardinality(Reserve) - 1
      BY <3>4, <3>5, FS_Subset
    <3>7. Cardinality(Reserve') \in Nat
      BY <3>6, FS_CardinalityType
    <3>8. Len(lh') = Len(lh) + 1
      BY <1>0, <2>1, <2>8, AppendFacts
    <3> QED
      BY <1>0, <1>00, <3>6, <3>7, <3>8 DEF Reservation
  <2> QED BY <1>4, <2>7, <2>8 DEF LogWriteAppend
<1>5. ASSUME NEW p \in Proc, EndOp(p)  PROVE Reservation'
  <2>1. committing # 1 /\ UNCHANGED lh /\ wset' = [wset EXCEPT ![p] = {}]
    BY <1>5 DEF EndOp, Phases, Active
  <2>2. Active' \subseteq Active \ {p}
    BY <1>0, <1>5, <2>1 DEF EndOp, Wakeup, Active
  <2>3. Reserve' \subseteq Reserve
    BY <1>0, <2>1, <2>2 DEF Reserve
  <2> QED BY <1>0, <1>a, <2>1, <2>3
<1>6. ASSUME NEW p \in Proc, Syscall(p) \/ BeginSleep(p) \/ WriteLog(p) \/ WriteHead(p) \/ InstallTrans(p)
      PROVE  Reservation'
  <2>1. UNCHANGED <<lh, wset>> /\ Active' \subseteq Active
    BY <1>0, <1>6 DEF Syscall, BeginSleep, WriteLog, WriteHead, InstallTrans, InstallBlock,
                      InstallDone, Active
  <2> QED BY SMTT(30), <1>0, <1>a, <1>b, <2>1
<1>7. ASSUME NEW p \in Proc, CommitDone(p)  PROVE Reservation'
  <2>1. UNCHANGED <<lh, wset>> /\ Active' \subseteq Active
    BY <1>0, <1>7 DEF CommitDone, Wakeup, Active
  <2> QED BY <1>0, <1>a, <1>b, <2>1
<1>8. ASSUME NEW p \in Proc, EraseHead(p) \/ ClearHead(p)  PROVE Reservation'
  <2>1. Len(lh') = 0 /\ UNCHANGED wset /\ Active' \subseteq Active
    BY <1>0, <1>8 DEF EraseHead, ClearHead, Active
  <2> QED BY <1>0, <1>a, <1>b, <2>1
<1>9. ASSUME NEW p \in Proc, ReadHead(p)  PROVE Reservation'
  <2>1. Active' = {}
    BY <1>0, <1>9 DEF ReadHead, Phases, RecoveryPC, InRecovery, Active
  <2>2. Reserve' = {}
    BY <2>1 DEF Reserve
  <2>3. Len(lh') <= LOGSIZE
    BY <1>9 DEF ReadHead, Headers
  <2> QED BY <1>0, <2>2, <2>3, FS_EmptySet DEF Reservation
<1>10. ASSUME NEW p \in Proc, NEW b \in Block, ReadBlock(p, b) \/ Recycle(b)  PROVE Reservation'
  <2>1. UNCHANGED <<lh, wset>> /\ Active' \subseteq Active
    BY <1>10 DEF ReadBlock, Recycle, Active
  <2> QED BY <1>0, <1>a, <1>b, <2>1
<1>11. ASSUME NEW p \in Proc, NEW b \in Block, NEW v \in Val, LogWriteCheck(p, b, v)
       PROVE  Reservation'
  <2>1. UNCHANGED <<lh, wset>> /\ Active' \subseteq Active
    BY <1>0, <1>11 DEF LogWriteCheck, Active
  <2> QED BY <1>0, <1>a, <1>b, <2>1
<1> QED
  BY SMTT(30), <1>1, <1>2, <1>3, <1>4, <1>5, <1>6, <1>7, <1>8, <1>9, <1>10, <1>11 DEF Next, Commit

----------------------------------------------------------------------------
(* The theorems *)

\* The boot state.
LEMMA InitControl == Init => Control
<1> SUFFICES ASSUME Init PROVE Control
  OBVIOUS
<1> USE DEF Init, BootPC
<1>1. TypeOK
  BY DEF TypeOK, PC
<1>2. Active = {} /\ InRecovery
  BY DEF Active, InRecovery
<1>3. Phases
  BY <1>2 DEF Phases, RecoveryPC, CommitPC, InRecovery
<1>4. Counting
  BY <1>2, FS_EmptySet DEF Counting
<1>5. Holding /\ OpSets /\ Headers
  BY FS_EmptySet DEF Holding, OpSets, Headers, Injective
<1>6. Reservation
  <2>1. Reserve = {}
    BY <1>2 DEF Reserve
  <2> QED BY <2>1, FS_EmptySet DEF Reservation
<1> QED
  BY <1>1, <1>3, <1>4, <1>5, <1>6 DEF Control

LEMMA ControlStep ==
  ASSUME Control, [Next]_vars
  PROVE  Control'
<1>1. TypeOK' /\ Phases' /\ Counting' /\ Holding' /\ OpSets' /\ Headers'
  BY TypeStep, PhasesStep, CountingStep, HoldingStep, OpSetsStep, HeadersStep DEF Control
<1>2. Reservation'
  BY <1>1, ReservationStep DEF Control
<1> QED
  BY <1>1, <1>2 DEF Control

LEMMA ControlInv == Spec => []Control
<1>1. Control /\ [Next]_vars => Control'
  BY ControlStep
<1> QED
  BY <1>1, InitControl, PTL DEF Spec

\* Types are kept whatever the working set and however often power fails.
THEOREM TypeCorrect == Spec => []TypeOK
<1>1. Control => TypeOK
  BY DEF Control
<1> QED
  BY <1>1, ControlInv, PTL

\* install_trans() writes a home block only when the header on disk names it
\* and with the logged contents: the write-ahead rule, for every interleaving
\* and every crash, recovery's own included.
THEOREM WriteAheadHolds == Spec => WriteAhead
<1> DEFINE A == \A b \in Block : disk'[b] # disk[b] =>
                  \E i \in 1..Len(header) : header[i] = b /\ disk'[b] = logblk[i]
<1>1. ASSUME Control, [Next]_vars  PROVE [A]_vars
  <2>1. CASE UNCHANGED disk
    BY <2>1
  <2>2. ASSUME NEW p \in Proc, InstallBlock(p)  PROVE A
    <3>1. disk \in [Block -> Val] /\ lh \in Seq(Block) /\ tail[p] \in Nat \ {0}
      BY <1>1 DEF Control, TypeOK
    <3>4. header = lh
      BY <1>1, <2>2 DEF InstallBlock, Control, Headers
    <3>2. tail[p] <= Len(lh) /\ disk' = [disk EXCEPT ![lh[tail[p]]] = logblk[tail[p]]]
      BY <2>2 DEF InstallBlock
    <3>3. tail[p] \in 1..Len(header)
      BY <3>1, <3>2, <3>4
    <3> QED BY <3>1, <3>2, <3>3, <3>4
  <2>3. UNCHANGED disk \/ \E p \in Proc : InstallBlock(p)
    BY ZenonT(30), <1>1 DEF Next, vars, durableVars, Syscall, BeginSleep, BeginOp, LogWriteAppend, EndOp, Commit,
       WriteLog, WriteHead, InstallTrans, InstallDone, EraseHead, CommitDone, ReadHead, ClearHead,
       ReadBlock, LogWriteCheck, Recycle, Crash
  <2> QED BY <2>1, <2>2, <2>3
<1>2. Control /\ [Next]_vars => [A]_vars
  BY <1>1
<1> HIDE DEF A
<1>3. Spec => [][A]_vars
  BY <1>2, ControlInv, PTL DEF Spec
<1> QED
  BY <1>3 DEF A, WriteAhead

\* How many blocks an operation may log for the reservation of begin_op to
\* cover both bounds log_write tests.
Fits == OpBlocks < MAXOPBLOCKS /\ LOGSIZE - (MAXOPBLOCKS - OpBlocks) < nlog - 1

\* "too big a transaction", "log_write outside of trans" and "log.committing"
\* are unreachable, for any number of processes, when no operation logs more
\* than OpBlocks blocks.
THEOREM NoPanicHolds ==
  ASSUME Fits
  PROVE  Spec => []NoPanic
<1> USE DEF durableVars, logVars, bufVars, procVars
<1>1. Init => NoPanic
  BY DEF Init, BootPC, NoPanic
<1>2. ASSUME Control, NoPanic, NEW p \in Proc, NEW b \in Block, NEW v \in Val, LogWriteCheck(p, b, v)
      PROVE  \A q \in Proc : pc'[q] # "panic"
  <2>0. pc \in [Proc -> PC] /\ Len(lh) \in Nat
    BY <1>2 DEF Control, TypeOK
  <2>1. p \in Active /\ pc[p] = "op"
    BY <1>2 DEF LogWriteCheck, Active
  <2> DEFINE S == {p} \X ((OpBlocks + 1)..MAXOPBLOCKS)
  <2>2. Cardinality(wset[p]) \in Nat /\ Cardinality(wset[p]) <= OpBlocks
    BY ZenonT(30), <1>2, FS_CardinalityType DEF Control, OpSets
  <2>3. S \subseteq Reserve
    BY <2>1, <2>2 DEF Reserve
  <2>4. IsFiniteSet(S) /\ Cardinality(S) = 1 * (MAXOPBLOCKS - OpBlocks)
    <3>1. IsFiniteSet({p}) /\ Cardinality({p}) = 1
      BY ZenonT(30), FS_Singleton
    <3>2. /\ IsFiniteSet((OpBlocks + 1)..MAXOPBLOCKS)
          /\ Cardinality((OpBlocks + 1)..MAXOPBLOCKS) = MAXOPBLOCKS - OpBlocks
      BY FS_Interval DEF Fits
    <3> QED BY ZenonT(30), <3>1, <3>2, FS_Product
  <2>5. Cardinality(S) <= Cardinality(Reserve) /\ Cardinality(Reserve) \in Nat
    BY <1>2, <2>3, FS_Subset, FS_CardinalityType DEF Control, Reservation
  <2>6. Len(lh) + (MAXOPBLOCKS - OpBlocks) <= LOGSIZE
    BY <1>2, <2>0, <2>4, <2>5 DEF Control, Reservation
  <2>7. ~TooBig
    BY <2>0, <2>6 DEF TooBig, Fits
  <2>8. ~(outstanding < 1)
    <3>1. Cardinality(Active) \in Nat /\ Active # {} /\ IsFiniteSet(Active) /\ outstanding = Cardinality(Active)
      BY <1>2, <2>1, FS_CardinalityType DEF Control, Counting
    <3> QED BY <3>1, FS_EmptySet
  <2>9. pc' = [pc EXCEPT ![p] = "log_write"]
    BY ZenonT(30), <1>2, <2>7, <2>8 DEF LogWriteCheck
  <2> QED BY <1>2, <2>0, <2>9 DEF NoPanic
<1>3. ASSUME Control, NoPanic, NEW p \in Proc, EndOp(p)
      PROVE  \A q \in Proc : pc'[q] # "panic"
  <2>1. committing # 1 /\ pc \in [Proc -> PC]
    BY <1>3 DEF EndOp, Control, Phases, Active, TypeOK
  <2> QED BY SMTT(30), <1>3, <2>1 DEF EndOp, Wakeup, NoPanic
<1>4. ASSUME Control, NoPanic, [Next]_vars, Control'  PROVE NoPanic'
  <2>0. pc \in [Proc -> PC] /\ \A q \in Proc : pc[q] # "panic"
    BY <1>4 DEF Control, TypeOK, NoPanic
  <2>1. Len(lh') <= LOGSIZE
    <3>1. Len(lh') \in Nat /\ Cardinality(Reserve') \in Nat /\ Len(lh') + Cardinality(Reserve') <= LOGSIZE
      BY <1>4, FS_CardinalityType DEF Control, Reservation, TypeOK
    <3> QED BY <3>1
  <2>2. \A q \in Proc : pc'[q] # "panic"
    <3>1. CASE UNCHANGED pc
      BY <2>0, <3>1
    <3>2. CASE Crash
      BY SMTT(30), <3>2 DEF Crash, BootPC
    <3>3. ASSUME NEW p \in Proc, Syscall(p) \/ BeginSleep(p) \/ BeginOp(p) \/ LogWriteAppend(p)
                                 \/ ReadHead(p) \/ ClearHead(p)
          PROVE  \A q \in Proc : pc'[q] # "panic"
      BY SMTT(30), <2>0, <3>3 DEF Syscall, BeginSleep, BeginOp, LogWriteAppend, ReadHead, ClearHead
    <3>4. ASSUME NEW p \in Proc, Commit(p)  PROVE \A q \in Proc : pc'[q] # "panic"
      BY <2>0, <3>4 DEF Commit, WriteLog, WriteHead, InstallTrans, InstallBlock, InstallDone, EraseHead,
                        CommitDone, Wakeup
    <3>5. ASSUME NEW p \in Proc, NEW b \in Block, ReadBlock(p, b) \/ Recycle(b)
          PROVE  UNCHANGED pc
      BY ZenonT(30), <3>5 DEF ReadBlock, Recycle
    <3> QED
      BY <1>2, <1>3, <1>4, <3>1, <3>2, <3>3, <3>4, <3>5 DEF Next, vars
  <2> QED BY <2>1, <2>2 DEF NoPanic
<1>5. Control /\ Control' /\ NoPanic /\ [Next]_vars => NoPanic'
  BY <1>4
<1> QED
  BY <1>1, <1>5, ControlInv, PTL DEF Spec
=============================================================================
