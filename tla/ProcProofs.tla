------------------------------ MODULE ProcProofs ------------------------------
(* Proofs about ProcTable, for any number of slots: what fork(), exit() and   *)
(* wait() promise each other about p->parent, zombies and kernel stacks.      *)
(*                                                                            *)
(* The argument.  p->lock is held at known places (LocksHeld).  A field       *)
(* np->parent is set by fork() of an UNUSED slot and afterwards changed only  *)
(* by the process it names (Family), so a test of it made without np->lock    *)
(* is still true under the lock (Loops).  exit() passes all slots, so that no *)
(* child is left when it becomes a zombie; wait() holds p->lock from its scan *)
(* to its sleep, and a child needs that lock to become a zombie (Loops), so   *)
(* that no zombie child is overlooked (NoLostChild).                          *)
EXTENDS ProcTable, WellFoundedInduction, TLAPS

\* The process at this place holds its own lock.
HoldsOwn == {"reparent", "reparent_lock", "exit_zombie", "exit_sched",
             "wait_scan", "wait_lock", "wait_end"}

\* The process at this place holds the lock of its original parent.
HoldsOrig == {"exit_lock", "reparent", "reparent_lock", "exit_zombie"}

\* The process at this place has read p->parent into original_parent.
KnowsOrig == HoldsOrig \cup {"exit_lock_parent"}

\* Where a process is, by its state.
Threads ==
  /\ \A p \in Slot :
       /\ pc[p] = "off" => state[p] \in {"UNUSED", "ZOMBIE"}
       /\ pc[p] = "exit_sched" => state[p] = "ZOMBIE"
       /\ pc[p] = "user" => state[p] \in {"RUNNABLE", "RUNNING"}
       /\ pc[p] = "wait_sleep" => state[p] \in {"SLEEPING", "RUNNABLE"}
       /\ pc[p] \notin {"off", "exit_sched", "user", "wait_sleep"} => state[p] = "RUNNING"
  /\ pc[initproc] \in {"user", "wait_scan", "wait_lock", "wait_end", "wait_sleep"}

\* Who holds which lock.
LocksHeld ==
  \A s, q \in Slot :
    lock[s] = q <=> \/ s = q /\ pc[q] \in HoldsOwn
                    \/ s = orig[q] /\ pc[q] \in HoldsOrig

\* The process tree: every process but init has another one, alive, as its
\* parent, and original_parent is out of date only when the parent is now init.
Family ==
  /\ parent[initproc] = NoProc
  /\ \A s \in Slot : state[s] = "UNUSED" => parent[s] = NoProc
  /\ \A s \in Slot \ {initproc} : state[s] # "UNUSED" =>
       /\ parent[s] \in Slot /\ parent[s] # s
       /\ state[parent[s]] \notin {"UNUSED", "ZOMBIE"}
  /\ \A p \in Slot : pc[p] \in KnowsOrig =>
       /\ orig[p] \in Slot /\ orig[p] # p
       /\ parent[p] \in {orig[p], initproc}

\* How far the loops of reparent() and wait() have come.
LoopOf(p) ==
  /\ pc[p] \notin HoldsOwn => idx[p] = 0
  /\ pc[p] \in {"wait_lock", "reparent_lock"} => idx[p] \in Slot /\ parent[idx[p]] = p
  /\ pc[p] \in {"reparent", "reparent_lock"} =>
       \A s \in Slot : s < idx[p] => parent[s] # p
  /\ pc[p] = "exit_zombie" => \A s \in Slot : parent[s] # p
  /\ pc[p] = "wait_end" => idx[p] = NPROC
  /\ pc[p] \in {"wait_scan", "wait_lock", "wait_end"} /\ p # initproc =>
       \A s \in Slot : s < idx[p] /\ parent[s] = p => state[s] # "ZOMBIE"

Loops == \A p \in Slot : LoopOf(p)

\* The inductive invariant.
IInv == TypeOK /\ Threads /\ LocksHeld /\ Family /\ Loops /\ NoLostChild

USE ProcAssumption DEF ProcAssumption

----------------------------------------------------------------------------
(* The scan *)

\* A set of naturals that is not empty has a least element.
LEMMA LeastExists ==
  ASSUME NEW C \in SUBSET Nat, C # {}
  PROVE  \E s \in C : \A t \in C : s <= t
<1> DEFINE R == OpToRel(<, Nat)
<1>1. \E x \in C : \A y \in C : ~(<<y, x>> \in R)
  BY NatLessThanWellFounded, WFMin, Zenon
<1>2. \A x, y \in Nat : ~(<<y, x>> \in R) => x <= y
  <2>1. \A x, y \in Nat : <<y, x>> \in R <=> y < x
    BY DEF OpToRel
  <2> HIDE DEF R
  <2> QED
    BY <2>1
<1> QED
  BY <1>1, <1>2

\* NextChild stops at a child or at the end, and passes no child.
LEMMA NextChildIs ==
  ASSUME TypeOK, NEW p \in Slot, NEW i \in 0..NPROC
  PROVE  /\ NextChild(p, i) \in 0..NPROC
         /\ NextChild(p, i) # NPROC => NextChild(p, i) \in Slot /\ parent[NextChild(p, i)] = p
         /\ \A s \in Slot : s >= i /\ s < NextChild(p, i) => parent[s] # p
<1> DEFINE C == {s \in Slot : s >= i /\ parent[s] = p}
<1>1. CASE C = {}
  BY <1>1 DEF NextChild, Slot
<1>2. CASE C # {}
  <2> C \in SUBSET Nat
    BY DEF Slot
  <2> HIDE DEF C
  <2>1. PICK m \in C : \A t \in C : m <= t
    BY <1>2, LeastExists
  <2> USE DEF C
  <2>2. \A n : n = NextChild(p, i) => n \in C /\ \A t \in C : n <= t
    BY <1>2, <2>1 DEF NextChild
  <2> QED
    BY <2>2 DEF Slot
<1> QED
  BY <1>1, <1>2

\* The slots are the indices below NPROC.
LEMMA SlotFacts ==
  /\ initproc \in Slot
  /\ 0 \in 0..NPROC
  /\ \A s \in Slot : s \in 0..NPROC /\ s + 1 \in 0..NPROC /\ s # NPROC /\ s < NPROC
  /\ \A i \in 0..NPROC : i # NPROC => i \in Slot
  BY DEF Slot, initproc

----------------------------------------------------------------------------
(* The initial states *)

LEMMA InitInv == Init => IInv
  BY DEF Init, IInv, TypeOK, Threads, LocksHeld, Family, Loops, LoopOf, NoLostChild, PC, Slot,
         initproc, HoldsOwn, HoldsOrig, KnowsOrig

----------------------------------------------------------------------------
(* One step of a process *)

\* The alternatives of Run(p), ...
RunUser(p) ==
  /\ state[p] = "RUNNABLE" /\ Free(p) /\ pc[p] = "user"
  /\ state' = [state EXCEPT ![p] = "RUNNING"]
  /\ UNCHANGED <<parent, killed, lock, pc, localVars>>

RunWait(p) ==
  /\ state[p] = "RUNNABLE" /\ Free(p) /\ pc[p] = "wait_sleep"
  /\ state' = [state EXCEPT ![p] = "RUNNING"]
  /\ lock' = [lock EXCEPT ![p] = p]
  /\ Goto(p, "wait_scan")
  /\ UNCHANGED <<parent, killed, localVars>>

\* ... of WaitScan(p), ...
ScanSlot(p) ==
  /\ At(p, "wait_scan") /\ p = initproc /\ idx[p] < NPROC
  /\ idx' = [idx EXCEPT ![p] = @ + 1]
  /\ UNCHANGED <<tableVars, lock, pc, kids, orig>>

ScanOn(p) ==
  /\ At(p, "wait_scan")
  /\ idx' = [idx EXCEPT ![p] = NextChild(p, idx[p])]
  /\ Goto(p, IF NextChild(p, idx[p]) = NPROC THEN "wait_end" ELSE "wait_lock")
  /\ UNCHANGED <<tableVars, lock, kids, orig>>

\* ... of WaitLock(p), ...
LookAlive(p) ==
  /\ At(p, "wait_lock") /\ Free(idx[p]) /\ state[idx[p]] # "ZOMBIE"
  /\ kids' = [kids EXCEPT ![p] = 1]
  /\ idx' = [idx EXCEPT ![p] = @ + 1]
  /\ Goto(p, "wait_scan")
  /\ UNCHANGED <<tableVars, lock, orig>>

LookFree(p) ==
  /\ At(p, "wait_lock") /\ Free(idx[p]) /\ state[idx[p]] = "ZOMBIE"
  /\ state' = [state EXCEPT ![idx[p]] = "UNUSED"]
  /\ parent' = [parent EXCEPT ![idx[p]] = NoProc]
  /\ killed' = [killed EXCEPT ![idx[p]] = 0]
  /\ Leave(p, "user")
  /\ UNCHANGED orig

LookKeep(p) ==
  /\ At(p, "wait_lock") /\ Free(idx[p])
  /\ Leave(p, "user")
  /\ UNCHANGED <<tableVars, orig>>

\* ... and of WaitEnd(p).
EndReturn(p) ==
  /\ At(p, "wait_end")
  /\ Leave(p, "user")
  /\ UNCHANGED <<tableVars, orig>>

EndSleep(p) ==
  /\ At(p, "wait_end") /\ killed[p] = 0
  /\ state' = [state EXCEPT ![p] = "SLEEPING"]
  /\ Leave(p, "wait_sleep")
  /\ UNCHANGED <<parent, killed, orig>>

\* The disjuncts of Next, one by one.
Step(p) ==
  \/ RunUser(p) \/ RunWait(p) \/ Fork(p) \/ ForkFail(p)
  \/ Kill(p) \/ ExitStart(p) \/ ExitParent(p) \/ ExitLockParent(p)
  \/ ExitLock(p) \/ Reparent(p) \/ ReparentLock(p) \/ ExitZombie(p)
  \/ ExitSched(p) \/ WaitStart(p) \/ ScanSlot(p) \/ ScanOn(p)
  \/ LookAlive(p) \/ LookFree(p) \/ LookKeep(p) \/ EndReturn(p)
  \/ EndSleep(p)

LEMMA StepIs ==
  ASSUME Next
  PROVE  \E p \in Slot : Step(p)
<1>1. PICK p \in Slot : \/ Run(p) \/ Fork(p) \/ ForkFail(p) \/ Kill(p)
                        \/ ExitStart(p) \/ Exit(p) \/ WaitStart(p) \/ Wait(p)
  BY DEF Next
<1>2. Run(p) => RunUser(p) \/ RunWait(p)
  BY DEF Run, RunUser, RunWait
<1>3. WaitScan(p) => ScanSlot(p) \/ ScanOn(p)
  BY DEF WaitScan, ScanSlot, ScanOn
<1>4. WaitLock(p) => LookAlive(p) \/ LookFree(p) \/ LookKeep(p)
  BY DEF WaitLock, WaitLook, WaitReturn, LookAlive, LookFree, LookKeep, tableVars
<1>5. WaitEnd(p) => EndReturn(p) \/ EndSleep(p)
  BY DEF WaitEnd, WaitReturn, EndReturn, EndSleep, tableVars
<1> QED
  BY <1>1, <1>2, <1>3, <1>4, <1>5 DEF Step, Exit, Wait

\* The slot that fork() takes belongs to nobody.
LEMMA ForkSlot ==
  ASSUME TypeOK, Threads, Family, NEW p \in Slot, Fork(p)
  PROVE  \E np \in Slot \ {p, initproc} :
           /\ state[np] = "UNUSED" /\ pc[np] = "off" /\ parent[np] = NoProc
           /\ state' = [state EXCEPT ![np] = "RUNNABLE"]
           /\ parent' = [parent EXCEPT ![np] = p]
           /\ pc' = [pc EXCEPT ![np] = "user"]
<1>1. PICK np \in Slot : /\ state[np] = "UNUSED" /\ Free(np)
                        /\ state' = [state EXCEPT ![np] = "RUNNABLE"]
                        /\ parent' = [parent EXCEPT ![np] = p]
                        /\ Goto(np, "user")
  BY DEF Fork
<1>2. np # p /\ pc[np] = "off" /\ np # initproc
  BY <1>1 DEF Fork, At, Threads
<1>3. parent[np] = NoProc
  BY <1>1 DEF Family
<1> QED
  BY <1>1, <1>2, <1>3 DEF Goto

\* The slot that wait() frees is a child's whose stack nobody uses.
LEMMA FreedSlot ==
  ASSUME TypeOK, Threads, LocksHeld, Loops, NEW p \in Slot, LookFree(p)
  PROVE  /\ idx[p] \in Slot \ {p, initproc}
         /\ pc[idx[p]] = "off" /\ parent[idx[p]] = p
<1>1. idx[p] \in Slot /\ parent[idx[p]] = p
  BY DEF LookFree, At, Loops, LoopOf
<1>2. pc[idx[p]] \in {"off", "exit_sched"} /\ idx[p] # p
  BY <1>1 DEF LookFree, At, Threads
<1>3. pc[idx[p]] # "exit_sched"
  BY SMTT(30), <1>1 DEF LookFree, Free, LocksHeld, HoldsOwn
<1> QED
  BY <1>1, <1>2, <1>3 DEF Threads

\* The types are kept.
LEMMA TypeStep ==
  ASSUME TypeOK, Threads, Family, Loops, NEW p \in Slot, Step(p)
  PROVE  TypeOK'
<1> USE SlotFacts DEF TypeOK, PC, At, Goto, Wakeup1, tableVars, localVars
<1>1. CASE RunUser(p)
  BY <1>1 DEF RunUser
<1>2. CASE RunWait(p)
  BY <1>2 DEF RunWait
<1>3. CASE Fork(p)
  BY <1>3 DEF Fork
<1>4. CASE ForkFail(p)
  BY <1>4 DEF ForkFail
<1>5. CASE Kill(p)
  BY <1>5 DEF Kill
<1>6. CASE ExitStart(p)
  BY <1>6 DEF ExitStart
<1>7. CASE ExitParent(p)
  BY <1>7 DEF ExitParent
<1>8. CASE ExitLockParent(p)
  BY <1>8 DEF ExitLockParent
<1>9. CASE ExitLock(p)
  BY <1>9 DEF ExitLock
<1>10. CASE Reparent(p)
  BY <1>10, NextChildIs DEF Reparent
<1>11. CASE ReparentLock(p)
  BY <1>11 DEF ReparentLock, Loops, LoopOf
<1>12. CASE ExitZombie(p)
  BY <1>12 DEF ExitZombie, Family, KnowsOrig, HoldsOrig
<1>13. CASE ExitSched(p)
  BY <1>13 DEF ExitSched
<1>14. CASE WaitStart(p)
  BY <1>14 DEF WaitStart
<1>15. CASE ScanSlot(p)
  <2>1. idx[p] + 1 \in 0..NPROC
    BY <1>15 DEF ScanSlot
  <2> QED
    BY <1>15, <2>1 DEF ScanSlot
<1>16. CASE ScanOn(p)
  BY <1>16, NextChildIs DEF ScanOn
<1>17. CASE LookAlive(p)
  BY <1>17 DEF LookAlive, Loops, LoopOf
<1>18. CASE LookFree(p)
  BY <1>18 DEF LookFree, Leave
<1>19. CASE LookKeep(p)
  BY <1>19 DEF LookKeep, Leave
<1>20. CASE EndReturn(p)
  BY <1>20 DEF EndReturn, Leave
<1>21. CASE EndSleep(p)
  BY <1>21 DEF EndSleep, Leave
<1> QED
  BY <1>1, <1>2, <1>3, <1>4, <1>5, <1>6, <1>7, <1>8, <1>9, <1>10, <1>11, <1>12, <1>13, <1>14, <1>15, <1>16, <1>17, <1>18, <1>19, <1>20, <1>21 DEF Step

\* A process stays where its state says: wait() frees no slot whose lock exit() holds.
LEMMA ThreadsStep ==
  ASSUME TypeOK, Threads, LocksHeld, Family, Loops, NEW p \in Slot, Step(p)
  PROVE  Threads'
<1> USE SlotFacts DEF TypeOK, Threads, At, Goto, Wakeup1, tableVars, localVars, Free, HoldsOwn, HoldsOrig, KnowsOrig
<1>1. CASE RunUser(p)
  BY <1>1 DEF RunUser
<1>2. CASE RunWait(p)
  BY <1>2 DEF RunWait
<1>3. CASE Fork(p)
  BY <1>3 DEF Fork
<1>4. CASE ForkFail(p)
  BY <1>4 DEF ForkFail
<1>5. CASE Kill(p)
  BY <1>5 DEF Kill
<1>6. CASE ExitStart(p)
  BY <1>6 DEF ExitStart
<1>7. CASE ExitParent(p)
  BY <1>7 DEF ExitParent
<1>8. CASE ExitLockParent(p)
  BY <1>8 DEF ExitLockParent
<1>9. CASE ExitLock(p)
  BY <1>9 DEF ExitLock
<1>10. CASE Reparent(p)
  BY <1>10, NextChildIs DEF Reparent
<1>11. CASE ReparentLock(p)
  BY <1>11 DEF ReparentLock
<1>12. CASE ExitZombie(p)
  BY <1>12 DEF ExitZombie
<1>13. CASE ExitSched(p)
  BY <1>13 DEF ExitSched
<1>14. CASE WaitStart(p)
  BY <1>14 DEF WaitStart
<1>15. CASE ScanSlot(p)
  BY <1>15 DEF ScanSlot
<1>16. CASE ScanOn(p)
  BY <1>16, NextChildIs DEF ScanOn
<1>17. CASE LookAlive(p)
  BY <1>17 DEF LookAlive
<1>18. CASE LookFree(p)
  <2>1. idx[p] \in Slot \ {p, initproc} /\ pc[idx[p]] = "off"
    BY <1>18, FreedSlot
  <2>2. /\ state'[idx[p]] = "UNUSED" /\ state'[p] = "RUNNING" /\ pc'[p] = "user"
        /\ \A q \in Slot \ {idx[p]} : state'[q] = state[q]
        /\ \A q \in Slot \ {p} : pc'[q] = pc[q]
    BY <1>18, <2>1 DEF LookFree, Leave
  <2> QED
    BY <2>1, <2>2
<1>19. CASE LookKeep(p)
  BY <1>19 DEF LookKeep, Leave
<1>20. CASE EndReturn(p)
  BY <1>20 DEF EndReturn, Leave
<1>21. CASE EndSleep(p)
  BY SMTT(30), <1>21 DEF EndSleep, Leave
<1> QED
  BY <1>1, <1>2, <1>3, <1>4, <1>5, <1>6, <1>7, <1>8, <1>9, <1>10, <1>11, <1>12, <1>13, <1>14, <1>15, <1>16, <1>17, <1>18, <1>19, <1>20, <1>21 DEF Step

\* A lock is taken when it is free, and released by its holder.
LEMMA LocksStep ==
  ASSUME TypeOK, Threads, LocksHeld, Family, NEW p \in Slot, Step(p)
  PROVE  LocksHeld'
<1> USE SlotFacts DEF TypeOK, LocksHeld, At, Goto, tableVars, localVars, Free, HoldsOwn, HoldsOrig
<1>1. CASE RunUser(p)
  BY <1>1 DEF RunUser
<1>2. CASE RunWait(p)
  BY <1>2 DEF RunWait
<1>3. CASE Fork(p)
  <2>1. PICK np \in Slot \ {p, initproc} :
           /\ state[np] = "UNUSED" /\ pc[np] = "off" /\ parent[np] = NoProc
           /\ state' = [state EXCEPT ![np] = "RUNNABLE"]
           /\ parent' = [parent EXCEPT ![np] = p]
           /\ pc' = [pc EXCEPT ![np] = "user"]
    BY <1>3, ForkSlot
  <2> QED
    BY <1>3, <2>1 DEF Fork
<1>4. CASE ForkFail(p)
  BY <1>4 DEF ForkFail
<1>5. CASE Kill(p)
  BY <1>5 DEF Kill
<1>6. CASE ExitStart(p)
  BY <1>6 DEF ExitStart
<1>7. CASE ExitParent(p)
  BY <1>7 DEF ExitParent
<1>8. CASE ExitLockParent(p)
  BY <1>8 DEF ExitLockParent
<1>9. CASE ExitLock(p)
  BY <1>9 DEF ExitLock
<1>10. CASE Reparent(p)
  <2>1. pc'[p] \in {"exit_zombie", "reparent_lock"} /\ \A q \in Slot \ {p} : pc'[q] = pc[q]
    BY <1>10 DEF Reparent
  <2> QED
    BY <1>10, <2>1 DEF Reparent
<1>11. CASE ReparentLock(p)
  BY <1>11 DEF ReparentLock
<1>12. CASE ExitZombie(p)
  <2>1. orig[p] \in Slot /\ orig[p] # p /\ lock[orig[p]] = p /\ lock[p] = p
    BY <1>12 DEF ExitZombie, Family, KnowsOrig
  <2>2. \A q \in Slot : /\ orig[p] = q => pc[q] \notin HoldsOwn
                        /\ orig[p] = orig[q] /\ pc[q] \in HoldsOrig => q = p
    BY <2>1
  <2>3. /\ pc'[p] = "exit_sched" /\ lock'[orig[p]] = NoProc
        /\ \A q \in Slot \ {p} : pc'[q] = pc[q]
        /\ \A s \in Slot \ {orig[p]} : lock'[s] = lock[s]
        /\ orig' = orig
    BY <1>12, <2>1 DEF ExitZombie
  <2>4. \A q \in Slot \ {p} : \A s \in Slot :
          lock'[s] = q <=> \/ s = q /\ pc'[q] \in HoldsOwn
                           \/ s = orig'[q] /\ pc'[q] \in HoldsOrig
    BY <2>1, <2>2, <2>3
  <2>5. \A s \in Slot :
          lock'[s] = p <=> \/ s = p /\ pc'[p] \in HoldsOwn
                           \/ s = orig'[p] /\ pc'[p] \in HoldsOrig
    BY <1>12, <2>1, <2>3 DEF ExitZombie
  <2> QED
    BY <2>4, <2>5
<1>13. CASE ExitSched(p)
  BY <1>13 DEF ExitSched
<1>14. CASE WaitStart(p)
  BY <1>14 DEF WaitStart
<1>15. CASE ScanSlot(p)
  BY <1>15 DEF ScanSlot
<1>16. CASE ScanOn(p)
  BY <1>16, NextChildIs DEF ScanOn
<1>17. CASE LookAlive(p)
  BY <1>17 DEF LookAlive
<1>18. CASE LookFree(p)
  BY <1>18 DEF LookFree, Leave
<1>19. CASE LookKeep(p)
  BY <1>19 DEF LookKeep, Leave
<1>20. CASE EndReturn(p)
  BY <1>20 DEF EndReturn, Leave
<1>21. CASE EndSleep(p)
  BY SMTT(30), <1>21 DEF EndSleep, Leave
<1> QED
  BY <1>1, <1>2, <1>3, <1>4, <1>5, <1>6, <1>7, <1>8, <1>9, <1>10, <1>11, <1>12, <1>13, <1>14, <1>15, <1>16, <1>17, <1>18, <1>19, <1>20, <1>21 DEF Step

\* Every process keeps a parent that is alive.
LEMMA FamilyStep ==
  ASSUME TypeOK, Threads, LocksHeld, Family, Loops, NEW p \in Slot, Step(p)
  PROVE  Family'
<1> USE SlotFacts DEF TypeOK, Family, At, Goto, Wakeup1, tableVars, localVars, KnowsOrig, HoldsOrig
<1>1. CASE RunUser(p)
  BY <1>1 DEF RunUser
<1>2. CASE RunWait(p)
  BY <1>2 DEF RunWait
<1>3. CASE Fork(p)
  <2>1. PICK np \in Slot \ {p, initproc} :
           /\ state[np] = "UNUSED" /\ pc[np] = "off" /\ parent[np] = NoProc
           /\ state' = [state EXCEPT ![np] = "RUNNABLE"]
           /\ parent' = [parent EXCEPT ![np] = p]
           /\ pc' = [pc EXCEPT ![np] = "user"]
    BY <1>3, ForkSlot
  <2>2. \A s \in Slot : parent[s] # np
    BY <2>1
  <2>3. \A s \in Slot \ {np} : parent'[s] = parent[s] /\ state'[s] = state[s] /\ pc'[s] = pc[s]
    BY <2>1
  <2>4. parent'[np] = p /\ state'[np] = "RUNNABLE" /\ pc'[np] = "user" /\ state'[p] = "RUNNING" /\ orig' = orig
    BY SMTT(30), <1>3, <2>1 DEF Fork
  <2> QED
    BY <2>1, <2>2, <2>3, <2>4
<1>4. CASE ForkFail(p)
  BY <1>4 DEF ForkFail
<1>5. CASE Kill(p)
  BY <1>5 DEF Kill
<1>6. CASE ExitStart(p)
  BY <1>6 DEF ExitStart
<1>7. CASE ExitParent(p)
  <2>1. p # initproc /\ state[p] # "UNUSED"
    BY <1>7 DEF ExitParent, Threads
  <2>2. parent[p] \in Slot /\ parent[p] # p
    BY <2>1
  <2> QED
    BY <1>7, <2>2 DEF ExitParent
<1>8. CASE ExitLockParent(p)
  BY <1>8 DEF ExitLockParent
<1>9. CASE ExitLock(p)
  BY <1>9 DEF ExitLock
<1>10. CASE Reparent(p)
  <2>1. pc'[p] \in {"exit_zombie", "reparent_lock"} /\ \A q \in Slot \ {p} : pc'[q] = pc[q]
    BY <1>10 DEF Reparent
  <2> QED
    BY <1>10, <2>1 DEF Reparent
<1>11. CASE ReparentLock(p)
  <2>1. idx[p] \in Slot /\ parent[idx[p]] = p
    BY <1>11 DEF ReparentLock, Loops, LoopOf
  <2>2. idx[p] # initproc /\ state[initproc] \notin {"UNUSED", "ZOMBIE"}
    BY <2>1 DEF Threads
  <2>3. state[idx[p]] # "UNUSED"
    BY <2>1
  <2>4. /\ state' = state /\ orig' = orig
        /\ parent'[idx[p]] = initproc
        /\ \A s \in Slot \ {idx[p]} : parent'[s] = parent[s]
        /\ \A q \in Slot : pc'[q] \in KnowsOrig <=> pc[q] \in KnowsOrig
    BY <1>11, <2>1 DEF ReparentLock
  <2> QED
    BY <2>1, <2>2, <2>3, <2>4
<1>12. CASE ExitZombie(p)
  <2>1. orig[p] \in Slot /\ orig[p] # p
    BY <1>12 DEF ExitZombie
  <2>2. /\ state'[p] = "ZOMBIE" /\ parent' = parent /\ orig' = orig
        /\ \A s \in Slot \ {p} : /\ state'[s] = "UNUSED" <=> state[s] = "UNUSED"
                                 /\ state'[s] = "ZOMBIE" <=> state[s] = "ZOMBIE"
    BY <1>12, <2>1 DEF ExitZombie
  <2>3. \A s \in Slot : parent[s] # p
    BY <1>12 DEF ExitZombie, Loops, LoopOf
  <2>4. state[p] = "RUNNING" /\ pc'[p] = "exit_sched" /\ \A q \in Slot \ {p} : pc'[q] = pc[q]
    BY <1>12 DEF ExitZombie
  <2> QED
    BY <2>2, <2>3, <2>4
<1>13. CASE ExitSched(p)
  BY <1>13 DEF ExitSched
<1>14. CASE WaitStart(p)
  BY <1>14 DEF WaitStart
<1>15. CASE ScanSlot(p)
  BY <1>15 DEF ScanSlot
<1>16. CASE ScanOn(p)
  BY <1>16, NextChildIs DEF ScanOn
<1>17. CASE LookAlive(p)
  BY <1>17 DEF LookAlive
<1>18. CASE LookFree(p)
  <2>1. idx[p] \in Slot \ {p, initproc} /\ pc[idx[p]] = "off"
    BY <1>18, FreedSlot
  <2>2. \A s \in Slot : parent[s] # idx[p]
    BY <1>18, <2>1 DEF LookFree
  <2>3. /\ state'[idx[p]] = "UNUSED" /\ parent'[idx[p]] = NoProc /\ orig' = orig
        /\ \A s \in Slot \ {idx[p]} : state'[s] = state[s] /\ parent'[s] = parent[s]
        /\ pc'[p] = "user" /\ \A q \in Slot \ {p} : pc'[q] = pc[q]
    BY <1>18, <2>1 DEF LookFree, Leave
  <2> QED
    BY <2>1, <2>2, <2>3
<1>19. CASE LookKeep(p)
  BY <1>19 DEF LookKeep, Leave
<1>20. CASE EndReturn(p)
  BY <1>20 DEF EndReturn, Leave
<1>21. CASE EndSleep(p)
  BY SMTT(30), <1>21 DEF EndSleep, Leave
<1> QED
  BY ZenonT(30), <1>1, <1>2, <1>3, <1>4, <1>5, <1>6, <1>7, <1>8, <1>9, <1>10, <1>11, <1>12, <1>13, <1>14, <1>15, <1>16, <1>17, <1>18, <1>19, <1>20, <1>21 DEF Step

\* The loops pass every child.
LEMMA LoopsStep ==
  ASSUME TypeOK, Threads, LocksHeld, Family, Loops, NEW p \in Slot, Step(p)
  PROVE  Loops'
<1> USE SlotFacts DEF TypeOK, Loops, LoopOf, At, Goto, Wakeup1, tableVars, localVars, HoldsOwn
<1>1. CASE RunUser(p)
  BY <1>1 DEF RunUser
<1>2. CASE RunWait(p)
  BY <1>2 DEF RunWait
<1>3. CASE Fork(p)
  <2>1. PICK np \in Slot \ {p, initproc} :
           /\ state[np] = "UNUSED" /\ pc[np] = "off" /\ parent[np] = NoProc
           /\ state' = [state EXCEPT ![np] = "RUNNABLE"]
           /\ parent' = [parent EXCEPT ![np] = p]
           /\ pc' = [pc EXCEPT ![np] = "user"]
    BY <1>3, ForkSlot
  <2>2. /\ \A s \in Slot \ {np} : parent'[s] = parent[s] /\ state'[s] = state[s] /\ pc'[s] = pc[s]
        /\ parent'[np] = p /\ state'[np] = "RUNNABLE" /\ pc'[np] = "user" /\ pc[p] = "user" /\ idx' = idx
    BY SMTT(30), <1>3, <2>1 DEF Fork
  <2> SUFFICES ASSUME NEW q \in Slot PROVE LoopOf(q)'
    OBVIOUS
  <2>3. CASE q \in {p, np}
    BY <2>1, <2>2, <2>3
  <2>4. CASE q \notin {p, np}
    BY <2>1, <2>2, <2>4
  <2> QED
    BY <2>3, <2>4
<1>4. CASE ForkFail(p)
  BY <1>4 DEF ForkFail
<1>5. CASE Kill(p)
  BY <1>5 DEF Kill
<1>6. CASE ExitStart(p)
  BY <1>6 DEF ExitStart
<1>7. CASE ExitParent(p)
  BY <1>7 DEF ExitParent
<1>8. CASE ExitLockParent(p)
  BY <1>8 DEF ExitLockParent
<1>9. CASE ExitLock(p)
  BY <1>9 DEF ExitLock
<1>10. CASE Reparent(p)
  BY SMTT(30), <1>10, NextChildIs DEF Reparent
<1>11. CASE ReparentLock(p)
  <2>1. idx[p] \in Slot /\ parent[idx[p]] = p
    BY <1>11 DEF ReparentLock
  <2>2. /\ state' = state /\ parent'[idx[p]] = initproc
        /\ \A s \in Slot \ {idx[p]} : parent'[s] = parent[s]
        /\ idx'[p] = idx[p] + 1 /\ pc'[p] = "reparent"
        /\ \A q \in Slot \ {p} : idx'[q] = idx[q] /\ pc'[q] = pc[q]
    BY <1>11, <2>1 DEF ReparentLock
  <2>3. p # initproc
    BY SMTT(30), <1>11 DEF ReparentLock, Threads
  <2> SUFFICES ASSUME NEW q \in Slot PROVE LoopOf(q)'
    OBVIOUS
  <2>4. CASE q = p
    <3>1. \A s \in Slot : s < idx[p] + 1 => s < idx[p] \/ s = idx[p]
      BY <2>1 DEF Slot
    <3> QED
      BY <1>11, <2>1, <2>2, <2>3, <2>4, <3>1 DEF ReparentLock
  <2>5. CASE q # p
    <3>1. pc[q] \in {"reparent", "reparent_lock", "exit_zombie"} => q # initproc
      BY DEF Threads
    <3> QED
      BY <2>1, <2>2, <2>3, <2>5, <3>1
  <2> QED
    BY <2>4, <2>5
<1>12. CASE ExitZombie(p)
  <2>1. orig[p] \in Slot /\ orig[p] # p /\ parent[p] \in {orig[p], initproc} /\ lock[orig[p]] = p
    BY <1>12 DEF ExitZombie, Family, KnowsOrig, HoldsOrig, LocksHeld
  <2>2. /\ parent' = parent /\ idx' = idx /\ pc'[p] = "exit_sched"
        /\ \A q \in Slot \ {p} : /\ pc'[q] = pc[q]
                                 /\ state'[q] = "ZOMBIE" <=> state[q] = "ZOMBIE"
    BY <1>12, <2>1 DEF ExitZombie
  <2>3. \A q \in Slot \ {initproc} : pc[q] \in {"wait_scan", "wait_lock", "wait_end"} => parent[p] # q
    BY <1>12, <2>1 DEF LocksHeld, ExitZombie
  <2> SUFFICES ASSUME NEW q \in Slot PROVE LoopOf(q)'
    OBVIOUS
  <2>4. CASE q = p
    BY SMTT(30), <1>12, <2>2, <2>4 DEF ExitZombie
  <2>5. CASE q # p
    BY <2>2, <2>3, <2>5
  <2> QED
    BY <2>4, <2>5
<1>13. CASE ExitSched(p)
  BY <1>13 DEF ExitSched
<1>14. CASE WaitStart(p)
  BY <1>14 DEF WaitStart
<1>15. CASE ScanSlot(p)
  BY <1>15 DEF ScanSlot
<1>16. CASE ScanOn(p)
  <2> DEFINE n == NextChild(p, idx[p])
  <2>1. /\ n \in 0..NPROC /\ (n # NPROC => n \in Slot /\ parent[n] = p)
        /\ \A s \in Slot : s >= idx[p] /\ s < n => parent[s] # p
    BY NextChildIs
  <2>2. /\ idx'[p] = n /\ pc'[p] = (IF n = NPROC THEN "wait_end" ELSE "wait_lock")
        /\ \A q \in Slot \ {p} : idx'[q] = idx[q] /\ pc'[q] = pc[q]
        /\ parent' = parent /\ state' = state
    BY <1>16 DEF ScanOn
  <2> HIDE DEF n
  <2>3. \A s \in Slot : s < n /\ parent[s] = p => s < idx[p]
    BY <2>1 DEF Slot
  <2> SUFFICES ASSUME NEW q \in Slot PROVE LoopOf(q)'
    OBVIOUS
  <2>4. CASE q = p
    BY <1>16, <2>1, <2>2, <2>3, <2>4 DEF ScanOn
  <2>5. CASE q # p
    BY <2>2, <2>5
  <2> QED
    BY <2>4, <2>5
<1>17. CASE LookAlive(p)
  BY <1>17 DEF LookAlive
<1>18. CASE LookFree(p)
  BY <1>18 DEF LookFree, Leave
<1>19. CASE LookKeep(p)
  BY <1>19 DEF LookKeep, Leave
<1>20. CASE EndReturn(p)
  BY <1>20 DEF EndReturn, Leave
<1>21. CASE EndSleep(p)
  BY SMTT(30), <1>21 DEF EndSleep, Leave
<1> QED
  BY ZenonT(30), <1>1, <1>2, <1>3, <1>4, <1>5, <1>6, <1>7, <1>8, <1>9, <1>10, <1>11, <1>12, <1>13, <1>14, <1>15, <1>16, <1>17, <1>18, <1>19, <1>20, <1>21 DEF Step

\* The last child to become a zombie wakes its parent.
LEMMA SleepersStep ==
  ASSUME TypeOK, Threads, LocksHeld, Family, Loops, NoLostChild, NEW p \in Slot, Step(p)
  PROVE  NoLostChild'
<1> USE SlotFacts DEF TypeOK, NoLostChild, At, Goto, Wakeup1, tableVars, localVars
<1>1. CASE RunUser(p)
  BY <1>1 DEF RunUser
<1>2. CASE RunWait(p)
  BY <1>2 DEF RunWait
<1>3. CASE Fork(p)
  BY <1>3 DEF Fork
<1>4. CASE ForkFail(p)
  BY <1>4 DEF ForkFail
<1>5. CASE Kill(p)
  BY <1>5 DEF Kill
<1>6. CASE ExitStart(p)
  BY <1>6 DEF ExitStart
<1>7. CASE ExitParent(p)
  BY <1>7 DEF ExitParent
<1>8. CASE ExitLockParent(p)
  BY <1>8 DEF ExitLockParent
<1>9. CASE ExitLock(p)
  BY <1>9 DEF ExitLock
<1>10. CASE Reparent(p)
  BY <1>10, NextChildIs DEF Reparent
<1>11. CASE ReparentLock(p)
  BY <1>11 DEF ReparentLock
<1>12. CASE ExitZombie(p)
  <2>1. orig[p] \in Slot /\ orig[p] # p /\ parent[p] \in {orig[p], initproc}
    BY <1>12 DEF ExitZombie, Family, KnowsOrig, HoldsOrig
  <2>2. /\ parent' = parent /\ killed' = killed
        /\ state'[p] = "ZOMBIE" /\ state'[orig[p]] # "SLEEPING"
        /\ \A q \in Slot \ {p} : /\ state'[q] = "SLEEPING" => state[q] = "SLEEPING"
                                 /\ state'[q] = "ZOMBIE" <=> state[q] = "ZOMBIE"
    BY <1>12, <2>1 DEF ExitZombie
  <2> QED
    BY <2>1, <2>2
<1>13. CASE ExitSched(p)
  BY <1>13 DEF ExitSched
<1>14. CASE WaitStart(p)
  BY <1>14 DEF WaitStart
<1>15. CASE ScanSlot(p)
  BY <1>15 DEF ScanSlot
<1>16. CASE ScanOn(p)
  BY <1>16, NextChildIs DEF ScanOn
<1>17. CASE LookAlive(p)
  BY <1>17 DEF LookAlive
<1>18. CASE LookFree(p)
  BY <1>18 DEF LookFree, Leave
<1>19. CASE LookKeep(p)
  BY <1>19 DEF LookKeep, Leave
<1>20. CASE EndReturn(p)
  BY <1>20 DEF EndReturn, Leave
<1>21. CASE EndSleep(p)
  <2>1. p # initproc => \A s \in Slot : parent[s] = p => state[s] # "ZOMBIE"
    BY <1>21 DEF EndSleep, Loops, LoopOf
  <2> QED
    BY <1>21, <2>1 DEF EndSleep, Leave
<1> QED
  BY ZenonT(30), <1>1, <1>2, <1>3, <1>4, <1>5, <1>6, <1>7, <1>8, <1>9, <1>10, <1>11, <1>12, <1>13, <1>14, <1>15, <1>16, <1>17, <1>18, <1>19, <1>20, <1>21 DEF Step

----------------------------------------------------------------------------
(* The theorems *)

LEMMA InvHolds == Spec => []IInv
<1>1. IInv /\ [Next]_vars => IInv'
  <2> SUFFICES ASSUME IInv, [Next]_vars PROVE IInv'
    OBVIOUS
  <2>1. CASE UNCHANGED vars
    BY <2>1 DEF IInv, TypeOK, Threads, LocksHeld, Family, Loops, LoopOf, NoLostChild, vars, tableVars, localVars
  <2>2. CASE Next
    <3>1. PICK p \in Slot : Step(p)
      BY <2>2, StepIs
    <3> QED
      BY <3>1, TypeStep, ThreadsStep, LocksStep, FamilyStep, LoopsStep, SleepersStep DEF IInv
  <2> QED
    BY <2>1, <2>2
<1> QED
  BY InitInv, <1>1, PTL DEF Spec

\* What wait() and reparent() read of np->parent without np->lock is still true
\* when they hold it.
THEOREM ParentStableHolds == Spec => []ParentStable
<1>1. IInv => ParentStable
  BY DEF IInv, Loops, LoopOf, ParentStable
<1> QED
  BY <1>1, InvHolds, PTL

\* exit() leaves no orphan: the parent of every process can still call wait().
THEOREM ParentAliveHolds == Spec => []ParentAlive
<1>1. IInv => ParentAlive
  BY DEF IInv, Family, ParentAlive
<1> QED
  BY <1>1, InvHolds, PTL

\* A process does not sleep in wait() when it was killed before or, init apart,
\* when it has a zombie child.
THEOREM NoLostChildHolds == Spec => []NoLostChild
<1>1. IInv => NoLostChild
  BY DEF IInv
<1> QED
  BY <1>1, InvHolds, PTL

\* wait() frees no slot whose kernel stack a CPU still runs on.
THEOREM StackFreeHolds == Spec => []StackFree
<1>1. IInv => StackFree
  BY DEF IInv, TypeOK, Threads, StackFree
<1> QED
  BY <1>1, InvHolds, PTL
===============================================================================
