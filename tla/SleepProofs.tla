---------------------------- MODULE SleepProofs ----------------------------
(* Proofs about Sleep, for any number of processes, CPUs and channels:       *)
(* HolderRuns, NoLostWakeup, and that sleep() and wakeup() implement the     *)
(* atomic operations of Monitor.                                             *)
EXTENDS Sleep, TLAPS

\* Who is where holds which lock: lk from the test of the condition until
\* p->lock is taken, and during wakeup(); p->lock only across sched().
LocksHeld ==
  /\ \A a \in Proc \cup {Intr} : lk = a <=> pc[a] \in {"test", "sleep_lock", "wakeup"}
  /\ \A p \in Proc : lock[p] = IF pc[p] = "sched" THEN p ELSE None

\* A process in the kernel runs, except asleep.
InKernel ==
  /\ \A p \in Proc : /\ pc[p] \notin {"user", "asleep"} => state[p] = "RUNNING"
                     /\ pc[p] = "asleep" => state[p] # "RUNNING" /\ chan[p] = want[p]
                     /\ state[p] = "SLEEPING" => pc[p] = "asleep"
  /\ pc[Intr] \in {"user", "supply", "wakeup"}
  /\ \A a \in Proc \cup {Intr} : /\ pc[a] # "user" => want[a] \in Chan
                                 /\ pc[a] # "wakeup" => idx[a] = 0

\* From the test of the condition on, what is supplied for a process that goes
\* to sleep has a wakeup() that still comes to it.
NothingMissed ==
  \A p \in Proc :
    /\ pc[p] = "sleep_lock" => items[want[p]] = 0
    /\ (pc[p] = "sched" \/ state[p] = "SLEEPING") /\ items[want[p]] > 0 => Coming(p, want[p])

Shape == TypeOK /\ LocksHeld /\ InKernel

\* The inductive invariant.
IInv == Shape /\ NothingMissed

USE SleepAssumption DEF SleepAssumption

LEMMA InitInv == Init => IInv
  BY DEF Init, IInv, Shape, TypeOK, PC, LocksHeld, InKernel, NothingMissed, Proc

\* The loop of wakeup() looks at a slot of proc[].
LEMMA ScanSlot ==
  ASSUME TypeOK, NEW a \in Proc \cup {Intr}, WakeupOne(a)
  PROVE  idx[a] \in Proc /\ idx[a] + 1 \in 0..NPROC
<1>1. idx[a] \in 0..NPROC
  BY DEF TypeOK
<1>2. idx[a] < NPROC
  BY SMTT(30) DEF WakeupOne
<1> QED
  BY <1>1, <1>2 DEF Proc

\* Every step keeps the locks and the kernel's program counters in order.
LEMMA ShapeStep ==
  ASSUME Shape, [Next]_vars
  PROVE  Shape'
<1> USE DEF Shape, TypeOK, LocksHeld, InKernel, PC, At, Goto
<1>1. ASSUME NEW p \in Proc, Run(p)  PROVE Shape'
  BY <1>1 DEF Run
<1>2. ASSUME NEW p \in Proc, Acquire(p)  PROVE Shape'
  BY <1>2 DEF Acquire
<1>3. ASSUME NEW p \in Proc, Test(p)  PROVE Shape'
  BY <1>3 DEF Test, Return
<1>4. ASSUME NEW p \in Proc, SleepLock(p)  PROVE Shape'
  BY <1>4 DEF SleepLock
<1>5. ASSUME NEW p \in Proc, Sched(p)  PROVE Shape'
  BY <1>5 DEF Sched
<1>6. ASSUME NEW p \in Proc, Yield(p)  PROVE Shape'
  BY <1>6 DEF Yield
<1>7. ASSUME NEW p \in Proc, Kill(p)  PROVE Shape'
  BY <1>7 DEF Kill
<1>8. ASSUME NEW p \in Proc, NEW c \in Chan, Call(p, c)  PROVE Shape'
  BY <1>8 DEF Call
<1>9. ASSUME NEW a \in Proc \cup {Intr}, Supply(a)  PROVE Shape'
  BY <1>9 DEF Supply
<1>10. ASSUME NEW a \in Proc \cup {Intr}, WakeupOne(a)  PROVE Shape'
  BY ZenonT(30), <1>10, ScanSlot DEF WakeupOne
<1>11. ASSUME NEW a \in Proc \cup {Intr}, WakeupDone(a)  PROVE Shape'
  BY <1>11 DEF WakeupDone, Return
<1>12. ASSUME NEW a \in Proc \cup {Intr}, NEW c \in Chan, Provide(a, c)  PROVE Shape'
  BY <1>12 DEF Provide
<1>13. CASE UNCHANGED vars
  BY <1>13 DEF vars
<1> QED
  BY <1>1, <1>2, <1>3, <1>4, <1>5, <1>6, <1>7, <1>8, <1>9, <1>10, <1>11, <1>12, <1>13
  DEF Next, Step, Wakeup

\* Only one actor at a time scans proc[].
LEMMA OneScan ==
  ASSUME Shape, NEW a \in Proc \cup {Intr}, pc[a] \in {"test", "sleep_lock", "wakeup"}
  PROVE  \A b \in Proc \cup {Intr} : pc[b] \in {"test", "sleep_lock", "wakeup"} => b = a
  BY DEF Shape, LocksHeld

\* A step that leaves items and all scans alone, and in which nobody but those
\* that were already on the way to sleep is so, misses nothing.
LEMMA NothingMissedSame ==
  ASSUME IInv, UNCHANGED items,
         \A a \in Proc \cup {Intr} :
           (pc[a] = "wakeup" \/ pc'[a] = "wakeup") =>
             pc'[a] = pc[a] /\ want'[a] = want[a] /\ idx'[a] = idx[a],
         \A p \in Proc :
           /\ pc'[p] = "sleep_lock" => pc[p] = "sleep_lock" /\ want'[p] = want[p]
           /\ (pc'[p] = "sched" \/ state'[p] = "SLEEPING") =>
                /\ pc[p] \in {"sleep_lock", "sched"} \/ state[p] = "SLEEPING"
                /\ want'[p] = want[p] /\ want[p] \in Chan
  PROVE  NothingMissed'
<1> SUFFICES ASSUME NEW p \in Proc
             PROVE  /\ pc'[p] = "sleep_lock" => items'[want'[p]] = 0
                    /\ (pc'[p] = "sched" \/ state'[p] = "SLEEPING") /\ items'[want'[p]] > 0 =>
                         Coming(p, want[p])'
  BY DEF NothingMissed
<1>1. pc'[p] = "sleep_lock" => items'[want'[p]] = 0
  BY DEF IInv, NothingMissed
<1>2. ASSUME pc'[p] = "sched" \/ state'[p] = "SLEEPING", items'[want'[p]] > 0
      PROVE  Coming(p, want[p])'
  <2>1. want'[p] = want[p] /\ want[p] \in Chan
    BY <1>2
  <2>2. Coming(p, want[p])
    BY <1>2, <2>1 DEF IInv, NothingMissed
  <2> QED
    BY <2>1, <2>2 DEF Coming
<1> QED
  BY <1>1, <1>2

\* Every step keeps NothingMissed: Supply() begins the wakeup() that comes to
\* everyone, and WakeupOne() passes only a process that it has woken, that
\* sleeps on another channel or that does not sleep.
LEMMA MissedStep ==
  ASSUME IInv, [Next]_vars
  PROVE  NothingMissed'
<1> USE DEF At, Goto
<1>0. Shape /\ TypeOK /\ LocksHeld /\ InKernel
  BY DEF IInv, Shape
<1>1. ASSUME NEW p \in Proc, Run(p)  PROVE NothingMissed'
  BY <1>0, <1>1, NothingMissedSame DEF Run, TypeOK, InKernel
<1>2. ASSUME NEW p \in Proc, Acquire(p)  PROVE NothingMissed'
  BY <1>0, <1>2, NothingMissedSame DEF Acquire, TypeOK, InKernel
<1>3. ASSUME NEW p \in Proc, Test(p)  PROVE NothingMissed'
  <2>1. want[p] \in Chan
    BY <1>0, <1>3 DEF Test, InKernel
  <2>2. \A q \in Proc : pc[q] \in {"test", "sleep_lock", "wakeup"} => q = p
    BY <1>0, <1>3, OneScan DEF Test
  <2>3. \A q \in Proc : (pc'[q] = "sched" \/ state'[q] = "SLEEPING") =>
          /\ (pc[q] = "sched" \/ state[q] = "SLEEPING")
          /\ q # p /\ want'[q] = want[q] /\ want[q] \in Chan
    BY <1>0, <1>3 DEF Test, Return, TypeOK, InKernel
  <2>4. \A c \in Chan : items'[c] > 0 => items[c] > 0
    BY <1>0, <1>3, <2>1 DEF Test, Return, TypeOK
  <2>5. \A q \in Proc, c \in Chan : Coming(q, c) => Coming(q, c)'
    BY <1>0, <1>3 DEF Test, Return, TypeOK, Coming
  <2>6. ASSUME NEW q \in Proc, pc'[q] = "sleep_lock"  PROVE items'[want'[q]] = 0
    BY <1>0, <1>3, <2>2, <2>6 DEF Test, Return, TypeOK
  <2>7. ASSUME NEW q \in Proc, pc'[q] = "sched" \/ state'[q] = "SLEEPING", items'[want'[q]] > 0
        PROVE  Coming(q, want[q])'
    <3>1. items[want[q]] > 0
      BY <1>0, <2>3, <2>4, <2>7 DEF TypeOK
    <3>2. Coming(q, want[q])
      BY <2>3, <2>7, <3>1 DEF IInv, NothingMissed
    <3> QED
      BY <2>3, <2>5, <2>7, <3>2 DEF Coming
  <2> QED
    BY <2>6, <2>7 DEF NothingMissed
<1>4. ASSUME NEW p \in Proc, SleepLock(p)  PROVE NothingMissed'
  BY <1>0, <1>4, NothingMissedSame DEF SleepLock, TypeOK, InKernel
<1>5. ASSUME NEW p \in Proc, Sched(p)  PROVE NothingMissed'
  BY <1>0, <1>5, NothingMissedSame DEF Sched, TypeOK, InKernel
<1>6. ASSUME NEW p \in Proc, Yield(p)  PROVE NothingMissed'
  BY <1>0, <1>6, NothingMissedSame DEF Yield, TypeOK, InKernel
<1>7. ASSUME NEW p \in Proc, Kill(p)  PROVE NothingMissed'
  BY <1>0, <1>7, NothingMissedSame DEF Kill, TypeOK, InKernel
<1>8. ASSUME NEW p \in Proc, NEW c \in Chan, Call(p, c)  PROVE NothingMissed'
  BY <1>0, <1>8, NothingMissedSame DEF Call, TypeOK, InKernel
<1>9. ASSUME NEW a \in Proc \cup {Intr}, Supply(a)  PROVE NothingMissed'
  <2>1. want[a] \in Chan /\ idx[a] = 0 /\ \A q \in Proc : pc[q] # "sleep_lock"
    BY <1>0, <1>9 DEF Supply, InKernel, LocksHeld
  <2>2. \A q \in Proc : Coming(q, want[a])'
    <3>1. pc'[a] = "wakeup" /\ want'[a] = want[a] /\ idx'[a] = 0
      BY <1>0, <1>9, <2>1 DEF Supply, TypeOK
    <3> QED
      BY <3>1 DEF Coming, Proc
  <2>3. \A q \in Proc, c \in Chan : Coming(q, c) => Coming(q, c)'
    BY <1>0, <1>9 DEF Supply, TypeOK, Coming
  <2>4. ASSUME NEW q \in Proc, pc'[q] = "sched" \/ state'[q] = "SLEEPING", items'[want'[q]] > 0
        PROVE  Coming(q, want[q])'
    <3>1. (pc[q] = "sched" \/ state[q] = "SLEEPING") /\ want[q] \in Chan /\ want' = want
      BY <1>0, <1>9, <2>4 DEF Supply, TypeOK, InKernel
    <3>2. CASE want[q] = want[a]
      BY <2>2, <3>1, <3>2 DEF Coming
    <3>3. CASE want[q] # want[a]
      <4>1. items[want[q]] > 0
        BY <1>0, <1>9, <2>1, <2>4, <3>1, <3>3 DEF Supply, TypeOK
      <4>2. Coming(q, want[q])
        BY <3>1, <4>1 DEF IInv, NothingMissed
      <4> QED
        BY <2>3, <3>1, <4>2 DEF Coming
    <3> QED
      BY <3>2, <3>3
  <2>5. \A q \in Proc : pc'[q] # "sleep_lock"
    BY <1>0, <1>9, <2>1 DEF Supply, TypeOK
  <2> QED
    BY <2>4, <2>5 DEF NothingMissed
<1>10. ASSUME NEW a \in Proc \cup {Intr}, WakeupOne(a)  PROVE NothingMissed'
  <2>1. idx[a] \in Proc /\ lock[idx[a]] = None /\ want[a] \in Chan
    BY <1>0, <1>10, ScanSlot DEF WakeupOne, InKernel
  <2>2. \A q \in Proc, c \in Chan : Coming(q, c) => Coming(q, c)' \/ (q = idx[a] /\ c = want[a])
    BY <1>0, <1>10, <2>1 DEF WakeupOne, TypeOK, Coming, Proc
  <2>3. \A q \in Proc : pc[q] # "sleep_lock"
    BY <1>0, <1>10, OneScan DEF WakeupOne
  <2>4. ASSUME NEW q \in Proc, pc'[q] = "sched" \/ state'[q] = "SLEEPING", items'[want'[q]] > 0
        PROVE  Coming(q, want[q])'
    <3>1. (pc[q] = "sched" \/ state[q] = "SLEEPING") /\ want[q] \in Chan /\ want' = want /\ items' = items
      BY <1>0, <1>10, <2>1, <2>4 DEF WakeupOne, TypeOK, InKernel
    <3>2. Coming(q, want[q])
      BY <2>4, <3>1 DEF IInv, NothingMissed
    <3>3. ~(q = idx[a] /\ want[q] = want[a])
      BY <1>0, <1>10, <2>1, <2>4 DEF WakeupOne, TypeOK, InKernel, LocksHeld
    <3> QED
      BY <2>2, <3>1, <3>2, <3>3 DEF Coming
  <2> QED
    BY <1>10, <2>3, <2>4 DEF NothingMissed, WakeupOne
<1>11. ASSUME NEW a \in Proc \cup {Intr}, WakeupDone(a)  PROVE NothingMissed'
  <2>1. \A q \in Proc, c \in Chan : Coming(q, c) => Coming(q, c)'
    BY <1>0, <1>11 DEF WakeupDone, Return, TypeOK, Coming, Proc
  <2>2. \A q \in Proc : /\ pc'[q] # "sleep_lock"
                        /\ (pc'[q] = "sched" \/ state'[q] = "SLEEPING") =>
                             /\ pc[q] = "sched" \/ state[q] = "SLEEPING"
                             /\ want'[q] = want[q] /\ want[q] \in Chan
    BY SMTT(30), <1>0, <1>11, OneScan DEF WakeupDone, Return, TypeOK, InKernel
  <2>3. ASSUME NEW q \in Proc, pc'[q] = "sched" \/ state'[q] = "SLEEPING", items'[want'[q]] > 0
        PROVE  Coming(q, want[q])'
    <3>1. Coming(q, want[q])
      BY <1>11, <2>2, <2>3 DEF IInv, NothingMissed, WakeupDone
    <3> QED
      BY <2>1, <2>2, <2>3, <3>1 DEF Coming
  <2> QED
    BY <2>2, <2>3 DEF NothingMissed
<1>12. ASSUME NEW a \in Proc \cup {Intr}, NEW c \in Chan, Provide(a, c)  PROVE NothingMissed'
  BY <1>0, <1>12, NothingMissedSame DEF Provide, TypeOK, InKernel
<1>13. CASE UNCHANGED vars
  BY <1>13 DEF vars, IInv, NothingMissed, Coming
<1> QED
  BY <1>1, <1>2, <1>3, <1>4, <1>5, <1>6, <1>7, <1>8, <1>9, <1>10, <1>11, <1>12, <1>13
  DEF Next, Step, Wakeup

LEMMA InvHolds == Spec => []IInv
<1>1. IInv /\ [Next]_vars => IInv'
  BY ShapeStep, MissedStep DEF IInv
<1> QED
  BY InitInv, <1>1, PTL DEF Spec

\* For every number of processes and CPUs, sched() is entered with p->lock only,
\* and no CPU is given up with a lock held.
THEOREM HolderRunsHolds == Spec => []HolderRuns
<1>1. IInv => HolderRuns
  BY DEF IInv, Shape, TypeOK, LocksHeld, InKernel, HolderRuns
<1> QED
  BY InvHolds, <1>1, PTL

\* For every number of processes, CPUs and channels, nobody sleeps on a channel
\* that has something without a wakeup() that still comes to it.
THEOREM NoLostWakeupHolds == Spec => []NoLostWakeup
<1>1. IInv => NoLostWakeup
  BY DEF IInv, Shape, InKernel, NothingMissed, NoLostWakeup
<1> QED
  BY InvHolds, <1>1, PTL

----------------------------------------------------------------------------
(* Sleep implements Monitor. *)

\* p is between the test of its condition and the end of its sleep.
ToSleep(p) == pc[p] \in {"sleep_lock", "sched"} \/ state[p] = "SLEEPING"

Waits(p, c) == want[p] = c /\ ToSleep(p) /\ ~Coming(p, c)

LEMMA WaitingIs ==
  /\ Waiting = [c \in Chan |-> {p \in Proc : Waits(p, c)}]
  /\ Waiting' = [c \in Chan |-> {p \in Proc : Waits(p, c)'}]
  BY DEF Waiting, Waits, ToSleep

\* A step that leaves those on the way to sleep and all scans alone is invisible.
LEMMA WaitingSame ==
  ASSUME \A a \in Proc \cup {Intr} :
           (pc[a] = "wakeup" \/ pc'[a] = "wakeup") =>
             pc'[a] = pc[a] /\ want'[a] = want[a] /\ idx'[a] = idx[a],
         \A p \in Proc : (ToSleep(p)' <=> ToSleep(p)) /\ (ToSleep(p) => want'[p] = want[p])
  PROVE  Waiting' = Waiting
<1>1. \A p \in Proc, c \in Chan : Coming(p, c)' <=> Coming(p, c)
  BY DEF Coming
<1>2. \A p \in Proc, c \in Chan : Waits(p, c)' <=> Waits(p, c)
  BY <1>1 DEF Waits, Coming
<1> QED
  BY <1>2, WaitingIs

\* How the set of waiting processes changes when Waits changes at one channel.
LEMMA WaitingExcept ==
  ASSUME NEW d \in Chan, NEW S, \A q \in S : q \in Proc,
         \A q \in Proc, c \in Chan : Waits(q, c)' <=> IF c = d THEN q \in S ELSE Waits(q, c)
  PROVE  Waiting' = [Waiting EXCEPT ![d] = S]
<1>1. ASSUME NEW c \in Chan
      PROVE  {q \in Proc : Waits(q, c)'} = IF c = d THEN S ELSE {q \in Proc : Waits(q, c)}
  OBVIOUS
<1> QED
  BY <1>1, WaitingIs

\* The steps that change the condition of a channel or who waits on it.
LEMMA TestImplements ==
  ASSUME Shape, NEW p \in Proc, Test(p)
  PROVE  \/ M!Get(p, want[p]) \/ M!Wait(p, want[p])
         \/ UNCHANGED <<items, Waiting>>
<1> USE DEF Shape, TypeOK, InKernel, At, Goto
<1>1. pc[p] = "test" /\ want[p] \in Chan /\ ~ToSleep(p)
  BY DEF Test, ToSleep
<1>2. \A a \in Proc \cup {Intr} : pc[a] # "wakeup" /\ pc'[a] # "wakeup"
  BY <1>1, OneScan DEF Test, Return
<1>3. \A q \in Proc, c \in Chan : ~Coming(q, c) /\ ~Coming(q, c)'
  BY <1>2 DEF Coming
<1>4. CASE pc'[p] = "user"
  <2>1. \A q \in Proc : (ToSleep(q)' <=> ToSleep(q)) /\ (ToSleep(q) => want'[q] = want[q])
    BY <1>1, <1>4 DEF Test, Return, ToSleep
  <2>2. Waiting' = Waiting
    BY <1>2, <2>1, WaitingSame
  <2>3. p \notin Waiting[want[p]]
    BY <1>1, WaitingIs DEF Waits
  <2> QED
    BY <1>1, <1>4, <2>2, <2>3 DEF Test, Return, M!Get
<1>5. CASE pc'[p] # "user"
  <2>1. items[want[p]] = 0 /\ UNCHANGED <<items, want>> /\ pc' = [pc EXCEPT ![p] = "sleep_lock"] /\ state' = state
    BY <1>1, <1>5 DEF Test, Return
  <2>2. \A q \in Proc : ToSleep(q)' <=> ToSleep(q) \/ q = p
    BY <1>1, <2>1 DEF ToSleep
  <2>3. \A q \in Proc, c \in Chan : Waits(q, c)' <=> Waits(q, c) \/ (q = p /\ c = want[p])
    BY <1>3, <2>1, <2>2 DEF Waits, Coming
  <2> HIDE DEF Shape, TypeOK, InKernel, At, Goto
  <2>4. \A q \in Proc : q \in Waiting[want[p]] <=> Waits(q, want[p])
    BY <1>1, WaitingIs
  <2>5. Waiting[want[p]] \subseteq Proc
    BY <1>1, WaitingIs
  <2>6. \A q \in Proc, c \in Chan :
          Waits(q, c)' <=> IF c = want[p] THEN q \in Waiting[want[p]] \cup {p} ELSE Waits(q, c)
    BY <2>3, <2>4
  <2>7. Waiting' = [Waiting EXCEPT ![want[p]] = Waiting[want[p]] \cup {p}]
    <3> DEFINE S == Waiting[want[p]] \cup {p}
    <3>1. \A q \in S : q \in Proc
      BY <2>5
    <3>2. \A q \in Proc, c \in Chan : Waits(q, c)' <=> IF c = want[p] THEN q \in S ELSE Waits(q, c)
      BY <2>6
    <3> HIDE DEF S
    <3>3. Waiting' = [Waiting EXCEPT ![want[p]] = S]
      BY <1>1, <3>1, <3>2, WaitingExcept
    <3> QED
      BY <3>3 DEF S
  <2> QED
    BY <2>1, <2>7 DEF M!Wait
<1> QED
  BY <1>4, <1>5

LEMMA SupplyImplements ==
  ASSUME Shape, NEW a \in Proc \cup {Intr}, Supply(a)
  PROVE  M!Put(want[a])
<1> USE DEF Shape, TypeOK, InKernel, At, Goto
<1>1. want[a] \in Chan /\ pc[a] = "supply" /\ idx[a] = 0 /\ UNCHANGED <<state, want, idx>>
  BY DEF Supply
<1>2. \A q \in Proc : ToSleep(q)' <=> ToSleep(q)
  BY <1>1 DEF Supply, ToSleep
<1>3. \A q \in Proc, c \in Chan : Coming(q, c)' <=> Coming(q, c) \/ c = want[a]
  <2>1. pc'[a] = "wakeup" /\ \A b \in Proc \cup {Intr} : b # a => pc'[b] = pc[b]
    BY DEF Supply
  <2> HIDE DEF Shape, TypeOK, InKernel, At, Goto
  <2>2. \A q \in Proc : Coming(q, want[a])'
    BY <1>1, <2>1 DEF Coming, Proc
  <2>3. \A q \in Proc, c \in Chan : c # want[a] => (Coming(q, c)' <=> Coming(q, c))
    BY <1>1, <2>1 DEF Coming
  <2> QED
    BY <1>1, <2>2, <2>3 DEF Coming
<1> HIDE DEF Shape, TypeOK, InKernel, At, Goto
<1>4. \A q \in Proc, c \in Chan : Waits(q, c)' <=> Waits(q, c) /\ c # want[a]
  BY <1>1, <1>2, <1>3 DEF Waits, Coming
<1>5. Waiting' = [Waiting EXCEPT ![want[a]] = {}]
  BY <1>1, <1>4, WaitingExcept
<1> QED
  BY <1>5 DEF Supply, M!Put

\* wakeup() passes a process only when that one does not wait any more.
LEMMA WakeupOneImplements ==
  ASSUME Shape, NEW a \in Proc \cup {Intr}, WakeupOne(a)
  PROVE  UNCHANGED <<items, Waiting>>
<1> USE DEF Shape, TypeOK, InKernel, LocksHeld, At
<1>1. idx[a] \in Proc /\ want[a] \in Chan /\ pc[a] = "wakeup"
      /\ UNCHANGED <<pc, want, items>> /\ idx' = [idx EXCEPT ![a] = @ + 1]
  BY ScanSlot DEF WakeupOne
<1>2. \A q \in Proc : pc[q] # "sleep_lock"
  BY <1>1, OneScan
<1>3. pc[idx[a]] # "sched"
  BY <1>1 DEF WakeupOne
<1>4. \A q \in Proc : (ToSleep(q)' <=> ToSleep(q)) \/ (q = idx[a] /\ want[q] = want[a])
  BY <1>1 DEF WakeupOne, ToSleep
<1>5. \A q \in Proc : q = idx[a] /\ want[q] = want[a] => ~ToSleep(q)'
  BY <1>1, <1>2, <1>3 DEF WakeupOne, ToSleep
<1>6. \A q \in Proc, c \in Chan : (Coming(q, c)' <=> Coming(q, c)) \/ (q = idx[a] /\ c = want[a])
  BY <1>1 DEF Coming, Proc
<1>7. Coming(idx[a], want[a])
  <2>1. idx[a] <= idx[a]
    BY SMTT(30), <1>1 DEF Proc
  <2> QED
    BY <1>1, <2>1 DEF Coming
<1> HIDE DEF Shape, TypeOK, InKernel, LocksHeld, At
<1>8. \A q \in Proc, c \in Chan : Waits(q, c)' <=> Waits(q, c)
  BY <1>1, <1>4, <1>5, <1>6, <1>7 DEF Waits, Coming
<1> QED
  BY <1>1, <1>8, WaitingIs

\* kill() of a process that sleeps ends its wait.
LEMMA KillImplements ==
  ASSUME Shape, NEW p \in Proc, Kill(p)
  PROVE  UNCHANGED <<items, Waiting>> \/ (want[p] \in Chan /\ M!Interrupt(p, want[p]))
<1>1. UNCHANGED <<pc, want, idx, items>>
  BY DEF Kill
<1>2. \A q \in Proc, c \in Chan : Coming(q, c)' <=> Coming(q, c)
  BY <1>1 DEF Coming
<1>3. CASE state[p] # "SLEEPING"
  <2>1. state' = state
    BY <1>3 DEF Kill, Shape, TypeOK
  <2> QED
    BY <1>1, <2>1, WaitingSame DEF ToSleep
<1>4. CASE state[p] = "SLEEPING"
  <2>1. pc[p] = "asleep" /\ want[p] \in Chan
    BY <1>4 DEF Shape, InKernel
  <2>2. \A q \in Proc : ToSleep(q)' <=> ToSleep(q) /\ q # p
    BY <1>1, <1>4, <2>1 DEF Kill, ToSleep, Shape, TypeOK
  <2>3. \A q \in Proc, c \in Chan : Waits(q, c)' <=> Waits(q, c) /\ q # p
    BY <1>1, <1>2, <2>2 DEF Waits, Coming
  <2>4. /\ Waiting[want[p]] \subseteq Proc
        /\ \A q \in Proc : q \in Waiting[want[p]] <=> Waits(q, want[p])
    BY <2>1, WaitingIs
  <2>5. \A q \in Proc, c \in Chan :
          Waits(q, c)' <=> IF c = want[p] THEN q \in Waiting[want[p]] \ {p} ELSE Waits(q, c)
    BY <2>3, <2>4 DEF Waits
  <2>6. Waiting' = [Waiting EXCEPT ![want[p]] = Waiting[want[p]] \ {p}]
    BY <2>1, <2>4, <2>5, WaitingExcept
  <2> QED
    BY <1>1, <2>1, <2>6 DEF M!Interrupt
<1> QED
  BY <1>3, <1>4

LEMMA StepImplements ==
  ASSUME IInv, [Next]_vars
  PROVE  [M!Next]_(M!vars)
<1> USE DEF At, Goto
<1>0. Shape /\ TypeOK /\ LocksHeld /\ InKernel
  BY DEF IInv, Shape
<1>1. ASSUME NEW p \in Proc, Run(p)  PROVE UNCHANGED <<items, Waiting>>
  BY <1>0, <1>1, WaitingSame DEF Run, TypeOK, InKernel, ToSleep
<1>2. ASSUME NEW p \in Proc, Acquire(p)  PROVE UNCHANGED <<items, Waiting>>
  BY <1>0, <1>2, WaitingSame DEF Acquire, TypeOK, InKernel, ToSleep
<1>3. ASSUME NEW p \in Proc, Test(p)  PROVE M!Next \/ UNCHANGED <<items, Waiting>>
  <2>1. want[p] \in Chan
    BY <1>0, <1>3 DEF Test, InKernel
  <2> QED
    BY <1>0, <1>3, <2>1, TestImplements DEF M!Next
<1>4. ASSUME NEW p \in Proc, SleepLock(p)  PROVE UNCHANGED <<items, Waiting>>
  BY <1>0, <1>4, WaitingSame DEF SleepLock, TypeOK, InKernel, ToSleep
<1>5. ASSUME NEW p \in Proc, Sched(p)  PROVE UNCHANGED <<items, Waiting>>
  BY <1>0, <1>5, WaitingSame DEF Sched, TypeOK, InKernel, ToSleep
<1>6. ASSUME NEW p \in Proc, Yield(p)  PROVE UNCHANGED <<items, Waiting>>
  BY <1>0, <1>6, WaitingSame DEF Yield, TypeOK, InKernel, ToSleep
<1>7. ASSUME NEW p \in Proc, Kill(p)  PROVE M!Next \/ UNCHANGED <<items, Waiting>>
  BY <1>0, <1>7, KillImplements DEF M!Next
<1>8. ASSUME NEW p \in Proc, NEW c \in Chan, Call(p, c)  PROVE UNCHANGED <<items, Waiting>>
  BY <1>0, <1>8, WaitingSame DEF Call, TypeOK, InKernel, ToSleep
<1>9. ASSUME NEW a \in Proc \cup {Intr}, Supply(a)  PROVE M!Next
  <2>1. want[a] \in Chan
    BY <1>0, <1>9 DEF Supply, InKernel
  <2> QED
    BY <1>0, <1>9, <2>1, SupplyImplements DEF M!Next
<1>10. ASSUME NEW a \in Proc \cup {Intr}, WakeupOne(a)  PROVE UNCHANGED <<items, Waiting>>
  BY <1>0, <1>10, WakeupOneImplements
<1>11. ASSUME NEW a \in Proc \cup {Intr}, WakeupDone(a)  PROVE UNCHANGED <<items, Waiting>>
  <2>1. \A q \in Proc, c \in Chan : Coming(q, c)' <=> Coming(q, c)
    BY <1>0, <1>11 DEF WakeupDone, Return, TypeOK, Coming, Proc
  <2>2. \A q \in Proc : (ToSleep(q)' <=> ToSleep(q)) /\ (ToSleep(q) => want'[q] = want[q])
    BY <1>0, <1>11 DEF WakeupDone, Return, TypeOK, InKernel, ToSleep
  <2>3. \A q \in Proc, c \in Chan : Waits(q, c)' <=> Waits(q, c)
    BY <2>1, <2>2 DEF Waits, Coming
  <2> QED
    BY <1>11, <2>3, WaitingIs DEF WakeupDone
<1>12. ASSUME NEW a \in Proc \cup {Intr}, NEW c \in Chan, Provide(a, c)
       PROVE  UNCHANGED <<items, Waiting>>
  BY <1>0, <1>12, WaitingSame DEF Provide, TypeOK, InKernel, ToSleep
<1>13. CASE UNCHANGED vars
  <2>1. UNCHANGED <<state, pc, want, idx, items>>
    BY <1>13 DEF vars
  <2> QED
    BY <2>1, WaitingSame DEF ToSleep, M!vars
<1> QED
  BY <1>1, <1>2, <1>3, <1>4, <1>5, <1>6, <1>7, <1>8, <1>9, <1>10, <1>11, <1>12, <1>13
  DEF Next, Step, Wakeup, M!vars

\* For every number of processes, CPUs and channels, sleep() and wakeup() are
\* atomic to their callers: Sleep implements Monitor.
THEOREM AtomicSleepHolds == Spec => AtomicSleep
<1>1. Init => M!Init
  <2>1. Init => \A p \in Proc, c \in Chan : ~Waits(p, c)
    BY DEF Init, Waits
  <2>2. Init => Waiting = [c \in Chan |-> {}]
    BY <2>1, WaitingIs
  <2> QED
    BY <2>2 DEF Init, M!Init
<1> QED
  BY <1>1, InvHolds, StepImplements, PTL DEF Spec, AtomicSleep, M!Spec
=============================================================================
