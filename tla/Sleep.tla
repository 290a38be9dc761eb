------------------------------- MODULE Sleep -------------------------------
(* sleep() and wakeup() of kernel/proc.c at the grain of their locks, used  *)
(* the way the kernel uses them:                                            *)
(*    acquire(lk); while(!cond) sleep(chan, lk); take; release(lk)          *)
(*    acquire(lk); supply; wakeup(chan); release(lk)                        *)
(* by processes, and the second also by interrupt handlers on an idle CPU.  *)
(* kill() and the scheduler of NCPU CPUs interleave with both.              *)
EXTENDS Naturals, FiniteSets

CONSTANTS
  NPROC,     \* slots of proc[]
  NCPU,
  Chan,      \* sleep channels, all guarded by the one lock lk
  MaxItems,  \* bound: the condition of a channel counts to MaxItems
  Kills,     \* processes are killed
  Intr,      \* the interrupt handler
  None

Proc == 0..(NPROC - 1)

ASSUME SleepAssumption ==
  /\ NPROC \in Nat \ {0} /\ NCPU \in Nat \ {0} /\ MaxItems \in Nat \ {0} /\ Kills \in BOOLEAN
  /\ Intr \notin Proc /\ None \notin Proc \cup {Intr} \cup Chan

VARIABLES
  state,   \* p->state
  chan,    \* p->chan
  killed,  \* p->killed
  lock,    \* holder of p->lock
  lk,      \* holder of lk
  items,   \* what the conditions are about
  pc,      \* where a process, or the handler, is
  want,    \* the channel it is about
  idx      \* loop variable of wakeup()

vars == <<state, chan, killed, lock, lk, items, pc, want, idx>>

\* pc values: "user"; "take" and "supply" spin for lk; "test" holds lk;
\* "sleep_lock" spins for p->lock in sleep(); "sched" holds p->lock and is
\* about to switch; "asleep" is switched out; "wakeup" scans proc[].
PC == {"user", "take", "supply", "test", "sleep_lock", "sched", "asleep", "wakeup"}

Init ==
  /\ state = [p \in Proc |-> "RUNNABLE"]
  /\ chan = [p \in Proc |-> None]
  /\ killed = [p \in Proc |-> 0]
  /\ lock = [p \in Proc |-> None]
  /\ lk = None
  /\ items = [c \in Chan |-> 0]
  /\ pc = [p \in Proc \cup {Intr} |-> "user"]
  /\ want = [p \in Proc \cup {Intr} |-> None]
  /\ idx = [p \in Proc \cup {Intr} |-> 0]

\* CPUs that run a process or the handler.
Busy == Cardinality({p \in Proc : state[p] = "RUNNING"}) + (IF pc[Intr] # "user" THEN 1 ELSE 0)

At(a, l) == pc[a] = l /\ (a \in Proc => state[a] = "RUNNING")

Goto(a, l) == pc' = [pc EXCEPT ![a] = l]

----------------------------------------------------------------------------
(* The scheduler *)

\* scheduler() switches to p.  A process that slept clears p->chan, releases
\* p->lock and spins for lk.
Run(p) ==
  /\ state[p] = "RUNNABLE" /\ lock[p] = None /\ Busy < NCPU
  /\ state' = [state EXCEPT ![p] = "RUNNING"]
  /\ chan' = [chan EXCEPT ![p] = None]
  /\ Goto(p, IF pc[p] = "asleep" THEN "take" ELSE pc[p])
  /\ UNCHANGED <<killed, lock, lk, items, want, idx>>

\* Mutant of Yield: acquire() leaves interrupts on.
YieldLocked(p) ==
  /\ At(p, "user") \/ At(p, "test")
  /\ lock[p] = None
  /\ state' = [state EXCEPT ![p] = "RUNNABLE"]
  /\ UNCHANGED <<chan, killed, lock, lk, items, pc, want, idx>>

\* yield() on a timer interrupt.  acquire() turns interrupts off, so a process
\* that holds a lock or spins for one is not interrupted.
Yield(p) ==
  /\ At(p, "user") /\ lock[p] = None
  /\ state' = [state EXCEPT ![p] = "RUNNABLE"]
  /\ UNCHANGED <<chan, killed, lock, lk, items, pc, want, idx>>

----------------------------------------------------------------------------
(* sleep *)

Call(p, c) ==
  /\ At(p, "user") /\ killed[p] = 0
  /\ want' = [want EXCEPT ![p] = c]
  /\ Goto(p, "take")
  /\ UNCHANGED <<state, chan, killed, lock, lk, items, idx>>

Acquire(p) ==
  /\ At(p, "take") /\ lk = None
  /\ lk' = p
  /\ Goto(p, "test")
  /\ UNCHANGED <<state, chan, killed, lock, items, want, idx>>

Return(p) ==
  /\ lk' = None
  /\ want' = [want EXCEPT ![p] = None]
  /\ Goto(p, "user")

\* while(!cond){ if(p->killed) return -1; sleep(chan, lk); }
Test(p) ==
  /\ At(p, "test")
  /\ \/ /\ items[want[p]] > 0
        /\ items' = [items EXCEPT ![want[p]] = @ - 1]
        /\ Return(p)
     \/ /\ items[want[p]] = 0 /\ killed[p] = 1
        /\ Return(p)
        /\ UNCHANGED items
     \/ /\ items[want[p]] = 0 /\ killed[p] = 0
        /\ Goto(p, "sleep_lock")
        /\ UNCHANGED <<lk, items, want>>
  /\ UNCHANGED <<state, chan, killed, lock, idx>>

\* Mutant of SleepLock: lk is released without p->lock.
SleepUnlocked(p) ==
  /\ At(p, "sleep_lock")
  /\ lk' = None
  /\ Goto(p, "sched")
  /\ UNCHANGED <<state, chan, killed, lock, items, want, idx>>

\* acquire(&p->lock); release(lk)
SleepLock(p) ==
  /\ At(p, "sleep_lock") /\ lock[p] = None
  /\ lock' = [lock EXCEPT ![p] = p]
  /\ lk' = None
  /\ Goto(p, "sched")
  /\ UNCHANGED <<state, chan, killed, items, want, idx>>

\* p->chan = chan, p->state = SLEEPING, sched(); the scheduler releases p->lock.
Sched(p) ==
  /\ At(p, "sched")
  /\ chan' = [chan EXCEPT ![p] = want[p]]
  /\ state' = [state EXCEPT ![p] = "SLEEPING"]
  /\ lock' = [lock EXCEPT ![p] = None]
  /\ Goto(p, "asleep")
  /\ UNCHANGED <<killed, lk, items, want, idx>>

----------------------------------------------------------------------------
(* wakeup *)

\* A process, or the handler on an idle CPU, has something for channel c.
Provide(a, c) ==
  /\ At(a, "user")
  /\ IF a = Intr THEN Busy < NCPU ELSE killed[a] = 0
  /\ items[c] + Cardinality({b \in DOMAIN pc : pc[b] = "supply" /\ want[b] = c}) < MaxItems
  /\ want' = [want EXCEPT ![a] = c]
  /\ Goto(a, "supply")
  /\ UNCHANGED <<state, chan, killed, lock, lk, items, idx>>

Supply(a) ==
  /\ At(a, "supply") /\ lk = None
  /\ lk' = a
  /\ items' = [items EXCEPT ![want[a]] = @ + 1]
  /\ Goto(a, "wakeup")
  /\ UNCHANGED <<state, chan, killed, lock, want, idx>>

\* Mutant of WakeupOne: the loop ends at the first process it wakes.
WakeupFirst(a) ==
  LET p == idx[a]
      hit == state[p] = "SLEEPING" /\ chan[p] = want[a] IN
  /\ At(a, "wakeup") /\ p < NPROC
  /\ lock[p] = None
  /\ state' = [state EXCEPT ![p] = IF hit THEN "RUNNABLE" ELSE @]
  /\ idx' = [idx EXCEPT ![a] = IF hit THEN NPROC ELSE @ + 1]
  /\ UNCHANGED <<chan, killed, lock, lk, items, pc, want>>

\* One iteration of the loop of wakeup().
WakeupOne(a) ==
  LET p == idx[a] IN
  /\ At(a, "wakeup") /\ p < NPROC
  /\ lock[p] = None
  /\ state' = [state EXCEPT ![p] = IF @ = "SLEEPING" /\ chan[p] = want[a] THEN "RUNNABLE" ELSE @]
  /\ idx' = [idx EXCEPT ![a] = @ + 1]
  /\ UNCHANGED <<chan, killed, lock, lk, items, pc, want>>

WakeupDone(a) ==
  /\ At(a, "wakeup") /\ idx[a] = NPROC
  /\ idx' = [idx EXCEPT ![a] = 0]
  /\ Return(a)
  /\ UNCHANGED <<state, chan, killed, lock, items>>

\* kill(p)
Kill(p) ==
  /\ Kills /\ killed[p] = 0 /\ lock[p] = None
  /\ killed' = [killed EXCEPT ![p] = 1]
  /\ state' = [state EXCEPT ![p] = IF @ = "SLEEPING" THEN "RUNNABLE" ELSE @]
  /\ UNCHANGED <<chan, lock, lk, items, pc, want, idx>>

----------------------------------------------------------------------------

Wakeup(a) == Supply(a) \/ WakeupOne(a) \/ WakeupDone(a)

Step(p) == Run(p) \/ Acquire(p) \/ Test(p) \/ SleepLock(p) \/ Sched(p)

Next ==
  \/ \E p \in Proc : Step(p) \/ Yield(p) \/ Kill(p)
  \/ \E p \in Proc, c \in Chan : Call(p, c)
  \/ \E a \in Proc \cup {Intr} : Wakeup(a)
  \/ \E a \in Proc \cup {Intr}, c \in Chan : Provide(a, c)

Spec == Init /\ [][Next]_vars

----------------------------------------------------------------------------
(* Properties *)

TypeOK ==
  /\ state \in [Proc -> {"SLEEPING", "RUNNABLE", "RUNNING"}]
  /\ chan \in [Proc -> Chan \cup {None}]
  /\ killed \in [Proc -> {0, 1}]
  /\ lock \in [Proc -> Proc \cup {None}]
  /\ lk \in Proc \cup {Intr, None}
  /\ items \in [Chan -> Nat]
  /\ pc \in [Proc \cup {Intr} -> PC]
  /\ want \in [Proc \cup {Intr} -> Chan \cup {None}]
  /\ idx \in [Proc \cup {Intr} -> 0..NPROC]

\* A wakeup() on c that has not reached p yet.
Coming(p, c) ==
  \E a \in Proc \cup {Intr} : pc[a] = "wakeup" /\ want[a] = c /\ idx[a] <= p

\* No lost wakeup: sleep() holds p->lock before it lets go of lk, so nobody
\* sleeps on a channel that has something, unless the wakeup is on its way.
NoLostWakeup ==
  \A p \in Proc : state[p] = "SLEEPING" /\ items[chan[p]] > 0 => Coming(p, chan[p])

\* A process waits, as its caller sees it, from the test of the condition until
\* wakeup() starts or kill() ends the sleep.
Waiting ==
  [c \in Chan |->
     {p \in Proc :
        /\ want[p] = c
        /\ pc[p] \in {"sleep_lock", "sched"} \/ state[p] = "SLEEPING"
        /\ ~Coming(p, c)}]

M == INSTANCE Monitor WITH waiting <- Waiting

\* sleep() and wakeup() are atomic to their callers.
AtomicSleep == M!Spec

\* sched() is entered with p->lock only, and a CPU is never given up with a
\* lock held: no spinning CPU waits for a process that is switched out.
HolderRuns ==
  \A p \in Proc :
    lk = p \/ (\E q \in Proc : lock[q] = p) => state[p] = "RUNNING"

\* A process asleep on a channel that has something runs again.
Woken ==
  \A p \in Proc :
    (state[p] = "SLEEPING" /\ items[chan[p]] > 0) ~> (state[p] = "RUNNING")
=============================================================================
