------------------------------ MODULE ProcTable ------------------------------
(* Process creation, exit, wait and kill of kernel/proc.c, with the          *)
(* per-process spinlock p->lock explicit: the steps between two acquire()s   *)
(* of different processes interleave.  A step that acquires a lock and       *)
(* releases it before the next acquire() is one action.                      *)
(*                                                                           *)
(* Every process has a CPU when it wants one: yield() and the limit NCPU     *)
(* only make a process slower, and are left out.  The only sleep modelled is *)
(* the one in wait(), so p->chan == p holds of every sleeping process and    *)
(* p->chan is left out.                                                      *)
EXTENDS Naturals, FiniteSets

CONSTANTS
  NPROC,     \* slots of proc[]
  NoProc,    \* a lock is free; a null pointer
  MaxKilled  \* bound: slots whose p->killed is set at a time

Slot == 0..(NPROC - 1)

ASSUME ProcAssumption == NPROC \in Nat \ {0} /\ MaxKilled \in Nat /\ NoProc \notin Slot

\* userinit() is the first to call allocproc().
initproc == 0

VARIABLES
  state,   \* p->state
  parent,  \* p->parent
  killed,  \* p->killed
  lock,    \* the process holding p->lock
  pc,      \* where the process of a slot is in the kernel
  idx,     \* the loop variable of reparent() and wait()
  kids,    \* havekids
  orig     \* original_parent

tableVars == <<state, parent, killed>>
localVars == <<idx, kids, orig>>
vars == <<tableVars, lock, pc, localVars>>

\* pc values: "off" (no kernel thread runs on this slot), "user", then the next
\* step of exit() ("exit_parent" ... "exit_sched") or wait() ("wait_scan" ...
\* "wait_sleep").
PC == {"off", "user",
       "exit_parent", "exit_lock_parent", "exit_lock", "reparent", "reparent_lock",
       "exit_zombie", "exit_sched",
       "wait_scan", "wait_lock", "wait_end", "wait_sleep"}

Init ==
  /\ state = [s \in Slot |-> IF s = initproc THEN "RUNNABLE" ELSE "UNUSED"]
  /\ parent = [s \in Slot |-> NoProc]
  /\ killed = [s \in Slot |-> 0]
  /\ lock = [s \in Slot |-> NoProc]
  /\ pc = [s \in Slot |-> IF s = initproc THEN "user" ELSE "off"]
  /\ idx = [s \in Slot |-> 0]
  /\ kids = [s \in Slot |-> 0]
  /\ orig = [s \in Slot |-> NoProc]

Free(s) == lock[s] = NoProc

At(p, l) == state[p] = "RUNNING" /\ pc[p] = l

Goto(p, l) == pc' = [pc EXCEPT ![p] = l]

\* The next slot from i on whose parent is p, or NPROC.  Only p gives a child
\* away (ParentStable) and, but for init, only p gets itself one, so the slots
\* before it may be passed in one step.
NextChild(p, i) ==
  LET C == {s \in Slot : s >= i /\ parent[s] = p}
  IN  IF C = {} THEN NPROC ELSE CHOOSE s \in C : \A t \in C : s <= t

\* wakeup1(s), for a caller that holds s->lock
Wakeup1(s) == IF state[s] = "SLEEPING" THEN "RUNNABLE" ELSE state[s]

----------------------------------------------------------------------------
(* scheduler, forkret *)

\* scheduler() switches to p.  forkret() then releases p->lock;
\* sleep() in wait() keeps it and wait() scans again.
Run(p) ==
  /\ state[p] = "RUNNABLE" /\ Free(p)
  /\ state' = [state EXCEPT ![p] = "RUNNING"]
  /\ \/ /\ pc[p] = "user"
        /\ UNCHANGED <<lock, pc>>
     \/ /\ pc[p] = "wait_sleep"
        /\ lock' = [lock EXCEPT ![p] = p]
        /\ Goto(p, "wait_scan")
  /\ UNCHANGED <<parent, killed, localVars>>

----------------------------------------------------------------------------
(* fork and kill *)

\* usertrap() lets only a process that is not killed into a system call.
\* allocproc() takes some UNUSED slot: which one depends on what the scan saw.
\* p->killed is not set by allocproc().
Fork(p) ==
  /\ At(p, "user") /\ killed[p] = 0
  /\ \E np \in Slot :
       /\ state[np] = "UNUSED" /\ Free(np)
       /\ state' = [state EXCEPT ![np] = "RUNNABLE"]
       /\ parent' = [parent EXCEPT ![np] = p]
       /\ Goto(np, "user")
  /\ UNCHANGED <<killed, lock, localVars>>

\* uvmcopy() or proc_pagetable() fails: freeproc(np).
ForkFail(p) ==
  /\ At(p, "user") /\ killed[p] = 0
  /\ \E np \in Slot :
       /\ state[np] = "UNUSED" /\ Free(np)
       /\ killed' = [killed EXCEPT ![np] = 0]
  /\ UNCHANGED <<state, parent, lock, pc, localVars>>

\* kill(pid) of the slot that has this pid; an UNUSED slot has pid 0, or the
\* pid a failed allocproc() left there.  Killing init is left out: it panics.
Kill(s) ==
  /\ s # initproc /\ Free(s)
  /\ Cardinality({s} \cup {q \in Slot : killed[q] = 1}) <= MaxKilled
  /\ \E p \in Slot \ {s} : At(p, "user") /\ killed[p] = 0
  /\ killed' = [killed EXCEPT ![s] = 1]
  /\ state' = [state EXCEPT ![s] = Wakeup1(s)]
  /\ UNCHANGED <<parent, lock, pc, localVars>>

----------------------------------------------------------------------------
(* exit *)

\* exit() up to and including the wakeup of init; closing files and the
\* current directory is left out.
ExitStart(p) ==
  /\ At(p, "user") /\ p # initproc
  /\ Free(initproc)
  /\ state' = [state EXCEPT ![initproc] = Wakeup1(initproc)]
  /\ Goto(p, "exit_parent")
  /\ UNCHANGED <<parent, killed, lock, localVars>>

ExitParent(p) ==
  /\ At(p, "exit_parent") /\ Free(p)
  /\ orig' = [orig EXCEPT ![p] = parent[p]]
  /\ Goto(p, "exit_lock_parent")
  /\ UNCHANGED <<tableVars, lock, idx, kids>>

ExitLockParent(p) ==
  /\ At(p, "exit_lock_parent") /\ Free(orig[p])
  /\ lock' = [lock EXCEPT ![orig[p]] = p]
  /\ Goto(p, "exit_lock")
  /\ UNCHANGED <<tableVars, localVars>>

ExitLock(p) ==
  /\ At(p, "exit_lock") /\ Free(p)
  /\ lock' = [lock EXCEPT ![p] = p]
  /\ Goto(p, "reparent")
  /\ UNCHANGED <<tableVars, localVars>>

\* Mutant of Reparent: it gives the children of original_parent away.
ReparentSiblings(p) ==
  /\ At(p, "reparent")
  /\ idx' = [idx EXCEPT ![p] = NextChild(orig[p], idx[p])]
  /\ Goto(p, IF NextChild(orig[p], idx[p]) = NPROC THEN "exit_zombie" ELSE "reparent_lock")
  /\ UNCHANGED <<tableVars, lock, kids, orig>>

\* reparent() reads pp->parent without pp->lock ...
Reparent(p) ==
  /\ At(p, "reparent")
  /\ idx' = [idx EXCEPT ![p] = NextChild(p, idx[p])]
  /\ Goto(p, IF NextChild(p, idx[p]) = NPROC THEN "exit_zombie" ELSE "reparent_lock")
  /\ UNCHANGED <<tableVars, lock, kids, orig>>

\* Mutant of ReparentLock: the loop stops at the first child.
ReparentOne(p) ==
  /\ At(p, "reparent_lock") /\ Free(idx[p])
  /\ parent' = [parent EXCEPT ![idx[p]] = initproc]
  /\ Goto(p, "exit_zombie")
  /\ UNCHANGED <<state, killed, lock, localVars>>

\* ... and then acquires it.
ReparentLock(p) ==
  /\ At(p, "reparent_lock") /\ Free(idx[p])
  /\ parent' = [parent EXCEPT ![idx[p]] = initproc]
  /\ idx' = [idx EXCEPT ![p] = @ + 1]
  /\ Goto(p, "reparent")
  /\ UNCHANGED <<state, killed, lock, kids, orig>>

\* Mutant of ExitZombie: only init, woken at the start, learns of the exit.
ExitSilent(p) ==
  /\ At(p, "exit_zombie")
  /\ state' = [state EXCEPT ![p] = "ZOMBIE"]
  /\ lock' = [lock EXCEPT ![orig[p]] = NoProc]
  /\ Goto(p, "exit_sched")
  /\ UNCHANGED <<parent, killed, localVars>>

\* wakeup1(original_parent), p->state = ZOMBIE, release the parent.
ExitZombie(p) ==
  /\ At(p, "exit_zombie")
  /\ state' = [state EXCEPT ![orig[p]] = Wakeup1(orig[p]), ![p] = "ZOMBIE"]
  /\ lock' = [lock EXCEPT ![orig[p]] = NoProc]
  /\ Goto(p, "exit_sched")
  /\ UNCHANGED <<parent, killed, localVars>>

\* sched(): the scheduler leaves p's stack and releases p->lock.
ExitSched(p) ==
  /\ pc[p] = "exit_sched"
  /\ lock' = [lock EXCEPT ![p] = NoProc]
  /\ Goto(p, "off")
  /\ idx' = [idx EXCEPT ![p] = 0]
  /\ kids' = [kids EXCEPT ![p] = 0]
  /\ orig' = [orig EXCEPT ![p] = NoProc]
  /\ UNCHANGED tableVars

----------------------------------------------------------------------------
(* wait *)

WaitStart(p) ==
  /\ At(p, "user") /\ killed[p] = 0 /\ Free(p)
  /\ lock' = [lock EXCEPT ![p] = p]
  /\ Goto(p, "wait_scan")
  /\ UNCHANGED <<tableVars, localVars>>

\* Release p->lock; the locals are dead.
Leave(p, l) ==
  /\ lock' = [lock EXCEPT ![p] = NoProc]
  /\ idx' = [idx EXCEPT ![p] = 0]
  /\ kids' = [kids EXCEPT ![p] = 0]
  /\ Goto(p, l)

WaitReturn(p) == Leave(p, "user")

\* The test of np->parent; init, who is given children during its scan, passes
\* the slots one by one.
WaitScan(p) ==
  /\ At(p, "wait_scan")
  /\ \/ /\ p = initproc /\ idx[p] < NPROC /\ parent[idx[p]] # p
        /\ idx' = [idx EXCEPT ![p] = @ + 1]
        /\ UNCHANGED pc
     \/ /\ p = initproc /\ idx[p] < NPROC => parent[idx[p]] = p
        /\ idx' = [idx EXCEPT ![p] = NextChild(p, idx[p])]
        /\ Goto(p, IF NextChild(p, idx[p]) = NPROC THEN "wait_end" ELSE "wait_lock")
  /\ UNCHANGED <<tableVars, lock, kids, orig>>

\* havekids = 1 and what wait() does with np, by np->state.
WaitLook(p) ==
  LET np == idx[p] IN
  /\ At(p, "wait_lock")
  /\ \/ /\ state[np] # "ZOMBIE"
        /\ kids' = [kids EXCEPT ![p] = 1]
        /\ idx' = [idx EXCEPT ![p] = @ + 1]
        /\ Goto(p, "wait_scan")
        /\ UNCHANGED <<tableVars, lock>>
     \/ \* freeproc(np)
        /\ state[np] = "ZOMBIE"
        /\ state' = [state EXCEPT ![np] = "UNUSED"]
        /\ parent' = [parent EXCEPT ![np] = NoProc]
        /\ killed' = [killed EXCEPT ![np] = 0]
        /\ WaitReturn(p)
     \/ \* copyout() of the status fails: -1, and the zombie stays
        /\ state[np] = "ZOMBIE" /\ p # initproc
        /\ WaitReturn(p)
        /\ UNCHANGED tableVars
  /\ UNCHANGED orig

\* Mutant of WaitLock: np->state is tested without np->lock.
WaitPeek(p) == WaitLook(p)

\* acquire(&np->lock), then a look at np.
WaitLock(p) == WaitLook(p) /\ Free(idx[p])

WaitEnd(p) ==
  /\ At(p, "wait_end")
  /\ \/ /\ kids[p] = 0 \/ killed[p] = 1
        /\ WaitReturn(p)
        /\ UNCHANGED state
     \/ /\ kids[p] = 1 /\ killed[p] = 0
        /\ state' = [state EXCEPT ![p] = "SLEEPING"]
        /\ Leave(p, "wait_sleep")
  /\ UNCHANGED <<parent, killed, orig>>

----------------------------------------------------------------------------

Exit(p) ==
  \/ ExitParent(p) \/ ExitLockParent(p) \/ ExitLock(p)
  \/ Reparent(p) \/ ReparentLock(p) \/ ExitZombie(p) \/ ExitSched(p)

Wait(p) == WaitScan(p) \/ WaitLock(p) \/ WaitEnd(p)

Next ==
  \E p \in Slot :
    \/ Run(p) \/ Fork(p) \/ ForkFail(p) \/ Kill(p)
    \/ ExitStart(p) \/ Exit(p)
    \/ WaitStart(p) \/ Wait(p)

Spec == Init /\ [][Next]_vars

----------------------------------------------------------------------------
(* Properties *)

TypeOK ==
  /\ state \in [Slot -> {"UNUSED", "SLEEPING", "RUNNABLE", "RUNNING", "ZOMBIE"}]
  /\ parent \in [Slot -> Slot \cup {NoProc}]
  /\ killed \in [Slot -> {0, 1}]
  /\ lock \in [Slot -> Slot \cup {NoProc}]
  /\ pc \in [Slot -> PC]
  /\ idx \in [Slot -> 0..NPROC]
  /\ kids \in [Slot -> {0, 1}]
  /\ orig \in [Slot -> Slot \cup {NoProc}]

\* wait() and reparent() test np->parent without np->lock: when they hold the
\* lock the test still holds, "because only the parent changes it".
ParentStable ==
  \A p \in Slot : pc[p] \in {"wait_lock", "reparent_lock"} => parent[idx[p]] = p

\* The parent of every process can still call wait(): exit() has given all its
\* children to init before it becomes a zombie.
ParentAlive ==
  \A s \in Slot \ {initproc} :
    state[s] # "UNUSED" => state[parent[s]] \notin {"UNUSED", "ZOMBIE"}

\* No lost wakeup in wait(): p->killed is tested, the children are looked at and
\* the sleep is entered under p->lock, so a killed process does not sleep there,
\* and a parent other than init does not while it has a zombie child.
NoLostChild ==
  \A p \in Slot : state[p] = "SLEEPING" =>
    /\ killed[p] = 0
    /\ p # initproc => \A s \in Slot : parent[s] = p => state[s] # "ZOMBIE"

\* wait() frees a zombie only when no CPU runs on its kernel stack any more.
StackFree == \A s \in Slot : state[s] = "UNUSED" => pc[s] = "off"

\* Whose lock p spins for.
Wants(p) ==
  CASE pc[p] = "exit_lock_parent" -> orig[p]
    [] pc[p] = "exit_lock" -> p
    [] pc[p] \in {"reparent_lock", "wait_lock"} -> idx[p]
    [] OTHER -> NoProc

\* No set of processes spin for locks that other processes of the set hold.
NoLockCycle ==
  ~\E S \in (SUBSET Slot) \ {{}} :
      \A p \in S : Wants(p) # NoProc /\ lock[Wants(p)] \in S
=============================================================================
