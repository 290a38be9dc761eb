----------------------------- MODULE SleepLock -----------------------------
(* Sleeping locks (kernel/sleeplock.c).  lk->lk makes the body of            *)
(* acquiresleep() up to its sleep(), and of releasesleep(), atomic; sleep()  *)
(* and wakeup() are atomic to their callers (Sleep refines Monitor).         *)
CONSTANTS
  Proc,
  Lock,   \* the sleeping locks
  None    \* no process, no lock

VARIABLES
  locked,  \* lk->locked
  pid,     \* lk->pid
  spc,     \* a process is "out", spins for lk->lk ("try"), is "asleep" or "in"
  slk      \* the lock it is about

vars == <<locked, pid, spc, slk>>

Init ==
  /\ locked = [l \in Lock |-> 0]
  /\ pid = [l \in Lock |-> None]
  /\ spc = [p \in Proc |-> "out"]
  /\ slk = [p \in Proc |-> None]

\* The call of acquiresleep(l).
Call(p, l) ==
  /\ spc[p] = "out"
  /\ spc' = [spc EXCEPT ![p] = "try"]
  /\ slk' = [slk EXCEPT ![p] = l]
  /\ UNCHANGED <<locked, pid>>

\* The test of lk->locked under lk->lk, and sleep() or the assignments.
AcquireSleep(p) ==
  /\ spc[p] = "try"
  /\ \/ /\ locked[slk[p]] = 1
        /\ spc' = [spc EXCEPT ![p] = "asleep"]
        /\ UNCHANGED <<locked, pid>>
     \/ /\ locked[slk[p]] = 0
        /\ locked' = [locked EXCEPT ![slk[p]] = 1]
        /\ pid' = [pid EXCEPT ![slk[p]] = p]
        /\ spc' = [spc EXCEPT ![p] = "in"]
  /\ UNCHANGED slk

\* Mutant: releasesleep() without its wakeup().
ReleaseSleepSilent(p) ==
  /\ spc[p] = "in"
  /\ locked' = [locked EXCEPT ![slk[p]] = 0]
  /\ pid' = [pid EXCEPT ![slk[p]] = None]
  /\ spc' = [spc EXCEPT ![p] = "out"]
  /\ slk' = [slk EXCEPT ![p] = None]

\* releasesleep(): wakeup(lk) makes every sleeper try again.
ReleaseSleep(p) ==
  /\ spc[p] = "in"
  /\ locked' = [locked EXCEPT ![slk[p]] = 0]
  /\ pid' = [pid EXCEPT ![slk[p]] = None]
  /\ spc' = [q \in Proc |-> IF q = p THEN "out"
                            ELSE IF spc[q] = "asleep" /\ slk[q] = slk[p] THEN "try"
                            ELSE spc[q]]
  /\ slk' = [slk EXCEPT ![p] = None]

\* kill() wakes a process wherever it sleeps; acquiresleep() tests again.
Killed(p) ==
  /\ spc[p] = "asleep"
  /\ spc' = [spc EXCEPT ![p] = "try"]
  /\ UNCHANGED <<locked, pid, slk>>

HoldingSleep(p, l) == locked[l] = 1 /\ pid[l] = p

Next ==
  \E p \in Proc :
    \/ \E l \in Lock : Call(p, l)
    \/ AcquireSleep(p) \/ ReleaseSleep(p) \/ Killed(p)

Spec == Init /\ [][Next]_vars

----------------------------------------------------------------------------
(* Properties *)

TypeOK ==
  /\ locked \in [Lock -> {0, 1}]
  /\ pid \in [Lock -> Proc \cup {None}]
  /\ spc \in [Proc -> {"out", "try", "asleep", "in"}]
  /\ slk \in [Proc -> Lock \cup {None}]

\* At most one process is past acquiresleep(l), and it is the one whose pid
\* holdingsleep() compares with.
Mutex ==
  \A p, q \in Proc :
    spc[p] = "in" =>
      /\ HoldingSleep(p, slk[p])
      /\ spc[q] = "in" /\ slk[q] = slk[p] => p = q

\* No lost wakeup: whoever sleeps sleeps on a lock that is held, so that a
\* releasesleep() is still to come.
SleeperHasHolder ==
  \A p \in Proc : spc[p] = "asleep" =>
    \E q \in Proc : spc[q] = "in" /\ slk[q] = slk[p]
=============================================================================
