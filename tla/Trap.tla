-------------------------------- MODULE Trap --------------------------------
(* Traps, interrupt masking and context switches on several CPUs: trap.c,    *)
(* push_off() and pop_off() of spinlock.c, scheduler(), sched() and yield()  *)
(* of proc.c, and the clock with sys_sleep() and sys_uptime().  A thread is  *)
(* a process or the scheduler of a CPU; its stack holds the trap frames it   *)
(* is inside of, the innermost first, and is empty in user mode and in the   *)
(* scheduler's loop.  p->lock is held with interrupts off from one thread to *)
(* the next, so taking it, the switch and its release are one step; what     *)
(* that does to noff, intena and the interrupt flag is computed in full.     *)
(* A register is reset once its value is dead: sepc, spp and spie after      *)
(* sret, intena when noff returns to 0, kernel_hartid after uservec.         *)
EXTENDS Naturals, Sequences

CONSTANTS
  Cpu, Boot,      \* CPUs; cpuid() = 0
  TrapProc,
  TickMod,        \* modulus of the uint ticks
  MaxSleep,       \* largest argument of sys_sleep()
  NoCpu

ASSUME TrapAssumption ==
  /\ Boot \in Cpu /\ NoCpu \notin Cpu /\ TrapProc \cap Cpu = {}
  /\ TickMod \in Nat /\ MaxSleep \in Nat /\ MaxSleep < TickMod

VARIABLES
  cur,     \* the thread a CPU runs: a process, or the CPU itself for its scheduler
  cpu,     \* struct cpu and the trap registers of each CPU
  stack,   \* trap frames of each thread
  pstate, pkilled, hartid,  \* p->state, p->killed, p->trapframe->kernel_hartid
  ticks, tickslock,
  bad      \* a panic() of these functions, or a return to the wrong place

trapVars == <<cur, cpu, stack, pstate, pkilled, hartid, ticks, tickslock, bad>>

Frame == [pc |-> "ret", why |-> "none", n |-> 0, ticks0 |-> 0, seen |-> 0,
          intena |-> FALSE, sepc |-> <<NoCpu, 0>>, spie |-> FALSE, spp |-> "U"]

TrapInit ==
  /\ cur = [c \in Cpu |-> c]
  /\ cpu = [c \in Cpu |-> [noff |-> 0, intena |-> FALSE, sie |-> FALSE, stvec |-> "kernelvec",
                           spp |-> "S", spie |-> FALSE, sepc |-> <<NoCpu, 0>>]]
  /\ stack = [t \in TrapProc \cup Cpu |->
                IF t \in Cpu THEN <<>> ELSE <<[Frame EXCEPT !.pc = "forkret", !.sepc = <<t, 0>>]>>]
  /\ pstate = [p \in TrapProc |-> "RUNNABLE"] /\ pkilled = [p \in TrapProc |-> FALSE]
  /\ hartid = [p \in TrapProc |-> NoCpu]
  /\ ticks = 0 /\ tickslock = NoCpu /\ bad = FALSE

----------------------------------------------------------------------------
(* Interrupt masking *)

push_off(u) ==
  [u EXCEPT !.sie = FALSE, !.noff = @ + 1, !.intena = IF u.noff = 0 THEN u.sie ELSE @]

\* Mutant: interrupts come back at the first pop_off().
pop_off_first(u) == [u EXCEPT !.noff = @ - 1, !.sie = u.intena]

pop_off(u) ==
  [u EXCEPT !.noff = @ - 1, !.sie = IF u.noff = 1 /\ u.intena THEN TRUE ELSE @,
            !.intena = IF u.noff = 1 THEN FALSE ELSE @]

\* pop_off() panics.
PopPanics(u) == u.sie \/ u.noff < 1

----------------------------------------------------------------------------
(* Threads *)

TrapAt(c, l) == stack[cur[c]] # <<>> /\ Head(stack[cur[c]]).pc = l
Top(c) == Head(stack[cur[c]])
Replace(c, f) == stack' = [stack EXCEPT ![cur[c]] = <<f>> \o Tail(@)]
TrapGoto(c, l) == Replace(c, [Top(c) EXCEPT !.pc = l])
SetCpu(c, u) == cpu' = [cpu EXCEPT ![c] = u]

\* sched() after swtch() returns, on whatever CPU: intena is the thread's.
Resume(u, f) == IF f.pc = "forkret" THEN u ELSE [u EXCEPT !.intena = f.intena]

\* A process leaves the CPU in state s with p->lock held, u the CPU then: the
\* tests of sched(), swtch(), and the release in scheduler().
sched(c, u, s, f) ==
  /\ bad' = (bad \/ u.noff # 1 \/ u.sie)
  /\ pstate' = [pstate EXCEPT ![cur[c]] = s]
  /\ Replace(c, [f EXCEPT !.intena = u.intena])
  /\ cur' = [cur EXCEPT ![c] = c]
  /\ SetCpu(c, pop_off(u))

\* scheduler(): the loop turns interrupts on at its top.
SchedulerTop(c) ==
  /\ cur[c] = c /\ stack[c] = <<>> /\ ~cpu[c].sie
  /\ SetCpu(c, [cpu[c] EXCEPT !.sie = TRUE])
  /\ UNCHANGED <<cur, stack, pstate, pkilled, hartid, ticks, tickslock, bad>>

\* scheduler() picks a runnable process, which returns from sched(), or starts
\* in forkret(), and releases its lock.
SchedulerRun(c, p) ==
  /\ cur[c] = c /\ stack[c] = <<>> /\ pstate[p] = "RUNNABLE"
  /\ LET u == Resume(push_off(cpu[c]), Head(stack[p]))
     IN  SetCpu(c, pop_off(u)) /\ bad' = (bad \/ PopPanics(u))
  /\ stack' = [stack EXCEPT ![p] = <<[Head(@) EXCEPT !.pc = IF @ = "forkret" THEN "userret" ELSE @]>> \o Tail(@)]
  /\ cur' = [cur EXCEPT ![c] = p] /\ pstate' = [pstate EXCEPT ![p] = "RUNNING"]
  /\ UNCHANGED <<pkilled, hartid, ticks, tickslock>>

\* yield(), from usertrap() or kerneltrap(); the scheduler itself never yields.
yield(c, next) ==
  /\ cur[c] \in TrapProc
  /\ sched(c, push_off(cpu[c]), "RUNNABLE", [Top(c) EXCEPT !.pc = next])
  /\ UNCHANGED <<pkilled, hartid, ticks, tickslock>>

----------------------------------------------------------------------------
(* Traps from user space *)

\* What the hardware does on a trap from `from` at the point pt.
Trapped(u, from, pt) == [u EXCEPT !.spp = from, !.spie = u.sie, !.sie = FALSE, !.sepc = pt]

\* sret.
Sret(u) == [u EXCEPT !.sie = u.spie, !.spp = "S", !.spie = FALSE, !.sepc = <<NoCpu, 0>>]

\* usertrap() up to its branch on scause.  A process killed before its system
\* call exits instead of making it; a fault kills it.
usertrap(c, cause) ==
  /\ cur[c] \in TrapProc /\ stack[cur[c]] = <<>>
  /\ LET p == cur[c]
         u == [Trapped(cpu[c], "U", <<p, 0>>) EXCEPT !.stvec = "kernelvec"]
         call == cause = "syscall" /\ ~pkilled[p]
         clock == cause = "timer" /\ c = Boot
     IN  /\ bad' = (bad \/ cpu[c].stvec # "uservec" \/ hartid[p] # c)
         /\ SetCpu(c, [u EXCEPT !.sie = call])
         /\ stack' = [stack EXCEPT ![p] = <<[Frame EXCEPT !.sepc = u.sepc,
              !.why = IF clock THEN "uclock" ELSE "none",
              !.pc = IF call THEN "syscall" ELSE IF clock THEN "acquire"
                     ELSE IF cause = "timer" THEN "uyield" ELSE "ret"]>>]
         /\ pkilled' = [pkilled EXCEPT ![p] = @ \/ cause = "fault"]
         /\ hartid' = [hartid EXCEPT ![p] = NoCpu]
  /\ UNCHANGED <<cur, pstate, ticks, tickslock>>

\* syscall(): sys_uptime() and sys_sleep(n) take tickslock; a system call may
\* return at any time.
syscall(c) ==
  /\ TrapAt(c, "syscall")
  /\ \/ Replace(c, [Top(c) EXCEPT !.pc = "acquire", !.why = "uptime"])
     \/ \E n \in 0..MaxSleep : Replace(c, [Top(c) EXCEPT !.pc = "acquire", !.why = "sleep0", !.n = n])
  /\ UNCHANGED <<cur, cpu, pstate, pkilled, hartid, ticks, tickslock, bad>>

\* The end of usertrap(): a killed process exits, and its slot is used again
\* by fork(); a timer interrupt yields.
TrapExit(c) ==
  /\ TrapAt(c, "syscall") \/ TrapAt(c, "ret") \/ TrapAt(c, "uyield")
  /\ pkilled[cur[c]]
  /\ sched(c, push_off(cpu[c]), "RUNNABLE", [Frame EXCEPT !.pc = "forkret", !.sepc = <<cur[c], 0>>])
  /\ pkilled' = [pkilled EXCEPT ![cur[c]] = FALSE]
  /\ UNCHANGED <<hartid, ticks, tickslock>>

UserYield(c) == TrapAt(c, "uyield") /\ ~pkilled[cur[c]] /\ yield(c, "userret")

\* usertrapret() from intr_off() to w_stvec().
ToUser(u) == [u EXCEPT !.sie = FALSE, !.stvec = "uservec"]

usertrapret(c) ==
  /\ TrapAt(c, "userret") \/ ((TrapAt(c, "syscall") \/ TrapAt(c, "ret")) /\ ~pkilled[cur[c]])
  /\ SetCpu(c, ToUser(cpu[c]))
  /\ TrapGoto(c, "sret")
  /\ UNCHANGED <<cur, pstate, pkilled, hartid, ticks, tickslock, bad>>

\* The rest of usertrapret() and the sret of userret.
UserSret(c) ==
  /\ TrapAt(c, "sret")
  /\ hartid' = [hartid EXCEPT ![cur[c]] = c]
  /\ SetCpu(c, Sret([cpu[c] EXCEPT !.spp = "U", !.spie = TRUE, !.sepc = Top(c).sepc]))
  /\ bad' = (bad \/ Top(c).sepc # <<cur[c], 0>> \/ Len(stack[cur[c]]) # 1)
  /\ stack' = [stack EXCEPT ![cur[c]] = Tail(@)]
  /\ UNCHANGED <<cur, pstate, pkilled, ticks, tickslock>>

----------------------------------------------------------------------------
(* Traps from the kernel *)

InKernel(c) == cur[c] = c \/ stack[cur[c]] # <<>>

\* An interrupt while the kernel runs with interrupts on: kerneltrap() saves
\* sepc and sstatus and calls devintr(); only cpu 0 counts ticks.
kerneltrap(c, cause) ==
  /\ InKernel(c) /\ cpu[c].sie
  /\ LET t == cur[c]
         u == Trapped(cpu[c], "S", <<t, Len(stack[t])>>)
         clock == cause = "timer" /\ c = Boot
     IN  /\ bad' = (bad \/ u.stvec # "kernelvec" \/ u.spp # "S" \/ u.sie)
         /\ SetCpu(c, u)
         /\ stack' = [stack EXCEPT ![t] = <<[Frame EXCEPT !.sepc = u.sepc, !.spie = u.spie, !.spp = u.spp,
              !.why = IF clock THEN "kclock" ELSE "none",
              !.pc = IF clock THEN "acquire" ELSE IF cause = "timer" THEN "kyield" ELSE "kret"]>> \o @]
  /\ UNCHANGED <<cur, pstate, pkilled, hartid, ticks, tickslock>>

KernelYield(c) ==
  /\ TrapAt(c, "kyield")
  /\ \/ yield(c, "kret")
     \/ /\ cur[c] \in Cpu /\ TrapGoto(c, "kret")
        /\ UNCHANGED <<cur, cpu, pstate, pkilled, hartid, ticks, tickslock, bad>>

\* w_sepc(sepc), w_sstatus(sstatus).
Restore(u, f) == [u EXCEPT !.sepc = f.sepc, !.spie = f.spie, !.spp = f.spp]

\* kerneltrap() restores the registers and kernelvec executes sret.
KernelSret(c) ==
  /\ TrapAt(c, "kret")
  /\ LET u == Restore(cpu[c], Top(c))
     IN  /\ SetCpu(c, Sret(u))
         /\ bad' = (bad \/ u.sepc # <<cur[c], Len(stack[cur[c]]) - 1>> \/ u.spp # "S")
  /\ stack' = [stack EXCEPT ![cur[c]] = Tail(@)]
  /\ UNCHANGED <<cur, pstate, pkilled, hartid, ticks, tickslock>>

----------------------------------------------------------------------------
(* The clock: tickslock and what is done under it *)

acquire(c) ==
  /\ TrapAt(c, "acquire") /\ tickslock = NoCpu
  /\ tickslock' = c
  /\ SetCpu(c, push_off(cpu[c]))
  /\ Replace(c, [Top(c) EXCEPT !.pc = "locked",
       !.ticks0 = IF Top(c).why = "sleep0" THEN ticks ELSE @,
       !.why = IF @ = "sleep0" THEN "sleep" ELSE @])
  /\ UNCHANGED <<cur, pstate, pkilled, hartid, ticks, bad>>

\* release(&tickslock), the thread going on at f.
release(c, f) ==
  /\ tickslock' = NoCpu
  /\ SetCpu(c, pop_off(cpu[c])) /\ bad' = (bad \/ PopPanics(cpu[c]))
  /\ stack' = [stack EXCEPT ![cur[c]] = <<f>> \o Tail(@)]
  /\ UNCHANGED <<cur, hartid>>

\* seen counts the ticks a sys_sleep() call has lived through, up to its n.
Tick(f) == IF f.why = "sleep" /\ f.seen < f.n THEN [f EXCEPT !.seen = @ + 1] ELSE f

\* ticks++ and wakeup(&ticks).
clockintr(c) ==
  /\ TrapAt(c, "locked") /\ Top(c).why \in {"uclock", "kclock"}
  /\ ticks' = (ticks + 1) % TickMod
  /\ pstate' = [p \in TrapProc |-> IF pstate[p] = "SLEEPING" THEN "RUNNABLE" ELSE pstate[p]]
  /\ LET after == [Top(c) EXCEPT !.pc = IF Top(c).why = "uclock" THEN "uyield" ELSE "kyield"]
     IN  stack' = [t \in DOMAIN stack |-> [i \in DOMAIN stack[t] |->
                     IF t = cur[c] /\ i = 1 THEN after ELSE Tick(stack[t][i])]]
  /\ tickslock' = NoCpu
  /\ SetCpu(c, pop_off(cpu[c])) /\ bad' = (bad \/ PopPanics(cpu[c]))
  /\ UNCHANGED <<cur, pkilled, hartid>>

sys_uptime(c) ==
  /\ TrapAt(c, "locked") /\ Top(c).why = "uptime"
  /\ release(c, [Top(c) EXCEPT !.pc = "syscall", !.why = "none"])
  /\ UNCHANGED <<pstate, pkilled, ticks>>

\* Mutant: a deadline, computed once, is compared with ticks.
NotYetDeadline(f) == ticks < (f.ticks0 + f.n) % TickMod

\* ticks - ticks0 < n.
NotYet(f) == (ticks + TickMod - f.ticks0) % TickMod < f.n

\* The loop of sys_sleep(): return when n ticks passed or the process was
\* killed, else sleep(&ticks, &tickslock).
sys_sleep(c) ==
  /\ TrapAt(c, "locked") /\ Top(c).why = "sleep"
  /\ IF NotYet(Top(c)) /\ ~pkilled[cur[c]]
     THEN /\ sched(c, pop_off(push_off(cpu[c])), "SLEEPING", [Top(c) EXCEPT !.pc = "acquire"])
          /\ tickslock' = NoCpu /\ UNCHANGED hartid
     ELSE release(c, [Top(c) EXCEPT !.pc = "syscall", !.why = "none", !.n = 0, !.ticks0 = 0, !.seen = 0]) /\ UNCHANGED pstate
  /\ UNCHANGED <<pkilled, ticks>>

kill(p) ==
  /\ ~pkilled[p]
  /\ pkilled' = [pkilled EXCEPT ![p] = TRUE]
  /\ pstate' = [pstate EXCEPT ![p] = IF @ = "SLEEPING" THEN "RUNNABLE" ELSE @]
  /\ UNCHANGED <<cur, cpu, stack, hartid, ticks, tickslock, bad>>
----------------------------------------------------------------------------
Kernel(c) ==
  \/ SchedulerTop(c) \/ (\E p \in TrapProc : SchedulerRun(c, p))
  \/ syscall(c) \/ TrapExit(c) \/ UserYield(c) \/ usertrapret(c) \/ UserSret(c)
  \/ KernelYield(c) \/ KernelSret(c)
  \/ acquire(c) \/ clockintr(c) \/ sys_uptime(c) \/ sys_sleep(c)

TrapNext ==
  \/ \E c \in Cpu : Kernel(c)
  \/ \E c \in Cpu, cause \in {"syscall", "timer", "device", "fault"} : usertrap(c, cause)
  \/ \E c \in Cpu, cause \in {"timer", "device"} : kerneltrap(c, cause)
  \/ \E p \in TrapProc : kill(p)

TrapSpec == TrapInit /\ [][TrapNext]_trapVars

----------------------------------------------------------------------------
(* Properties *)

TrapTypeOK ==
  /\ cur \in [Cpu -> TrapProc \cup Cpu]
  /\ DOMAIN stack = TrapProc \cup Cpu /\ \A t \in DOMAIN stack : Len(stack[t]) <= 2
  /\ pstate \in [TrapProc -> {"RUNNABLE", "RUNNING", "SLEEPING"}]
  /\ pkilled \in [TrapProc -> BOOLEAN] /\ hartid \in [TrapProc -> Cpu \cup {NoCpu}]
  /\ ticks \in 0..(TickMod - 1) /\ tickslock \in Cpu \cup {NoCpu} /\ bad \in BOOLEAN
  /\ \A c \in Cpu : cpu[c].noff \in 0..2

\* Every trap goes to the handler for the mode it came from, every sret goes
\* back to the point that was interrupted although the thread may have changed
\* CPU meanwhile, uservec finds its own hartid, and no panic of usertrap(),
\* kerneltrap(), sched() or pop_off() is reached.
TrapsReturn == ~bad

\* Interrupts are off on a CPU that holds a spinlock, and noff counts its locks.
LockedMasked ==
  \A c \in Cpu : /\ cpu[c].noff = IF tickslock = c THEN 1 ELSE 0
                 /\ tickslock = c => ~cpu[c].sie

\* intena belongs to the thread: system call code runs with interrupts on
\* after any release(), and a handler with interrupts off, on whatever CPU
\* they continue after a yield().
IntenaKept ==
  \A c \in Cpu : stack[cur[c]] # <<>> =>
    /\ Top(c).pc = "syscall" => cpu[c].sie
    /\ (Len(stack[cur[c]]) = 2 \/ cur[c] = c) => ~cpu[c].sie

\* The three together: on every CPU, in every thread, interrupts are on and off
\* where the code believes them to be, wherever a trap or a switch comes.
InterruptsExact == TrapTypeOK /\ TrapsReturn /\ LockedMasked /\ IntenaKept

\* sys_sleep(n) of a process that was not killed returns only after n clock
\* ticks, also when ticks wraps around in between.
SleepEnough ==
  [][\A c \in Cpu : (sys_sleep(c) /\ ~pkilled[cur[c]] /\ cur' = cur) => Top(c).seen = Top(c).n]_trapVars
=============================================================================
