-------------------------------- MODULE Pipe --------------------------------
(* A pipe (kernel/pipe.c) between processes that share its two ends.          *)
(* pi->lock is explicit, because pipewrite() and piperead() give it up in     *)
(* sleep() and because kill() does not take it.  sleep() and wakeup() are     *)
(* atomic to their callers (Sleep refines Monitor).                           *)
EXTENDS Naturals, FiniteSets

CONSTANTS
  Writers, Readers,  \* the processes with a descriptor of each end
  PIPESIZE,
  Mod,      \* nread and nwrite are uints: counts modulo Mod (2^32)
  Byte,
  MaxN,     \* longest read() or write()
  NoOne

PipeProc == Writers \cup Readers

ASSUME PipeAssumption ==
  /\ Writers \cap Readers = {} /\ NoOne \notin Writers \cup Readers
  /\ PIPESIZE \in Nat \ {0} /\ Mod \in Nat /\ Mod > PIPESIZE
  /\ Mod % PIPESIZE = 0 /\ MaxN \in Nat

VARIABLES
  data, nread, nwrite, readopen, writeopen,  \* struct pipe
  freed,   \* kfree(pi) has run
  plock,   \* the process that holds pi->lock
  ppc,
  n, i,    \* argument and loop variable of a call
  fd,      \* the processes whose descriptor is open
  wkilled  \* p->killed

ring == <<data, nread, nwrite>>
ends == <<readopen, writeopen, freed>>
pipeVars == <<ring, ends, plock, ppc, n, i, fd, wkilled>>

PipeInit ==
  /\ data \in [0..(PIPESIZE - 1) -> Byte]
  /\ nread = 0 /\ nwrite = 0
  /\ readopen = 1 /\ writeopen = 1 /\ freed = 0
  /\ plock = NoOne
  /\ ppc = [p \in PipeProc |-> "user"]
  /\ n = [p \in PipeProc |-> 0]
  /\ i = [p \in PipeProc |-> 0]
  /\ fd = PipeProc
  /\ wkilled = [p \in PipeProc |-> 0]

\* Mutant: the sum is compared without the wraparound of uints.
FullWide == nwrite = nread + PIPESIZE

Full == nwrite = (nread + PIPESIZE) % Mod

Empty == nread = nwrite

PipeGoto(p, l) == ppc' = [ppc EXCEPT ![p] = l]

\* p goes to l after a wakeup() of those who sleep at from; they take pi->lock
\* again before they go on.
WakeupGoto(p, from, to, l) ==
  ppc' = [q \in PipeProc |-> IF q = p THEN l ELSE IF ppc[q] = from THEN to ELSE ppc[q]]

Release == plock' = NoOne
PipeReturn(p) == n' = [n EXCEPT ![p] = 0] /\ i' = [i EXCEPT ![p] = 0]

----------------------------------------------------------------------------

Write(p, k) ==
  /\ p \in Writers \cap fd /\ ppc[p] = "user" /\ wkilled[p] = 0
  /\ n' = [n EXCEPT ![p] = k]
  /\ PipeGoto(p, "wacquire")
  /\ UNCHANGED <<ring, ends, plock, i, fd, wkilled>>

Read(p, k) ==
  /\ p \in Readers \cap fd /\ ppc[p] = "user" /\ wkilled[p] = 0
  /\ n' = [n EXCEPT ![p] = k]
  /\ PipeGoto(p, "racquire")
  /\ UNCHANGED <<ring, ends, plock, i, fd, wkilled>>

\* acquire(&pi->lock), at the start of a function and at the end of sleep().
PipeAcquire(p) ==
  /\ plock = NoOne
  /\ \/ ppc[p] = "wacquire" /\ PipeGoto(p, "write")
     \/ ppc[p] = "racquire" /\ PipeGoto(p, "read")
     \/ ppc[p] = "cacquire" /\ PipeGoto(p, "close")
  /\ plock' = p
  /\ UNCHANGED <<ring, ends, n, i, fd, wkilled>>

\* The body of the for loop of pipewrite() when there is room.
WriteByte(p) ==
  /\ ppc[p] = "write" /\ i[p] < n[p] /\ ~Full
  /\ \E b \in Byte : data' = [data EXCEPT ![nwrite % PIPESIZE] = b]
  /\ nwrite' = (nwrite + 1) % Mod
  /\ i' = [i EXCEPT ![p] = @ + 1]
  /\ UNCHANGED <<nread, ends, plock, ppc, n, fd, wkilled>>

\* The while loop of pipewrite(): it fails, or wakes the readers and sleeps.
WriteFull(p) ==
  /\ ppc[p] = "write" /\ i[p] < n[p] /\ Full
  /\ \/ /\ readopen = 0 \/ wkilled[p] = 1
        /\ PipeGoto(p, "user") /\ PipeReturn(p) /\ Release
     \/ /\ readopen = 1 /\ wkilled[p] = 0
        /\ WakeupGoto(p, "rasleep", "racquire", "wsleep")
        /\ UNCHANGED <<n, i, plock>>
  /\ UNCHANGED <<ring, ends, fd, wkilled>>

\* The end of pipewrite(), after the last byte or when copyin() fails.
WriteDone(p) ==
  /\ ppc[p] = "write" /\ (i[p] < n[p] => ~Full)
  /\ WakeupGoto(p, "rasleep", "racquire", "user")
  /\ PipeReturn(p) /\ Release
  /\ UNCHANGED <<ring, ends, fd, wkilled>>

\* The while loop of piperead().
ReadEmpty(p) ==
  /\ ppc[p] = "read" /\ Empty /\ writeopen = 1
  /\ \/ wkilled[p] = 1 /\ PipeGoto(p, "user") /\ PipeReturn(p) /\ Release
     \/ wkilled[p] = 0 /\ PipeGoto(p, "rsleep") /\ UNCHANGED <<n, i, plock>>
  /\ UNCHANGED <<ring, ends, fd, wkilled>>

ReadStart(p) ==
  /\ ppc[p] = "read" /\ ~(Empty /\ writeopen = 1)
  /\ PipeGoto(p, "copy")
  /\ UNCHANGED <<ring, ends, plock, n, i, fd, wkilled>>

\* The body of the for loop of piperead().  When copyout() fails the byte is
\* taken out of the pipe all the same.
ReadByte(p) ==
  /\ ppc[p] = "copy" /\ i[p] < n[p] /\ ~Empty
  /\ nread' = (nread + 1) % Mod
  /\ \/ /\ i' = [i EXCEPT ![p] = @ + 1]
        /\ UNCHANGED <<ppc, n, plock>>
     \/ WakeupGoto(p, "wasleep", "wacquire", "user") /\ PipeReturn(p) /\ Release
  /\ UNCHANGED <<data, nwrite, ends, fd, wkilled>>

\* Mutant: piperead() without its wakeup().
ReadDoneSilent(p) ==
  /\ ppc[p] = "copy" /\ (i[p] = n[p] \/ Empty)
  /\ PipeGoto(p, "user")
  /\ PipeReturn(p) /\ Release
  /\ UNCHANGED <<ring, ends, fd, wkilled>>

ReadDone(p) ==
  /\ ppc[p] = "copy" /\ (i[p] = n[p] \/ Empty)
  /\ WakeupGoto(p, "wasleep", "wacquire", "user")
  /\ PipeReturn(p) /\ Release
  /\ UNCHANGED <<ring, ends, fd, wkilled>>

\* sleep(chan, &pi->lock)
SleepOn(p) ==
  /\ \/ ppc[p] = "wsleep" /\ PipeGoto(p, "wasleep")
     \/ ppc[p] = "rsleep" /\ PipeGoto(p, "rasleep")
  /\ Release
  /\ UNCHANGED <<ring, ends, n, i, fd, wkilled>>

\* Mutant: every close() of a descriptor calls pipeclose().
CloseEvery(p) ==
  /\ p \in fd /\ ppc[p] = "user"
  /\ fd' = fd \ {p}
  /\ PipeGoto(p, "cacquire")
  /\ UNCHANGED <<ring, ends, plock, n, i, wkilled>>

\* fileclose(): the last descriptor of an end calls pipeclose().
Close(p) ==
  LET end == IF p \in Writers THEN Writers ELSE Readers IN
  /\ p \in fd /\ ppc[p] = "user"
  /\ fd' = fd \ {p}
  /\ PipeGoto(p, IF fd \cap end = {p} THEN "cacquire" ELSE "gone")
  /\ UNCHANGED <<ring, ends, plock, n, i, wkilled>>

\* Mutant: pipeclose() of the read end does not wake the writers.
PipeCloseSilent(p) ==
  /\ ppc[p] = "close"
  /\ \/ /\ p \in Writers
        /\ writeopen' = 0 /\ UNCHANGED readopen
        /\ WakeupGoto(p, "rasleep", "racquire", "gone")
     \/ /\ p \in Readers
        /\ readopen' = 0 /\ UNCHANGED writeopen
        /\ PipeGoto(p, "gone")
  /\ freed' = IF readopen' = 0 /\ writeopen' = 0 THEN 1 ELSE freed
  /\ Release
  /\ UNCHANGED <<ring, n, i, fd, wkilled>>

PipeClose(p) ==
  /\ ppc[p] = "close"
  /\ \/ /\ p \in Writers
        /\ writeopen' = 0 /\ UNCHANGED readopen
        /\ WakeupGoto(p, "rasleep", "racquire", "gone")
     \/ /\ p \in Readers
        /\ readopen' = 0 /\ UNCHANGED writeopen
        /\ WakeupGoto(p, "wasleep", "wacquire", "gone")
  /\ freed' = IF readopen' = 0 /\ writeopen' = 0 THEN 1 ELSE freed
  /\ Release
  /\ UNCHANGED <<ring, n, i, fd, wkilled>>

\* kill(): a sleeper is woken; the killed process makes no further call.
PipeKill(p) ==
  /\ wkilled[p] = 0 /\ p \in fd
  /\ wkilled' = [wkilled EXCEPT ![p] = 1]
  /\ ppc' = [ppc EXCEPT ![p] = IF @ = "wasleep" THEN "wacquire"
                             ELSE IF @ = "rasleep" THEN "racquire" ELSE @]
  /\ UNCHANGED <<ring, ends, plock, n, i, fd>>

----------------------------------------------------------------------------

\* The steps of a process in the kernel.
Thread(p) ==
  \/ PipeAcquire(p) \/ SleepOn(p)
  \/ WriteByte(p) \/ WriteFull(p) \/ WriteDone(p)
  \/ ReadEmpty(p) \/ ReadStart(p) \/ ReadByte(p) \/ ReadDone(p)
  \/ PipeClose(p)

PipeNext ==
  \E p \in PipeProc :
    \/ \E k \in 0..MaxN : Write(p, k) \/ Read(p, k)
    \/ Thread(p) \/ Close(p) \/ PipeKill(p)

PipeSpec == PipeInit /\ [][PipeNext]_pipeVars

\* A process in the kernel runs, and gets a spinlock that is free again and again.
PipeFairSpec == PipeSpec /\ \A p \in PipeProc : SF_pipeVars(Thread(p))

----------------------------------------------------------------------------
(* Properties *)

PipeTypeOK ==
  /\ data \in [0..(PIPESIZE - 1) -> Byte]
  /\ nread \in 0..(Mod - 1) /\ nwrite \in 0..(Mod - 1)
  /\ readopen \in {0, 1} /\ writeopen \in {0, 1} /\ freed \in {0, 1}
  /\ plock \in PipeProc \cup {NoOne}
  /\ ppc \in [PipeProc -> {"user", "gone", "wacquire", "write", "wsleep", "wasleep", "racquire",
                      "read", "rsleep", "rasleep", "copy", "cacquire", "close"}]
  /\ n \in [PipeProc -> 0..MaxN] /\ i \in [PipeProc -> 0..MaxN]
  /\ fd \subseteq PipeProc /\ wkilled \in [PipeProc -> {0, 1}]

\* The bytes between nread and nwrite.
Queue == [k \in 1..((nwrite + Mod - nread) % Mod) |-> data[(nread + k - 1) % PIPESIZE]]

F == INSTANCE Fifo WITH Size <- PIPESIZE, q <- Queue

\* The ring is a queue of at most PIPESIZE bytes, also when nread and nwrite
\* wrap around, and whoever sleeps or is killed in between.
FirstInFirstOut == F!Spec

\* A process that sleeps in piperead() or pipewrite() has a reason to, or whoever
\* has taken the reason away holds pi->lock and is about to wake it up.  There is
\* one exception in the code: a killed writer that finds the pipe full returns -1
\* without a wakeup(), and a reader sleeps on although there are bytes to read.
PipeNoLostWakeup ==
  \A p \in PipeProc :
    /\ ppc[p] = "rasleep" =>
         /\ writeopen = 1
         /\ Empty \/ \E q \in Writers : ppc[q] = "write" \/ wkilled[q] = 1
    /\ ppc[p] = "wasleep" =>
         /\ readopen = 1
         /\ Full \/ \E q \in Readers : ppc[q] = "copy"

\* pipeclose() frees the page when nobody is in the pipe's code.
NoUseAfterFree ==
  freed = 1 => plock = NoOne /\ \A p \in PipeProc : ppc[p] \in {"user", "gone"}

\* A blocked process learns that the other end is closed: the read or write
\* returns.
EndNoticed ==
  /\ \A p \in Readers : (writeopen = 0 /\ ppc[p] # "user") ~> ppc[p] \in {"user", "gone"}
  /\ \A p \in Writers : (readopen = 0 /\ ppc[p] # "user") ~> ppc[p] \in {"user", "gone"}
=============================================================================
