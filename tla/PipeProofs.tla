------------------------------ MODULE PipeProofs ------------------------------
(* Proofs about Pipe, for any processes, ring size and width of the counters: *)
(* nobody uses a freed pipe, nobody sleeps without a reason, and the ring is  *)
(* a queue.                                                                   *)
(*                                                                            *)
(* The argument.  A process is in the pipe's code only while its descriptor   *)
(* is open, and the last descriptor of an end is the only one to close it     *)
(* (InPipe, EndOf), so that both ends closed means that everybody has left.   *)
(* pi->lock is held from the test of a condition to the sleep (LockHeld), so  *)
(* that the test is still true when sleep() releases it (Tested).  The ring   *)
(* never holds more than PIPESIZE bytes, and PIPESIZE divides the range of    *)
(* the counters: no two of the bytes share a place, before and after a        *)
(* counter wraps.                                                             *)
EXTENDS Pipe, Sequences, Integers, TLAPS

WriterAt == {"wacquire", "write", "wsleep", "wasleep"}
ReaderAt == {"racquire", "read", "rsleep", "rasleep", "copy"}
Closing == {"cacquire", "close"}

\* Who is where, with or without an open descriptor.
InPipe ==
  \A p \in PipeProc :
    /\ ppc[p] \in WriterAt => p \in Writers
    /\ ppc[p] \in ReaderAt => p \in Readers
    /\ p \in fd <=> ppc[p] \notin Closing \cup {"gone"}

\* The process in a critical section holds pi->lock.
LockHeld ==
  \A p \in PipeProc :
    plock = p <=> ppc[p] \in {"write", "wsleep", "read", "rsleep", "copy", "close"}

\* One end, used by the processes of End: only its last one closes it.
EndOf(End, open) ==
  /\ open = 0 => \A p \in End : ppc[p] = "gone"
  /\ \A p \in End : ppc[p] \in Closing =>
       open = 1 /\ \A o \in End \ {p} : ppc[o] = "gone"

Ends ==
  /\ EndOf(Writers, writeopen) /\ EndOf(Readers, readopen)
  /\ freed = 1 <=> readopen = 0 /\ writeopen = 0

\* What was tested holds until sleep() releases the lock.
Tested ==
  \A p \in PipeProc :
    /\ ppc[p] = "rsleep" => Empty /\ writeopen = 1
    /\ ppc[p] = "wsleep" => Full /\ readopen = 1

Count == (nwrite + Mod - nread) % Mod

\* The inductive invariant.
IInv == PipeTypeOK /\ InPipe /\ LockHeld /\ Ends /\ Tested /\ PipeNoLostWakeup /\ Count <= PIPESIZE

----------------------------------------------------------------------------
(* Remainders *)

\* Multiples of m lie at least m apart.
LEMMA Apart ==
  ASSUME NEW a \in Int, NEW b \in Int, NEW m \in Nat \ {0}, a > b
  PROVE  (m * a) - (m * b) >= m
<1>1. PICK c \in Nat : a = b + 1 + c
  <2>1. a - b - 1 \in Nat
    OBVIOUS
  <2> QED
    BY <2>1
<1>2. m * a = (m * b) + m + (m * c)
  BY <1>1
<1>3. m * c \in Nat /\ m * b \in Int /\ m * a \in Int
  OBVIOUS
<1> QED
  BY <1>2, <1>3

\* Quotient and remainder.
LEMMA Division ==
  ASSUME NEW x \in Nat, NEW m \in Nat \ {0}
  PROVE  /\ x % m \in 0..(m - 1) /\ x \div m \in Nat
         /\ x = (m * (x \div m)) + (x % m)
  BY SMT

LEMMA DivisionUnique ==
  ASSUME NEW m \in Nat \ {0}, NEW j \in Nat, NEW r \in 0..(m - 1),
         NEW k \in Nat, NEW t \in 0..(m - 1), (m * j) + r = (m * k) + t
  PROVE  r = t
<1>1. m * j \in Int /\ m * k \in Int
  OBVIOUS
<1>2. j > k => (m * j) - (m * k) >= m
  BY Apart
<1>3. k > j => (m * k) - (m * j) >= m
  BY Apart
<1>4. j = k
  BY <1>1, <1>2, <1>3
<1> QED
  BY <1>1, <1>4

\* A multiple of m more does not change the remainder.
LEMMA ModShift ==
  ASSUME NEW m \in Nat \ {0}, NEW x \in Nat, NEW y \in Nat, y % m = 0
  PROVE  (x + y) % m = x % m
<1> DEFINE z == x + y
<1> z \in Nat
  OBVIOUS
<1> HIDE DEF z
<1>1. PICK j \in Nat, r \in 0..(m - 1) : x = (m * j) + r /\ r = x % m
  BY Division
<1>2. PICK k \in Nat : y = m * k
  <2>1. y = m * (y \div m) /\ y \div m \in Nat
    BY Division
  <2> QED
    BY <2>1
<1>3. PICK l \in Nat, t \in 0..(m - 1) : z = (m * l) + t /\ t = z % m
  BY Division
<1>4. z = (m * (j + k)) + r
  BY <1>1, <1>2 DEF z
<1>5. j + k \in Nat
  OBVIOUS
<1>6. r = t
  BY <1>3, <1>4, <1>5, DivisionUnique
<1> QED
  BY <1>1, <1>3, <1>6 DEF z

\* Numbers that lie less than m apart have different remainders.
LEMMA ModNear ==
  ASSUME NEW m \in Nat \ {0}, NEW x \in Nat, NEW d \in 1..(m - 1)
  PROVE  (x + d) % m # x % m
<1> DEFINE z == x + d
<1> z \in Nat
  OBVIOUS
<1> HIDE DEF z
<1>1. PICK j \in Nat, r \in 0..(m - 1) : x = (m * j) + r /\ r = x % m
  BY Division
<1>2. PICK k \in Nat, t \in 0..(m - 1) : z = (m * k) + t /\ t = z % m
  BY Division
<1>3. m * j \in Int /\ m * k \in Int
  OBVIOUS
<1>4. j > k => (m * j) - (m * k) >= m
  BY Apart
<1>5. k > j => (m * k) - (m * j) >= m
  BY Apart
<1>6. r # t
  BY <1>1, <1>2, <1>3, <1>4, <1>5 DEF z
<1> QED
  BY <1>1, <1>2, <1>6 DEF z

LEMMA ModSmall ==
  ASSUME NEW m \in Nat \ {0}, NEW x \in Nat, x < 2 * m
  PROVE  x % m = IF x < m THEN x ELSE x - m
  BY SMT

----------------------------------------------------------------------------
(* The counters *)

LEMMA Constants ==
  /\ Writers \cap Readers = {} /\ NoOne \notin Writers \cup Readers
  /\ PIPESIZE \in Nat \ {0} /\ Mod \in Nat /\ Mod > PIPESIZE /\ MaxN \in Nat
  BY PipeAssumption DEF PipeAssumption

USE Constants

\* The number of bytes between two counters.
Between(r, w) == (w + Mod - r) % Mod

LEMMA BetweenIs ==
  ASSUME NEW r \in 0..(Mod - 1), NEW w \in 0..(Mod - 1)
  PROVE  /\ Between(r, w) = IF r <= w THEN w - r ELSE w + Mod - r
         /\ Between(r, w) \in Nat
<1> DEFINE x == w + Mod - r
<1>1. x \in Nat /\ Mod \in Nat \ {0} /\ x < 2 * Mod
  OBVIOUS
<1> HIDE DEF x
<1>2. x % Mod = IF x < Mod THEN x ELSE x - Mod
  BY <1>1, ModSmall, Zenon
<1> QED
  BY <1>2 DEF Between, x

LEMMA NextIs ==
  ASSUME NEW r \in 0..(Mod - 1)
  PROVE  (r + 1) % Mod = IF r + 1 = Mod THEN 0 ELSE r + 1
<1> DEFINE x == r + 1
<1>1. x \in Nat /\ Mod \in Nat \ {0} /\ x < 2 * Mod
  OBVIOUS
<1> HIDE DEF x
<1>2. x % Mod = IF x < Mod THEN x ELSE x - Mod
  BY <1>1, ModSmall, Zenon
<1> QED
  BY <1>2 DEF x

\* What full and empty mean for the number of bytes, and how it changes.
LEMMA Counters ==
  ASSUME NEW r \in 0..(Mod - 1), NEW w \in 0..(Mod - 1)
  PROVE  /\ Between(r, w) \in 0..(Mod - 1)
         /\ r = w <=> Between(r, w) = 0
         /\ w = (r + PIPESIZE) % Mod <=> Between(r, w) = PIPESIZE
         /\ (w + 1) % Mod \in 0..(Mod - 1) /\ (r + 1) % Mod \in 0..(Mod - 1)
         /\ Between(r, w) < PIPESIZE => Between(r, (w + 1) % Mod) = Between(r, w) + 1
         /\ Between(r, w) # 0 => Between((r + 1) % Mod, w) = Between(r, w) - 1
<1>1. Between(r, w) = IF r <= w THEN w - r ELSE w + Mod - r
  BY BetweenIs
<1>2. Between(r, w) \in 0..(Mod - 1) /\ (r = w <=> Between(r, w) = 0)
  BY <1>1
<1>3. w = (r + PIPESIZE) % Mod <=> Between(r, w) = PIPESIZE
  <2> DEFINE x == r + PIPESIZE
  <2>1. x \in Nat /\ Mod \in Nat \ {0} /\ x < 2 * Mod
    OBVIOUS
  <2> HIDE DEF x
  <2>2. x % Mod = IF x < Mod THEN x ELSE x - Mod
    BY <2>1, ModSmall, Zenon
  <2> QED
    BY <1>1, <2>2 DEF x
<1>4. (w + 1) % Mod \in 0..(Mod - 1) /\ (r + 1) % Mod \in 0..(Mod - 1)
  BY NextIs
<1>5. Between(r, w) < PIPESIZE => Between(r, (w + 1) % Mod) = Between(r, w) + 1
  <2> DEFINE x == (w + 1) % Mod
  <2>1. x \in 0..(Mod - 1) /\ x = IF w + 1 = Mod THEN 0 ELSE w + 1
    BY NextIs
  <2> HIDE DEF x
  <2>2. Between(r, x) = IF r <= x THEN x - r ELSE x + Mod - r
    BY <2>1, BetweenIs
  <2>3. Between(r, w) < PIPESIZE => Between(r, x) = Between(r, w) + 1
    BY <1>1, <2>1, <2>2
  <2> QED
    BY <2>3 DEF x
<1>6. Between(r, w) # 0 => Between((r + 1) % Mod, w) = Between(r, w) - 1
  <2> DEFINE x == (r + 1) % Mod
  <2>1. x \in 0..(Mod - 1) /\ x = IF r + 1 = Mod THEN 0 ELSE r + 1
    BY NextIs
  <2> HIDE DEF x
  <2>2. Between(x, w) = IF x <= w THEN w - x ELSE w + Mod - x
    BY <2>1, BetweenIs
  <2>3. Between(r, w) # 0 => Between(x, w) = Between(r, w) - 1
    BY <1>1, <2>1, <2>2
  <2> QED
    BY <2>3 DEF x
<1> QED
  BY <1>2, <1>3, <1>4, <1>5, <1>6

----------------------------------------------------------------------------
(* The invariant *)

LEMMA InitInv == PipeInit => IInv
<1> SUFFICES ASSUME PipeInit PROVE IInv
  OBVIOUS
<1>1. PipeTypeOK
  BY DEF PipeInit, PipeTypeOK
<1>2. Count <= PIPESIZE
  <2>1. Between(0, 0) = 0
    BY Counters
  <2> QED
    BY <2>1 DEF PipeInit, Count, Between
<1>3. InPipe /\ LockHeld /\ Ends /\ Tested /\ PipeNoLostWakeup
  BY DEF PipeInit, InPipe, LockHeld, Ends, EndOf, Tested, PipeNoLostWakeup, PipeProc,
         WriterAt, ReaderAt, Closing
<1> QED
  BY <1>1, <1>2, <1>3 DEF IInv

\* The alternatives of PipeAcquire(p), ...
Enter(p, from, to) ==
  /\ plock = NoOne /\ plock' = p
  /\ ppc[p] = from /\ PipeGoto(p, to)
  /\ UNCHANGED <<ring, ends, n, i, fd, wkilled>>

\* ... of WriteFull(p), ...
WriteFail(p) ==
  /\ ppc[p] = "write" /\ Full /\ (readopen = 0 \/ wkilled[p] = 1)
  /\ PipeGoto(p, "user") /\ PipeReturn(p) /\ Release
  /\ UNCHANGED <<ring, ends, fd, wkilled>>

WriteSleep(p) ==
  /\ ppc[p] = "write" /\ Full /\ readopen = 1
  /\ WakeupGoto(p, "rasleep", "racquire", "wsleep")
  /\ UNCHANGED <<ring, ends, plock, n, i, fd, wkilled>>

\* ... of ReadEmpty(p), ...
ReadFail(p) ==
  /\ ppc[p] = "read" /\ PipeGoto(p, "user") /\ PipeReturn(p) /\ Release
  /\ UNCHANGED <<ring, ends, fd, wkilled>>

ReadSleep(p) ==
  /\ ppc[p] = "read" /\ Empty /\ writeopen = 1 /\ PipeGoto(p, "rsleep")
  /\ UNCHANGED <<ring, ends, plock, n, i, fd, wkilled>>

\* ... of ReadByte(p), ...
ReadOne(p) ==
  /\ ppc[p] = "copy" /\ i[p] < n[p] /\ ~Empty
  /\ nread' = (nread + 1) % Mod
  /\ i' = [i EXCEPT ![p] = @ + 1]
  /\ UNCHANGED <<data, nwrite, ends, plock, ppc, n, fd, wkilled>>

ReadLast(p) ==
  /\ ppc[p] = "copy" /\ ~Empty
  /\ nread' = (nread + 1) % Mod
  /\ WakeupGoto(p, "wasleep", "wacquire", "user") /\ PipeReturn(p) /\ Release
  /\ UNCHANGED <<data, nwrite, ends, fd, wkilled>>

\* ... of SleepOn(p) ...
FallAsleep(p, from, to) ==
  /\ ppc[p] = from /\ PipeGoto(p, to) /\ Release
  /\ UNCHANGED <<ring, ends, n, i, fd, wkilled>>

\* ... and of PipeClose(p).
CloseWrite(p) ==
  /\ ppc[p] = "close" /\ p \in Writers
  /\ writeopen' = 0 /\ readopen' = readopen
  /\ WakeupGoto(p, "rasleep", "racquire", "gone")
  /\ freed' = (IF readopen = 0 THEN 1 ELSE freed)
  /\ Release
  /\ UNCHANGED <<ring, n, i, fd, wkilled>>

CloseRead(p) ==
  /\ ppc[p] = "close" /\ p \in Readers
  /\ readopen' = 0 /\ writeopen' = writeopen
  /\ WakeupGoto(p, "wasleep", "wacquire", "gone")
  /\ freed' = (IF writeopen = 0 THEN 1 ELSE freed)
  /\ Release
  /\ UNCHANGED <<ring, n, i, fd, wkilled>>

\* The disjuncts of PipeNext, one by one.
Enters(p) ==
  Enter(p, "wacquire", "write") \/ Enter(p, "racquire", "read") \/ Enter(p, "cacquire", "close")

FallsAsleep(p) == FallAsleep(p, "wsleep", "wasleep") \/ FallAsleep(p, "rsleep", "rasleep")

Step(p) ==
  \/ (\E k \in 0..MaxN : Write(p, k)) \/ (\E k \in 0..MaxN : Read(p, k))
  \/ Enters(p) \/ WriteByte(p) \/ WriteFail(p) \/ WriteSleep(p) \/ WriteDone(p)
  \/ ReadFail(p) \/ ReadSleep(p) \/ ReadStart(p) \/ ReadOne(p) \/ ReadLast(p) \/ ReadDone(p)
  \/ FallsAsleep(p) \/ Close(p) \/ CloseWrite(p) \/ CloseRead(p) \/ PipeKill(p)

LEMMA StepIs ==
  ASSUME PipeNext
  PROVE  \E p \in PipeProc : Step(p)
<1>1. PICK p \in PipeProc : \/ \E k \in 0..MaxN : Write(p, k) \/ Read(p, k)
                            \/ Thread(p) \/ Close(p) \/ PipeKill(p)
  BY DEF PipeNext
<1>2. PipeAcquire(p) => Enters(p)
  BY DEF PipeAcquire, Enters, Enter
<1>3. WriteFull(p) => WriteFail(p) \/ WriteSleep(p)
  BY DEF WriteFull, WriteFail, WriteSleep
<1>4. ReadEmpty(p) => ReadFail(p) \/ ReadSleep(p)
  BY DEF ReadEmpty, ReadFail, ReadSleep
<1>5. ReadByte(p) => ReadOne(p) \/ ReadLast(p)
  BY DEF ReadByte, ReadOne, ReadLast
<1>6. SleepOn(p) => FallsAsleep(p)
  BY DEF SleepOn, FallsAsleep, FallAsleep
<1>7. PipeClose(p) => CloseWrite(p) \/ CloseRead(p)
  BY DEF PipeClose, CloseWrite, CloseRead
<1> QED
  BY <1>1, <1>2, <1>3, <1>4, <1>5, <1>6, <1>7 DEF Step, Thread

\* The types are kept.
LEMMA TypeStep ==
  ASSUME PipeTypeOK, NEW p \in PipeProc, Step(p)
  PROVE  PipeTypeOK'
<1> USE DEF PipeTypeOK, PipeGoto, ring, ends
<1>1. CASE \E k \in 0..MaxN : Write(p, k)
  BY <1>1 DEF Write
<1>2. CASE \E k \in 0..MaxN : Read(p, k)
  BY <1>2 DEF Read
<1>3. CASE Enters(p)
  BY <1>3 DEF Enters, Enter
<1>4. CASE WriteByte(p)
  BY <1>4 DEF WriteByte
<1>5. CASE WriteFail(p)
  BY <1>5 DEF WriteFail, PipeReturn, Release
<1>6. CASE WriteSleep(p)
  BY <1>6 DEF WriteSleep, WakeupGoto
<1>7. CASE WriteDone(p)
  BY <1>7 DEF WriteDone, WakeupGoto, PipeReturn, Release
<1>8. CASE ReadFail(p)
  BY <1>8 DEF ReadFail, PipeReturn, Release
<1>9. CASE ReadSleep(p)
  BY <1>9 DEF ReadSleep
<1>10. CASE ReadStart(p)
  BY <1>10 DEF ReadStart
<1>11. CASE ReadOne(p)
  BY <1>11 DEF ReadOne
<1>12. CASE ReadLast(p)
  BY <1>12 DEF ReadLast, WakeupGoto, PipeReturn, Release
<1>13. CASE ReadDone(p)
  BY <1>13 DEF ReadDone, WakeupGoto, PipeReturn, Release
<1>14. CASE FallsAsleep(p)
  <2>1. CASE FallAsleep(p, "wsleep", "wasleep")
    BY <2>1 DEF FallAsleep, Release
  <2>2. CASE FallAsleep(p, "rsleep", "rasleep")
    BY <2>2 DEF FallAsleep, Release
  <2> QED
    BY <1>14, <2>1, <2>2 DEF FallsAsleep
<1>15. CASE Close(p)
  BY <1>15 DEF Close
<1>16. CASE CloseWrite(p)
  BY <1>16 DEF CloseWrite, WakeupGoto, PipeReturn, Release
<1>17. CASE CloseRead(p)
  BY <1>17 DEF CloseRead, WakeupGoto, PipeReturn, Release
<1>18. CASE PipeKill(p)
  BY <1>18 DEF PipeKill
<1> QED
  BY <1>1, <1>2, <1>3, <1>4, <1>5, <1>6, <1>7, <1>8, <1>9, <1>10, <1>11, <1>12, <1>13, <1>14, <1>15, <1>16, <1>17, <1>18 DEF Step

\* A process works on its own end, while its descriptor is open.
LEMMA InPipeStep ==
  ASSUME PipeTypeOK, InPipe, NEW p \in PipeProc, Step(p)
  PROVE  InPipe'
<1> USE DEF PipeTypeOK, InPipe, PipeProc, WriterAt, ReaderAt, Closing, PipeGoto, ring, ends
<1>1. CASE \E k \in 0..MaxN : Write(p, k)
  BY <1>1 DEF Write
<1>2. CASE \E k \in 0..MaxN : Read(p, k)
  BY <1>2 DEF Read
<1>3. CASE Enters(p)
  BY SMTT(30), <1>3 DEF Enters, Enter
<1>4. CASE WriteByte(p)
  BY <1>4 DEF WriteByte
<1>5. CASE WriteFail(p)
  BY <1>5 DEF WriteFail, PipeReturn, Release
<1>6. CASE WriteSleep(p)
  BY <1>6 DEF WriteSleep, WakeupGoto
<1>7. CASE WriteDone(p)
  BY <1>7 DEF WriteDone, WakeupGoto, PipeReturn, Release
<1>8. CASE ReadFail(p)
  BY <1>8 DEF ReadFail, PipeReturn, Release
<1>9. CASE ReadSleep(p)
  BY <1>9 DEF ReadSleep
<1>10. CASE ReadStart(p)
  BY <1>10 DEF ReadStart
<1>11. CASE ReadOne(p)
  BY <1>11 DEF ReadOne
<1>12. CASE ReadLast(p)
  BY <1>12 DEF ReadLast, WakeupGoto, PipeReturn, Release
<1>13. CASE ReadDone(p)
  BY <1>13 DEF ReadDone, WakeupGoto, PipeReturn, Release
<1>14. CASE FallsAsleep(p)
  <2>1. CASE FallAsleep(p, "wsleep", "wasleep")
    BY <2>1 DEF FallAsleep, Release
  <2>2. CASE FallAsleep(p, "rsleep", "rasleep")
    BY <2>2 DEF FallAsleep, Release
  <2> QED
    BY <1>14, <2>1, <2>2 DEF FallsAsleep
<1>15. CASE Close(p)
  BY <1>15 DEF Close
<1>16. CASE CloseWrite(p)
  BY <1>16 DEF CloseWrite, WakeupGoto, PipeReturn, Release
<1>17. CASE CloseRead(p)
  BY <1>17 DEF CloseRead, WakeupGoto, PipeReturn, Release
<1>18. CASE PipeKill(p)
  BY <1>18 DEF PipeKill
<1> QED
  BY <1>1, <1>2, <1>3, <1>4, <1>5, <1>6, <1>7, <1>8, <1>9, <1>10, <1>11, <1>12, <1>13, <1>14, <1>15, <1>16, <1>17, <1>18 DEF Step

\* pi->lock excludes.
LEMMA LockStep ==
  ASSUME PipeTypeOK, InPipe, LockHeld, NEW p \in PipeProc, Step(p)
  PROVE  LockHeld'
<1> USE DEF PipeTypeOK, LockHeld, PipeProc, PipeGoto, ring, ends
<1>1. CASE \E k \in 0..MaxN : Write(p, k)
  BY <1>1 DEF Write
<1>2. CASE \E k \in 0..MaxN : Read(p, k)
  BY <1>2 DEF Read
<1>3. CASE Enters(p)
  BY <1>3 DEF Enters, Enter
<1>4. CASE WriteByte(p)
  BY <1>4 DEF WriteByte
<1>5. CASE WriteFail(p)
  BY <1>5 DEF WriteFail, PipeReturn, Release
<1>6. CASE WriteSleep(p)
  BY <1>6 DEF WriteSleep, WakeupGoto
<1>7. CASE WriteDone(p)
  BY <1>7 DEF WriteDone, WakeupGoto, PipeReturn, Release
<1>8. CASE ReadFail(p)
  BY <1>8 DEF ReadFail, PipeReturn, Release
<1>9. CASE ReadSleep(p)
  BY <1>9 DEF ReadSleep
<1>10. CASE ReadStart(p)
  BY <1>10 DEF ReadStart
<1>11. CASE ReadOne(p)
  BY <1>11 DEF ReadOne
<1>12. CASE ReadLast(p)
  BY <1>12 DEF ReadLast, WakeupGoto, PipeReturn, Release
<1>13. CASE ReadDone(p)
  BY <1>13 DEF ReadDone, WakeupGoto, PipeReturn, Release
<1>14. CASE FallsAsleep(p)
  <2>1. /\ ppc[p] \in {"wsleep", "rsleep"} /\ plock' = NoOne
        /\ \E l \in {"wasleep", "rasleep"} : ppc' = [ppc EXCEPT ![p] = l]
    BY <1>14 DEF FallsAsleep, FallAsleep, Release
  <2>2. plock = p
    BY <2>1
  <2>3. \A q \in PipeProc : q # p => ppc'[q] = ppc[q] /\ plock # q
    BY <2>1, <2>2
  <2>4. ppc'[p] \in {"wasleep", "rasleep"}
    BY <2>1
  <2> QED
    BY <2>1, <2>3, <2>4
<1>15. CASE Close(p)
  BY <1>15 DEF Close
<1>16. CASE CloseWrite(p)
  BY <1>16 DEF CloseWrite, WakeupGoto, PipeReturn, Release
<1>17. CASE CloseRead(p)
  BY <1>17 DEF CloseRead, WakeupGoto, PipeReturn, Release
<1>18. CASE PipeKill(p)
  BY SMTT(30), <1>18 DEF PipeKill
<1> QED
  BY <1>1, <1>2, <1>3, <1>4, <1>5, <1>6, <1>7, <1>8, <1>9, <1>10, <1>11, <1>12, <1>13, <1>14, <1>15, <1>16, <1>17, <1>18 DEF Step

\* An end is closed when its last process has left.
LEMMA EndsStep ==
  ASSUME PipeTypeOK, InPipe, LockHeld, Ends, NEW p \in PipeProc, Step(p)
  PROVE  Ends'
<1> USE DEF PipeTypeOK, InPipe, Ends, EndOf, PipeProc, WriterAt, ReaderAt, Closing, PipeGoto, ring, ends
<1>1. CASE \E k \in 0..MaxN : Write(p, k)
  BY <1>1 DEF Write
<1>2. CASE \E k \in 0..MaxN : Read(p, k)
  BY <1>2 DEF Read
<1>3. CASE Enters(p)
  <2>1. CASE Enter(p, "wacquire", "write")
    BY <2>1 DEF Enter
  <2>2. CASE Enter(p, "racquire", "read")
    BY <2>2 DEF Enter
  <2>3. CASE Enter(p, "cacquire", "close")
    BY <2>3 DEF Enter
  <2> QED
    BY <1>3, <2>1, <2>2, <2>3 DEF Enters
<1>4. CASE WriteByte(p)
  BY <1>4 DEF WriteByte
<1>5. CASE WriteFail(p)
  BY <1>5 DEF WriteFail, PipeReturn, Release
<1>6. CASE WriteSleep(p)
  BY <1>6 DEF WriteSleep, WakeupGoto
<1>7. CASE WriteDone(p)
  BY <1>7 DEF WriteDone, WakeupGoto, PipeReturn, Release
<1>8. CASE ReadFail(p)
  BY <1>8 DEF ReadFail, PipeReturn, Release
<1>9. CASE ReadSleep(p)
  BY <1>9 DEF ReadSleep
<1>10. CASE ReadStart(p)
  BY <1>10 DEF ReadStart
<1>11. CASE ReadOne(p)
  BY <1>11 DEF ReadOne
<1>12. CASE ReadLast(p)
  BY <1>12 DEF ReadLast, WakeupGoto, PipeReturn, Release
<1>13. CASE ReadDone(p)
  BY <1>13 DEF ReadDone, WakeupGoto, PipeReturn, Release
<1>14. CASE FallsAsleep(p)
  <2>1. CASE FallAsleep(p, "wsleep", "wasleep")
    BY <2>1 DEF FallAsleep
  <2>2. CASE FallAsleep(p, "rsleep", "rasleep")
    BY <2>2 DEF FallAsleep
  <2> QED
    BY <1>14, <2>1, <2>2 DEF FallsAsleep
<1>15. CASE Close(p)
  <2>1. /\ ppc[p] = "user" /\ p \in fd /\ UNCHANGED <<readopen, writeopen, freed>>
        /\ \A q \in PipeProc \ {p} : ppc'[q] = ppc[q]
    BY <1>15 DEF Close
  <2>2. CASE p \in Writers
    <3>1. ppc'[p] = IF fd \cap Writers = {p} THEN "cacquire" ELSE "gone"
      BY <1>15, <2>2 DEF Close
    <3>2. writeopen = 1 /\ \A q \in Writers : ppc[q] \notin Closing
      BY <2>1, <2>2
    <3>3. fd \cap Writers = {p} => \A q \in Writers \ {p} : ppc[q] = "gone"
      BY <3>2
    <3>4. EndOf(Writers, writeopen)'
      BY ZenonT(30), <2>1, <2>2, <3>1, <3>2, <3>3
    <3>5. EndOf(Readers, readopen)'
      <4>0. p \notin Readers
        BY ONLY <2>2, Constants
      <4>1. readopen' = readopen /\ \A q \in Readers : ppc'[q] = ppc[q]
        BY ONLY <2>1, <4>0 DEF PipeProc
      <4>2. EndOf(Readers, readopen)
        OBVIOUS
      <4> QED
        BY ONLY <4>1, <4>2 DEF EndOf
    <3> QED
      BY <2>1, <3>4, <3>5
  <2>3. CASE p \in Readers
    <3>1. ppc'[p] = IF fd \cap Readers = {p} THEN "cacquire" ELSE "gone"
      BY <1>15, <2>3 DEF Close
    <3>2. readopen = 1 /\ \A q \in Readers : ppc[q] \notin Closing
      BY <2>1, <2>3
    <3>3. fd \cap Readers = {p} => \A q \in Readers \ {p} : ppc[q] = "gone"
      BY <3>2
    <3>4. EndOf(Readers, readopen)'
      BY <2>1, <2>3, <3>1, <3>2, <3>3
    <3>5. EndOf(Writers, writeopen)'
      <4>0. p \notin Writers
        BY ONLY <2>3, Constants
      <4>1. writeopen' = writeopen /\ \A q \in Writers : ppc'[q] = ppc[q]
        BY ONLY <2>1, <4>0 DEF PipeProc
      <4>2. EndOf(Writers, writeopen)
        OBVIOUS
      <4> QED
        BY ONLY <4>1, <4>2 DEF EndOf
    <3> QED
      BY <2>1, <3>4, <3>5
  <2> QED
    BY <2>2, <2>3
<1>16. CASE CloseWrite(p)
  BY <1>16 DEF CloseWrite, WakeupGoto, PipeReturn, Release
<1>17. CASE CloseRead(p)
  BY <1>17 DEF CloseRead, WakeupGoto, PipeReturn, Release
<1>18. CASE PipeKill(p)
  BY SMTT(30), <1>18 DEF PipeKill
<1> QED
  BY ZenonT(30), <1>1, <1>2, <1>3, <1>4, <1>5, <1>6, <1>7, <1>8, <1>9, <1>10, <1>11, <1>12, <1>13, <1>14, <1>15, <1>16, <1>17, <1>18 DEF Step

\* Only the holder of pi->lock changes what it tested.
LEMMA TestedStep ==
  ASSUME PipeTypeOK, InPipe, LockHeld, Ends, Tested, NEW p \in PipeProc, Step(p)
  PROVE  Tested'
<1> USE DEF PipeTypeOK, LockHeld, Tested, PipeProc, Full, Empty, PipeGoto, ring, ends
<1>1. CASE \E k \in 0..MaxN : Write(p, k)
  BY <1>1 DEF Write
<1>2. CASE \E k \in 0..MaxN : Read(p, k)
  BY <1>2 DEF Read
<1>3. CASE Enters(p)
  BY SMTT(30), <1>3 DEF Enters, Enter
<1>4. CASE WriteByte(p)
  BY <1>4 DEF WriteByte
<1>5. CASE WriteFail(p)
  BY <1>5 DEF WriteFail, PipeReturn, Release
<1>6. CASE WriteSleep(p)
  BY <1>6 DEF WriteSleep, WakeupGoto
<1>7. CASE WriteDone(p)
  BY <1>7 DEF WriteDone, WakeupGoto, PipeReturn, Release
<1>8. CASE ReadFail(p)
  BY <1>8 DEF ReadFail, PipeReturn, Release
<1>9. CASE ReadSleep(p)
  BY <1>9 DEF ReadSleep
<1>10. CASE ReadStart(p)
  BY <1>10 DEF ReadStart
<1>11. CASE ReadOne(p)
  BY <1>11 DEF ReadOne
<1>12. CASE ReadLast(p)
  BY <1>12 DEF ReadLast, WakeupGoto, PipeReturn, Release
<1>13. CASE ReadDone(p)
  BY <1>13 DEF ReadDone, WakeupGoto, PipeReturn, Release
<1>14. CASE FallsAsleep(p)
  <2>1. CASE FallAsleep(p, "wsleep", "wasleep")
    BY <2>1 DEF FallAsleep, Release
  <2>2. CASE FallAsleep(p, "rsleep", "rasleep")
    BY <2>2 DEF FallAsleep, Release
  <2> QED
    BY <1>14, <2>1, <2>2 DEF FallsAsleep
<1>15. CASE Close(p)
  BY <1>15 DEF Close
<1>16. CASE CloseWrite(p)
  BY <1>16 DEF CloseWrite, WakeupGoto, PipeReturn, Release
<1>17. CASE CloseRead(p)
  BY <1>17 DEF CloseRead, WakeupGoto, PipeReturn, Release
<1>18. CASE PipeKill(p)
  BY SMTT(30), <1>18 DEF PipeKill
<1> QED
  BY <1>1, <1>2, <1>3, <1>4, <1>5, <1>6, <1>7, <1>8, <1>9, <1>10, <1>11, <1>12, <1>13, <1>14, <1>15, <1>16, <1>17, <1>18 DEF Step

\* Who takes the reason to sleep away wakes the sleepers.
LEMMA WakeStep ==
  ASSUME PipeTypeOK, InPipe, LockHeld, Ends, Tested, PipeNoLostWakeup, Count <= PIPESIZE, NEW p \in PipeProc, Step(p)
  PROVE  PipeNoLostWakeup'
<1> USE DEF PipeTypeOK, PipeNoLostWakeup, PipeProc, Full, Empty, PipeGoto, ring, ends
<1>1. CASE \E k \in 0..MaxN : Write(p, k)
  BY <1>1 DEF Write
<1>2. CASE \E k \in 0..MaxN : Read(p, k)
  BY <1>2 DEF Read
<1>3. CASE Enters(p)
  BY <1>3 DEF Enters, Enter
<1>4. CASE WriteByte(p)
  <2>1. p \in Writers /\ \A q \in Readers : ppc[q] # "copy"
    BY <1>4 DEF WriteByte, InPipe, WriterAt, LockHeld
  <2> QED
    BY <1>4, <2>1 DEF WriteByte
<1>5. CASE WriteFail(p)
  <2>1. p \in Writers /\ (readopen = 0 => \A q \in PipeProc : ppc[q] # "rasleep")
    BY <1>5 DEF WriteFail, InPipe, WriterAt, ReaderAt, Ends, EndOf
  <2>2. ppc'[p] = "user" /\ \A q \in PipeProc \ {p} : ppc'[q] = ppc[q]
    BY <1>5 DEF WriteFail
  <2> QED
    BY <1>5, <2>1, <2>2 DEF WriteFail
<1>6. CASE WriteSleep(p)
  BY <1>6 DEF WriteSleep, WakeupGoto
<1>7. CASE WriteDone(p)
  BY <1>7 DEF WriteDone, WakeupGoto, PipeReturn, Release
<1>8. CASE ReadFail(p)
  BY <1>8 DEF ReadFail, PipeReturn, Release
<1>9. CASE ReadSleep(p)
  BY <1>9 DEF ReadSleep
<1>10. CASE ReadStart(p)
  BY <1>10 DEF ReadStart
<1>11. CASE ReadOne(p)
  <2>1. p \in Readers
    BY <1>11 DEF ReadOne, InPipe, ReaderAt
  <2> QED
    BY <1>11, <2>1 DEF ReadOne
<1>12. CASE ReadLast(p)
  BY <1>12 DEF ReadLast, WakeupGoto, PipeReturn, Release
<1>13. CASE ReadDone(p)
  BY <1>13 DEF ReadDone, WakeupGoto, PipeReturn, Release
<1>14. CASE FallsAsleep(p)
  <2>1. CASE FallAsleep(p, "wsleep", "wasleep")
    BY <2>1 DEF FallAsleep, Tested
  <2>2. CASE FallAsleep(p, "rsleep", "rasleep")
    BY <2>2 DEF FallAsleep, Tested
  <2> QED
    BY <1>14, <2>1, <2>2 DEF FallsAsleep
<1>15. CASE Close(p)
  BY <1>15 DEF Close
<1>16. CASE CloseWrite(p)
  BY <1>16 DEF CloseWrite, WakeupGoto, PipeReturn, Release
<1>17. CASE CloseRead(p)
  BY <1>17 DEF CloseRead, WakeupGoto, PipeReturn, Release
<1>18. CASE PipeKill(p)
  BY SMTT(30), <1>18 DEF PipeKill
<1> QED
  BY ZenonT(30), <1>1, <1>2, <1>3, <1>4, <1>5, <1>6, <1>7, <1>8, <1>9, <1>10, <1>11, <1>12, <1>13, <1>14, <1>15, <1>16, <1>17, <1>18 DEF Step

\* The ring never holds more than PIPESIZE bytes.
LEMMA CountStep ==
  ASSUME PipeTypeOK, Count <= PIPESIZE, NEW p \in PipeProc, Step(p)
  PROVE  (Count <= PIPESIZE)'
<1> nread \in 0..(Mod - 1) /\ nwrite \in 0..(Mod - 1)
  BY DEF PipeTypeOK
<1>1. Count = Between(nread, nwrite) /\ Count' = Between(nread', nwrite')
  BY DEF Count, Between
<1>2. CASE WriteByte(p)
  <2>1. Count < PIPESIZE
    BY <1>1, <1>2, Counters DEF WriteByte, Full
  <2>2. nread' = nread /\ nwrite' = (nwrite + 1) % Mod
    BY <1>2 DEF WriteByte
  <2>3. Count' = Count + 1
    BY <1>1, <2>1, <2>2, Counters
  <2> QED
    BY <1>1, <2>1, <2>3, Counters
<1>3. CASE ReadOne(p) \/ ReadLast(p)
  <2>1. Count # 0
    BY <1>1, <1>3, Counters DEF ReadOne, ReadLast, Empty
  <2>2. nwrite' = nwrite /\ nread' = (nread + 1) % Mod
    BY <1>3 DEF ReadOne, ReadLast
  <2>3. Count' = Count - 1
    BY <1>1, <2>1, <2>2, Counters
  <2> QED
    BY SMTT(30), <1>1, <2>1, <2>3, Counters
<1>4. CASE UNCHANGED <<nread, nwrite>>
  BY <1>1, <1>4
<1> QED
  BY <1>2, <1>3, <1>4 DEF Step, Write, Read, Enters, Enter, WriteFail, WriteSleep, WriteDone,
     ReadFail, ReadSleep, ReadStart, ReadDone, FallsAsleep, FallAsleep, Close, CloseWrite,
     CloseRead, PipeKill, ring

LEMMA InvHolds == PipeSpec => []IInv
<1>1. IInv /\ [PipeNext]_pipeVars => IInv'
  <2> SUFFICES ASSUME IInv, [PipeNext]_pipeVars PROVE IInv'
    OBVIOUS
  <2>1. CASE UNCHANGED pipeVars
    BY <2>1 DEF IInv, PipeTypeOK, InPipe, LockHeld, Ends, EndOf, Tested, PipeNoLostWakeup, Count,
                Full, Empty, pipeVars, ring, ends
  <2>2. CASE PipeNext
    <3>1. PICK p \in PipeProc : Step(p)
      BY <2>2, StepIs
    <3> QED
      BY <3>1, TypeStep, InPipeStep, LockStep, EndsStep, TestedStep, WakeStep, CountStep DEF IInv
  <2> QED
    BY <2>1, <2>2
<1> QED
  BY InitInv, <1>1, PTL DEF PipeSpec

----------------------------------------------------------------------------
(* The theorems *)

\* pipeclose() frees the page of the pipe only when no process is in, or on its
\* way into, the pipe's code: the last closer of an end is the last user of it.
THEOREM NoUseAfterFreeHolds == PipeSpec => []NoUseAfterFree
<1>1. IInv => NoUseAfterFree
  BY DEF IInv, PipeTypeOK, Ends, EndOf, LockHeld, NoUseAfterFree, PipeProc
<1> QED
  BY <1>1, InvHolds, PTL

\* Who sleeps in pipewrite() or piperead() has a reason to, is about to be woken,
\* or was forgotten by a killed writer.
THEOREM PipeNoLostWakeupHolds == PipeSpec => []PipeNoLostWakeup
<1>1. IInv => PipeNoLostWakeup
  BY DEF IInv
<1> QED
  BY <1>1, InvHolds, PTL

----------------------------------------------------------------------------
(* The ring is a queue *)

LOCAL INSTANCE SequenceTheorems

\* The bytes from counter r up to counter w in the array d.
Ring(d, r, w) == [k \in 1..Between(r, w) |-> d[(r + k - 1) % PIPESIZE]]

LEMMA FunctionIsSeq ==
  ASSUME NEW S, NEW m \in Nat, NEW f \in [1..m -> S]
  PROVE  f \in Seq(S) /\ Len(f) = m
<1>1. f \in Seq(S)
  BY SeqDef
<1> QED
  BY <1>1, LenProperties

\* A place in the array.
LEMMA PlaceIs ==
  ASSUME NEW x \in Nat
  PROVE  x % PIPESIZE \in 0..(PIPESIZE - 1)
  BY Division

LEMMA RingIs ==
  ASSUME NEW d \in [0..(PIPESIZE - 1) -> Byte], NEW r \in 0..(Mod - 1), NEW w \in 0..(Mod - 1)
  PROVE  /\ Ring(d, r, w) \in Seq(Byte) /\ Len(Ring(d, r, w)) = Between(r, w)
         /\ \A k \in 1..Between(r, w) : Ring(d, r, w)[k] = d[(r + k - 1) % PIPESIZE]
<1>1. Between(r, w) \in Nat
  BY BetweenIs
<1>2. \A k \in 1..Between(r, w) : d[(r + k - 1) % PIPESIZE] \in Byte
  <2> SUFFICES ASSUME NEW k \in 1..Between(r, w) PROVE (r + k - 1) % PIPESIZE \in 0..(PIPESIZE - 1)
    OBVIOUS
  <2>1. r + k - 1 \in Nat
    BY <1>1
  <2> QED
    BY <2>1, PlaceIs
<1>3. Ring(d, r, w) \in [1..Between(r, w) -> Byte]
  BY <1>2, Zenon DEF Ring
<1>4. \A k \in 1..Between(r, w) : Ring(d, r, w)[k] = d[(r + k - 1) % PIPESIZE]
  BY Zenon DEF Ring
<1> QED
  BY <1>1, <1>3, <1>4, FunctionIsSeq

\* pi->data[pi->nwrite++ % PIPESIZE] = ch: the byte goes to a place that no byte
\* of the queue has, behind the last one.
LEMMA RingPut ==
  ASSUME NEW d \in [0..(PIPESIZE - 1) -> Byte], NEW r \in 0..(Mod - 1), NEW w \in 0..(Mod - 1),
         NEW c \in Byte, Between(r, w) < PIPESIZE
  PROVE  Ring([d EXCEPT ![w % PIPESIZE] = c], r, (w + 1) % Mod) = Append(Ring(d, r, w), c)
<1> DEFINE m == Between(r, w)
           e == [d EXCEPT ![w % PIPESIZE] = c]
           x == (w + 1) % Mod
           s == Ring(d, r, w)
           t == Ring(e, r, x)
<1>1. m \in Nat /\ m < PIPESIZE
  BY BetweenIs
<1>2. x \in 0..(Mod - 1) /\ Between(r, x) = m + 1
  BY Counters
<1>3. w % PIPESIZE = (r + m) % PIPESIZE
  <2>1. CASE r <= w
    BY <2>1, BetweenIs
  <2>2. CASE w < r
    <3>1. r + m = w + Mod
      BY <2>2, BetweenIs
    <3>2. Mod % PIPESIZE = 0
      BY PipeAssumption DEF PipeAssumption
    <3>3. w \in Nat
      OBVIOUS
    <3>4. (w + Mod) % PIPESIZE = w % PIPESIZE
      BY <3>2, <3>3, ModShift
    <3> QED
      BY <3>1, <3>4
  <2> QED
    BY <2>1, <2>2
<1>4. w % PIPESIZE \in 0..(PIPESIZE - 1)
  BY PlaceIs
<1>5. e \in [0..(PIPESIZE - 1) -> Byte]
  BY <1>4
<1>6. \A k \in 1..m : (r + k - 1) % PIPESIZE # w % PIPESIZE
  <2> SUFFICES ASSUME NEW k \in 1..m PROVE (r + k - 1) % PIPESIZE # (r + m) % PIPESIZE
    BY <1>3
  <2> HIDE DEF m
  <2> DEFINE y == r + k - 1
             z == m - k + 1
  <2>1. y \in Nat /\ z \in 1..(PIPESIZE - 1) /\ y + z = r + m
    BY <1>1
  <2> HIDE DEF y, z
  <2>2. (y + z) % PIPESIZE # y % PIPESIZE
    BY <2>1, ModNear
  <2> QED
    BY <2>1, <2>2 DEF y
<1>7. s \in Seq(Byte) /\ Len(s) = m /\ \A k \in 1..m : s[k] = d[(r + k - 1) % PIPESIZE]
  BY RingIs
<1>8. t \in Seq(Byte) /\ Len(t) = m + 1 /\ \A k \in 1..(m + 1) : t[k] = e[(r + k - 1) % PIPESIZE]
  <2> HIDE DEF e, x
  <2>1. /\ t \in Seq(Byte) /\ Len(t) = Between(r, x)
        /\ \A k \in 1..Between(r, x) : t[k] = e[(r + k - 1) % PIPESIZE]
    BY <1>2, <1>5, RingIs
  <2> QED
    BY <1>2, <2>1
<1>9. \A k \in 1..m : t[k] = s[k]
  <2> SUFFICES ASSUME NEW k \in 1..m PROVE e[(r + k - 1) % PIPESIZE] = d[(r + k - 1) % PIPESIZE]
    <3> SUFFICES ASSUME NEW k \in 1..m PROVE t[k] = s[k]
      OBVIOUS
    <3> HIDE DEF m, e, s, t
    <3>1. k \in 1..(m + 1)
      BY <1>1
    <3> QED
      BY <1>7, <1>8, <3>1
  <2> DEFINE y == (r + k - 1) % PIPESIZE
  <2>1. y \in 0..(PIPESIZE - 1)
    <3>1. r + k - 1 \in Nat
      BY <1>1
    <3> QED
      BY <3>1, PlaceIs
  <2>2. y # w % PIPESIZE
    BY <1>6
  <2> HIDE DEF y
  <2>3. e[y] = d[y]
    BY <2>1, <2>2
  <2> QED
    BY <2>3 DEF y
<1>10. t[m + 1] = c
  <2>1. t[m + 1] = e[w % PIPESIZE]
    <3>1. m + 1 \in 1..(m + 1) /\ r + (m + 1) - 1 = r + m
      BY <1>1
    <3> QED
      BY <1>3, <1>8, <3>1
  <2> QED
    BY <1>4, <2>1
<1> HIDE DEF m, e, x, s, t
<1>11. t = Append(s, c)
  <2>1. Append(s, c) \in Seq(Byte) /\ Len(Append(s, c)) = m + 1
    BY <1>7
  <2>2. \A k \in 1..(m + 1) : t[k] = Append(s, c)[k]
    BY <1>1, <1>7, <1>8, <1>9, <1>10
  <2> QED
    BY <1>8, <2>1, <2>2, SeqEqual
<1> QED
  BY <1>11 DEF t, s, e, x

\* ch = pi->data[pi->nread++ % PIPESIZE]: the first byte leaves, also when nread
\* wraps around.
LEMMA RingGet ==
  ASSUME NEW d \in [0..(PIPESIZE - 1) -> Byte], NEW r \in 0..(Mod - 1), NEW w \in 0..(Mod - 1),
         Between(r, w) # 0
  PROVE  Ring(d, r, w) # <<>> /\ Ring(d, (r + 1) % Mod, w) = Tail(Ring(d, r, w))
<1> DEFINE m == Between(r, w)
           x == (r + 1) % Mod
           s == Ring(d, r, w)
           t == Ring(d, x, w)
<1>1. m \in Nat \ {0}
  BY BetweenIs
<1>2. x \in 0..(Mod - 1) /\ Between(x, w) = m - 1
  BY Counters
<1>3. s \in Seq(Byte) /\ Len(s) = m /\ \A k \in 1..m : s[k] = d[(r + k - 1) % PIPESIZE]
  BY RingIs
<1>4. t \in Seq(Byte) /\ Len(t) = m - 1 /\ \A k \in 1..(m - 1) : t[k] = d[(x + k - 1) % PIPESIZE]
  <2> HIDE DEF x
  <2>1. /\ t \in Seq(Byte) /\ Len(t) = Between(x, w)
        /\ \A k \in 1..Between(x, w) : t[k] = d[(x + k - 1) % PIPESIZE]
    BY <1>2, RingIs
  <2> QED
    BY <1>2, <2>1
<1>5. \A k \in 1..(m - 1) : (x + k - 1) % PIPESIZE = (r + k) % PIPESIZE
  <2> SUFFICES ASSUME NEW k \in 1..(m - 1) PROVE (x + k - 1) % PIPESIZE = (r + k) % PIPESIZE
    OBVIOUS
  <2>1. x = IF r + 1 = Mod THEN 0 ELSE r + 1
    BY NextIs
  <2> HIDE DEF x, m
  <2>2. CASE r + 1 = Mod
    <3> DEFINE y == k - 1
    <3>1. y \in Nat /\ x + k - 1 = y /\ r + k = y + Mod
      BY <1>1, <2>1, <2>2
    <3>2. Mod % PIPESIZE = 0
      BY PipeAssumption DEF PipeAssumption
    <3> HIDE DEF y
    <3>3. (y + Mod) % PIPESIZE = y % PIPESIZE
      BY <3>1, <3>2, ModShift
    <3> QED
      BY <3>1, <3>3
  <2>3. CASE r + 1 # Mod
    <3>1. x + k - 1 = r + k
      BY <1>1, <2>1, <2>3
    <3> QED
      BY <3>1
  <2> QED
    BY <2>2, <2>3
<1> HIDE DEF m, x, s, t
<1>6. s # <<>>
  BY <1>1, <1>3
<1>7. Tail(s) \in Seq(Byte) /\ Len(Tail(s)) = m - 1 /\ \A k \in 1..(m - 1) : Tail(s)[k] = s[k + 1]
  BY <1>3, <1>6, HeadTailProperties
<1>8. \A k \in 1..(m - 1) : t[k] = Tail(s)[k]
  <2> SUFFICES ASSUME NEW k \in 1..(m - 1) PROVE t[k] = Tail(s)[k]
    OBVIOUS
  <2>1. k + 1 \in 1..m /\ r + (k + 1) - 1 = r + k
    BY <1>1
  <2>2. s[k + 1] = d[(r + k) % PIPESIZE]
    BY <1>3, <2>1
  <2> QED
    BY <1>4, <1>5, <1>7, <2>2
<1>9. t = Tail(s)
  BY <1>4, <1>7, <1>8, SeqEqual
<1> QED
  BY <1>6, <1>9 DEF s, t, x

----------------------------------------------------------------------------
(* The refinement *)

LEMMA QueueIs == Queue = Ring(data, nread, nwrite) /\ Queue' = Ring(data', nread', nwrite')
  BY DEF Queue, Ring, Between

\* The initial pipe is the empty queue with two open ends.
LEMMA InitImplements == PipeInit => F!Init
<1> SUFFICES ASSUME PipeInit PROVE F!Init
  OBVIOUS
<1>1. 0 \in 0..(Mod - 1) /\ Between(0, 0) = 0
  BY Counters
<1>2. data \in [0..(PIPESIZE - 1) -> Byte] /\ nread = 0 /\ nwrite = 0
  BY DEF PipeInit
<1>3. Queue \in Seq(Byte) /\ Len(Queue) = 0
  BY <1>1, <1>2, RingIs, QueueIs
<1>4. Queue = <<>>
  BY <1>3, EmptySeq
<1> QED
  BY <1>4 DEF PipeInit, F!Init

\* One byte written is one Put.
LEMMA WriteImplements ==
  ASSUME IInv, NEW p \in PipeProc, WriteByte(p)
  PROVE  F!Next
<1>1. PICK c \in Byte : data' = [data EXCEPT ![nwrite % PIPESIZE] = c]
  BY DEF WriteByte
<1>2. nread' = nread /\ nwrite' = (nwrite + 1) % Mod /\ UNCHANGED <<readopen, writeopen>> /\ ~Full
  BY DEF WriteByte, ends
<1>3. /\ data \in [0..(PIPESIZE - 1) -> Byte]
      /\ nread \in 0..(Mod - 1) /\ nwrite \in 0..(Mod - 1)
  BY DEF IInv, PipeTypeOK
<1>4. Between(nread, nwrite) < PIPESIZE
  <2>1. Between(nread, nwrite) # PIPESIZE /\ Between(nread, nwrite) \in 0..(Mod - 1)
    BY <1>2, <1>3, Counters DEF Full
  <2>2. Between(nread, nwrite) <= PIPESIZE
    BY DEF IInv, Count, Between
  <2> QED
    BY <2>1, <2>2
<1>5. Queue' = Append(Queue, c)
  <2>1. Ring([data EXCEPT ![nwrite % PIPESIZE] = c], nread, (nwrite + 1) % Mod)
        = Append(Ring(data, nread, nwrite), c)
    BY ZenonT(30), <1>3, <1>4, RingPut
  <2> QED
    BY ONLY <1>1, <1>2, <2>1, QueueIs, Zenon
<1>6. Len(Queue) < PIPESIZE
  BY <1>3, <1>4, RingIs, QueueIs
<1>7. writeopen = 1
  BY DEF IInv, PipeTypeOK, InPipe, WriterAt, Ends, EndOf, WriteByte
<1>8. F!Put(c)
  BY <1>2, <1>5, <1>6, <1>7 DEF F!Put
<1> QED
  BY <1>8 DEF F!Next

\* One byte read is one Get, also when copyout() fails on it.
LEMMA ReadImplements ==
  ASSUME IInv, NEW p \in PipeProc, ReadOne(p) \/ ReadLast(p)
  PROVE  F!Next
<1>1. /\ ppc[p] = "copy" /\ ~Empty /\ data' = data /\ nwrite' = nwrite
      /\ nread' = (nread + 1) % Mod /\ UNCHANGED <<readopen, writeopen>>
  BY DEF ReadOne, ReadLast, ends
<1>2. /\ data \in [0..(PIPESIZE - 1) -> Byte]
      /\ nread \in 0..(Mod - 1) /\ nwrite \in 0..(Mod - 1)
  BY DEF IInv, PipeTypeOK
<1>3. Between(nread, nwrite) # 0
  BY <1>1, <1>2, Counters DEF Empty
<1>4. Queue # <<>> /\ Queue' = Tail(Queue)
  BY <1>1, <1>2, <1>3, RingGet, QueueIs
<1>5. readopen = 1
  BY <1>1 DEF IInv, PipeTypeOK, InPipe, ReaderAt, Ends, EndOf
<1>6. F!Get
  BY <1>1, <1>4, <1>5 DEF F!Get
<1> QED
  BY <1>6 DEF F!Next

\* pipeclose() closes one end that was open.
LEMMA CloseImplements ==
  ASSUME IInv, NEW p \in PipeProc, CloseWrite(p) \/ CloseRead(p)
  PROVE  F!Next
<1>1. UNCHANGED <<data, nread, nwrite>>
  BY DEF CloseWrite, CloseRead, ring
<1>2. Queue' = Queue
  BY <1>1 DEF Queue
<1>3. CASE CloseWrite(p)
  <2>1. writeopen = 1
    BY <1>3 DEF IInv, Ends, EndOf, Closing, CloseWrite
  <2>2. F!CloseWrite
    BY <1>2, <1>3, <2>1 DEF F!CloseWrite, CloseWrite
  <2> QED
    BY <2>2 DEF F!Next
<1>4. CASE CloseRead(p)
  <2>1. readopen = 1
    BY SMTT(30), <1>4 DEF IInv, Ends, EndOf, Closing, CloseRead
  <2>2. F!CloseRead
    BY <1>2, <1>4, <2>1 DEF F!CloseRead, CloseRead
  <2> QED
    BY <2>2 DEF F!Next
<1> QED
  BY <1>3, <1>4

\* The ring of pipewrite() and piperead() is a queue of at most PIPESIZE bytes:
\* what is read is what was written, in the order it was written.
THEOREM FirstInFirstOutHolds == PipeSpec => FirstInFirstOut
<1>1. IInv /\ [PipeNext]_pipeVars => [F!Next]_<<Queue, readopen, writeopen>>
  <2> SUFFICES ASSUME IInv, [PipeNext]_pipeVars
               PROVE  F!Next \/ UNCHANGED <<Queue, readopen, writeopen>>
    OBVIOUS
  <2>1. CASE UNCHANGED <<data, nread, nwrite, readopen, writeopen>>
    BY <2>1 DEF Queue
  <2>2. CASE PipeNext
    <3>1. PICK p \in PipeProc : Step(p)
      BY <2>2, StepIs
    <3>2. \/ WriteByte(p) \/ ReadOne(p) \/ ReadLast(p) \/ CloseWrite(p) \/ CloseRead(p)
          \/ UNCHANGED <<data, nread, nwrite, readopen, writeopen>>
      BY <3>1 DEF Step, Write, Read, Enters, Enter, WriteFail, WriteSleep, WriteDone,
         ReadFail, ReadSleep, ReadStart, ReadDone, FallsAsleep, FallAsleep, Close, PipeKill,
         ring, ends
    <3> QED
      BY SMTT(30), <2>1, <3>2, WriteImplements, ReadImplements, CloseImplements
  <2>3. CASE UNCHANGED pipeVars
    BY <2>1, <2>3 DEF pipeVars, ring, ends
  <2> QED
    BY <2>2, <2>3
<1> QED
  BY <1>1, InitImplements, InvHolds, PTL DEF PipeSpec, FirstInFirstOut, F!Spec

===============================================================================
