------------------------------ MODULE Console -------------------------------
(* Console input (kernel/console.c): processes in consoleread() and the      *)
(* interrupt handler that feeds keys to consoleintr().  cons.lock is held    *)
(* from one sleep of consoleread() to the next, so it is explicit; the       *)
(* handler's edit of the line is one step.  What consoleintr() echoes goes   *)
(* to the UART, module Uart.                                                 *)
EXTENDS Naturals, Sequences

CONSTANTS
  Reader,
  INPUT_BUF,
  ConsMod,    \* modulus of the uint indices r, w, e
  MaxRead,    \* longest read()
  NoReader, Unset

ASSUME ConsAssumption ==
  /\ INPUT_BUF \in Nat \ {0} /\ ConsMod \in Nat
  /\ ConsMod > INPUT_BUF /\ ConsMod % INPUT_BUF = 0
  /\ MaxRead \in Nat /\ NoReader \notin Reader

\* A character, return, ^D, ^H, ^U, ^P and the zero byte.
Key == {"char", "return", "eof", "erase", "kill", "dump", "nul"}

VARIABLES
  cbuf, r, w, e,  \* cons.buf, cons.r, cons.w, cons.e
  consLock,       \* the reader holding cons.lock
  rpc, rn,        \* where a reader is in consoleread(), and its n
  rgot,           \* what it has copied out
  rkilled         \* p->killed

inVars == <<cbuf, r, w, e>>
consVars == <<inVars, consLock, rpc, rn, rgot, rkilled>>

ConsInit ==
  /\ cbuf = [i \in 0..(INPUT_BUF - 1) |-> Unset] /\ r = 0 /\ w = 0 /\ e = 0
  /\ consLock = NoReader
  /\ rpc = [p \in Reader |-> "idle"] /\ rn = [p \in Reader |-> 0]
  /\ rgot = [p \in Reader |-> <<>>] /\ rkilled = [p \in Reader |-> FALSE]

\* uint arithmetic.
Plus(x, k) == (x + k) % ConsMod
Minus(x, y) == (x + ConsMod - y) % ConsMod

----------------------------------------------------------------------------
(* consoleread *)

\* It takes cons.lock at the start, and again when sleep() returns.
ReadEnter(p) ==
  /\ consLock = NoReader
  /\ \/ /\ rpc[p] = "idle" /\ ~rkilled[p]
        /\ \E n \in 1..MaxRead : rn' = [rn EXCEPT ![p] = n]
     \/ rpc[p] = "woken" /\ UNCHANGED rn
  /\ rpc' = [rpc EXCEPT ![p] = "loop"] /\ consLock' = p
  /\ UNCHANGED <<inVars, rgot, rkilled>>

\* Release cons.lock and return to usertrap(), where a killed process exits;
\* the next read is another process's.
ReadLeave(p) ==
  /\ rpc' = [rpc EXCEPT ![p] = "idle"] /\ rgot' = [rgot EXCEPT ![p] = <<>>]
  /\ rn' = [rn EXCEPT ![p] = 0] /\ rkilled' = [rkilled EXCEPT ![p] = FALSE]
  /\ consLock' = NoReader

\* cons.r = cons.w: return -1 if killed, else sleep, which drops the lock.
ReadWait(p) ==
  /\ consLock = p /\ rn[p] > 0 /\ r = w
  /\ IF rkilled[p] THEN ReadLeave(p)
     ELSE /\ rpc' = [rpc EXCEPT ![p] = "sleep"] /\ consLock' = NoReader
          /\ UNCHANGED <<rn, rgot, rkilled>>
  /\ UNCHANGED inVars

\* Mutant: ^D is consumed even if the read has bytes to return.
AfterEofGone(p) == Plus(r, 1)

\* cons.r after meeting ^D: put back if the caller already has bytes.
AfterEof(p) == IF rgot[p] # <<>> THEN r ELSE Plus(r, 1)

\* One character: ^D ends the read; a copy to a bad address loses the
\* character and ends it; a newline or the n-th byte ends it after the copy.
ReadChar(p) ==
  /\ consLock = p /\ rn[p] > 0 /\ r # w
  /\ LET c == cbuf[r % INPUT_BUF]
     IN  IF c = "eof" THEN r' = AfterEof(p) /\ rn' = [rn EXCEPT ![p] = 0] /\ UNCHANGED rgot
         ELSE /\ r' = Plus(r, 1)
              /\ \/ rn' = [rn EXCEPT ![p] = 0] /\ UNCHANGED rgot
                 \/ /\ rgot' = [rgot EXCEPT ![p] = Append(@, c)]
                    /\ rn' = [rn EXCEPT ![p] = IF c = "newline" THEN 0 ELSE @ - 1]
  /\ UNCHANGED <<cbuf, w, e, consLock, rpc, rkilled>>

ReadReturn(p) ==
  /\ consLock = p /\ rn[p] = 0
  /\ ReadLeave(p)
  /\ UNCHANGED inVars

\* kill() sets p->killed and wakes a sleeper.
KillReader(p) ==
  /\ ~rkilled[p] /\ rpc[p] # "idle"
  /\ rkilled' = [rkilled EXCEPT ![p] = TRUE]
  /\ rpc' = [rpc EXCEPT ![p] = IF @ = "sleep" THEN "woken" ELSE @]
  /\ UNCHANGED <<inVars, consLock, rn, rgot>>

----------------------------------------------------------------------------
(* consoleintr *)

\* There is room for one more character.
InputRoom == Minus(e, r) < INPUT_BUF

\* wakeup(&cons.r).
WakeReaders == [p \in Reader |-> IF rpc[p] = "sleep" THEN "woken" ELSE rpc[p]]

\* Where ^U leaves the edit index: back to w, or to a newline before it.
KillTo ==
  LET newlines == {j \in 1..Minus(e, w) : cbuf[Minus(e, j) % INPUT_BUF] = "newline"}
  IN  IF newlines = {} THEN w
      ELSE Minus(e, (CHOOSE j \in newlines : \A k \in newlines : j <= k) - 1)

\* A character is stored if there is room; the end of a line, of the file or
\* of the buffer commits what was typed and wakes the readers.
Store(c) ==
  /\ InputRoom
  /\ cbuf' = [cbuf EXCEPT ![e % INPUT_BUF] = c]
  /\ e' = Plus(e, 1)
  /\ IF c \in {"newline", "eof"} \/ e' = Plus(r, INPUT_BUF)
     THEN w' = e' /\ rpc' = WakeReaders
     ELSE UNCHANGED <<w, rpc>>

consoleintr(key) ==
  /\ consLock = NoReader
  /\ \/ key = "kill" /\ e' = KillTo /\ UNCHANGED <<cbuf, w, rpc>>
     \/ key = "erase" /\ e # w /\ e' = Minus(e, 1) /\ UNCHANGED <<cbuf, w, rpc>>
     \/ key \in {"char", "eof"} /\ Store(key)
     \/ key = "return" /\ Store("newline")
     \/ key \in {"dump", "nul"} /\ UNCHANGED <<cbuf, w, e, rpc>>
  /\ UNCHANGED <<r, consLock, rn, rgot, rkilled>>

----------------------------------------------------------------------------
consoleread(p) == ReadEnter(p) \/ ReadWait(p) \/ ReadChar(p) \/ ReadReturn(p)

ConsNext ==
  \/ \E p \in Reader : consoleread(p) \/ KillReader(p)
  \/ \E key \in Key : consoleintr(key)

ConsSpec == ConsInit /\ [][ConsNext]_consVars

----------------------------------------------------------------------------
(* Properties *)

ConsTypeOK ==
  /\ cbuf \in [0..(INPUT_BUF - 1) -> {"char", "newline", "eof", Unset}]
  /\ {r, w, e} \subseteq 0..(ConsMod - 1)
  /\ consLock \in Reader \cup {NoReader}
  /\ rpc \in [Reader -> {"idle", "loop", "sleep", "woken"}]
  /\ rn \in [Reader -> 0..MaxRead] /\ rkilled \in [Reader -> BOOLEAN]

\* The part of the ring from index i on.
Window(i, n) == [k \in 1..n |-> cbuf[Plus(i, k - 1) % INPUT_BUF]]

T == INSTANCE Terminal WITH Room <- INPUT_BUF, got <- rgot,
       editing <- Window(w, Minus(e, w)), committed <- Window(r, Minus(w, r))

\* No reader sleeps while cons.buf holds committed input, or after kill().
ReaderNotStuck == \A p \in Reader : rpc[p] = "sleep" => r = w /\ ~rkilled[p]

\* consoleintr() and consoleread() with their ring and wrapping indices are a
\* terminal: typed characters are neither overwritten nor reordered, editing
\* never reaches what was committed, a read stops at a newline, and ^D ends
\* exactly one read with nothing.  No reader sleeps on in spite of input.
LineDiscipline == T!TerminalSpec /\ [](ConsTypeOK /\ ReaderNotStuck)
=============================================================================
