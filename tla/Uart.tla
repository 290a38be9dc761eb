-------------------------------- MODULE Uart --------------------------------
(* Console output (kernel/uart.c, consolewrite() of kernel/console.c):       *)
(* processes in consolewrite(), which keeps cons.lock over all its           *)
(* uartputc() calls, and the interrupt handler uartintr() on another CPU,    *)
(* which needs cons.lock for every key it echoes.  uart_tx_lock makes each   *)
(* uartputc() and each uartstart() one step.                                 *)
EXTENDS Naturals

CONSTANTS
  Writer,
  UART_TX_BUF_SIZE,
  MaxWrite,    \* longest write()
  MaxEcho,     \* consputc() calls for one key
  Handler, NoHolder

ASSUME UartAssumption ==
  /\ UART_TX_BUF_SIZE \in Nat /\ UART_TX_BUF_SIZE >= 2
  /\ {Handler, NoHolder} \cap Writer = {} /\ Handler # NoHolder

VARIABLES
  holder,         \* who holds cons.lock
  left,           \* bytes consolewrite() has still to write
  wnext,          \* number of the next byte written
  txbuf, tx_w, tx_r,  \* uart_tx_buf, uart_tx_w, uart_tx_r
  txnext,         \* number of the byte the UART is to send next
  thr, rhr, irq,  \* UART: sending a byte, a key is waiting, interrupt pending
  hpc, echo,      \* where uartintr() is, consputc() calls left
  upanic          \* sched() panicked

txVars == <<wnext, txbuf, tx_w, tx_r, txnext>>
uartVars == <<holder, left, txVars, thr, rhr, irq, hpc, echo, upanic>>

\* Bytes are numbered modulo ByteMod, enough to tell the buffered ones apart.
ByteMod == UART_TX_BUF_SIZE + 1
OutOfOrder == ByteMod

UartInit ==
  /\ holder = NoHolder /\ left = 0 /\ wnext = 0
  /\ txbuf = [i \in 0..(UART_TX_BUF_SIZE - 1) |-> 0] /\ tx_w = 0 /\ tx_r = 0 /\ txnext = 0
  /\ thr = FALSE /\ rhr = FALSE /\ irq = FALSE
  /\ hpc = "off" /\ echo = 0 /\ upanic = FALSE

----------------------------------------------------------------------------
(* consolewrite, uartputc, uartstart *)

consolewrite(p) ==
  /\ holder = NoHolder
  /\ \E n \in 1..MaxWrite : left' = n
  /\ holder' = p
  /\ UNCHANGED <<txVars, thr, rhr, irq, hpc, echo, upanic>>

\* Mutant: the buffer never counts as full.
TxNeverFull == FALSE

TxFull == (tx_w + 1) % UART_TX_BUF_SIZE = tx_r

\* While bytes are buffered and the transmit register is empty, send one,
\* which fills the register.
uartstart(buf, wi) ==
  IF wi = tx_r \/ thr THEN UNCHANGED <<tx_r, thr, txnext>>
  ELSE /\ tx_r' = (tx_r + 1) % UART_TX_BUF_SIZE
       /\ thr' = TRUE
       /\ txnext' = IF buf[tx_r] = txnext THEN (txnext + 1) % ByteMod ELSE OutOfOrder

\* One turn of consolewrite()'s loop.  With the buffer full, uartputc() sleeps
\* with cons.lock held besides p->lock, and sched() panics.
uartputc(p) ==
  /\ holder = p /\ left > 0 /\ ~upanic
  /\ IF TxFull
     THEN upanic' = TRUE /\ UNCHANGED <<txVars, thr, left>>
     ELSE /\ txbuf' = [txbuf EXCEPT ![tx_w] = wnext]
          /\ tx_w' = (tx_w + 1) % UART_TX_BUF_SIZE
          /\ wnext' = (wnext + 1) % ByteMod
          /\ uartstart(txbuf', tx_w')
          /\ left' = left - 1
          /\ UNCHANGED upanic
  /\ UNCHANGED <<holder, rhr, irq, hpc, echo>>

\* The loop ends after n bytes, or early at a bad user address.
WriteReturn(p) ==
  /\ holder = p /\ ~upanic
  /\ holder' = NoHolder /\ left' = 0
  /\ UNCHANGED <<txVars, thr, rhr, irq, hpc, echo, upanic>>

----------------------------------------------------------------------------
(* uartintr *)

\* The PLIC gives the interrupt to one CPU until plic_complete().
UartClaim ==
  /\ hpc = "off" /\ irq
  /\ irq' = FALSE /\ hpc' = "rx"
  /\ UNCHANGED <<holder, left, txVars, thr, rhr, echo, upanic>>

\* uartgetc() returns a key, consoleintr() takes cons.lock to echo it.
uartgetc ==
  /\ hpc = "rx" /\ rhr /\ holder = NoHolder
  /\ rhr' = FALSE /\ hpc' = "echo" /\ holder' = Handler
  /\ \E n \in 0..MaxEcho : echo' = n
  /\ UNCHANGED <<left, txVars, thr, irq, upanic>>

\* Spin until the register is empty, then write it; the spin lasts for ever
\* after a panic.
uartputc_sync ==
  /\ hpc = "echo" /\ echo > 0 /\ ~thr /\ ~upanic
  /\ thr' = TRUE /\ echo' = echo - 1
  /\ UNCHANGED <<holder, left, txVars, rhr, irq, hpc, upanic>>

EchoDone ==
  /\ hpc = "echo" /\ echo = 0
  /\ holder' = NoHolder /\ hpc' = "rx"
  /\ UNCHANGED <<left, txVars, thr, rhr, irq, echo, upanic>>

\* Mutant: the handler leaves without calling uartstart().
UartLeaveOnly ==
  /\ hpc = "rx" /\ ~rhr
  /\ hpc' = "off"
  /\ UNCHANGED <<holder, left, txVars, thr, rhr, irq, echo, upanic>>

\* uartgetc() returned -1: send what is buffered and return.
UartLeave ==
  /\ hpc = "rx" /\ ~rhr
  /\ uartstart(txbuf, tx_w)
  /\ hpc' = "off"
  /\ UNCHANGED <<holder, left, wnext, txbuf, tx_w, rhr, irq, echo, upanic>>

----------------------------------------------------------------------------
(* The device: it interrupts for every key and when the register empties. *)

KeyTyped ==
  /\ ~rhr /\ rhr' = TRUE /\ irq' = TRUE
  /\ UNCHANGED <<holder, left, txVars, thr, hpc, echo, upanic>>

ByteSent ==
  /\ thr /\ thr' = FALSE /\ irq' = TRUE
  /\ UNCHANGED <<holder, left, txVars, rhr, hpc, echo, upanic>>

----------------------------------------------------------------------------
uartintr == UartClaim \/ uartgetc \/ uartputc_sync \/ EchoDone \/ UartLeave

UartNext ==
  \/ \E p \in Writer : consolewrite(p) \/ uartputc(p) \/ WriteReturn(p)
  \/ uartintr \/ KeyTyped \/ ByteSent

UartSpec == UartInit /\ [][UartNext]_uartVars

----------------------------------------------------------------------------
(* Properties *)

UartTypeOK ==
  /\ holder \in Writer \cup {Handler, NoHolder}
  /\ left \in 0..MaxWrite /\ wnext \in 0..(ByteMod - 1) /\ txnext \in 0..OutOfOrder
  /\ txbuf \in [0..(UART_TX_BUF_SIZE - 1) -> 0..(ByteMod - 1)]
  /\ {tx_w, tx_r} \subseteq 0..(UART_TX_BUF_SIZE - 1)
  /\ {thr, rhr, irq, upanic} \subseteq BOOLEAN
  /\ hpc \in {"off", "rx", "echo"} /\ echo \in 0..MaxEcho

\* Bytes of consolewrite() leave through uart_tx_buf in the order written,
\* none lost and none twice, whoever calls uartstart().
TxOrder ==
  LET n == (tx_w + UART_TX_BUF_SIZE - tx_r) % UART_TX_BUF_SIZE
  IN  /\ UartTypeOK
      /\ txnext # OutOfOrder /\ wnext = (txnext + n) % ByteMod
      /\ \A k \in 0..(n - 1) : txbuf[(tx_r + k) % UART_TX_BUF_SIZE] = (txnext + k) % ByteMod

\* Once the typing and the writing pause, all buffered output is sent, unless
\* the kernel panicked: nothing is left for an interrupt that never comes.
OutputDrains == <>[](~rhr /\ holder = NoHolder) => <>[](tx_r = tx_w \/ upanic)
=============================================================================
