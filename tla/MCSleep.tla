------------------------------ MODULE MCSleep ------------------------------
(* Sleep, and a driver that has to make progress, for TLC.  The two do not   *)
(* interact in these models: a behaviour runs one of them and leaves the     *)
(* other in its initial state.                                               *)
EXTENDS Sleep, Uart

VARIABLE part

sleepRest == <<part, uartVars>>
uartRest == <<part, vars>>
allVars == <<part, vars, uartVars>>

MCInit == part \in {"sleep", "uart"} /\ Init /\ UartInit

\* The step A of one part while the rest stays as it is.
Of(name, rest, A) == part = name /\ A /\ UNCHANGED rest

MCNext == Of("sleep", sleepRest, Next) \/ Of("uart", uartRest, UartNext)

\* Sleep: scheduler() runs every RUNNABLE process, a process in the kernel goes
\* on, and a spinlock that is free again and again is granted; a pending timer
\* interrupt is taken as soon as interrupts are on.  Uart: a writer in its loop
\* runs on, the handler is entered and runs to its end, the device sends, and a
\* CPU spinning for cons.lock gets it in the end.
MCFairness ==
  /\ \A p \in Proc :
       /\ SF_allVars(Of("sleep", sleepRest, Step(p) \/ Wakeup(p)))
       /\ SF_allVars(Of("sleep", sleepRest, Yield(p)))
  /\ SF_allVars(Of("sleep", sleepRest, Wakeup(Intr)))
  /\ \A p \in Writer : WF_allVars(Of("uart", uartRest, uartputc(p) \/ WriteReturn(p)))
  /\ WF_allVars(Of("uart", uartRest, ByteSent)) /\ SF_allVars(Of("uart", uartRest, uartgetc))
  /\ WF_allVars(Of("uart", uartRest, UartClaim \/ uartputc_sync \/ EchoDone \/ UartLeave))

MCSpec == MCInit /\ [][MCNext]_allVars /\ MCFairness
=============================================================================
