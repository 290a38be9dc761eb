SPECIFICATION MCSpec
CONSTANTS
  NPROC = 2
  NCPU = 2
  Chan = {c1, c2}
  MaxItems = 2
  Kills = TRUE
  Intr = Intr
  None = None
  Writer = {w1, w2}
  Handler = Handler
  NoHolder = NoHolder
  UART_TX_BUF_SIZE = 3
  MaxWrite = 2
  MaxEcho = 2
CHECK_DEADLOCK FALSE
INVARIANTS NoLostWakeup HolderRuns TxOrder
PROPERTIES AtomicSleep Woken OutputDrains
