CONSTANTS
  Procs = {p1, p2}
  KillSet = {p2}
  MaxN = 2
  Nobody = Nobody
  First = p1
  Bytes = {0, 1}
  PIPESIZE = 2
  WORD = 4
  MaxBytes = 3
  Chars = {"x"}
  Newline = "nl"
  Eof = "eof"
  Backspace = "bs"
  KillLine = "kill"
  INPUT_BUF = 3
  UINT = 6
  Printers = {h1, h2}
  Handler = Handler
  UART_TX_BUF_SIZE = 2
  FIFO = 3
  MaxPrints = 2
  NPROC = 2
  KillSlots = {2}
  TICKWORD = 8
  BootTicks = 7
  MaxTicks = 2
  MaxSleep = 1
SPECIFICATION FairSpec
INVARIANTS
  OpenWhileUsed NobodySleepsInVain NoOverrun TimesAddUp
PROPERTIES
  QueueSpec LineSpec WaitsEnd
CHECK_DEADLOCK FALSE
