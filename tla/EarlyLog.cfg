SPECIFICATION Spec
CONSTANTS
  Thread <- Threads
  Shell = "init"
  Text <- Texts
  TickText <- TickLine
  EarlyMessages <- ThreeEarly
  BUF = 6
  LOG_BUF_LEN = 6
  LINE = 4
  Typed = {"x", "y", "CR"}
INVARIANT EarlyLogReplayed
