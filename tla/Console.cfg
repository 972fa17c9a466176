SPECIFICATION Spec
CONSTANTS
  Thread <- Threads
  Shell = "init"
  Text <- Texts
  TickText <- TickLine
  EarlyMessages <- TwoEarly
  BUF = 6
  LOG_BUF_LEN = 6
  LINE = 4
  Typed = {"x", "y", "nul", "CR"}
INVARIANT EarlyLogReplayed
INVARIANT CallsIntact
INVARIANT EchoesLine
