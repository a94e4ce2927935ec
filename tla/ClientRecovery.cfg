\* Every kind of fault but refused connections; shutdown at any await of caller and keeper,
\* wait_closed() included.
SPECIFICATION FairSpec
CONSTANTS
  Conns = {c1, c2}
  Tasks = {t1, t2}
  None = None
  SeqMod = 3
  OpenTries = 2
  BusyTries = 2
  Timeout = 10
  Device = "tcp"
  Losses = {"fin", "reset", "error", "silent"}
  Garbles = {"bad", "busy", "short", "piece", "report"}
  MayRefuse = FALSE
  PromptClose = FALSE
  MayStop = TRUE
  MaxFaults = 2
  MaxInbox = 2
PROPERTIES
  RecoversOrStranded
  ExecuteReturns
  ShutdownCompletes
  ImplementsChannel
