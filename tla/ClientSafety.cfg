\* A V5 device, every kind of fault, shutdown at any await.
SPECIFICATION Spec
SYMMETRY Interchangeable
CONSTANTS
  Conns = {c1, c2}
  Tasks = {t1, t2}
  None = None
  SeqMod = 3
  OpenTries = 3
  BusyTries = 2
  Timeout = 10
  Device = "tcp"
  Losses = {"fin", "reset", "error", "silent"}
  Garbles = {"bad", "busy", "short", "piece", "report"}
  MayRefuse = TRUE
  PromptClose = FALSE
  MayStop = TRUE
  MaxFaults = 3
  MaxInbox = 2
INVARIANTS
  TypeOK
  SingleKeeper
  SingleSession
  OwnData
  CloseIsFinal
  WindowGuarded
