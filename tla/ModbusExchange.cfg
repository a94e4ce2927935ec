\* One exchange after another over each framing; every byte of every frame damaged,
\* every answer cut at every place; other clients' requests in between.
SPECIFICATION Spec
CONSTANTS
  Framings = {"rtu", "v5", "tcp"}
  Rules <- MCRules
  Memories <- MCMemories
  Calls <- MCCalls
  ForeignPdus <- MCForeignPdus
  ForeignSlave = 1
  Transactions = {513}
  Deltas = {1, 128}
  MaxExchanges = 1
INVARIANTS
  TypeOK
  DamageNoticed
  AnswersUnderstood
  ErrorsNamed
  OnlyShortAnswersCompleted
  SizeAsExpected
PROPERTIES
  ImplementsMemory
CHECK_DEADLOCK FALSE
