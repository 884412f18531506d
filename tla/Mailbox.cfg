CONSTANTS
  NMsgs = 3
  First = 2
  Kinds = {"plain", "condstore", "qresync"}
  Window = 2
  Batch = 1
  Chunk = 1
  MaxEvents = 3
SPECIFICATION Spec
INVARIANTS TypeOK SettledIsCurrent RowsNameTheirMessages RulesActOnNewsOnce
PROPERTY EventuallyCurrent
CHECK_DEADLOCK FALSE
