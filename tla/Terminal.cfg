SPECIFICATION Spec
CONSTANTS
  MaxLen    = 4
  MaxChunk  = 3
INVARIANTS SentAsMeant QuitAsMeant LinesShown
CHECK_DEADLOCK FALSE
