SPECIFICATION Spec
CONSTANTS
  CONSBUFSIZE = 4
  BUFLEN = 4
  CRT_COLS = 2
  CRT_ROWS = 3
  Glyph = {"a"}
  MaxPending = 2
VIEW LiveState
INVARIANTS TypeOK RingIsQueue ScreenShowsLine
