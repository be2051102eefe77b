\* Command lines of up to three arguments.  The report of a cursor has six
\* or seven characters, which typed ones let overrun the seven the buffer takes.
\* Three bars of three rows on a screen of nine fit below the cursor or do not.
CONSTANTS
  CommandLines <- SomeCommandLines
  Cursors <- SomeCursors
  Typed <- SomeTyped
  MAX_TYPED = 2
  Garbage <- SomeGarbage
  BUF_SIZE = 8
  LINES = 9
  SEGMENTS = 2
  DEFAULT_ROW_SIZE = 3
SPECIFICATION Spec
INVARIANTS TypeOK ReadAsWritten BeginsAtCursor
PROPERTIES TerminalGivenBack
\* The program is constructed, has thrown or was killed.
CHECK_DEADLOCK FALSE
