------------------------------ MODULE Terminal ------------------------------
(***************************************************************************)
(* The constructor of console_renderer and allocate_space                  *)
(* (include/renderer.h), with get_cursor_position (src/core/renderer.cpp): *)
(* the program asks the terminal where the cursor is and reads the answer  *)
(* from the terminal's input, where the user may have typed before.        *)
(* Characters are their codes.                                             *)
(***************************************************************************)
EXTENDS Integers, Sequences, SequencesExt, FiniteSetsExt

CONSTANTS
  Cursors,           \* where the cursor may be: pairs of a row and a column
  Typed,             \* what the user may type
  MAX_TYPED,         \* how much of it (a bound of the model)
  Garbage,           \* what the uninitialised buf may hold
  BUF_SIZE,          \* the size of buf (32)
  LINES,             \* the rows of the screen
  SEGMENTS,          \* how many bars are shown
  DEFAULT_ROW_SIZE   \* the rows that are allocated for each (3)

VARIABLES
  ctor,        \* "none", "size", "ask", "read", "scan", "place", "placed" or "threw"
  mode,        \* of the terminal: "old", or "new" without echo
  cursor,      \* where it is
  input,       \* what can be read from the terminal
  terminal,    \* "there", "asked", "answered" or "hung up"
  typed,       \* how much the user typed, and whether read failed
  failed,
  buf,
  c_start,     \* c_start_row and c_start_col
  t_rows       \* the row of each segment

terminalVars == <<ctor, mode, cursor, input, terminal, typed, failed, buf, c_start, t_rows>>

Escape == 27
Bracket == 91
Semicolon == 59
EndOfReport == 82
Digits == 48..57

Decimal(n) ==
  LET digits[k \in 0..n] ==
        IF k < 10 THEN <<48 + k>> ELSE Append(digits[k \div 10], 48 + (k % 10))
  IN digits[n]

\* The terminal's answer.
ReportOf(position) ==
  <<Escape, Bracket>> \o Decimal(position[1]) \o <<Semicolon>> \o Decimal(position[2])
    \o <<EndOfReport>>

\* The longest report fits buf, the user types text and not the keys that send a
\* report's beginning, and render draws two lines of each bar.
ASSUME TerminalAssumption ==
  /\ Cursors \subseteq (1..LINES) \X (Nat \ {0})
  /\ \A c \in Cursors : Len(ReportOf(c)) <= BUF_SIZE
  /\ Escape \notin Typed
  /\ BUF_SIZE \in Nat \ {0} /\ SEGMENTS \in Nat /\ MAX_TYPED \in Nat
  /\ LINES \in Nat
  /\ DEFAULT_ROW_SIZE \in Nat /\ DEFAULT_ROW_SIZE >= 2

TerminalInit ==
  /\ ctor = "none"
  /\ mode = "old"
  /\ cursor = <<1, 1>>
  /\ input = <<>>
  /\ terminal = "there"
  /\ typed = 0 /\ failed = FALSE
  /\ buf = <<>>
  /\ c_start = <<1, 1>>
  /\ t_rows = <<>>
-----------------------------------------------------------------------------
\* get_terminal_size throws if the output is not a terminal.
GetSize ==
  /\ ctor = "size"
  /\ ctor' \in {"ask", "threw"}
  /\ UNCHANGED <<mode, cursor, input, terminal, typed, failed, buf, c_start, t_rows>>

Ask ==
  /\ ctor = "ask"
  /\ ctor' = "read"
  /\ mode' = "new"
  /\ terminal' = IF terminal = "there" THEN "asked" ELSE terminal
  /\ UNCHANGED <<cursor, input, typed, failed, buf, c_start, t_rows>>

MoreToReadOneTooMany == ctor = "read" /\ Len(buf) < BUF_SIZE        \* slip
MoreToRead == ctor = "read" /\ Len(buf) < BUF_SIZE - 1

\* The loop goes on behind character c, which it ends at if c ends a report.
EndsAtNewline(c) == c = 10                                        \* slip
EndsAt(c) == c = EndOfReport

Store(c) ==
  /\ \/ ~EndsAt(c) /\ buf' = Append(buf, c) /\ UNCHANGED ctor
     \/ EndsAt(c) /\ ctor' = "scan" /\ UNCHANGED buf
  /\ UNCHANGED <<mode, cursor, terminal, typed, failed, c_start, t_rows>>

ReadChar ==
  /\ MoreToRead /\ input # <<>>
  /\ input' = Tail(input)
  /\ Store(Head(input))

\* read returns 0 and leaves buf[i] as it was.
ReadNothing ==
  /\ MoreToRead /\ input = <<>> /\ terminal = "hung up"
  /\ \E c \in Garbage : Store(c)
  /\ UNCHANGED input

\* The buffer is full.
StopReading ==
  /\ ctor = "read" /\ ~MoreToRead
  /\ ctor' = "scan"
  /\ UNCHANGED <<mode, cursor, input, terminal, typed, failed, buf, c_start, t_rows>>

\* The digits of buf from its k-th character on, and their value.
DigitsFrom(k) ==
  LET s == SubSeq(buf, k, Len(buf))
      stop == SelectInSeq(s, LAMBDA c : c \notin Digits)
  IN IF stop = 0 THEN s ELSE SubSeq(s, 1, stop - 1)

Number(s) ==
  LET read[k \in 0..Len(s)] == IF k = 0 THEN 0 ELSE 10 * read[k - 1] + (s[k] - 48)
  IN read[Len(s)]

ColumnFirst(row, col) == <<Number(col), Number(row)>>              \* slip
Position(row, col) == <<Number(row), Number(col)>>

\* sscanf(buf, "\033[%d;%dR", &row, &col) and what is made of its result.
Scanned ==
  LET row == DigitsFrom(3)
      col == DigitsFrom(4 + Len(row))
  IN IF /\ Len(buf) >= 5 /\ buf[1] = Escape /\ buf[2] = Bracket
        /\ row # <<>> /\ col # <<>> /\ buf[3 + Len(row)] = Semicolon
     THEN Position(row, col) ELSE <<1, 1>>

\* The terminal gets its mode back.
Scan ==
  /\ ctor = "scan"
  /\ mode' = "old"
  /\ c_start' = Scanned
  /\ ctor' = "place"
  /\ buf' = <<>>
  /\ UNCHANGED <<cursor, input, terminal, typed, failed, t_rows>>

Lines == DEFAULT_ROW_SIZE

\* allocate_space for the next segment, the root first.
AllocateSpace ==
  /\ ctor = "place"
  /\ t_rows' = Append(t_rows, c_start[1])
  /\ c_start' = [c_start EXCEPT ![1] = @ + Lines]
  /\ ctor' = IF Len(t_rows') > SEGMENTS THEN "placed" ELSE ctor
  /\ UNCHANGED <<mode, cursor, input, terminal, typed, failed, buf>>

Construct ==
  \/ GetSize \/ Ask \/ ReadChar \/ ReadNothing \/ StopReading
  \/ Scan \/ AllocateSpace
-----------------------------------------------------------------------------
(* The terminal and its user. *)

Report == ReportOf(cursor)

Answer ==
  /\ terminal = "asked"
  /\ terminal' = "answered"
  /\ input' = input \o Report
  /\ UNCHANGED <<ctor, mode, cursor, typed, failed, buf, c_start, t_rows>>

\* Typed behind the report, nothing is read of it.
Type ==
  /\ ctor \in {"size", "ask", "read"} /\ terminal \in {"there", "asked"}
  /\ typed < MAX_TYPED
  /\ typed' = typed + 1
  /\ \E c \in Typed : input' = Append(input, c)
  /\ UNCHANGED <<ctor, mode, cursor, terminal, failed, buf, c_start, t_rows>>

HangUp ==
  /\ ctor \in {"ask", "read"} /\ terminal # "hung up"
  /\ terminal' = "hung up"
  /\ UNCHANGED <<ctor, mode, cursor, input, typed, failed, buf, c_start, t_rows>>

\* read returns -1, as it does if the output was opened for writing only.
ReadFails ==
  /\ MoreToRead
  /\ ctor' = "scan"
  /\ failed' = TRUE
  /\ UNCHANGED <<mode, cursor, input, terminal, typed, buf, c_start, t_rows>>

Outside == Answer \/ Type \/ HangUp \/ ReadFails

Constructed == ctor \in {"place", "placed"}

FirstRow == IF t_rows = <<>> THEN c_start[1] ELSE t_rows[1]
-----------------------------------------------------------------------------
\* Where a row is shown: the terminal takes a row below the screen as the last.
Shown(row) == IF row < LINES THEN row ELSE LINES

\* Each of the two lines that render draws of each bar has a row of its own; only
\* what does not fit below the cursor shares the last row.
OwnRows ==
  \A k, l \in DOMAIN t_rows : \A d, e \in {0, 1} :
    Shown(t_rows[k] + d) = Shown(t_rows[l] + e) =>
      \/ k = l /\ d = e
      \/ Shown(t_rows[k] + d) = LINES

\* The bars begin where the cursor is, or in the first row if that is not known, and
\* each has rows of its own: what was typed before the answer makes it unknown,
\* never another row.  Nothing but a user, a failing read or a terminal that goes
\* away makes it unknown.
BeginsAtCursor ==
  /\ Constructed /\ terminal # "hung up" =>
       /\ FirstRow \in {cursor[1], 1}
       /\ typed = 0 /\ ~failed => FirstRow = cursor[1]
  /\ OwnRows
=============================================================================
