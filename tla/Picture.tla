------------------------------ MODULE Picture -------------------------------
(***************************************************************************)
(* The picture the on-board unit draws for a frame: printDisplay() writes  *)
(* eight lines into one text, ssd1306_drawString() puts it on the panel    *)
(* character by character, and ssd1306_write() starts a new line at a      *)
(* newline, but of its own accord too when the next character would not    *)
(* fit.  A line is abstracted to its length, a character to its line and   *)
(* its place in the line; a step writes one character.  The time stamps    *)
(* are those of Calendar.                                                  *)
(***************************************************************************)
EXTENDS Calendar

CONSTANTS
  Revisions,   \* revisions a frame may have
  nameSize,    \* length of the name of the first intersection
  id           \* its number

VARIABLES
  revision,
  line, column,   \* of the character that is written next
  panel           \* cursor_x, cursor_y, and the characters drawn, each with its place

pictureVars == <<tm, leap, revision, line, column, panel>>

ASSUME PictureAssumption ==
  Revisions \subseteq 0 .. 127 /\ nameSize \in Nat /\ id \in Nat /\ id <= 65535

WIDTH    == 128
HEIGHT   == 64
textsize == 1

-----------------------------------------------------------------------------
(* printDisplay(): the lengths of the lines.  What is not counted here has *)
(* a field width of its own.                                               *)

Tens == <<1, 10, 100, 1000, 10000, 100000>>

Digits(n) == CHOOSE d \in 1 .. 5 : n < Tens[d + 1] /\ (d = 1 \/ n >= Tens[d])

Lines ==
  LET at == Shown
  IN  << 12 + Digits(at.day) + Digits(at.month) + Digits(at.hour) + Digits(at.minute),
         5 + nameSize, 4 + Digits(id), 9, 18, 16, 16, 11 + Digits(revision) >>

\* Behind its characters a line has a newline.
Newline(i, j) == j = Lines[i] + 1

-----------------------------------------------------------------------------
(* The library.                                                            *)

NewLine(p) == [p EXCEPT !.x = 0, !.y = @ + textsize * 8]

\* A character outside the panel is clipped.
drawChar(p, c) ==
  IF p.x < WIDTH /\ p.y < HEIGHT
  THEN [p EXCEPT !.drawn = @ \union {<<p.x, p.y, c>>}] ELSE p

WrapsEarly(x) == x >= WIDTH - textsize * 8     \* fault: characters 8 wide
Wraps(x)      == x > WIDTH - textsize * 6

write(p, i, j) ==
  IF Newline(i, j) THEN NewLine(p)
  ELSE LET q == [drawChar(p, <<i, j>>) EXCEPT !.x = @ + textsize * 6]
       IN  IF Wraps(q.x) THEN NewLine(q) ELSE q

clearDisplay == [x |-> 0, y |-> 0, drawn |-> {}]

-----------------------------------------------------------------------------
drawString ==
  /\ line \in DOMAIN Lines
  /\ panel' = write(panel, line, column)
  /\ IF Newline(line, column) THEN line' = line + 1 /\ column' = 1
                              ELSE line' = line /\ column' = column + 1
  /\ UNCHANGED <<tm, leap, revision>>

\* The next frame comes when the picture of the last is complete.
Complete == line \notin DOMAIN Lines

NextFrame ==
  /\ Complete /\ Pass
  /\ revision' \in Revisions
  /\ line' = 1 /\ column' = 1 /\ panel' = clearDisplay

PictureInit ==
  /\ Init /\ revision \in Revisions
  /\ line = 1 /\ column = 1 /\ panel = clearDisplay

PictureSpec == PictureInit /\ [][drawString \/ NextFrame]_pictureVars

-----------------------------------------------------------------------------
\* n characters, all on row i.
Row(i, n) == { <<6 * (j - 1), 8 * (i - 1), <<i, j>>>> : j \in 1 .. n }

\* Every line has a row of its own and is whole, at every time of a year and
\* for revisions of every length.  A line as long as a row would wrap before
\* its newline and push the last one off the panel (display.c:713-726).
PictureWhole ==
  Complete => panel.drawn = UNION { Row(i, Lines[i]) : i \in DOMAIN Lines }
=============================================================================
