------------------------------- MODULE Terminal -------------------------------
(***************************************************************************)
(* The VGA text driver: operators from a terminal to a terminal.  Colours  *)
(* and the blinking cursor are left out: nothing decides on them, and      *)
(* every operation puts the cursor at row and column.                      *)
(***************************************************************************)
EXTENDS Integers, Sequences, SequencesExt

CONSTANTS
  Width, Height,   \* 80 and 25
  Word             \* numbers of a size_t, 2^32

ASSUME TerminalAssumption ==
  /\ Width \in Nat \ {0} /\ Height \in Nat \ {0}
  /\ Word \in Nat /\ Word > 2 * Width * Height

Size  == Width * Height
Cells == 0 .. Size - 1
Blank == " "

\* Where row and column point; not a cell of the screen once the column has
\* wrapped below zero.
Index(t) == (t.row * Width + t.column) % Word

vga_text_clear(t) == [row |-> 0, column |-> 0, cells |-> [i \in Cells |-> Blank]]

\* What is stored outside the screen is not seen again.
vga_text_putchar(t, c) ==
  [t EXCEPT !.cells = [i \in Cells |-> IF i = Index(t) THEN c ELSE t.cells[i]]]

\* Below the text buffer the card answers no read, which is not a blank.
vga_text_getchar(t) == IF Index(t) \in Cells THEN t.cells[Index(t)] ELSE "none"

\* vga_text_writeline of an empty string.
NewLine(t) == [t EXCEPT !.column = 0, !.row = (@ + 1) % Height]

\* Broken variant: the row is not brought back to the top of the screen.
Placed_NoTop(t, pos) ==
  [t EXCEPT !.row = (pos \div Width) % (Height + 1), !.column = pos % Width]

Placed(t, pos) ==
  [t EXCEPT !.row = (pos \div Width) % Height, !.column = pos % Width]

\* One turn of the loop of vga_text_write and vga_text_writelength.  pos is a
\* local variable: a newline does not change it, nor does another writer.
WriteChar(w, c) ==
  LET next == (w.pos + 1) % Word
  IN  IF c = "\n" THEN [w EXCEPT !.terminal = NewLine(@)]
      ELSE [terminal |-> Placed(vga_text_putchar(w.terminal, c), next), pos |-> next]

vga_text_write(t, string) ==
  LET after[k \in 0 .. Len(string)] ==
        IF k = 0 THEN [terminal |-> t, pos |-> Index(t)]
        ELSE WriteChar(after[k - 1], string[k])
  IN  after[Len(string)].terminal

\* Every digit moves the column, and nothing brings it back to the next row; a
\* zero leaves the cursor where it is.
PutDigit(t, c) ==
  [vga_text_putchar(t, c) EXCEPT !.column = (@ + 1) % Word]

\* One column back, or from the first column to the last character of the row
\* above that is not a blank; the search does not stop at the start of that row.
Stepped(t) ==
  LET above(n)  == [t EXCEPT !.row = @ - 1, !.column = (Width - 1 - n) % Word]
      blanks(n) == \A m \in 0 .. n : vga_text_getchar(above(m)) = Blank
      skipped   == {n \in 0 .. Size : blanks(n)}
  IN  IF t.column # 0 THEN [t EXCEPT !.column = @ - 1] ELSE above(Cardinality(skipped))

vga_text_backspace(t) ==
  IF t.row = 0 /\ t.column = 0 THEN t ELSE vga_text_putchar(Stepped(t), Blank)
=============================================================================
