------------------------------- MODULE Screen -------------------------------
(* The text screen, src/src/tty.c and src/src/arch/i386/vga.c.              *)
EXTENDS Integers, Sequences, SequencesExt, LibraryCall

CONSTANTS Width, Height

ASSUME ScreenAssumption == Width \in Nat \ {0} /\ Height \in Nat \ {0}

Row == 0 .. Height - 1
Col == 0 .. Width - 1
Blank == [c \in Col |-> " "]

(* tty_init and vga_reset.                                                  *)
Reset == [row |-> 0, col |-> 0, cells |-> [r \in Row |-> Blank]]

(* vga_scroll(1), vga.c lines 37-43; the slip leaves the last line.         *)
ScrolledStale(cells) == [r \in Row |-> IF r < Height - 1 THEN cells[r + 1] ELSE cells[r]]
Scrolled(cells) == [r \in Row |-> IF r < Height - 1 THEN cells[r + 1] ELSE Blank]

(* tty_nextline, tty.c lines 38-49.                                         *)
NextLine(s) ==
  IF s.row + 1 >= Height THEN [row |-> Height - 1, col |-> 0, cells |-> Scrolled(s.cells)]
  ELSE [s EXCEPT !.row = @ + 1, !.col = 0]

(* tty_putchar, lines 51-82.                                                *)
PutChar(s, c) ==
  CASE c = "\r" -> [s EXCEPT !.col = 0]
    [] c = "\n" -> NextLine(s)
    [] OTHER -> LET put == [s EXCEPT !.cells[s.row][s.col] = c, !.col = @ + 1]
                IN IF put.col >= Width THEN NextLine(put) ELSE put

TtyPrint(text) == FoldLeft(PutChar, Reset, text)
CallPrint == Return("print", TtyPrint(arg))

(* A text printed on an empty screen.                                       *)
PrintInit == ret = <<>> /\ fn = "print" /\ arg \in Seq(STRING)
PrintSpec == PrintInit /\ [][CallPrint]_callVars

-----------------------------------------------------------------------------
(* The lines of a text, each of Width characters at most, as a writer means *)
(* them: a line ends at a newline and where it is full.                     *)
Written(ls, c) ==
  LET n == Len(ls.lines)
      write == [ls.lines EXCEPT ![n] = [@ EXCEPT ![ls.col] = c]]
  IN IF c = "\r" THEN [ls EXCEPT !.col = 0]
     ELSE IF c = "\n" THEN [lines |-> Append(ls.lines, Blank), col |-> 0]
     ELSE IF ls.col + 1 = Width THEN [lines |-> Append(write, Blank), col |-> 0]
     ELSE [lines |-> write, col |-> ls.col + 1]
NoLines == [lines |-> <<Blank>>, col |-> 0]
Lines(text) == FoldLeft(Written, NoLines, text)

(* The screen is the last Height lines of the text, the rest blank, and the *)
(* cursor is where the next character belongs (tty.c:42): nothing is lost   *)
(* or moved when it wraps and scrolls at once.                              *)
ShowsLastLines ==
  Returned("print") =>
    LET ls == Lines(arg)
        n == Len(ls.lines)
        top == IF n > Height THEN n - Height ELSE 0
    IN /\ Result.col = ls.col /\ Result.row = n - top - 1
       /\ \A r \in Row : Result.cells[r] = IF top + r + 1 <= n THEN ls.lines[top + r + 1] ELSE Blank
=============================================================================
