--------------------------- MODULE LibraryProofs ---------------------------
(* The screen shows the end of what was printed, for every size and text;   *)
(* the calendar is right for every date of its range but those it names; no *)
(* collection, growth or reuse of a place makes two strings of one content. *)
EXTENDS Screen, Calendar, LuaString, SequenceTheorems, FiniteSetTheorems, WellFoundedInduction, TLAPS

-----------------------------------------------------------------------------
(* Induction up to a bound, and what a fold over a sequence computes.        *)
Less == OpToRel(<, Nat)

LEMMA Induct ==
  ASSUME NEW n \in Nat, NEW S, 0 \in S, \A i \in 0 .. n - 1 : i \in S => i + 1 \in S
  PROVE  0 .. n \subseteq S
<1> DEFINE T == {k \in Nat : k <= n /\ k \notin S}
<1> SUFFICES ASSUME T # {} PROVE FALSE
  OBVIOUS
<1>1. IsWellFoundedOn(Less, Nat) /\ T \subseteq Nat
  BY NatLessThanWellFounded DEF Less
<1> HIDE DEF T
<1>2. PICK k \in T : \A j \in T : ~(<<j, k>> \in Less)
  BY <1>1, WFMin, Zenon
<1> USE DEF T
<1>3. k \in Nat /\ k <= n /\ k # 0 /\ k \notin S
  BY <1>2
<1>4. k - 1 \in 0 .. n - 1 /\ (k - 1) + 1 = k
  BY <1>3
<1>5. k - 1 \in T
  BY <1>3, <1>4
<1>6. <<k - 1, k>> \in Less
  BY <1>3, <1>4 DEF Less, OpToRel
<1> QED
  BY <1>2, <1>5, <1>6

LEMMA MaxIs ==
  ASSUME NEW S \in SUBSET Int, NEW x \in S, \A y \in S : x >= y
  PROVE  Max(S) = x
<1>1. \E z \in S : \A y \in S : z >= y
  OBVIOUS
<1>2. Max(S) \in S /\ \A y \in S : Max(S) >= y
  BY <1>1, Zenon DEF Max
<1>3. Max(S) \in Int /\ x \in Int /\ Max(S) >= x /\ x >= Max(S)
  BY <1>2
<1> QED
  BY <1>3

(* The recursive function that MapThenFoldSet defines exists.                *)
LEMMA FoldExists ==
  ASSUME NEW n \in Nat, NEW V, NEW a \in V, NEW F \in [(1 .. n) \X V -> V]
  PROVE  \E it \in [SUBSET (1 .. n) -> V] :
           \A s \in SUBSET (1 .. n) :
             /\ it[s] = IF s = {} THEN a ELSE F[<<Max(s), it[s \ {Max(s)}]>>]
             /\ s # {} => Max(s) \in s
<1> DEFINE Folds(k, it) ==
             \A s \in SUBSET (1 .. k) :
               /\ it[s] = IF s = {} THEN a ELSE F[<<Max(s), it[s \ {Max(s)}]>>]
               /\ s # {} => Max(s) \in s
           S == {k \in 0 .. n : \E it \in [SUBSET (1 .. k) -> V] : Folds(k, it)}
<1>1. 0 \in S
  <2> DEFINE w == [s \in SUBSET (1 .. 0) |-> a]
  <2>1. SUBSET (1 .. 0) = {{}}
    OBVIOUS
  <2>2. w \in [SUBSET (1 .. 0) -> V] /\ Folds(0, w)
    BY <2>1
  <2>3. 0 \in 0 .. n
    OBVIOUS
  <2> HIDE DEF w, Folds
  <2> QED
    BY <2>2, <2>3
<1>2. ASSUME NEW k \in 0 .. n - 1, k \in S PROVE k + 1 \in S
  <2>1. PICK it \in [SUBSET (1 .. k) -> V] : Folds(k, it)
    BY <1>2
  <2> DEFINE w == [s \in SUBSET (1 .. k + 1) |->
                     IF k + 1 \in s THEN F[<<k + 1, it[s \ {k + 1}]>>] ELSE it[s]]
  <2>2. ASSUME NEW s \in SUBSET (1 .. k + 1), k + 1 \in s
        PROVE  /\ s \ {k + 1} \in SUBSET (1 .. k) /\ w[s] \in V
               /\ w[s] = F[<<Max(s), w[s \ {Max(s)}]>>] /\ Max(s) \in s
    <3>1. s \ {k + 1} \in SUBSET (1 .. k) /\ s \ {k + 1} \in SUBSET (1 .. k + 1)
      BY <2>2
    <3>2. Max(s) = k + 1
      BY <2>2, MaxIs
    <3>3. w[s \ {k + 1}] = it[s \ {k + 1}] /\ w[s] = F[<<k + 1, it[s \ {k + 1}]>>]
      BY <2>2, <3>1
    <3>4. it[s \ {k + 1}] \in V /\ k + 1 \in 1 .. n
      BY <3>1
    <3> QED
      BY <2>2, <3>1, <3>2, <3>3, <3>4
  <2>3. ASSUME NEW s \in SUBSET (1 .. k + 1), k + 1 \notin s
        PROVE  /\ w[s] \in V
               /\ w[s] = IF s = {} THEN a ELSE F[<<Max(s), w[s \ {Max(s)}]>>]
               /\ s # {} => Max(s) \in s
    <3>1. s \in SUBSET (1 .. k) /\ s \ {Max(s)} \in SUBSET (1 .. k) /\ s \ {Max(s)} \in SUBSET (1 .. k + 1)
      <4>1. \A x \in s : x \in 1 .. k
        BY <2>3
      <4> QED
        BY <4>1
    <3>2. w[s] = it[s] /\ w[s \ {Max(s)}] = it[s \ {Max(s)}]
      BY <2>3, <3>1
    <3>3. /\ it[s] = IF s = {} THEN a ELSE F[<<Max(s), it[s \ {Max(s)}]>>]
          /\ s # {} => Max(s) \in s
      BY <2>1, <3>1
    <3> QED
      BY <3>1, <3>2, <3>3
  <2>4. w \in [SUBSET (1 .. k + 1) -> V]
    <3>1. \A s \in SUBSET (1 .. k + 1) : w[s] \in V
      BY <2>2, <2>3
    <3> QED
      BY <3>1
  <2> HIDE DEF w
  <2>5. \A s \in SUBSET (1 .. k + 1) :
          /\ w[s] = IF s = {} THEN a ELSE F[<<Max(s), w[s \ {Max(s)}]>>]
          /\ s # {} => Max(s) \in s
    BY <2>2, <2>3
  <2>6. k + 1 \in 0 .. n /\ Folds(k + 1, w)
    BY <2>5
  <2> HIDE DEF Folds
  <2> QED
    BY <2>4, <2>6
<1> HIDE DEF S
<1>3. n \in 0 .. n /\ 0 .. n \subseteq S
  BY <1>1, <1>2, Induct
<1> USE DEF S
<1> QED
  BY <1>3

(* What the initial intervals fold to, one element after the other.          *)
LEMMA Interval ==
  ASSUME NEW k \in Nat, k > 0
  PROVE  Max(1 .. k) = k /\ (1 .. k) \ {k} = 1 .. k - 1 /\ 1 .. k # {}
<1>1. k \in 1 .. k /\ \A y \in 1 .. k : k >= y
  OBVIOUS
<1>2. 1 .. k \in SUBSET Int
  OBVIOUS
<1>3. Max(1 .. k) = k
  BY <1>1, <1>2, MaxIs
<1>4. \A x : x \in (1 .. k) \ {k} <=> x \in 1 .. k - 1
  OBVIOUS
<1> QED
  BY <1>1, <1>3, <1>4

(* A function that is defined from the value before exists.                  *)
Follows(d, n, a, F) == d[0] = a /\ \A k \in 1 .. n : d[k] = F[<<k, d[k - 1]>>]

LEMMA RecursionExists ==
  ASSUME NEW n \in Nat, NEW V, NEW a \in V, NEW F \in [(1 .. n) \X V -> V]
  PROVE  \E d \in [0 .. n -> V] : Follows(d, n, a, F)
<1>1. PICK it \in [SUBSET (1 .. n) -> V] :
        \A s \in SUBSET (1 .. n) :
          /\ it[s] = IF s = {} THEN a ELSE F[<<Max(s), it[s \ {Max(s)}]>>]
          /\ s # {} => Max(s) \in s
  BY FoldExists
<1> DEFINE d == [k \in 0 .. n |-> it[1 .. k]]
<1>2. \A k \in 0 .. n : 1 .. k \in SUBSET (1 .. n) /\ d[k] = it[1 .. k]
  OBVIOUS
<1>3. d \in [0 .. n -> V]
  BY <1>2
<1>4. d[0] = a
  <2>1. 1 .. 0 = {} /\ 0 \in 0 .. n
    OBVIOUS
  <2> QED
    BY <1>1, <1>2, <2>1
<1> HIDE DEF d
<1>5. ASSUME NEW k \in 1 .. n PROVE d[k] = F[<<k, d[k - 1]>>]
  <2>1. k \in 0 .. n /\ k - 1 \in 0 .. n /\ k \in Nat /\ k > 0
    OBVIOUS
  <2>2. Max(1 .. k) = k /\ (1 .. k) \ {k} = 1 .. k - 1 /\ 1 .. k # {}
    BY <2>1, Interval
  <2> QED
    BY <1>1, <1>2, <2>1, <2>2
<1>6. Follows(d, n, a, F)
  BY <1>4, <1>5 DEF Follows
<1> QED
  BY <1>3, <1>6

-----------------------------------------------------------------------------
(* The screen.                                                               *)
Letter == STRING \cup {" "}
Line == [Col -> Letter]
ScreenState == [row : Row, col : Col, cells : [Row -> Line]]
Text == [lines : Seq(Line), col : Col]
Page == {ls \in Text : Len(ls.lines) > 0}

LEMMA Shapes ==
  0 \in Row /\ 0 \in Col /\ Height - 1 \in Row /\ Blank \in Line /\ Reset \in ScreenState /\ NoLines \in Page
<1>1. 0 \in Row /\ 0 \in Col /\ Height - 1 \in Row
  BY ScreenAssumption DEF Row, Col
<1>2. Blank \in Line
  BY DEF Blank, Line, Letter
<1>3. [r \in Row |-> Blank] \in [Row -> Line] /\ <<Blank>> \in Seq(Line)
  BY <1>2
<1>4. NoLines \in Text /\ Len(NoLines.lines) > 0
  BY <1>1, <1>3 DEF NoLines, Text
<1>5. NoLines \in Page
  BY <1>4 DEF Page
<1> QED
  BY <1>1, <1>2, <1>3, <1>5 DEF Reset, ScreenState

LEMMA NextLineType ==
  ASSUME NEW s \in ScreenState PROVE NextLine(s) \in ScreenState
<1>1. Scrolled(s.cells) \in [Row -> Line]
  BY Shapes, ScreenAssumption DEF Scrolled, ScreenState, Row
<1>2. s.row + 1 < Height => s.row + 1 \in Row
  BY ScreenAssumption DEF ScreenState, Row
<1>3. s.row \in Nat /\ (s.row + 1 >= Height \/ s.row + 1 < Height)
  BY ScreenAssumption DEF ScreenState, Row
<1>4. s.row + 1 >= Height => NextLine(s) \in ScreenState
  BY <1>1, Shapes DEF NextLine, ScreenState
<1>5. s.row + 1 < Height => NextLine(s) \in ScreenState
  <2> HAVE s.row + 1 < Height
  <2>1. NextLine(s) = [s EXCEPT !.row = @ + 1, !.col = 0]
    BY <1>3, ScreenAssumption DEF NextLine
  <2> QED
    BY <1>2, <2>1, Shapes DEF ScreenState
<1> QED
  BY <1>3, <1>4, <1>5

LEMMA PutCharType ==
  ASSUME NEW s \in ScreenState, NEW c \in Letter PROVE PutChar(s, c) \in ScreenState
<1> DEFINE cells == [s.cells EXCEPT ![s.row] = [@ EXCEPT ![s.col] = c]]
           put == [row |-> s.row, col |-> s.col + 1, cells |-> cells]
<1>1. cells \in [Row -> Line]
  BY DEF ScreenState, Line
<1>2. [s EXCEPT !.cells[s.row][s.col] = c, !.col = @ + 1] = put
  <2> DEFINE e == [s EXCEPT !.cells[s.row][s.col] = c]
  <2>1. e = [row |-> s.row, col |-> s.col, cells |-> cells]
    BY DEF ScreenState
  <2> HIDE DEF e, cells
  <2>2. [e EXCEPT !.col = @ + 1] = put
    BY <2>1
  <2>3. [s EXCEPT !.cells[s.row][s.col] = c, !.col = @ + 1] = [e EXCEPT !.col = @ + 1]
    BY DEF e
  <2> QED
    BY <2>2, <2>3, Zenon
<1> HIDE DEF cells
<1>3. put.col < Width => put \in ScreenState
  BY <1>1, ScreenAssumption DEF ScreenState, Col
<1>4. ~(put.col < Width) => NextLine(put) \in ScreenState
  <2>1. [put EXCEPT !.col = 0] \in ScreenState
    BY <1>1, Shapes DEF ScreenState
  <2>2. NextLine(put) = NextLine([put EXCEPT !.col = 0])
    BY DEF NextLine
  <2> QED
    BY <2>1, <2>2, NextLineType
<1> HIDE DEF put
<1>5. put.col >= Width \/ put.col < Width
  BY ScreenAssumption DEF put, ScreenState, Col
<1>6. [s EXCEPT !.col = 0] \in ScreenState
  BY Shapes DEF ScreenState
<1> QED
  BY <1>2, <1>3, <1>4, <1>5, <1>6, NextLineType DEF PutChar

LEMMA WrittenType ==
  ASSUME NEW ls \in Text, Len(ls.lines) > 0, NEW c \in Letter
  PROVE  Written(ls, c) \in Text /\ Len(Written(ls, c).lines) > 0
<1> DEFINE n == Len(ls.lines)
           write == [ls.lines EXCEPT ![n] = [@ EXCEPT ![ls.col] = c]]
<1>1. n \in 1 .. Len(ls.lines) /\ ls.lines[n] \in Line
  BY DEF Text
<1>2. [ls.lines[n] EXCEPT ![ls.col] = c] \in Line
  BY <1>1 DEF Line, Text
<1>3. write \in Seq(Line) /\ Len(write) = n
  BY <1>1, <1>2 DEF Text
<1>4. Append(write, Blank) \in Seq(Line) /\ Len(Append(write, Blank)) = n + 1
  BY <1>3, Shapes
<1>5. Append(ls.lines, Blank) \in Seq(Line) /\ Len(Append(ls.lines, Blank)) = n + 1
  BY Shapes DEF Text
<1>6. ls.col + 1 # Width => ls.col + 1 \in Col
  BY ScreenAssumption DEF Text, Col
<1> HIDE DEF write
<1>7. CASE c = "\r"
  BY <1>7, Shapes DEF Written, Text
<1>8. CASE c = "\n"
  BY <1>1, <1>5, <1>8, Shapes DEF Written, Text
<1>9. CASE c # "\r" /\ c # "\n"
  <2>1. Written(ls, c) = IF ls.col + 1 = Width THEN [lines |-> Append(write, Blank), col |-> 0]
                         ELSE [lines |-> write, col |-> ls.col + 1]
    BY <1>9 DEF Written, write
  <2> QED
    BY <1>1, <1>3, <1>4, <1>6, <2>1, Shapes DEF Text
<1> QED
  BY <1>7, <1>8, <1>9

(* The cells are the last lines, and the row is the last line's.             *)
Top(lines) == IF Len(lines) > Height THEN Len(lines) - Height ELSE 0
ShowsEnd(row, cells, lines) ==
  /\ row = Len(lines) - Top(lines) - 1
  /\ \A r \in Row : cells[r] = IF Top(lines) + r + 1 <= Len(lines) THEN lines[Top(lines) + r + 1] ELSE Blank

LEMMA NextLineShows ==
  ASSUME NEW s \in ScreenState, NEW lines \in Seq(Line), Len(lines) > 0, ShowsEnd(s.row, s.cells, lines)
  PROVE  NextLine(s).col = 0 /\ ShowsEnd(NextLine(s).row, NextLine(s).cells, Append(lines, Blank))
<1> DEFINE n == Len(lines)
           more == Append(lines, Blank)
<1>1. /\ n \in Nat /\ n > 0 /\ Height \in Nat /\ Height > 0 /\ s.row \in Row
      /\ Len(more) = n + 1 /\ more[n + 1] = Blank /\ \A i \in 1 .. n : more[i] = lines[i]
  BY ScreenAssumption DEF ScreenState
<1> HIDE DEF more
<1>2. CASE n >= Height
  <2>1. Top(lines) = n - Height /\ Top(more) = n + 1 - Height
    BY <1>1, <1>2 DEF Top
  <2>2. s.row + 1 >= Height
    BY <1>1, <2>1 DEF ShowsEnd
  <2>3. NextLine(s) = [row |-> Height - 1, col |-> 0, cells |-> Scrolled(s.cells)]
    BY <2>2 DEF NextLine
  <2>4. ASSUME NEW r \in Row
        PROVE  Scrolled(s.cells)[r] = IF Top(more) + r + 1 <= n + 1 THEN more[Top(more) + r + 1] ELSE Blank
    <3>1. r \in Nat /\ r < Height
      BY <1>1 DEF Row
    <3>2. CASE r < Height - 1
      <4>1. r + 1 \in Row /\ Top(lines) + (r + 1) + 1 <= n /\ Top(lines) + (r + 1) + 1 = Top(more) + r + 1
            /\ Top(more) + r + 1 \in 1 .. n
        BY <1>1, <1>2, <2>1, <3>1, <3>2 DEF Row
      <4>2. Scrolled(s.cells)[r] = s.cells[r + 1]
        BY <3>2 DEF Scrolled
      <4>3. s.cells[r + 1] = lines[Top(more) + r + 1]
        BY <4>1 DEF ShowsEnd
      <4> QED
        BY <1>1, <4>1, <4>2, <4>3
    <3>3. CASE ~(r < Height - 1)
      <4>1. Top(more) + r + 1 = n + 1
        BY <1>1, <2>1, <3>1, <3>3
      <4> QED
        BY <1>1, <3>3, <4>1 DEF Scrolled
    <3> QED
      BY <3>2, <3>3
  <2>5. NextLine(s).row = Len(more) - Top(more) - 1
    BY <1>1, <2>1, <2>3
  <2>6. \A r \in Row : NextLine(s).cells[r] = IF Top(more) + r + 1 <= Len(more) THEN more[Top(more) + r + 1] ELSE Blank
    <3>1. NextLine(s).cells = Scrolled(s.cells)
      BY <2>3
    <3> QED
      BY <1>1, <2>4, <3>1
  <2>7. ShowsEnd(NextLine(s).row, NextLine(s).cells, more) /\ NextLine(s).col = 0
    BY <2>3, <2>5, <2>6 DEF ShowsEnd
  <2> QED
    BY <2>7 DEF more
<1>3. CASE n < Height
  <2>1. Top(lines) = 0 /\ Top(more) = 0
    BY <1>1, <1>3 DEF Top
  <2>2. s.row = n - 1 /\ ~(s.row + 1 >= Height)
    BY <1>1, <1>3, <2>1 DEF ShowsEnd
  <2>3. NextLine(s).row = n /\ NextLine(s).col = 0 /\ NextLine(s).cells = s.cells
    <3>1. NextLine(s) = [s EXCEPT !.row = @ + 1, !.col = 0]
      BY <2>2 DEF NextLine
    <3> QED
      BY <1>1, <2>2, <3>1 DEF ScreenState
  <2>4. ASSUME NEW r \in Row
        PROVE  s.cells[r] = IF r + 1 <= n + 1 THEN more[r + 1] ELSE Blank
    <3>1. r \in Nat /\ s.cells[r] = IF r + 1 <= n THEN lines[r + 1] ELSE Blank
      BY <1>1, <2>1 DEF ShowsEnd, Row
    <3> QED
      BY <1>1, <3>1
  <2>5. NextLine(s).row = Len(more) - Top(more) - 1
    BY <1>1, <2>1, <2>3
  <2>6. \A r \in Row : NextLine(s).cells[r] = IF Top(more) + r + 1 <= Len(more) THEN more[Top(more) + r + 1] ELSE Blank
    BY <1>1, <2>1, <2>3, <2>4 DEF Row
  <2>7. ShowsEnd(NextLine(s).row, NextLine(s).cells, more) /\ NextLine(s).col = 0
    BY <2>3, <2>5, <2>6 DEF ShowsEnd
  <2> QED
    BY <2>7 DEF more
<1> QED
  BY <1>1, <1>2, <1>3

(* A character changes the last line and the row that shows it.              *)
LEMMA CharacterShows ==
  ASSUME NEW row \in Row, NEW cells \in [Row -> Line], NEW lines \in Seq(Line), Len(lines) > 0,
         ShowsEnd(row, cells, lines), NEW k \in Col, NEW c \in Letter
  PROVE  LET n == Len(lines)
         IN ShowsEnd(row, [cells EXCEPT ![row] = [@ EXCEPT ![k] = c]], [lines EXCEPT ![n] = [@ EXCEPT ![k] = c]])
<1> DEFINE n == Len(lines)
           new == [lines EXCEPT ![n] = [@ EXCEPT ![k] = c]]
           shown == [cells EXCEPT ![row] = [@ EXCEPT ![k] = c]]
<1>1. /\ n \in Nat /\ n > 0 /\ Height \in Nat /\ Height > 0 /\ n \in DOMAIN lines
      /\ Len(new) = n /\ new[n] = [lines[n] EXCEPT ![k] = c]
      /\ \A i \in 1 .. n - 1 : new[i] = lines[i]
  BY ScreenAssumption
<1>2. /\ shown[row] = [cells[row] EXCEPT ![k] = c]
      /\ \A r \in Row : r # row => shown[r] = cells[r]
  OBVIOUS
<1> HIDE DEF new, shown
<1>3. Top(new) = Top(lines) /\ Top(lines) \in Nat /\ row + Top(lines) + 1 = n
  BY <1>1 DEF Top, ShowsEnd, Row
<1>4. cells[row] = lines[n]
  BY <1>1, <1>3 DEF ShowsEnd, Row
<1>5. ASSUME NEW r \in Row
      PROVE  shown[r] = IF Top(lines) + r + 1 <= n THEN new[Top(lines) + r + 1] ELSE Blank
  <2>1. r \in Nat /\ cells[r] = IF Top(lines) + r + 1 <= n THEN lines[Top(lines) + r + 1] ELSE Blank
    BY DEF ShowsEnd, Row
  <2>2. CASE r = row
    BY <1>1, <1>2, <1>3, <1>4, <2>2 DEF Row
  <2>3. CASE r # row
    <3>1. Top(lines) + r + 1 # n
      BY <1>3, <2>1, <2>3 DEF Row
    <3>2. Top(lines) + r + 1 <= n => Top(lines) + r + 1 \in 1 .. n - 1
      BY <1>1, <1>3, <2>1, <3>1
    <3> QED
      BY <1>1, <1>2, <2>1, <2>3, <3>2
  <2> QED
    BY <2>2, <2>3
<1>6. row = n - Top(new) - 1
  BY <1>1, <1>3 DEF Row
<1>7. ShowsEnd(row, shown, new)
  BY <1>1, <1>3, <1>5, <1>6 DEF ShowsEnd
<1> QED
  BY <1>7 DEF new, shown

Shows(s, ls) == s.col = ls.col /\ ShowsEnd(s.row, s.cells, ls.lines)

LEMMA PutCharShows ==
  ASSUME NEW s \in ScreenState, NEW ls \in Text, Len(ls.lines) > 0, NEW c \in Letter, Shows(s, ls)
  PROVE  Shows(PutChar(s, c), Written(ls, c))
<1>1. CASE c = "\r"
  BY <1>1 DEF PutChar, Written, Shows, ScreenState, Text
<1>2. CASE c = "\n"
  <2>1. PutChar(s, c) = NextLine(s) /\ Written(ls, c) = [lines |-> Append(ls.lines, Blank), col |-> 0]
    BY <1>2 DEF PutChar, Written
  <2> QED
    BY <2>1, NextLineShows DEF Shows, Text
<1>3. CASE c # "\r" /\ c # "\n"
  <2> DEFINE n == Len(ls.lines)
             cells == [s.cells EXCEPT ![s.row] = [@ EXCEPT ![s.col] = c]]
             put == [row |-> s.row, col |-> s.col + 1, cells |-> cells]
             write == [ls.lines EXCEPT ![n] = [@ EXCEPT ![ls.col] = c]]
  <2>1. [s EXCEPT !.cells[s.row][s.col] = c, !.col = @ + 1] = put
    <3> DEFINE e == [s EXCEPT !.cells[s.row][s.col] = c]
    <3>1. e = [row |-> s.row, col |-> s.col, cells |-> cells]
      BY DEF ScreenState
    <3> HIDE DEF e, cells
    <3>2. [e EXCEPT !.col = @ + 1] = put
      BY <3>1
    <3>3. [s EXCEPT !.cells[s.row][s.col] = c, !.col = @ + 1] = [e EXCEPT !.col = @ + 1]
      BY DEF e
    <3> QED
      BY <3>2, <3>3, Zenon
  <2>2. ShowsEnd(s.row, cells, write) /\ s.col = ls.col
    BY CharacterShows DEF Shows, ScreenState, Text
  <2>3. cells \in [Row -> Line] /\ write \in Seq(Line) /\ Len(write) > 0
    <3>1. cells \in [Row -> Line]
      BY DEF ScreenState, Line
    <3>2. n \in 1 .. Len(ls.lines) /\ ls.lines[n] \in Line
      BY DEF Text
    <3>3. [ls.lines[n] EXCEPT ![ls.col] = c] \in Line
      BY <3>2 DEF Line, Text
    <3> QED
      BY <3>1, <3>2, <3>3 DEF Text
  <2> HIDE DEF cells, write
  <2>4. PutChar(s, c) = IF put.col >= Width THEN NextLine(put) ELSE put
    BY <1>3, <2>1 DEF PutChar
  <2>5. Written(ls, c) = IF ls.col + 1 = Width THEN [lines |-> Append(write, Blank), col |-> 0]
                         ELSE [lines |-> write, col |-> ls.col + 1]
    BY <1>3 DEF Written, write
  <2>6. s.col + 1 >= Width <=> ls.col + 1 = Width
    BY <2>2, ScreenAssumption DEF ScreenState, Col
  <2>7. CASE ls.col + 1 = Width
    <3> DEFINE at0 == [put EXCEPT !.col = 0]
    <3>0. at0.row = s.row /\ at0.cells = cells /\ put.col = s.col + 1
      OBVIOUS
    <3>1. at0 \in ScreenState
      BY <2>3, Shapes DEF ScreenState
    <3>2. NextLine(put) = NextLine(at0)
      BY DEF NextLine
    <3> HIDE DEF at0, put
    <3>3. NextLine(at0).col = 0 /\ ShowsEnd(NextLine(at0).row, NextLine(at0).cells, Append(write, Blank))
      BY <2>2, <2>3, <3>0, <3>1, NextLineShows
    <3>4. PutChar(s, c) = NextLine(at0)
      BY <2>4, <2>6, <2>7, <3>0, <3>2
    <3>5. Written(ls, c) = [lines |-> Append(write, Blank), col |-> 0]
      BY <2>5, <2>7
    <3> QED
      BY <3>3, <3>4, <3>5 DEF Shows
  <2>8. CASE ls.col + 1 # Width
    BY <2>2, <2>4, <2>5, <2>6, <2>8 DEF Shows
  <2> QED
    BY <2>7, <2>8
<1> QED
  BY <1>1, <1>2, <1>3

(* What TtyPrint and Lines compute, character by character.                  *)
LEMMA PrintFolds ==
  ASSUME NEW text \in Seq(Letter)
  PROVE  \E d : /\ d[0] = Reset /\ TtyPrint(text) = d[Len(text)]
                /\ \A k \in 1 .. Len(text) : d[k] = PutChar(d[k - 1], text[k])
<1> DEFINE n == Len(text)
           F == [p \in (1 .. n) \X ScreenState |-> PutChar(p[2], text[p[1]])]
           Eq(it) == it = [s \in SUBSET DOMAIN text |->
                             IF s = {} THEN Reset ELSE PutChar(it[s \ {Max(s)}], text[Max(s)])]
           fold == CHOOSE it : Eq(it)
<1>1. \E it : Eq(it)
  <2>1. F \in [(1 .. n) \X ScreenState -> ScreenState]
    BY PutCharType
  <2>2. \A p \in (1 .. n) \X ScreenState : F[p] = PutChar(p[2], text[p[1]])
    OBVIOUS
  <2>3. n \in Nat /\ Reset \in ScreenState /\ DOMAIN text = 1 .. n
    BY Shapes
  <2> HIDE DEF F, n
  <2>4. PICK it \in [SUBSET (1 .. n) -> ScreenState] :
          \A s \in SUBSET (1 .. n) :
            /\ it[s] = IF s = {} THEN Reset ELSE F[<<Max(s), it[s \ {Max(s)}]>>]
            /\ s # {} => Max(s) \in s
    BY <2>1, <2>3, FoldExists
  <2>5. ASSUME NEW s \in SUBSET (1 .. n)
        PROVE  it[s] = IF s = {} THEN Reset ELSE PutChar(it[s \ {Max(s)}], text[Max(s)])
    <3>1. CASE s # {}
      <4>1. <<Max(s), it[s \ {Max(s)}]>> \in (1 .. n) \X ScreenState
        BY <2>4, <3>1
      <4> QED
        BY <2>2, <2>4, <3>1, <4>1
    <3> QED
      BY <2>4, <3>1
  <2>6. Eq(it)
    BY <2>3, <2>5
  <2> QED
    BY <2>6
<1>2. TtyPrint(text) = fold[DOMAIN text]
  BY DEF TtyPrint, FoldLeft, MapThenFoldSet
<1>3. Eq(fold)
  BY <1>1
<1> DEFINE d == [k \in 0 .. n |-> fold[1 .. k]]
<1>4. n \in Nat /\ DOMAIN text = 1 .. n /\ \A k \in 0 .. n : 1 .. k \in SUBSET DOMAIN text
  OBVIOUS
<1> HIDE DEF fold, n
<1>5. d[0] = Reset
  <2>1. 1 .. 0 = {} /\ 0 \in 0 .. n
    BY <1>4
  <2> QED
    BY <1>3, <1>4, <2>1
<1>6. ASSUME NEW k \in 1 .. n PROVE d[k] = PutChar(d[k - 1], text[k])
  <2>1. k \in 0 .. n /\ k - 1 \in 0 .. n
    BY <1>4
  <2>2. fold[1 .. k] = PutChar(fold[1 .. k - 1], text[k])
    <3>1. k \in Nat /\ k > 0
      BY <1>4
    <3>2. Max(1 .. k) = k /\ (1 .. k) \ {k} = 1 .. k - 1 /\ 1 .. k # {}
      BY <3>1, Interval
    <3>3. 1 .. k \in SUBSET DOMAIN text
      BY <1>4, <2>1
    <3> QED
      BY <1>3, <3>2, <3>3
  <2> QED
    BY <2>1, <2>2
<1>7. TtyPrint(text) = d[n]
  BY <1>2, <1>4
<1> HIDE DEF d
<1> QED
  BY <1>5, <1>6, <1>7 DEF n

LEMMA LinesFold ==
  ASSUME NEW text \in Seq(Letter)
  PROVE  \E d : /\ d[0] = NoLines /\ Lines(text) = d[Len(text)]
                /\ \A k \in 1 .. Len(text) : d[k] = Written(d[k - 1], text[k])
<1> DEFINE n == Len(text)
           F == [p \in (1 .. n) \X Page |-> Written(p[2], text[p[1]])]
           Eq(it) == it = [s \in SUBSET DOMAIN text |->
                             IF s = {} THEN NoLines ELSE Written(it[s \ {Max(s)}], text[Max(s)])]
           fold == CHOOSE it : Eq(it)
<1>1. \E it : Eq(it)
  <2>1. F \in [(1 .. n) \X Page -> Page]
    BY WrittenType DEF Page
  <2>2. \A p \in (1 .. n) \X Page : F[p] = Written(p[2], text[p[1]])
    OBVIOUS
  <2>3. n \in Nat /\ NoLines \in Page /\ DOMAIN text = 1 .. n
    BY Shapes
  <2> HIDE DEF F, n
  <2>4. PICK it \in [SUBSET (1 .. n) -> Page] :
          \A s \in SUBSET (1 .. n) :
            /\ it[s] = IF s = {} THEN NoLines ELSE F[<<Max(s), it[s \ {Max(s)}]>>]
            /\ s # {} => Max(s) \in s
    BY <2>1, <2>3, FoldExists
  <2>5. ASSUME NEW s \in SUBSET (1 .. n)
        PROVE  it[s] = IF s = {} THEN NoLines ELSE Written(it[s \ {Max(s)}], text[Max(s)])
    <3>1. CASE s # {}
      <4>1. <<Max(s), it[s \ {Max(s)}]>> \in (1 .. n) \X Page
        BY <2>4, <3>1
      <4> QED
        BY <2>2, <2>4, <3>1, <4>1
    <3> QED
      BY <2>4, <3>1
  <2>6. Eq(it)
    BY <2>3, <2>5
  <2> QED
    BY <2>6
<1>2. Lines(text) = fold[DOMAIN text]
  BY DEF Lines, FoldLeft, MapThenFoldSet
<1>3. Eq(fold)
  BY <1>1
<1> DEFINE d == [k \in 0 .. n |-> fold[1 .. k]]
<1>4. n \in Nat /\ DOMAIN text = 1 .. n /\ \A k \in 0 .. n : 1 .. k \in SUBSET DOMAIN text
  OBVIOUS
<1> HIDE DEF fold, n
<1>5. d[0] = NoLines
  <2>1. 1 .. 0 = {} /\ 0 \in 0 .. n
    BY <1>4
  <2> QED
    BY <1>3, <1>4, <2>1
<1>6. ASSUME NEW k \in 1 .. n PROVE d[k] = Written(d[k - 1], text[k])
  <2>1. k \in 0 .. n /\ k - 1 \in 0 .. n
    BY <1>4
  <2>2. fold[1 .. k] = Written(fold[1 .. k - 1], text[k])
    <3>1. k \in Nat /\ k > 0
      BY <1>4
    <3>2. Max(1 .. k) = k /\ (1 .. k) \ {k} = 1 .. k - 1 /\ 1 .. k # {}
      BY <3>1, Interval
    <3>3. 1 .. k \in SUBSET DOMAIN text
      BY <1>4, <2>1
    <3> QED
      BY <1>3, <3>2, <3>3
  <2> QED
    BY <2>1, <2>2
<1>7. Lines(text) = d[n]
  BY <1>2, <1>4
<1> HIDE DEF d
<1> QED
  BY <1>5, <1>6, <1>7 DEF n

(* After every character the screen shows the end of the lines so far.       *)
LEMMA PrintedShows ==
  ASSUME NEW text \in Seq(Letter)
  PROVE  Shows(TtyPrint(text), Lines(text)) /\ TtyPrint(text) \in ScreenState /\ Lines(text) \in Page
<1> DEFINE n == Len(text)
<1>1. PICK d : /\ d[0] = Reset /\ TtyPrint(text) = d[n]
               /\ \A k \in 1 .. n : d[k] = PutChar(d[k - 1], text[k])
  BY PrintFolds
<1>2. PICK e : /\ e[0] = NoLines /\ Lines(text) = e[n]
               /\ \A k \in 1 .. n : e[k] = Written(e[k - 1], text[k])
  BY LinesFold
<1> DEFINE S == {k \in 0 .. n : d[k] \in ScreenState /\ e[k] \in Page /\ Shows(d[k], e[k])}
<1>3. n \in Nat /\ \A k \in 1 .. n : text[k] \in Letter
  OBVIOUS
<1> HIDE DEF n
<1>4. 0 \in S
  <2>1. Len(NoLines.lines) = 1 /\ NoLines.lines[1] = Blank /\ NoLines.col = 0
    BY DEF NoLines
  <2>2. Top(NoLines.lines) = 0
    BY <2>1, ScreenAssumption DEF Top
  <2>3. \A r \in Row : Reset.cells[r] = IF 0 + r + 1 <= 1 THEN NoLines.lines[0 + r + 1] ELSE Blank
    BY <2>1 DEF Row, Reset
  <2>4. Reset.row = 0 /\ Reset.col = 0
    BY DEF Reset
  <2>5. Shows(Reset, NoLines)
    BY <2>1, <2>2, <2>3, <2>4 DEF Shows, ShowsEnd
  <2> QED
    BY <1>1, <1>2, <1>3, <2>1, <2>5, Shapes DEF Page
<1>5. ASSUME NEW k \in 0 .. n - 1, k \in S PROVE k + 1 \in S
  <2>1. k + 1 \in 1 .. n /\ k + 1 \in 0 .. n /\ (k + 1) - 1 = k
    BY <1>3
  <2>2. d[k + 1] = PutChar(d[k], text[k + 1]) /\ e[k + 1] = Written(e[k], text[k + 1]) /\ text[k + 1] \in Letter
    BY <1>1, <1>2, <1>3, <2>1
  <2>3. d[k] \in ScreenState /\ e[k] \in Text /\ Len(e[k].lines) > 0 /\ Shows(d[k], e[k])
    BY <1>5 DEF Page
  <2>4. PutChar(d[k], text[k + 1]) \in ScreenState
    BY <2>2, <2>3, PutCharType
  <2>5. Written(e[k], text[k + 1]) \in Page
    BY <2>2, <2>3, WrittenType DEF Page
  <2>6. Shows(PutChar(d[k], text[k + 1]), Written(e[k], text[k + 1]))
    BY <2>2, <2>3, PutCharShows
  <2> QED
    BY <2>1, <2>2, <2>4, <2>5, <2>6
<1> HIDE DEF S
<1>6. n \in 0 .. n /\ 0 .. n \subseteq S
  BY <1>3, <1>4, <1>5, Induct
<1> USE DEF S
<1> QED
  BY <1>1, <1>2, <1>6

PrintInv ==
  /\ fn = "print" /\ arg \in Seq(STRING)
  /\ ret = <<>> \/ ret = <<TtyPrint(arg)>>

(* Whatever is printed, on a screen of any size, what wraps and scrolls is   *)
(* neither lost nor moved: the screen shows the text's last lines, and the   *)
(* cursor is where the next character belongs.                               *)
THEOREM ScreenShowsLastLines == PrintSpec => []ShowsLastLines
<1>1. PrintInit => PrintInv
  BY DEF PrintInit, PrintInv
<1>2. PrintInv /\ [CallPrint]_callVars => PrintInv'
  BY DEF PrintInv, CallPrint, Return, callVars
<1>3. PrintInv => ShowsLastLines
  <2> SUFFICES ASSUME PrintInv, ret # <<>>
               PROVE  ShowsLastLines
    BY DEF ShowsLastLines, Returned
  <2>1. arg \in Seq(Letter)
    <3>1. arg \in Seq(STRING) /\ STRING \subseteq Letter
      BY DEF PrintInv, Letter
    <3>2. PICK m \in Nat : arg \in [1 .. m -> STRING]
      BY <3>1, SeqDef
    <3>3. arg \in [1 .. m -> Letter]
      BY <3>1, <3>2
    <3> QED
      BY <3>3, SeqDef
  <2>2. Result = TtyPrint(arg)
    BY DEF PrintInv, Result
  <2>3. Shows(Result, Lines(arg)) /\ Lines(arg) \in Page
    BY <2>1, <2>2, PrintedShows
  <2> QED
    BY <2>3 DEF ShowsLastLines, Shows, ShowsEnd, Top
<1> QED
  BY <1>1, <1>2, <1>3, PTL DEF PrintSpec

-----------------------------------------------------------------------------
(* The calendar.  Leap days.                                                 *)
LEMMA LeapIn == \A y \in 1970 .. 2106 : Leap(y) <=> y % 4 = 0 /\ y # 2100
BY DEF Leap

LeapYears(y) == {z \in 1970 .. y - 1 : Leap(z)}

LEMMA IntervalFinite ==
  ASSUME NEW a \in Int, NEW b \in Int, NEW T \in SUBSET (a .. b)
  PROVE  IsFiniteSet(T)
<1>1. IsFiniteSet(a .. b)
  BY FS_Interval, Zenon
<1> QED
  BY <1>1, FS_Subset

LEMMA LeapsFinite ==
  ASSUME NEW y \in Int
  PROVE  IsFiniteSet(LeapYears(y)) /\ LeapsBefore(y) = Cardinality(LeapYears(y)) /\ LeapsBefore(y) \in Nat
<1>1. 1970 \in Int /\ y - 1 \in Int /\ LeapYears(y) \in SUBSET (1970 .. y - 1)
  BY DEF LeapYears
<1>2. IsFiniteSet(LeapYears(y))
  BY <1>1, IntervalFinite
<1>3. LeapsBefore(y) = Cardinality(LeapYears(y))
  BY Zenon DEF LeapsBefore, LeapYears
<1> QED
  BY <1>2, <1>3, FS_CardinalityType

LEMMA LeapsStep ==
  ASSUME NEW y \in Int, y >= 1970
  PROVE  LeapsBefore(y + 1) = LeapsBefore(y) + (IF Leap(y) THEN 1 ELSE 0)
<1>1. y \notin LeapYears(y) /\ IsFiniteSet(LeapYears(y)) /\ y + 1 \in Int
  <2>1. y \notin 1970 .. y - 1
    OBVIOUS
  <2>2. y \notin LeapYears(y)
    BY <2>1 DEF LeapYears
  <2> QED
    BY <2>2, LeapsFinite
<1>2. LeapYears(y + 1) = IF Leap(y) THEN LeapYears(y) \cup {y} ELSE LeapYears(y)
  <2>1. \A z : z \in 1970 .. (y + 1) - 1 <=> z \in 1970 .. y - 1 \/ z = y
    OBVIOUS
  <2> QED
    BY <2>1 DEF LeapYears
<1>3. Cardinality(LeapYears(y) \cup {y}) = Cardinality(LeapYears(y)) + 1
  BY <1>1, FS_AddElement
<1>4. LeapsBefore(y) \in Nat
  BY LeapsFinite
<1> QED
  BY <1>1, <1>2, <1>3, <1>4, LeapsFinite

LEMMA LeapsMore ==
  ASSUME NEW x \in Int, NEW y \in Int, x <= y
  PROVE  LeapsBefore(x) <= LeapsBefore(y)
<1>1. LeapYears(x) \subseteq LeapYears(y)
  BY DEF LeapYears
<1>2. Cardinality(LeapYears(x)) <= Cardinality(LeapYears(y))
  BY <1>1, LeapsFinite, FS_Subset
<1> QED
  BY <1>2, LeapsFinite

(* 1972 is the first, and 2100 is none.                                      *)
LEMMA Leaps ==
  ASSUME NEW y \in 1970 .. 2106
  PROVE  LeapsBefore(y) = (y - 1969) \div 4 - (IF y > 2100 THEN 1 ELSE 0)
<1> DEFINE S == {k \in 0 .. 136 : LeapsBefore(1970 + k) = (k + 1) \div 4 - (IF k > 130 THEN 1 ELSE 0)}
<1>1. 0 \in S
  <2>1. LeapYears(1970) = {}
    BY DEF LeapYears
  <2>2. LeapsBefore(1970) = 0
    BY <2>1, LeapsFinite, FS_EmptySet
  <2> QED
    BY <2>2
<1>2. ASSUME NEW k \in 0 .. 136 - 1, k \in S PROVE k + 1 \in S
  <2>1. LeapsBefore(1970 + (k + 1)) = LeapsBefore(1970 + k) + (IF Leap(1970 + k) THEN 1 ELSE 0)
    <3>1. 1970 + k \in Int /\ 1970 + k >= 1970 /\ (1970 + k) + 1 = 1970 + (k + 1)
      OBVIOUS
    <3> QED
      BY <3>1, LeapsStep
  <2>2. Leap(1970 + k) <=> (1970 + k) % 4 = 0 /\ 1970 + k # 2100
    BY LeapIn
  <2>3. (k + 2) \div 4 = (k + 1) \div 4 + (IF (1970 + k) % 4 = 0 THEN 1 ELSE 0)
    OBVIOUS
  <2> QED
    BY <1>2, <2>1, <2>2, <2>3
<1> HIDE DEF S
<1>3. 136 \in Nat
  OBVIOUS
<1>4. 0 .. 136 \subseteq S
  BY <1>1, <1>2, <1>3, Induct
<1>5. y - 1970 \in 0 .. 136 /\ 1970 + (y - 1970) = y
  OBVIOUS
<1> USE DEF S
<1>6. LeapsBefore(1970 + (y - 1970)) = ((y - 1970) + 1) \div 4 - (IF y - 1970 > 130 THEN 1 ELSE 0)
  BY <1>4, <1>5
<1> QED
  BY <1>5, <1>6

(* The days of the months before a month, one month after the other.         *)
LEMMA MonthSums ==
  ASSUME NEW table \in Seq(Int), NEW y \in Int
  PROVE  /\ \A mon \in Int : mon <= 1 => MonthsOf(table, y, mon) = 0
         /\ \A k \in 1 .. Len(table) :
              /\ MonthsOf(table, y, k) \in Int
              /\ MonthsOf(table, y, k + 1) = MonthsOf(table, y, k) + table[k] + (IF table[k] = 28 /\ Leap(y) THEN 1 ELSE 0)
         /\ MonthsOf(table, y, Len(table) + 1) \in Int
<1> DEFINE n == Len(table)
           add(k) == table[k] + (IF table[k] = 28 /\ Leap(y) THEN 1 ELSE 0)
           F == [p \in (1 .. n) \X Int |-> p[2] + table[p[1]] + (IF table[p[1]] = 28 /\ Leap(y) THEN 1 ELSE 0)]
           Eq(d) == d = [m \in 0 .. Len(table) |-> IF m = 0 THEN 0
                           ELSE d[m - 1] + table[m] + (IF table[m] = 28 /\ Leap(y) THEN 1 ELSE 0)]
           sum == CHOOSE d : Eq(d)
<1>1. n \in Nat /\ n = Len(table) /\ \A k \in 1 .. n : table[k] \in Int
  OBVIOUS
<1> HIDE DEF n
<1>2. \E d : Eq(d)
  <2>1. F \in [(1 .. n) \X Int -> Int]
    BY <1>1
  <2>2. \A p \in (1 .. n) \X Int : F[p] = p[2] + table[p[1]] + (IF table[p[1]] = 28 /\ Leap(y) THEN 1 ELSE 0)
    OBVIOUS
  <2>3. 0 \in Int
    OBVIOUS
  <2>4. PICK d \in [0 .. n -> Int] : Follows(d, n, 0, F)
    BY <1>1, <2>1, <2>3, RecursionExists
  <2>5. ASSUME NEW k \in 0 .. n
        PROVE  d[k] = IF k = 0 THEN 0 ELSE d[k - 1] + table[k] + (IF table[k] = 28 /\ Leap(y) THEN 1 ELSE 0)
    <3>1. CASE k # 0
      <4>1. k \in 1 .. n /\ k - 1 \in 0 .. n
        BY <1>1, <3>1
      <4>2. <<k, d[k - 1]>> \in (1 .. n) \X Int
        BY <4>1
      <4> QED
        BY <2>2, <2>4, <3>1, <4>1, <4>2 DEF Follows
    <3> QED
      BY <2>4, <3>1 DEF Follows
  <2>6. Eq(d)
    BY <1>1, <2>5
  <2> QED
    BY <2>6
<1>3. Eq(sum)
  BY <1>2
<1>4. \A mon : MonthsOf(table, y, mon) = IF mon <= 1 THEN 0 ELSE sum[mon - 1]
  BY DEF MonthsOf
<1> HIDE DEF sum
<1>5. sum[0] = 0 /\ (\A k \in 1 .. n : sum[k] = sum[k - 1] + add(k)) /\ \A k \in 0 .. n : sum[k] \in Int
  <2>1. 0 \in 0 .. n /\ \A k \in 1 .. n : k \in 0 .. n /\ k # 0
    BY <1>1
  <2>2. \A k \in 0 .. n : sum[k] = IF k = 0 THEN 0 ELSE sum[k - 1] + table[k] + (IF table[k] = 28 /\ Leap(y) THEN 1 ELSE 0)
    BY <1>1, <1>3
  <2>3. ASSUME NEW k \in 1 .. n, sum[k - 1] \in Int
        PROVE  sum[k] = sum[k - 1] + add(k) /\ sum[k] \in Int
    BY <1>1, <2>1, <2>2, <2>3
  <2> DEFINE S == {k \in 0 .. n : sum[k] \in Int}
  <2>4. 0 \in S
    BY <2>1, <2>2
  <2>5. ASSUME NEW k \in 0 .. n - 1, k \in S PROVE k + 1 \in S
    <3>1. k + 1 \in 1 .. n /\ (k + 1) - 1 = k /\ k + 1 \in 0 .. n
      BY <1>1
    <3> QED
      BY <2>3, <2>5, <3>1
  <2> HIDE DEF S
  <2>6. 0 .. n \subseteq S
    BY <1>1, <2>4, <2>5, Induct
  <2> USE DEF S
  <2>7. \A k \in 1 .. n : sum[k - 1] \in Int
    <3>1. \A k \in 1 .. n : k - 1 \in 0 .. n
      BY <1>1
    <3> QED
      BY <2>6, <3>1
  <2> QED
    BY <2>1, <2>2, <2>3, <2>6, <2>7
<1> HIDE DEF add
<1>6. \A mon \in Int : mon <= 1 => MonthsOf(table, y, mon) = 0
  BY <1>4
<1>7. ASSUME NEW k \in 0 .. n PROVE MonthsOf(table, y, k + 1) = sum[k]
  <2>1. (k + 1) - 1 = k /\ (k + 1 <= 1 <=> k = 0)
    BY <1>1
  <2> QED
    BY <1>4, <1>5, <2>1
<1>8. ASSUME NEW k \in 1 .. n
      PROVE  /\ MonthsOf(table, y, k) \in Int
             /\ MonthsOf(table, y, k + 1) = MonthsOf(table, y, k) + add(k)
  <2>1. k \in 0 .. n /\ k - 1 \in 0 .. n /\ (k - 1) + 1 = k
    BY <1>1
  <2>2. MonthsOf(table, y, k) = sum[k - 1] /\ MonthsOf(table, y, k + 1) = sum[k]
    BY <1>7, <2>1
  <2> QED
    BY <1>5, <2>1, <2>2
<1>9. MonthsOf(table, y, n + 1) \in Int
  <2>1. n \in 0 .. n
    BY <1>1
  <2> QED
    BY <1>5, <1>7, <2>1
<1> QED
  BY <1>1, <1>6, <1>8, <1>9 DEF add

(* The days of a year that is not leap before each month, and at its end.    *)
Passed == <<0, 31, 59, 90, 120, 151, 181, 212, 243, 273, 304, 334, 365>>

LEMMA DaysInMonth ==
  /\ days_in_month \in Seq(Int) /\ Len(days_in_month) = 12
  /\ days_in_month[1] = 31 /\ days_in_month[2] = 28 /\ days_in_month[3] = 31 /\ days_in_month[4] = 30
  /\ days_in_month[5] = 31 /\ days_in_month[6] = 30 /\ days_in_month[7] = 31 /\ days_in_month[8] = 31
  /\ days_in_month[9] = 30 /\ days_in_month[10] = 31 /\ days_in_month[11] = 30 /\ days_in_month[12] = 31
BY DEF days_in_month

LEMMA PassedIs ==
  /\ Passed[1] = 0 /\ Passed[2] = 31 /\ Passed[3] = 59 /\ Passed[4] = 90 /\ Passed[5] = 120 /\ Passed[6] = 151
  /\ Passed[7] = 181 /\ Passed[8] = 212 /\ Passed[9] = 243 /\ Passed[10] = 273 /\ Passed[11] = 304
  /\ Passed[12] = 334 /\ Passed[13] = 365
BY DEF Passed

LEMMA PassedStep ==
  \A m \in 1 .. 12 : /\ Passed[m] \in 0 .. 365 /\ Passed[m + 1] \in 0 .. 365
                     /\ Passed[m + 1] = Passed[m] + days_in_month[m] /\ days_in_month[m] \in 28 .. 31
                     /\ (days_in_month[m] = 28 <=> m = 2)
<1> SUFFICES ASSUME NEW m \in 1 .. 12
             PROVE  /\ Passed[m] \in 0 .. 365 /\ Passed[m + 1] \in 0 .. 365
                    /\ Passed[m + 1] = Passed[m] + days_in_month[m] /\ days_in_month[m] \in 28 .. 31
                    /\ (days_in_month[m] = 28 <=> m = 2)
  OBVIOUS
<1>0. m = 1 \/ m = 2 \/ m = 3 \/ m = 4 \/ m = 5 \/ m = 6 \/ m = 7 \/ m = 8 \/ m = 9 \/ m = 10 \/ m = 11 \/ m = 12
  OBVIOUS
<1>1. CASE m = 1
  BY <1>1, DaysInMonth, PassedIs
<1>2. CASE m = 2
  BY <1>2, DaysInMonth, PassedIs
<1>3. CASE m = 3
  BY <1>3, DaysInMonth, PassedIs
<1>4. CASE m = 4
  BY <1>4, DaysInMonth, PassedIs
<1>5. CASE m = 5
  BY <1>5, DaysInMonth, PassedIs
<1>6. CASE m = 6
  BY <1>6, DaysInMonth, PassedIs
<1>7. CASE m = 7
  BY <1>7, DaysInMonth, PassedIs
<1>8. CASE m = 8
  BY <1>8, DaysInMonth, PassedIs
<1>9. CASE m = 9
  BY <1>9, DaysInMonth, PassedIs
<1>10. CASE m = 10
  BY <1>10, DaysInMonth, PassedIs
<1>11. CASE m = 11
  BY <1>11, DaysInMonth, PassedIs
<1>12. CASE m = 12
  BY <1>12, DaysInMonth, PassedIs
<1> QED
  BY <1>0, <1>1, <1>2, <1>3, <1>4, <1>5, <1>6, <1>7, <1>8, <1>9, <1>10, <1>11, <1>12

LEMMA PassedInt ==
  ASSUME NEW m \in 1 .. 12
  PROVE  Passed[m] \in Int /\ Passed[m + 1] \in Int /\ days_in_month[m] \in Int
<1>1. Passed[m] \in 0 .. 365 /\ Passed[m + 1] \in 0 .. 365 /\ days_in_month[m] \in 28 .. 31
  BY PassedStep
<1> QED
  BY <1>1

LEMMA PassedGrows ==
  ASSUME NEW m \in 1 .. 13, NEW j \in 1 .. m
  PROVE  Passed[j] <= Passed[m]
<1> DEFINE S == {i \in 0 .. m - 1 : Passed[m - i] <= Passed[m] /\ Passed[m - i] \in Int}
<1>1. Passed[m] \in Int
  <2>1. CASE m = 13
    BY <2>1, PassedIs
  <2>2. CASE m # 13
    <3>1. m \in 1 .. 12
      BY <2>2
    <3> QED
      BY <3>1, PassedInt
  <2> QED
    BY <2>1, <2>2
<1>2. 0 \in S
  <2>1. m - 0 = m /\ 0 \in 0 .. m - 1
    OBVIOUS
  <2> QED
    BY <1>1, <2>1
<1>3. ASSUME NEW i \in 0 .. (m - 1) - 1, i \in S PROVE i + 1 \in S
  <2>1. PICK k \in 1 .. 12 : k = m - (i + 1)
    OBVIOUS
  <2>2. k + 1 = m - i /\ i + 1 \in 0 .. m - 1
    BY <2>1
  <2>3. Passed[k + 1] = Passed[k] + days_in_month[k] /\ days_in_month[k] \in 28 .. 31
    BY PassedStep
  <2>4. Passed[k] \in Int
    BY PassedInt
  <2>5. Passed[m - (i + 1)] <= Passed[m] /\ Passed[m - (i + 1)] \in Int
    BY <1>1, <1>3, <2>1, <2>2, <2>3, <2>4
  <2> QED
    BY <2>2, <2>5
<1> HIDE DEF S
<1>4. m - 1 \in Nat /\ m - j \in 0 .. m - 1 /\ m - (m - j) = j
  OBVIOUS
<1>5. m - j \in S
  BY <1>2, <1>3, <1>4, Induct
<1> QED
  BY <1>4, <1>5 DEF S

(* mktime's sum, of the table or of one that goes on after it.               *)
OfMonths(table) == table \in Seq(Int) /\ Len(table) >= 12 /\ \A k \in 1 .. 12 : table[k] = days_in_month[k]

LEMMA MonthsBeforeIs ==
  ASSUME NEW table, OfMonths(table),
         NEW y \in Int, NEW m \in 1 .. 13
  PROVE  MonthsOf(table, y, m) = Passed[m] + (IF m > 2 /\ Leap(y) THEN 1 ELSE 0)
<1> DEFINE S == {k \in 0 .. 12 : MonthsOf(table, y, k + 1) = Passed[k + 1] + (IF k + 1 > 2 /\ Leap(y) THEN 1 ELSE 0)}
<1>1. 0 \in S
  <2>1. 1 \in Int /\ 1 <= 1
    OBVIOUS
  <2>2. MonthsOf(table, y, 1) = 0
    <3>1. table \in Seq(Int)
      BY DEF OfMonths
    <3> QED
      BY <2>1, <3>1, MonthSums
  <2>3. 0 \in 0 .. 12 /\ 0 + 1 = 1 /\ Passed[1] = 0
    BY PassedIs
  <2> QED
    BY <2>2, <2>3
<1>2. ASSUME NEW k \in 0 .. 12 - 1, k \in S PROVE k + 1 \in S
  <2>1. k + 1 \in 1 .. Len(table) /\ k + 1 \in 1 .. 12 /\ k + 1 \in 0 .. 12
    <3>1. Len(table) \in Nat /\ Len(table) >= 12
      BY DEF OfMonths
    <3> QED
      BY <3>1
  <2>2. MonthsOf(table, y, (k + 1) + 1) =
          MonthsOf(table, y, k + 1) + table[k + 1] + (IF table[k + 1] = 28 /\ Leap(y) THEN 1 ELSE 0)
    BY <2>1, MonthSums DEF OfMonths
  <2>3. /\ Passed[k + 1] \in 0 .. 365 /\ Passed[(k + 1) + 1] = Passed[k + 1] + days_in_month[k + 1]
        /\ days_in_month[k + 1] \in 28 .. 31 /\ (days_in_month[k + 1] = 28 <=> k + 1 = 2)
    <3>1. PICK j \in 1 .. 12 : j = k + 1
      BY <2>1
    <3>2. /\ Passed[j] \in 0 .. 365 /\ Passed[j + 1] = Passed[j] + days_in_month[j]
          /\ days_in_month[j] \in 28 .. 31 /\ (days_in_month[j] = 28 <=> j = 2)
      BY PassedStep
    <3> QED
      BY <3>1, <3>2
  <2>4. table[k + 1] = days_in_month[k + 1]
    BY <2>1 DEF OfMonths
  <2>5. MonthsOf(table, y, k + 1) = Passed[k + 1] + (IF k + 1 > 2 /\ Leap(y) THEN 1 ELSE 0)
    BY <1>2
  <2>6. MonthsOf(table, y, (k + 1) + 1) = Passed[(k + 1) + 1] + (IF (k + 1) + 1 > 2 /\ Leap(y) THEN 1 ELSE 0)
    <3>1. CASE Leap(y)
      BY <2>2, <2>3, <2>4, <2>5, <3>1
    <3>2. CASE ~Leap(y)
      BY <2>2, <2>3, <2>4, <2>5, <3>2
    <3> QED
      BY <3>1, <3>2
  <2> QED
    BY <2>1, <2>6
<1> HIDE DEF S
<1>3. 12 \in Nat /\ m - 1 \in 0 .. 12 /\ (m - 1) + 1 = m
  OBVIOUS
<1>4. m - 1 \in S
  BY <1>1, <1>2, <1>3, Induct
<1> USE DEF S
<1> QED
  BY <1>3, <1>4

(* gmtime's loop.                                                            *)
LEMMA LoopExists ==
  ASSUME NEW leap \in BOOLEAN, NEW days \in Int
  PROVE  \E f : /\ MonthLoop(days, leap) = f[<<1, days>>]
                /\ \A m \in 1 .. 13, ld \in Int :
                     f[<<m, ld>>] = IF m = 13 \/ Stays(ld, m, leap) THEN <<m, ld>>
                                    ELSE f[<<m + 1, ld - DaysPassed(m, leap)>>]
<1> DEFINE V == [Int -> (1 .. 13) \X Int]
           a == [ld \in Int |-> <<13, ld>>]
           next(k, g) == [ld \in Int |-> IF Stays(ld, 13 - k, leap) THEN <<13 - k, ld>>
                                         ELSE g[ld - DaysPassed(13 - k, leap)]]
           F == [p \in (1 .. 12) \X V |-> next(p[1], p[2])]
           Eq(f) == f = [p \in (1 .. 13) \X Int |->
                           IF p[1] = 13 \/ Stays(p[2], p[1], leap) THEN p
                           ELSE f[<<p[1] + 1, p[2] - DaysPassed(p[1], leap)>>]]
           loop == CHOOSE f : Eq(f)
<1>1. \A m \in 1 .. 12, ld \in Int : ld - DaysPassed(m, leap) \in Int
  <2>1. \A m \in 1 .. 12 : days_in_month[m] \in Int
    BY PassedStep
  <2> QED
    BY <2>1 DEF DaysPassed
<1>2. a \in V
  OBVIOUS
<1>3. ASSUME NEW k \in 1 .. 12, NEW g \in V PROVE next(k, g) \in V
  <2>1. 13 - k \in 1 .. 12 /\ 13 - k \in 1 .. 13
    OBVIOUS
  <2>2. \A ld \in Int : ld - DaysPassed(13 - k, leap) \in Int
    BY <1>1, <2>1
  <2> QED
    BY <2>1, <2>2
<1>4. F \in [(1 .. 12) \X V -> V] /\ \A p \in (1 .. 12) \X V : F[p] = next(p[1], p[2])
  <2> HIDE DEF next, V
  <2> QED
    BY <1>3
<1> HIDE DEF F, V
<1>5. 12 \in Nat
  OBVIOUS
<1>6. PICK d \in [0 .. 12 -> V] : Follows(d, 12, a, F)
  BY <1>2, <1>4, <1>5, RecursionExists
<1> DEFINE w == [p \in (1 .. 13) \X Int |-> d[13 - p[1]][p[2]]]
<1>7. \A m \in 1 .. 13, ld \in Int : w[<<m, ld>>] = d[13 - m][ld]
  OBVIOUS
<1>8. ASSUME NEW m \in 1 .. 13, NEW ld \in Int
      PROVE  w[<<m, ld>>] = IF m = 13 \/ Stays(ld, m, leap) THEN <<m, ld>>
                            ELSE w[<<m + 1, ld - DaysPassed(m, leap)>>]
  <2>1. CASE m = 13
    <3>1. d[0] = a /\ 13 - 13 = 0
      BY <1>6 DEF Follows
    <3> QED
      BY <1>7, <2>1, <3>1
  <2>2. CASE m # 13
    <3>1. 13 - m \in 1 .. 12 /\ 13 - (13 - m) = m /\ (13 - m) - 1 = 13 - (m + 1) /\ m + 1 \in 1 .. 13
          /\ (13 - m) - 1 \in 0 .. 12 /\ m \in 1 .. 12
      BY <2>2
    <3>2. d[(13 - m) - 1] \in V
      BY <1>6, <3>1
    <3>3. d[13 - m] = next(13 - m, d[(13 - m) - 1])
      <4>1. <<13 - m, d[(13 - m) - 1]>> \in (1 .. 12) \X V
        BY <3>1, <3>2
      <4>2. d[13 - m] = F[<<13 - m, d[(13 - m) - 1]>>]
        BY <1>6, <3>1 DEF Follows
      <4> HIDE DEF next
      <4> QED
        BY <1>4, <4>1, <4>2
    <3>4. d[13 - m][ld] = IF Stays(ld, m, leap) THEN <<m, ld>> ELSE d[13 - (m + 1)][ld - DaysPassed(m, leap)]
      BY <3>1, <3>3
    <3>5. ld - DaysPassed(m, leap) \in Int
      BY <1>1, <3>1
    <3> HIDE DEF w
    <3> QED
      BY <1>7, <2>2, <3>1, <3>4, <3>5
  <2> QED
    BY <2>1, <2>2
<1>9. Eq(w)
  <2>1. \A p \in (1 .. 13) \X Int : p = <<p[1], p[2]>> /\ p[1] \in 1 .. 13 /\ p[2] \in Int
    OBVIOUS
  <2>2. ASSUME NEW p \in (1 .. 13) \X Int
        PROVE  d[13 - p[1]][p[2]] = IF p[1] = 13 \/ Stays(p[2], p[1], leap) THEN p
                                    ELSE w[<<p[1] + 1, p[2] - DaysPassed(p[1], leap)>>]
    <3> HIDE DEF w
    <3> QED
      BY <1>7, <1>8, <2>1
  <2> QED
    BY <2>2
<1>10. Eq(loop)
  <2> HIDE DEF w
  <2> QED
    BY <1>9
<1>11. MonthLoop(days, leap) = loop[<<1, days>>]
  BY DEF MonthLoop
<1>12. ASSUME NEW m \in 1 .. 13, NEW ld \in Int
       PROVE  loop[<<m, ld>>] = IF m = 13 \/ Stays(ld, m, leap) THEN <<m, ld>>
                                ELSE loop[<<m + 1, ld - DaysPassed(m, leap)>>]
  <2> HIDE DEF loop
  <2>1. <<m, ld>> \in (1 .. 13) \X Int
    OBVIOUS
  <2> QED
    BY <1>10, <2>1
<1> HIDE DEF loop
<1> QED
  BY <1>11, <1>12

(* It stops in the month in which the days run out, or one day before it.    *)
LEMMA LoopStops ==
  ASSUME NEW leap \in BOOLEAN, NEW days \in Int, NEW m \in 1 .. 12,
         days <= Passed[m] + days_in_month[m], m > 1 => days > Passed[m]
  PROVE  MonthLoop(days, leap) = <<m, days - Passed[m]>>
<1>1. PICK f : /\ MonthLoop(days, leap) = f[<<1, days>>]
               /\ \A k \in 1 .. 13, ld \in Int :
                    f[<<k, ld>>] = IF k = 13 \/ Stays(ld, k, leap) THEN <<k, ld>>
                                   ELSE f[<<k + 1, ld - DaysPassed(k, leap)>>]
  BY LoopExists
<1> DEFINE S == {k \in 0 .. m - 1 : f[<<1, days>>] = f[<<k + 1, days - Passed[k + 1]>>]}
<1>2. 0 \in S
  <2>1. 0 \in 0 .. m - 1 /\ 0 + 1 = 1 /\ days - Passed[1] = days
    BY PassedIs
  <2> QED
    BY <2>1
<1>3. ASSUME NEW k \in 0 .. (m - 1) - 1, k \in S PROVE k + 1 \in S
  <2>1. k + 1 \in 1 .. 12 /\ k + 1 < m /\ k + 1 \in 0 .. m - 1
    OBVIOUS
  <2>2. PICK j \in 1 .. 12 : j = k + 1
    BY <2>1
  <2>3. Passed[j] \in Int /\ Passed[j + 1] \in Int /\ days_in_month[j] \in Int /\ Passed[j + 1] = Passed[j] + days_in_month[j]
    BY PassedInt, PassedStep
  <2>4. days > Passed[j + 1]
    <3>1. j + 1 \in 1 .. m /\ m \in 1 .. 13 /\ m > 1
      BY <2>1, <2>2
    <3>2. Passed[j + 1] <= Passed[m] /\ days > Passed[m] /\ Passed[m] \in Int
      BY <3>1, PassedGrows, PassedInt
    <3> QED
      BY <2>3, <3>2
  <2>5. ~Stays(days - Passed[j], j, leap) /\ j # 13
    BY <2>3, <2>4 DEF Stays
  <2>6. f[<<j, days - Passed[j]>>] = f[<<j + 1, days - Passed[j + 1]>>]
    <3>1. days - Passed[j] \in Int /\ j \in 1 .. 13 /\ (days - Passed[j]) - DaysPassed(j, leap) = days - Passed[j + 1]
      BY <2>3 DEF DaysPassed
    <3> QED
      BY <1>1, <2>5, <3>1
  <2> QED
    BY <1>3, <2>1, <2>2, <2>6
<1> HIDE DEF S
<1>4. m - 1 \in Nat /\ m - 1 \in 0 .. m - 1 /\ (m - 1) + 1 = m
  OBVIOUS
<1>5. m - 1 \in S
  BY <1>2, <1>3, <1>4, Induct
<1>6. f[<<1, days>>] = f[<<m, days - Passed[m]>>]
  BY <1>4, <1>5 DEF S
<1>7. Passed[m] \in Int /\ days_in_month[m] \in Int
  BY PassedInt
<1>8. Stays(days - Passed[m], m, leap) /\ days - Passed[m] \in Int /\ m \in 1 .. 13
  BY <1>7 DEF Stays
<1> QED
  BY <1>1, <1>6, <1>8

(* The day of a year that a date is, from 0 on.                              *)
YearDay(y, m, d) == Passed[m] + (IF m > 2 /\ Leap(y) THEN 1 ELSE 0) + d - 1

LEMMA TableItself == OfMonths(days_in_month)
BY DaysInMonth DEF OfMonths

(* A day that a year, a month and a number name, within the month or not.   *)
Named(y, m, d) == y \in 1970 .. 2106 /\ m \in 1 .. 12 /\ d \in Int

LEMMA DaysSince ==
  ASSUME NEW y, NEW m, NEW d, Named(y, m, d)
  PROVE  /\ DaysSince1970(y, m, d) = 365 * (y - 1970) + LeapsBefore(y) + YearDay(y, m, d)
         /\ YearDay(y, m, d) \in Int /\ LeapsBefore(y) \in Nat
         /\ MonthsBefore(y, m) = YearDay(y, m, d) - d + 1
<1>0. y \in 1970 .. 2106 /\ m \in 1 .. 12 /\ d \in Int
  BY DEF Named
<1>1. MonthsBefore(y, m) = Passed[m] + (IF m > 2 /\ Leap(y) THEN 1 ELSE 0)
  <2>1. y \in Int /\ m \in 1 .. 13
    BY <1>0
  <2> QED
    BY <1>0, <2>1, TableItself, MonthsBeforeIs DEF MonthsBefore
<1>2. Passed[m] \in Int
  BY <1>0, PassedInt
<1>3. LeapsBefore(y) \in Nat
  <2>1. y \in Int
    BY <1>0
  <2> QED
    BY <2>1, LeapsFinite
<1> QED
  BY <1>0, <1>1, <1>2, <1>3 DEF DaysSince1970, YearDay

OfMonth(y, m, d) == 1 <= d /\ d <= MonthLength(y, m)
LastOfLeap(y, m, d) == Leap(y) /\ m = 12 /\ d = 31

LEMMA YearDayRange ==
  ASSUME NEW y \in Int, NEW m \in 1 .. 12, NEW d \in Int, OfMonth(y, m, d)
  PROVE  /\ YearDay(y, m, d) \in 0 .. 365
         /\ (YearDay(y, m, d) = 365 <=> LastOfLeap(y, m, d))
<1>1. /\ Passed[m] \in Int /\ days_in_month[m] \in Int /\ Passed[m] >= 0 /\ Passed[m] + days_in_month[m] <= 365
      /\ m # 12 => Passed[m] + days_in_month[m] <= 334
      /\ m = 12 => Passed[m] = 334 /\ days_in_month[m] = 31
  <2>1. /\ Passed[m] \in 0 .. 365 /\ Passed[m + 1] \in 0 .. 365
        /\ Passed[m + 1] = Passed[m] + days_in_month[m] /\ days_in_month[m] \in 28 .. 31
    BY PassedStep
  <2>2. m # 12 => Passed[m + 1] <= Passed[12]
    <3> HAVE m # 12
    <3>1. 12 \in 1 .. 13 /\ m + 1 \in 1 .. 12
      OBVIOUS
    <3> QED
      BY <3>1, PassedGrows
  <2>3. CASE m = 12
    BY <2>3, PassedIs, DaysInMonth
  <2>4. CASE m # 12
    <3>1. Passed[m + 1] <= 334
      BY <2>2, <2>4, PassedIs
    <3> QED
      BY <2>1, <2>4, <3>1
  <2> QED
    BY <2>3, <2>4
<1>2. MonthLength(y, m) = IF m = 2 /\ Leap(y) THEN 29 ELSE days_in_month[m]
  BY DEF MonthLength
<1>3. m = 2 => Passed[m] = 31 /\ days_in_month[m] = 28
  BY PassedIs, DaysInMonth
<1>4. PICK p, l, late, leap \in Int :
        /\ p = Passed[m] /\ l = days_in_month[m]
        /\ late = IF m > 2 /\ Leap(y) THEN 1 ELSE 0
        /\ leap = IF m = 2 /\ Leap(y) THEN 1 ELSE 0
  BY <1>1
<1>5. YearDay(y, m, d) = p + late + d - 1 /\ 1 <= d /\ d <= l + leap
  <2>1. 1 <= d /\ d <= MonthLength(y, m)
    BY DEF OfMonth
  <2>2. MonthLength(y, m) = l + leap
    BY <1>1, <1>2, <1>3, <1>4
  <2> QED
    BY <1>4, <2>1, <2>2 DEF YearDay
<1>6. YearDay(y, m, d) \in 0 .. 365
  <2>1. late \in 0 .. 1 /\ leap \in 0 .. 1 /\ (m # 2 => leap = 0) /\ (m = 2 => late = 0 /\ p = 31 /\ l = 28)
    BY <1>3, <1>4
  <2>2. p + l <= 365 /\ p >= 0
    BY <1>1, <1>4
  <2> QED
    BY <1>5, <2>1, <2>2
<1>7. CASE m = 12
  BY <1>1, <1>4, <1>5, <1>7 DEF LastOfLeap
<1>8. CASE m # 12
  <2>1. YearDay(y, m, d) <= 335
    BY <1>1, <1>3, <1>4, <1>5, <1>8
  <2> QED
    BY <1>6, <1>8, <2>1 DEF LastOfLeap
<1> QED
  BY <1>6, <1>7, <1>8

LEMMA Epoch == LEAPOCH = 11323 * Day /\ LEAPOCH \div Day = 11323
BY DEF LEAPOCH, Day

(* The days from 2001 to a year, less those of the year after it.            *)
Ahead(a) == 365 * a + a \div 4 - (IF a >= 100 THEN 1 ELSE 0)

LEMMA SinceLeapoch ==
  ASSUME NEW y \in 2001 .. 2106
  PROVE  365 * (y - 1970) + LeapsBefore(y) - 11323 = Ahead(y - 2001)
<1>1. LeapsBefore(y) = (y - 1969) \div 4 - (IF y > 2100 THEN 1 ELSE 0)
  <2>1. y \in 1970 .. 2106
    OBVIOUS
  <2> QED
    BY <2>1, Leaps
<1>2. (y - 1969) \div 4 = (y - 2001) \div 4 + 8
  OBVIOUS
<1>3. y > 2100 <=> y - 2001 >= 100
  OBVIOUS
<1> QED
  BY <1>1, <1>2, <1>3 DEF Ahead

LEMMA BeforeLeapoch ==
  ASSUME NEW y \in 1970 .. 2000
  PROVE  11323 - (365 * (y - 1970) + LeapsBefore(y)) = 365 * (2001 - y) + (2001 - y + 3) \div 4
<1>1. LeapsBefore(y) = (y - 1969) \div 4
  <2>1. y \in 1970 .. 2106 /\ ~(y > 2100)
    OBVIOUS
  <2> QED
    BY <2>1, Leaps
<1>2. (y - 1969) \div 4 = 8 - (2001 - y + 3) \div 4
  OBVIOUS
<1> QED
  BY <1>1, <1>2

(* The year and the day of it that gmtime's divisions make of a day.         *)
YearAt(ld) ==
  LET in400 == Rem(ld, DAYS_PER_400Y)
      in100 == Rem(in400, DAYS_PER_100Y)
      in4 == Rem(in100, DAYS_PER_4Y)
  IN 2001 + 400 * Quot(ld, DAYS_PER_400Y) + 100 * Quot(in400, DAYS_PER_100Y)
       + 4 * Quot(in100, DAYS_PER_4Y) + Quot(in4, 365)
DayAt(ld) == Rem(Rem(Rem(Rem(ld, DAYS_PER_400Y), DAYS_PER_100Y), DAYS_PER_4Y), 365)

Reached(a, yd) == a \in 0 .. 104 /\ yd \in 0 .. 365 /\ (yd = 365 => a % 4 = 3 /\ a # 99)

(* They are right but for the last day of a leap year.                       *)
LEMMA Spans ==
  ASSUME NEW a, NEW yd, Reached(a, yd)
  PROVE  /\ Ahead(a) + yd \in Nat
         /\ YearAt(Ahead(a) + yd) = 2001 + a + (IF yd = 365 THEN 1 ELSE 0)
         /\ DayAt(Ahead(a) + yd) = IF yd = 365 THEN 0 ELSE yd
<1> DEFINE ld == Ahead(a) + yd
           in400 == Rem(ld, DAYS_PER_400Y)
           in100 == Rem(in400, DAYS_PER_100Y)
           in4 == Rem(in100, DAYS_PER_4Y)
           c == IF a >= 100 THEN 1 ELSE 0
           b == a - 100 * c
           u == b \div 4
           v == b % 4
<1>0. a \in 0 .. 104 /\ yd \in 0 .. 365 /\ (yd = 365 => a % 4 = 3 /\ a # 99)
  BY DEF Reached
<1>1. c \in 0 .. 1 /\ b \in 0 .. 99 /\ a = 100 * c + b /\ (c = 1 => b <= 4)
  BY <1>0
<1>2. u \in 0 .. 24 /\ v \in 0 .. 3 /\ b = 4 * u + v
  BY <1>1
<1>3. a \div 4 = 25 * c + u /\ a % 4 = v
  BY <1>1, <1>2
<1>4. ld = 36524 * c + 1461 * u + 365 * v + yd
  BY <1>0, <1>1, <1>2, <1>3 DEF Ahead
<1>5. yd = 365 => v = 3 /\ ~(c = 0 /\ u = 24)
  BY <1>0, <1>1, <1>2, <1>3
<1> HIDE DEF ld, c, u, v, b
<1>6. ld \in Nat /\ ld < 146097 /\ Quot(ld, DAYS_PER_400Y) = 0 /\ in400 = ld
  BY <1>0, <1>1, <1>2, <1>4 DEF Quot, Rem, DAYS_PER_400Y, DAYS_PER_100Y, DAYS_PER_4Y
<1> HIDE DEF in400
<1>7. 1461 * u + 365 * v + yd \in Nat /\ 1461 * u + 365 * v + yd < 36524
  BY <1>0, <1>1, <1>2, <1>5
<1>8. Quot(in400, DAYS_PER_100Y) = c /\ in100 = 1461 * u + 365 * v + yd
  BY <1>0, <1>1, <1>2, <1>4, <1>6, <1>7 DEF Quot, Rem, DAYS_PER_400Y, DAYS_PER_100Y, DAYS_PER_4Y
<1> HIDE DEF in100
<1>9. 365 * v + yd \in Nat /\ 365 * v + yd < 1461
  BY <1>0, <1>2, <1>5
<1>10. Quot(in100, DAYS_PER_4Y) = u /\ in4 = 365 * v + yd
  BY <1>0, <1>2, <1>7, <1>8, <1>9 DEF Quot, Rem, DAYS_PER_400Y, DAYS_PER_100Y, DAYS_PER_4Y
<1> HIDE DEF in4
<1>11. Quot(in4, 365) = v + (IF yd = 365 THEN 1 ELSE 0) /\ Rem(in4, 365) = IF yd = 365 THEN 0 ELSE yd
  <2>1. CASE yd = 365
    <3>1. in4 = 1460
      BY <1>5, <1>10, <2>1
    <3> QED
      BY <1>5, <2>1, <3>1 DEF Quot, Rem
  <2>2. CASE yd < 365
    BY <1>0, <1>2, <1>10, <2>2 DEF Quot, Rem
  <2> QED
    BY <1>0, <2>1, <2>2
<1>12. 2001 + 400 * Quot(ld, DAYS_PER_400Y) + 100 * Quot(in400, DAYS_PER_100Y)
         + 4 * Quot(in100, DAYS_PER_4Y) + Quot(in4, 365) = 2001 + a + (IF yd = 365 THEN 1 ELSE 0)
  BY <1>0, <1>1, <1>2, <1>6, <1>8, <1>10, <1>11
<1> QED
  BY <1>6, <1>11, <1>12 DEF ld, in400, in100, in4, YearAt, DayAt

(* The time of day, of a moment in days and seconds.                         *)
Clock(h, i, s) == 3600 * h + 60 * i + s
Shown(tod, h, i, s) == h \in 0 .. 23 /\ i \in 0 .. 59 /\ s \in 0 .. 59 /\ tod = Clock(h, i, s)

LEMMA ClockShows ==
  ASSUME NEW tod \in 0 .. Day - 1
  PROVE  \E h, i, s \in Int : Shown(tod, h, i, s)
<1>1. tod \in Nat /\ tod <= 86399
  BY DEF Day
<1>2. PICK q \in Nat : q = tod \div 60
  BY <1>1
<1>3. PICK s \in 0 .. 59 : s = tod % 60
  BY <1>1
<1>4. tod = 60 * q + s /\ q <= 1439
  BY <1>1, <1>2, <1>3
<1>5. PICK h \in Nat : h = q \div 60
  BY <1>4
<1>6. PICK i \in 0 .. 59 : i = q % 60
  BY <1>4
<1>7. q = 60 * h + i /\ h \in 0 .. 23
  BY <1>4, <1>5, <1>6
<1>8. Shown(tod, h, i, s)
  BY <1>4, <1>7 DEF Clock, Shown
<1>9. h \in Int /\ i \in Int /\ s \in Int
  OBVIOUS
<1> QED
  BY <1>8, <1>9

Seconds(n, tod) == n * Day + tod
At(n, tod, t) == n \in Int /\ tod \in 0 .. Day - 1 /\ t = Seconds(n, tod)

LEMMA TimeOfDay ==
  ASSUME NEW n, NEW tod, NEW t, At(n, tod, t)
  PROVE  /\ t \div Day = n
         /\ Clock((t \div 3600) % 24, (t \div 60) % 60, t % 60) = tod
<1>0. n \in Int /\ tod \in 0 .. Day - 1 /\ t = n * Day + tod
  BY DEF At, Seconds
<1>1. PICK h, i, s \in Int : Shown(tod, h, i, s)
  BY <1>0, ClockShows
<1>2. h \in 0 .. 23 /\ i \in 0 .. 59 /\ s \in 0 .. 59 /\ tod = 3600 * h + 60 * i + s
  BY <1>1 DEF Shown, Clock
<1>3. n \in Int /\ t = 86400 * n + 3600 * h + 60 * i + s
  <2>1. n * Day = 86400 * n
    BY <1>0 DEF Day
  <2> QED
    BY <1>0, <1>2, <2>1
<1>4. t \div Day = n
  <2>1. t \div 86400 = n
    BY <1>2, <1>3
  <2> QED
    BY <2>1 DEF Day
<1>5. t % 60 = s
  BY <1>2, <1>3
<1>6. t \div 60 = 1440 * n + 60 * h + i
  BY <1>2, <1>3
<1>7. (1440 * n + 60 * h + i) % 60 = i
  BY <1>2, <1>3
<1>8. t \div 3600 = 24 * n + h
  BY <1>2, <1>3
<1>9. (24 * n + h) % 24 = h
  BY <1>2, <1>3
<1>10. Clock(h, i, s) = tod
  BY <1>1 DEF Shown
<1> QED
  BY <1>4, <1>5, <1>6, <1>7, <1>8, <1>9, <1>10

LEMMA GmtimeIs ==
  ASSUME NEW t, NEW ld, ld = t \div Day - LEAPOCH \div Day
  PROVE  LET r == Gmtime(t)
             md == MonthLoop(DayAt(ld), Leap(r.year))
         IN /\ r.sec = t % 60 /\ r.min = (t \div 60) % 60 /\ r.hour = (t \div 3600) % 24
            /\ r.wday = Rem(ld + 1, 7) /\ r.year = YearAt(ld) /\ r.mon = md[1] /\ r.mday = md[2] + 1
<1> DEFINE r == Gmtime(t)
<1>1. r.sec = t % 60 /\ r.min = (t \div 60) % 60 /\ r.hour = (t \div 3600) % 24
  BY SMT DEF Gmtime
<1>2. r.wday = Rem(ld + 1, 7)
  BY SMT DEF Gmtime
<1>3. r.year = YearAt(ld)
  BY SMT DEF Gmtime, YearAt
<1>4. r.mon = MonthLoop(DayAt(ld), Leap(YearAt(ld)))[1]
  BY SMT DEF Gmtime, YearAt, DayAt
<1>5. r.mday = MonthLoop(DayAt(ld), Leap(YearAt(ld)))[2] + 1
  BY SMT DEF Gmtime, YearAt, DayAt
<1> HIDE DEF r
<1> QED
  BY <1>1, <1>2, <1>3, <1>4, <1>5 DEF r

IsDate(y, m, d) == Named(y, m, d) /\ OfMonth(y, m, d)

LEMMA YearDayOf ==
  ASSUME NEW y, NEW m, NEW d, IsDate(y, m, d)
  PROVE  /\ YearDay(y, m, d) \in 0 .. 365
         /\ (YearDay(y, m, d) = 365 <=> LastOfLeap(y, m, d))
<1>1. y \in Int /\ m \in 1 .. 12 /\ d \in Int /\ OfMonth(y, m, d)
  BY DEF IsDate, Named
<1> QED
  BY <1>1, YearDayRange

LEMMA DateIs ==
  ASSUME NEW y, NEW m, NEW d, IsDate(y, m, d)
  PROVE  /\ DaysSince1970(y, m, d) = 365 * (y - 1970) + LeapsBefore(y) + YearDay(y, m, d)
         /\ YearDay(y, m, d) \in 0 .. 365
         /\ (YearDay(y, m, d) = 365 <=> LastOfLeap(y, m, d))
<1>1. Named(y, m, d)
  BY DEF IsDate
<1> QED
  BY <1>1, DaysSince, YearDayOf

Tells(r, tod) == r.hour \in Int /\ r.min \in Int /\ r.sec \in Int /\ Clock(r.hour, r.min, r.sec) = tod

(* What gmtime makes of a moment after 2000: the day of the year, run        *)
(* through the loop.                                                         *)
LEMMA GmtimeAfter ==
  ASSUME NEW y, NEW m, NEW d, IsDate(y, m, d), y \in 2001 .. 2105, NEW tod \in 0 .. Day - 1,
         NEW n, n = DaysSince1970(y, m, d), NEW t, t = Seconds(n, tod),
         NEW yd, yd = YearDay(y, m, d), NEW r, r = Gmtime(t)
  PROVE  LET md == MonthLoop(IF yd = 365 THEN 0 ELSE yd, Leap(r.year))
         IN /\ Tells(r, tod)
            /\ r.wday = (n + 4) % 7
            /\ r.year = y + (IF yd = 365 THEN 1 ELSE 0)
            /\ r.mon = md[1] /\ r.mday = md[2] + 1
<1> DEFINE a == y - 2001
           ld == Ahead(a) + yd
<1>1. yd \in 0 .. 365 /\ (yd = 365 <=> LastOfLeap(y, m, d)) /\ n = 365 * (y - 1970) + LeapsBefore(y) + yd
  BY DateIs
<1>2. n = 11323 + ld
  <2>1. y \in 2001 .. 2106 /\ y \in Int
    OBVIOUS
  <2>2. 365 * (y - 1970) + LeapsBefore(y) - 11323 = Ahead(y - 2001) /\ LeapsBefore(y) \in Nat
    BY <2>1, SinceLeapoch, LeapsFinite
  <2> QED
    BY <1>1, <2>1, <2>2
<1>3. a \in 0 .. 104 /\ (yd = 365 => a % 4 = 3 /\ a # 99)
  <2>1. y \in 1970 .. 2106
    OBVIOUS
  <2>2. yd = 365 => y % 4 = 0 /\ y # 2100
    BY <1>1, <2>1, LeapIn DEF LastOfLeap
  <2>3. y % 4 = 0 => a % 4 = 3
    OBVIOUS
  <2> QED
    BY <2>2, <2>3
<1> HIDE DEF a
<1>4. /\ ld \in Nat /\ YearAt(ld) = 2001 + a + (IF yd = 365 THEN 1 ELSE 0)
      /\ DayAt(ld) = IF yd = 365 THEN 0 ELSE yd
  <2>1. Reached(a, yd)
    BY <1>1, <1>3 DEF Reached
  <2> QED
    BY <2>1, Spans
<1> HIDE DEF ld
<1>5. n \in Int /\ t \in Int
  BY <1>2, <1>4, SMTT(30) DEF Seconds, Day
<1>6. t \div Day = n /\ Clock((t \div 3600) % 24, (t \div 60) % 60, t % 60) = tod
  <2>1. At(n, tod, t)
    BY <1>5 DEF At
  <2> QED
    BY <2>1, TimeOfDay
<1>7. ld = t \div Day - LEAPOCH \div Day
  BY <1>2, <1>4, <1>6, Epoch
<1>8. /\ r.sec = t % 60 /\ r.min = (t \div 60) % 60 /\ r.hour = (t \div 3600) % 24
      /\ r.wday = Rem(ld + 1, 7) /\ r.year = YearAt(ld)
      /\ r.mon = MonthLoop(DayAt(ld), Leap(r.year))[1] /\ r.mday = MonthLoop(DayAt(ld), Leap(r.year))[2] + 1
  BY <1>7, GmtimeIs
<1>9. Rem(ld + 1, 7) = (n + 4) % 7
  <2>1. Rem(ld + 1, 7) = (ld + 1) % 7
    BY <1>4 DEF Rem, Quot
  <2> QED
    BY <1>2, <1>4, <2>1
<1>10. 2001 + a = y
  BY DEF a
<1>11. Tells(r, tod)
  BY <1>5, <1>6, <1>8 DEF Tells
<1> QED
  BY <1>4, <1>8, <1>9, <1>10, <1>11

(* The three kinds of days that gmtime shows wrong: the first of a month is  *)
(* found in the month before, a leap year's days from March on a day late.   *)
LateIn(y, m) == Leap(y) /\ m > 2
AfterEnd(y, m, d) == d = 1 /\ m > 1 /\ ~LateIn(y, m)
Found(y, m, d) == IF AfterEnd(y, m, d) THEN m - 1 ELSE m

LEMMA LoopFinds ==
  ASSUME NEW y, NEW m, NEW d, IsDate(y, m, d), NEW k, k = Found(y, m, d)
  PROVE  /\ k \in 1 .. 12
         /\ MonthLoop(YearDay(y, m, d), Leap(y)) = <<k, YearDay(y, m, d) - Passed[k]>>
<1> DEFINE yd == YearDay(y, m, d)
           late == IF LateIn(y, m) THEN 1 ELSE 0
<1>1. y \in Int /\ m \in 1 .. 12 /\ d \in Int /\ 1 <= d /\ d <= MonthLength(y, m)
  BY DEF IsDate, Named, OfMonth
<1>2. Leap(y) \in BOOLEAN
  BY <1>1 DEF Leap
<1>3. Passed[m] \in Int /\ days_in_month[m] \in Int /\ yd = Passed[m] + late + d - 1
  BY <1>1, PassedInt DEF YearDay, LateIn
<1>4. d <= days_in_month[m] + (IF m = 2 /\ Leap(y) THEN 1 ELSE 0)
  <2>1. days_in_month[2] = 28
    BY DaysInMonth
  <2> QED
    BY <1>1, <1>3, <2>1 DEF MonthLength
<1>5. LateIn(y, m) => m > 2 /\ d <= days_in_month[m]
  BY <1>1, <1>3, <1>4 DEF LateIn
<1>6. yd \in Int /\ late \in 0 .. 1
  BY <1>1, <1>3
<1> HIDE DEF yd
<1>7. CASE AfterEnd(y, m, d)
  <2>1. PICK j \in 1 .. 12 : j + 1 = m
    BY <1>1, <1>7 DEF AfterEnd
  <2>2. k = j
    BY <1>7, <2>1 DEF Found
  <2>3. yd = Passed[j + 1]
    BY <1>1, <1>3, <1>7, <2>1 DEF AfterEnd
  <2>4. Passed[j] \in Int /\ Passed[j + 1] = Passed[j] + days_in_month[j] /\ days_in_month[j] \in 28 .. 31
    BY PassedStep, PassedInt
  <2>5. yd <= Passed[j] + days_in_month[j] /\ (j > 1 => yd > Passed[j])
    BY <2>3, <2>4
  <2>6. MonthLoop(yd, Leap(y)) = <<j, yd - Passed[j]>>
    BY <1>2, <1>6, <2>5, LoopStops
  <2> QED
    BY <2>2, <2>6 DEF yd
<1>8. CASE ~AfterEnd(y, m, d)
  <2>1. k = m
    BY <1>8 DEF Found
  <2>2. yd <= Passed[m] + days_in_month[m]
    <3>1. CASE LateIn(y, m)
      BY <1>1, <1>3, <1>5, <3>1
    <3>2. CASE ~LateIn(y, m)
      BY <1>1, <1>3, <1>4, <3>2
    <3> QED
      BY <3>1, <3>2
  <2>3. m > 1 => yd > Passed[m]
    <3>1. CASE LateIn(y, m)
      BY <1>1, <1>3, <3>1
    <3>2. CASE ~LateIn(y, m)
      BY <1>1, <1>3, <1>8, <3>2 DEF AfterEnd
    <3> QED
      BY <3>1, <3>2
  <2>4. MonthLoop(yd, Leap(y)) = <<m, yd - Passed[m]>>
    BY <1>1, <1>2, <1>6, <2>2, <2>3, LoopStops
  <2> QED
    BY <1>1, <2>1, <2>4 DEF yd
<1> QED
  BY <1>7, <1>8

(* The date that gmtime shows, and the day that it names.                    *)
LEMMA GmtimeShows ==
  ASSUME NEW y, NEW m, NEW d, IsDate(y, m, d), y \in 2001 .. 2105, NEW tod \in 0 .. Day - 1,
         NEW n, n = DaysSince1970(y, m, d), NEW t, t = Seconds(n, tod), NEW r, r = Gmtime(t)
  PROVE  /\ Tells(r, tod)
         /\ r.wday = (n + 4) % 7
         /\ (r.year = y /\ r.mon = m /\ r.mday = d <=> ~AfterEnd(y, m, d) /\ ~LateIn(y, m))
         /\ Named(r.year, r.mon, r.mday) /\ r.year > 2000
         /\ DaysSince1970(r.year, r.mon, r.mday) = n + (IF LateIn(y, m) THEN 1 ELSE 0)
<1> DEFINE yd == YearDay(y, m, d)
           k == Found(y, m, d)
           late == IF LateIn(y, m) THEN 1 ELSE 0
<1>1. y \in Int /\ m \in 1 .. 12 /\ d \in Int /\ 1 <= d
  BY DEF IsDate, Named, OfMonth
<1>2. yd \in 0 .. 365 /\ (yd = 365 <=> LastOfLeap(y, m, d)) /\ n = 365 * (y - 1970) + LeapsBefore(y) + yd
  BY DateIs
<1>3. /\ Tells(r, tod)
      /\ r.wday = (n + 4) % 7
      /\ r.year = y + (IF yd = 365 THEN 1 ELSE 0)
      /\ r.mon = MonthLoop(IF yd = 365 THEN 0 ELSE yd, Leap(r.year))[1]
      /\ r.mday = MonthLoop(IF yd = 365 THEN 0 ELSE yd, Leap(r.year))[2] + 1
  BY GmtimeAfter
<1>4. LeapsBefore(y) \in Nat /\ LeapsBefore(y + 1) = LeapsBefore(y) + (IF Leap(y) THEN 1 ELSE 0)
  <2>1. y >= 1970
    OBVIOUS
  <2> QED
    BY <1>1, <2>1, LeapsFinite, LeapsStep
<1>5. Passed[m] \in Int /\ yd = Passed[m] + late + d - 1 /\ late \in 0 .. 1
  BY <1>1, PassedInt DEF YearDay, LateIn
<1> HIDE DEF yd
<1>6. CASE yd = 365
  <2>1. Leap(y) /\ m = 12 /\ d = 31 /\ LateIn(y, m)
    BY <1>2, <1>6 DEF LastOfLeap, LateIn
  <2>2. MonthLoop(0, Leap(y + 1)) = <<1, 0>>
    <3>1. Leap(y + 1) \in BOOLEAN /\ 0 \in Int /\ 1 \in 1 .. 12
      BY DEF Leap
    <3>2. Passed[1] = 0 /\ days_in_month[1] = 31 /\ 0 - 0 = 0
      BY PassedIs, DaysInMonth
    <3>3. 0 <= Passed[1] + days_in_month[1] /\ (1 > 1 => 0 > Passed[1])
      BY <3>2
    <3>4. MonthLoop(0, Leap(y + 1)) = <<1, 0 - Passed[1]>>
      BY <3>1, <3>3, LoopStops
    <3> QED
      BY <3>2, <3>4
  <2>3. r.year = y + 1 /\ r.mon = 1 /\ r.mday = 1
    BY <1>3, <1>6, <2>2
  <2>4. Named(y + 1, 1, 1)
    BY DEF Named
  <2>5. DaysSince1970(y + 1, 1, 1) = 365 * ((y + 1) - 1970) + LeapsBefore(y + 1)
    <3>1. YearDay(y + 1, 1, 1) = 0
      BY PassedIs DEF YearDay
    <3> QED
      BY <1>1, <1>4, <2>4, <3>1, DaysSince
  <2>6. DaysSince1970(r.year, r.mon, r.mday) = n + 1
    BY <1>1, <1>2, <1>4, <1>6, <2>1, <2>3, <2>5
  <2>7. r.year # y
    BY <1>1, <2>3
  <2> QED
    BY <1>1, <1>3, <2>1, <2>3, <2>4, <2>6, <2>7
<1>7. CASE yd # 365
  <2>1. k \in 1 .. 12 /\ MonthLoop(yd, Leap(y)) = <<k, yd - Passed[k]>>
    BY LoopFinds DEF yd
  <2>2. r.year = y /\ r.mon = k /\ r.mday = (yd - Passed[k]) + 1
    BY <1>1, <1>3, <1>7, <2>1
  <2>3. Passed[k] \in Int
    BY <2>1, PassedInt
  <2>4. LateIn(y, k) <=> LateIn(y, m)
    BY <1>1 DEF Found, AfterEnd, LateIn
  <2> HIDE DEF k
  <2>5. Named(y, k, r.mday)
    BY <1>2, <2>1, <2>2, <2>3 DEF Named
  <2>6. DaysSince1970(y, k, r.mday) = n + late
    <3>1. YearDay(y, k, r.mday) = yd + late
      BY <1>2, <1>5, <2>2, <2>3, <2>4 DEF YearDay, LateIn
    <3> QED
      BY <1>1, <1>2, <1>4, <1>5, <2>5, <3>1, DaysSince
  <2>7. r.mon = m /\ r.mday = d <=> ~AfterEnd(y, m, d) /\ ~LateIn(y, m)
    <3>1. CASE AfterEnd(y, m, d)
      <4>1. k # m
        BY <1>1, <3>1 DEF k, Found
      <4> QED
        BY <2>2, <3>1, <4>1
    <3>2. CASE ~AfterEnd(y, m, d)
      <4>1. k = m
        BY <3>2 DEF k, Found
      <4>2. r.mday = d + late
        BY <1>1, <1>5, <2>2, <4>1
      <4> QED
        BY <1>1, <2>2, <3>2, <4>1, <4>2
    <3> QED
      BY <3>1, <3>2
  <2> QED
    BY <1>3, <2>2, <2>5, <2>6, <2>7
<1> QED
  BY <1>6, <1>7

(* mktime's days: a year's, from 2001 on, and before.                        *)
LEMMA YearsSince ==
  ASSUME NEW y \in 2001 .. 2106
  PROVE  Years(y) = Ahead(y - 2001)
<1> DEFINE a == y - 2001
           c == IF a >= 100 THEN 1 ELSE 0
           b == a - 100 * c
           u == b \div 4
           v == b % 4
<1>1. a \in 0 .. 105 /\ c \in 0 .. 1 /\ b \in 0 .. 99 /\ a = 100 * c + b
  OBVIOUS
<1>2. Years(y) = (a \div 400) * DAYS_PER_400Y + ((a % 400) \div 100) * DAYS_PER_100Y
                   + ((a % 100) \div 4) * DAYS_PER_4Y + (a % 4) * 365
  BY SMT DEF Years
<1> HIDE DEF a, c, b
<1>3. u \in 0 .. 24 /\ v \in 0 .. 3 /\ b = 4 * u + v
  BY <1>1
<1> HIDE DEF u, v
<1>4. a \div 400 = 0 /\ a % 400 = a /\ a \div 100 = c /\ a % 100 = b
  BY <1>1
<1>5. b \div 4 = u /\ a % 4 = v /\ a \div 4 = 25 * c + u
  BY <1>1, <1>3
<1>6. Years(y) = c * 36524 + u * 1461 + v * 365
  BY <1>1, <1>2, <1>3, <1>4, <1>5 DEF DAYS_PER_400Y, DAYS_PER_100Y, DAYS_PER_4Y
<1>7. Ahead(a) = 365 * a + (25 * c + u) - c
  BY <1>5 DEF Ahead, c
<1> QED
  BY <1>1, <1>3, <1>6, <1>7 DEF a

LEMMA YearsBefore ==
  ASSUME NEW y \in 1970 .. 2000
  PROVE  Years(y) = -(365 * (2001 - y) + (2001 - y) \div 4)
<1> DEFINE a == 2001 - y
           u == a \div 4
           v == a % 4
           dd == (a \div 400) * DAYS_PER_400Y + ((a % 400) \div 100) * DAYS_PER_100Y
                   + ((a % 100) \div 4) * DAYS_PER_4Y + (a % 4) * 365
<1>1. a \in 1 .. 31
  OBVIOUS
<1>2. Years(y) = -dd
  BY SMT DEF Years
<1> HIDE DEF a
<1>3. u \in 0 .. 7 /\ v \in 0 .. 3 /\ a = 4 * u + v
  BY <1>1
<1>4. a \div 400 = 0 /\ a % 400 = a /\ a \div 100 = 0 /\ a % 100 = a
  BY <1>1
<1> HIDE DEF u, v
<1>5. a \div 4 = u /\ a % 4 = v
  BY DEF u, v
<1>6. dd = u * 1461 + v * 365
  BY <1>1, <1>3, <1>4, <1>5 DEF DAYS_PER_400Y, DAYS_PER_100Y, DAYS_PER_4Y
<1> HIDE DEF dd
<1> QED
  BY <1>2, <1>3, <1>5, <1>6 DEF a

(* The days that mktime reads, and the day that the date names.              *)
EarlyLeap(y) == y <= 2000 /\ (2001 - y) % 4 # 0

LEMMA DaysRead ==
  ASSUME NEW y, NEW m, NEW d, Named(y, m, d)
  PROVE  /\ d - 1 + MonthsBefore(y, m) + Years(y) + 11323 = DaysSince1970(y, m, d) + (IF EarlyLeap(y) THEN 1 ELSE 0)
         /\ DaysSince1970(y, m, d) \in Int /\ MonthsBefore(y, m) \in Int /\ Years(y) \in Int
<1>1. y \in 1970 .. 2106 /\ m \in 1 .. 12 /\ d \in Int
  BY DEF Named
<1>2. /\ DaysSince1970(y, m, d) = 365 * (y - 1970) + LeapsBefore(y) + YearDay(y, m, d)
      /\ YearDay(y, m, d) \in Int /\ LeapsBefore(y) \in Nat
      /\ MonthsBefore(y, m) = YearDay(y, m, d) - d + 1
  BY DaysSince
<1>3. CASE y > 2000
  <2>1. y \in 2001 .. 2106
    BY <1>1, <1>3
  <2>2. Years(y) = Ahead(y - 2001) /\ 365 * (y - 1970) + LeapsBefore(y) - 11323 = Ahead(y - 2001)
    BY <2>1, YearsSince, SinceLeapoch
  <2>3. ~EarlyLeap(y)
    BY <2>1 DEF EarlyLeap
  <2> QED
    BY <1>1, <1>2, <2>1, <2>2, <2>3
<1>4. CASE y <= 2000
  <2>1. PICK a \in 1 .. 31 : a = 2001 - y
    BY <1>1, <1>4
  <2>2. y \in 1970 .. 2000
    BY <1>1, <1>4
  <2>3. Years(y) = -(365 * a + a \div 4)
    BY <2>1, <2>2, YearsBefore
  <2>4. 11323 - (365 * (y - 1970) + LeapsBefore(y)) = 365 * a + (a + 3) \div 4
    BY <2>1, <2>2, BeforeLeapoch
  <2>5. (a + 3) \div 4 = a \div 4 + (IF a % 4 # 0 THEN 1 ELSE 0) /\ a \div 4 \in Int
    OBVIOUS
  <2>6. EarlyLeap(y) <=> a % 4 # 0
    BY <2>1, <2>2 DEF EarlyLeap
  <2> QED
    BY <1>1, <1>2, <2>1, <2>3, <2>4, <2>5, <2>6
<1> QED
  BY <1>1, <1>3, <1>4

LEMMA MktimeIs ==
  ASSUME NEW tm, NEW tod \in 0 .. Day - 1, Tells(tm, tod), Named(tm.year, tm.mon, tm.mday)
  PROVE  Mktime(tm) = DaysSince1970(tm.year, tm.mon, tm.mday) * Day + tod + (IF EarlyLeap(tm.year) THEN Day ELSE 0)
<1> DEFINE n == DaysSince1970(tm.year, tm.mon, tm.mday)
           months == MonthsBefore(tm.year, tm.mon)
           years == Years(tm.year)
           early == IF EarlyLeap(tm.year) THEN 1 ELSE 0
<1>1. Mktime(tm) = tm.sec + tm.min * 60 + tm.hour * 3600 + (tm.mday - 1 + months + years) * Day + LEAPOCH
  BY SMT DEF Mktime, MktimeReading, MonthsBefore
<1>2. tm.mday - 1 + months + years + 11323 = n + early /\ n \in Int /\ months \in Int /\ years \in Int
  BY DaysRead
<1>3. tm.mday \in Int
  BY DEF Named
<1>4. tm.sec \in Int /\ tm.min \in Int /\ tm.hour \in Int /\ tod = 3600 * tm.hour + 60 * tm.min + tm.sec
  BY DEF Tells, Clock
<1> HIDE DEF n, months, years
<1>5. tm.mday - 1 + months + years = n + early - 11323
  BY <1>2, <1>3
<1>6. Mktime(tm) = tod + (n + early - 11323) * 86400 + 11323 * 86400
  <2>1. PICK x \in Int : x = n + early - 11323
    BY <1>2
  <2>2. Mktime(tm) = tod + x * Day + LEAPOCH
    BY <1>1, <1>4, <1>5, <2>1
  <2>3. x * Day = x * 86400 /\ LEAPOCH = 11323 * 86400
    BY <2>1, SMTT(30) DEF Day, LEAPOCH
  <2> QED
    BY <2>1, <2>2, <2>3
<1>7. Mktime(tm) = n * 86400 + tod + (IF EarlyLeap(tm.year) THEN 86400 ELSE 0)
  BY <1>2, <1>4, <1>6
<1> QED
  BY <1>7, SMTT(30) DEF n, Day

LEMMA QuotNegative ==
  ASSUME NEW e \in Nat
  PROVE  /\ Quot(-e, 1461) = -(e \div 1461) /\ Rem(-e, 1461) = -(e % 1461)
         /\ Quot(-e, 365) = -(e \div 365) /\ Rem(-e, 365) = -(e % 365)
<1>1. -(-e) = e /\ (-e >= 0 <=> e = 0)
  OBVIOUS
<1>2. e = 1461 * (e \div 1461) + (e % 1461) /\ e \div 1461 \in Nat /\ e % 1461 \in Nat
  OBVIOUS
<1>3. e = 365 * (e \div 365) + (e % 365) /\ e \div 365 \in Nat /\ e % 365 \in Nat
  OBVIOUS
<1>4. CASE e <= 0
  <2>1. e \div 1461 = 0 /\ e % 1461 = 0 /\ e \div 365 = 0 /\ e % 365 = 0
    BY <1>4
  <2>2. (-e) \div 1461 = -(e \div 1461) /\ (-e) \div 365 = -(e \div 365)
    BY <1>4
  <2>3. Quot(-e, 1461) = -(e \div 1461) /\ Quot(-e, 365) = -(e \div 365)
    BY <1>1, <1>4, <2>2 DEF Quot
  <2> QED
    BY <1>2, <1>3, <2>1, <2>3 DEF Rem
<1>5. CASE e > 0
  <2>1. Quot(-e, 1461) = -(e \div 1461)
    BY <1>1, <1>5 DEF Quot
  <2>2. Quot(-e, 365) = -(e \div 365)
    BY <1>1, <1>5 DEF Quot
  <2>3. Rem(-e, 1461) = -e - 1461 * (-(e \div 1461))
    BY <2>1 DEF Rem
  <2>4. Rem(-e, 365) = -e - 365 * (-(e \div 365))
    BY <2>2 DEF Rem
  <2>5. -e - 1461 * (-(e \div 1461)) = -(e % 1461)
    BY <1>2
  <2>6. -e - 365 * (-(e \div 365)) = -(e % 365)
    BY <1>3
  <2> QED
    BY <2>1, <2>2, <2>3, <2>4, <2>5, <2>6
<1> QED
  BY <1>4, <1>5

LEMMA QuotSmall ==
  ASSUME NEW e \in Nat, e <= 11323
  PROVE  /\ Quot(-e, 146097) = 0 /\ Rem(-e, 146097) = -e
         /\ Quot(-e, 36524) = 0 /\ Rem(-e, 36524) = -e
<1>1. e \div 146097 = 0 /\ e \div 36524 = 0
  OBVIOUS
<1>2. -(-e) = e /\ (-e >= 0 <=> e = 0)
  OBVIOUS
<1>3. Quot(-e, 146097) = 0 /\ Quot(-e, 36524) = 0
  BY <1>1, <1>2 DEF Quot
<1> QED
  BY <1>3 DEF Rem

(* Before 2001 gmtime's divisions are towards zero, the year is as often the *)
(* one after, and a day of it is at or before the first of January.          *)
LEMMA GmtimeBefore ==
  ASSUME NEW y, NEW m, NEW d, IsDate(y, m, d), y \in 1970 .. 2000, NEW tod \in 0 .. Day - 1,
         NEW n, n = DaysSince1970(y, m, d), NEW t, t = Seconds(n, tod), NEW r, r = Gmtime(t)
  PROVE  /\ Tells(r, tod)
         /\ (r.year = y /\ r.mon = m /\ r.mday = d <=> m = 1 /\ d = 1 /\ (2001 - y) % 4 = 0)
<1> DEFINE yd == YearDay(y, m, d)
           ld == n - 11323
           e == 11323 - n
           f == e % 1461
           g == f % 365
<1>1. y \in Int /\ m \in 1 .. 12 /\ d \in Int /\ 1 <= d
  BY DEF IsDate, Named, OfMonth
<1>2. yd \in 0 .. 365 /\ (yd = 365 <=> LastOfLeap(y, m, d)) /\ n = 365 * (y - 1970) + LeapsBefore(y) + yd
  BY DateIs
<1>3. LeapsBefore(y) \in Nat
  BY <1>1, LeapsFinite
<1>4. PICK a \in 1 .. 31 : a = 2001 - y
  BY <1>1
<1>5. e = 365 * a + (a + 3) \div 4 - yd
  <2>1. 11323 - (365 * (y - 1970) + LeapsBefore(y)) = 365 * (2001 - y) + (2001 - y + 3) \div 4
    BY BeforeLeapoch
  <2> QED
    BY <1>1, <1>2, <1>3, <1>4, <2>1
<1> HIDE DEF yd
<1>6. e \in 0 .. 11323 /\ n \in Int /\ ld = -e
  <2>1. (a + 3) \div 4 \in 1 .. 8 /\ 365 * a >= 365
    OBVIOUS
  <2>2. n \in Nat
    BY <1>1, <1>2, <1>3
  <2>3. ld = -e /\ e \in Int /\ e <= 11323
    BY <2>2
  <2> HIDE DEF e, ld
  <2>4. e >= 0
    BY <1>2, <1>5, <2>1, <2>3
  <2> QED
    BY <2>2, <2>3, <2>4
<1>7. t \div Day = n /\ Clock((t \div 3600) % 24, (t \div 60) % 60, t % 60) = tod /\ t \in Int
  <2>1. At(n, tod, t)
    BY <1>6 DEF At
  <2>2. t \in Int
    BY <1>6, SMTT(30) DEF Seconds, Day
  <2> QED
    BY <1>6, <2>1, <2>2, TimeOfDay, SMTT(30)
<1>8. ld = t \div Day - LEAPOCH \div Day
  BY <1>6, <1>7, Epoch
<1> HIDE DEF ld, e
<1>9. /\ r.sec = t % 60 /\ r.min = (t \div 60) % 60 /\ r.hour = (t \div 3600) % 24
      /\ r.year = YearAt(ld)
      /\ r.mon = MonthLoop(DayAt(ld), Leap(r.year))[1] /\ r.mday = MonthLoop(DayAt(ld), Leap(r.year))[2] + 1
  BY <1>8, GmtimeIs
<1>10. Tells(r, tod)
  BY <1>7, <1>9 DEF Tells
<1>11. f \in 0 .. 1460 /\ g \in 0 .. 364 /\ e \div 1461 \in Nat /\ e = 1461 * (e \div 1461) + f
       /\ f \div 365 \in Nat /\ f = 365 * (f \div 365) + g
  BY <1>6
<1>12. /\ Quot(ld, 146097) = 0 /\ Rem(ld, 146097) = ld /\ Quot(ld, 36524) = 0 /\ Rem(ld, 36524) = ld
       /\ Quot(ld, 1461) = -(e \div 1461) /\ Rem(ld, 1461) = -f
  <2>1. e \in Nat /\ e <= 11323
    BY <1>6
  <2> QED
    BY <1>6, <2>1, QuotSmall, QuotNegative
<1>13. Quot(-f, 365) = -(f \div 365) /\ Rem(-f, 365) = -g
  <2>1. f \in Nat
    BY <1>11
  <2> QED
    BY <2>1, QuotNegative
<1>14. YearAt(ld) = 2001 - 4 * (e \div 1461) - f \div 365 /\ DayAt(ld) = -g
  BY <1>11, <1>12, <1>13 DEF YearAt, DayAt, DAYS_PER_400Y, DAYS_PER_100Y, DAYS_PER_4Y
<1>15. MonthLoop(-g, Leap(r.year)) = <<1, -g>>
  <2>1. Leap(r.year) \in BOOLEAN /\ -g \in Int /\ 1 \in 1 .. 12
    BY <1>11 DEF Leap
  <2>2. Passed[1] = 0 /\ days_in_month[1] = 31
    BY PassedIs, DaysInMonth
  <2>3. -g <= Passed[1] + days_in_month[1] /\ (1 > 1 => -g > Passed[1])
    BY <1>11, <2>2
  <2>4. MonthLoop(-g, Leap(r.year)) = <<1, -g - Passed[1]>>
    BY <2>1, <2>3, LoopStops
  <2> QED
    BY <1>11, <2>2, <2>4
<1>16. r.year = 2001 - 4 * (e \div 1461) - f \div 365 /\ r.mon = 1 /\ r.mday = 1 - g
  BY <1>9, <1>11, <1>14, <1>15
<1>17. ASSUME m = 1, d = 1
       PROVE  r.year = y /\ g = 0 <=> a % 4 = 0
  <2>1. yd = 0
    BY <1>17, PassedIs DEF yd, YearDay
  <2>2. PICK u \in 0 .. 7 : u = a \div 4
    OBVIOUS
  <2>3. PICK v \in 0 .. 3 : v = a % 4
    OBVIOUS
  <2>4. a = 4 * u + v
    BY <2>2, <2>3
  <2>5. e = 1461 * u + 365 * v + (IF v = 0 THEN 0 ELSE 1)
    BY <1>5, <2>1, <2>4
  <2>6. e \div 1461 = u /\ f = 365 * v + (IF v = 0 THEN 0 ELSE 1)
    BY <2>5 DEF f
  <2>7. f \div 365 = v /\ g = IF v = 0 THEN 0 ELSE 1
    BY <2>6 DEF g
  <2> QED
    BY <1>1, <1>4, <1>16, <2>3, <2>4, <2>6, <2>7
<1>18. r.mon = m /\ r.mday = d <=> m = 1 /\ d = 1 /\ g = 0
  <2>1. 1 - g = d <=> d = 1 /\ g = 0
    BY <1>1, <1>11
  <2> QED
    BY <1>16, <2>1
<1> QED
  BY <1>4, <1>10, <1>17, <1>18

(* mktime's sum of a table that goes on with other months.                   *)
GoesOn(s, u, o) ==
  /\ s \in Seq(Int) /\ u \in Seq(Int) /\ o \in Nat /\ o + Len(s) <= Len(u)
  /\ \A i \in 1 .. Len(s) : u[o + i] = s[i]

LEMMA SumsInt ==
  ASSUME NEW table, NEW y \in Int, table \in Seq(Int), NEW k \in 0 .. Len(table)
  PROVE  MonthsOf(table, y, k + 1) \in Int
<1>1. CASE k = Len(table)
  BY <1>1, MonthSums
<1>2. CASE k # Len(table)
  <2>1. PICK j \in 1 .. Len(table) : j = k + 1
    BY <1>2
  <2>2. MonthsOf(table, y, j) \in Int
    BY MonthSums
  <2> QED
    BY <2>1, <2>2
<1> QED
  BY <1>1, <1>2

LEMMA SumsStep ==
  ASSUME NEW table, NEW y \in Int, table \in Seq(Int), NEW k, k \in 1 .. Len(table)
  PROVE  MonthsOf(table, y, k + 1) = MonthsOf(table, y, k) + table[k] + (IF table[k] = 28 /\ Leap(y) THEN 1 ELSE 0)
BY MonthSums

LEMMA SumsGoOn ==
  ASSUME NEW s, NEW u, NEW o, GoesOn(s, u, o), NEW y \in Int
  PROVE  /\ MonthsOf(u, y, o + Len(s) + 1) = MonthsOf(u, y, o + 1) + MonthsOf(s, y, Len(s) + 1)
         /\ MonthsOf(u, y, o + 1) \in Int /\ MonthsOf(s, y, Len(s) + 1) \in Int
<1> DEFINE n == Len(s)
           S == {k \in 0 .. n : MonthsOf(u, y, o + k + 1) = MonthsOf(u, y, o + 1) + MonthsOf(s, y, k + 1)}
<1>1. n \in Nat /\ o \in Nat /\ Len(u) \in Nat /\ o + n <= Len(u) /\ s \in Seq(Int) /\ u \in Seq(Int)
  BY DEF GoesOn
<1>2. MonthsOf(u, y, o + 1) \in Int
  <2>1. o \in 0 .. Len(u)
    BY <1>1
  <2> QED
    BY <1>1, <2>1, SumsInt
<1>3. ASSUME NEW k \in 0 .. n PROVE MonthsOf(s, y, k + 1) \in Int
  BY <1>1, SumsInt
<1> HIDE DEF n
<1>4. 0 \in S
  <2>1. 1 \in Int /\ 1 <= 1
    OBVIOUS
  <2>2. MonthsOf(s, y, 1) = 0
    BY <1>1, <2>1, MonthSums
  <2>3. 0 \in 0 .. n /\ o + 0 + 1 = o + 1 /\ 0 + 1 = 1
    BY <1>1
  <2> QED
    BY <1>2, <2>2, <2>3
<1>5. ASSUME NEW k \in 0 .. n - 1, k \in S PROVE k + 1 \in S
  <2>1. PICK j \in 1 .. n : j = k + 1
    BY <1>1
  <2>2. PICK i \in 1 .. Len(u) : i = o + j
    BY <1>1
  <2>3. i = o + k + 1 /\ i + 1 = o + (k + 1) + 1 /\ k + 1 \in 0 .. n
    BY <1>1, <2>1, <2>2
  <2>4. u[i] = s[j] /\ s[j] \in Int
    BY <1>1, <2>2 DEF n, GoesOn
  <2>5. MonthsOf(u, y, i + 1) = MonthsOf(u, y, i) + u[i] + (IF u[i] = 28 /\ Leap(y) THEN 1 ELSE 0)
    BY <1>1, SumsStep
  <2>6. MonthsOf(s, y, j + 1) = MonthsOf(s, y, j) + s[j] + (IF s[j] = 28 /\ Leap(y) THEN 1 ELSE 0)
    BY <1>1, SumsStep DEF n
  <2>7. MonthsOf(s, y, j) \in Int
    <3>1. k \in 0 .. n
      BY <1>1
    <3>2. MonthsOf(s, y, k + 1) \in Int
      BY <1>3, <3>1
    <3> QED
      BY <2>1, <3>2
  <2>8. MonthsOf(u, y, i) = MonthsOf(u, y, o + 1) + MonthsOf(s, y, j)
    BY <1>5, <2>1, <2>3
  <2>9. MonthsOf(u, y, i + 1) = MonthsOf(u, y, o + 1) + MonthsOf(s, y, j + 1)
    BY <1>2, <2>4, <2>5, <2>6, <2>7, <2>8
  <2> QED
    BY <2>1, <2>3, <2>9
<1> HIDE DEF S
<1>6. n \in S
  <2>1. 0 .. n \subseteq S
    BY <1>1, <1>4, <1>5, Induct
  <2> QED
    BY <1>1, <2>1
<1>7. MonthsOf(s, y, n + 1) \in Int
  BY <1>1, <1>3
<1> QED
  BY <1>2, <1>6, <1>7 DEF S, n
(* Any month number: the date that it names, and what mktime reads for it.   *)
LEMMA MonthIs ==
  ASSUME NEW mon \in Int
  PROVE  /\ ((mon - 1) % 12) + 1 \in 1 .. 12
         /\ (mon <= 0 => (mon - 1) \div 12 <= -1)
         /\ (mon \in 1 .. 12 => (mon - 1) \div 12 = 0 /\ ((mon - 1) % 12) + 1 = mon)
         /\ (mon \in 13 .. 24 => (mon - 1) \div 12 = 1 /\ ((mon - 1) % 12) + 1 = mon - 12)
OBVIOUS

(* The days from 1970 that mktime reads, but for the day of the month.       *)
ReadDays(table, y, mon) == 365 * (y - 1970) + LeapsBefore(y) + MonthsOf(table, y, mon)

LEMMA MktimeReads ==
  ASSUME NEW table, NEW tm, NEW y, NEW mon, NEW mday,
         tm = [sec |-> 0, min |-> 0, hour |-> 0, mday |-> mday, mon |-> mon, year |-> y],
         y \in 2001 .. 2069, mday \in Int, MonthsOf(table, y, mon) \in Int
  PROVE  MktimeReading(table, tm) = (ReadDays(table, y, mon) + mday - 1) * Day
<1>1. MktimeReading(table, tm) =
        0 + 0 * 60 + 0 * 3600 + (mday - 1 + MonthsOf(table, y, mon) + Years(y)) * Day + LEAPOCH
  BY SMT DEF MktimeReading
<1>2. y \in 2001 .. 2106 /\ y \in Int
  OBVIOUS
<1>3. Years(y) = Ahead(y - 2001) /\ 365 * (y - 1970) + LeapsBefore(y) - 11323 = Ahead(y - 2001)
  BY <1>2, YearsSince, SinceLeapoch
<1>4. LeapsBefore(y) \in Nat
  BY <1>2, LeapsFinite
<1>5. PICK x \in Int : x = 365 * (y - 1970) + LeapsBefore(y)
  BY <1>2, <1>4
<1>6. PICK z \in Int : z = MonthsOf(table, y, mon)
  OBVIOUS
<1>7. PICK w \in Int : w = mday - 1 + z + (x - 11323)
  OBVIOUS
<1>8. MktimeReading(table, tm) = 0 + 0 * 60 + 0 * 3600 + w * Day + LEAPOCH
  <2>1. Years(y) = x - 11323
    BY <1>2, <1>3, <1>4, <1>5
  <2>2. mday - 1 + MonthsOf(table, y, mon) + Years(y) = w
    BY <1>6, <1>7, <2>1
  <2>3. MktimeReading(table, tm) = 0 + 0 * 60 + 0 * 3600 + (mday - 1 + MonthsOf(table, y, mon) + Years(y)) * Day + LEAPOCH
    BY <1>1, SMT
  <2> QED
    BY <2>2, <2>3
<1>9. MktimeReading(table, tm) = (w + 11323) * 86400
  BY <1>8 DEF Day, LEAPOCH
<1>10. ReadDays(table, y, mon) = x + z
  BY <1>5, <1>6 DEF ReadDays
<1>11. ReadDays(table, y, mon) + mday - 1 = w + 11323
  BY <1>7, <1>10
<1> QED
  BY <1>9, <1>11 DEF Day

(* The day named by a month of the years after or before.                    *)
Normal(z, m, mday) ==
  /\ DaysSince1970(z, m, mday) = 365 * (z - 1970) + LeapsBefore(z) + MonthsBefore(z, m) + mday - 1
  /\ LeapsBefore(z) \in Nat /\ MonthsBefore(z, m) \in 0 .. 366
  /\ MonthsBefore(z, m) = Passed[m] + (IF m > 2 /\ Leap(z) THEN 1 ELSE 0)

LEMMA NormalIs ==
  ASSUME NEW z \in Int, NEW m \in 1 .. 12, NEW mday
  PROVE  Normal(z, m, mday)
<1>1. m \in 1 .. 13
  OBVIOUS
<1>2. MonthsBefore(z, m) = Passed[m] + (IF m > 2 /\ Leap(z) THEN 1 ELSE 0)
  BY <1>1, TableItself, MonthsBeforeIs DEF MonthsBefore
<1>3. Passed[m] \in 0 .. 365
  BY PassedStep
<1>4. LeapsBefore(z) \in Nat
  BY LeapsFinite
<1>5. DaysSince1970(z, m, mday) = 365 * (z - 1970) + LeapsBefore(z) + MonthsBefore(z, m) + mday - 1
  BY DEF DaysSince1970
<1> QED
  BY <1>2, <1>3, <1>4, <1>5 DEF Normal

LEMMA Joined ==
  ASSUME NEW t \in Seq(Int), NEW b \in Seq(Int)
  PROVE  /\ t \o b \in Seq(Int) /\ Len(t \o b) = Len(t) + Len(b)
         /\ \A i \in 1 .. Len(t) : (t \o b)[i] = t[i]
         /\ \A i \in 1 .. Len(b) : (t \o b)[Len(t) + i] = b[i]
OBVIOUS

LEMMA TableJoined ==
  ASSUME NEW b \in Seq(Int)
  PROVE  /\ days_in_month \o b \in Seq(Int) /\ Len(days_in_month \o b) = 12 + Len(b)
         /\ OfMonths(days_in_month \o b)
         /\ \A i \in 1 .. Len(b) : (days_in_month \o b)[12 + i] = b[i]
<1>1. PICK t \in Seq(Int) : t = days_in_month
  BY DaysInMonth
<1>2. Len(t) = 12
  BY <1>1, DaysInMonth
<1> DEFINE u == t \o b
<1>3. /\ u \in Seq(Int) /\ Len(u) = Len(t) + Len(b)
      /\ \A i \in 1 .. Len(t) : u[i] = t[i]
      /\ \A i \in 1 .. Len(b) : u[Len(t) + i] = b[i]
  BY Joined
<1>4. Len(b) \in Nat
  OBVIOUS
<1> HIDE DEF u
<1>5. /\ u \in Seq(Int) /\ Len(u) = 12 + Len(b)
      /\ \A i \in 1 .. 12 : u[i] = t[i]
      /\ \A i \in 1 .. Len(b) : u[12 + i] = b[i]
  BY <1>2, <1>3
<1>6. OfMonths(u)
  BY <1>1, <1>4, <1>5 DEF OfMonths
<1> QED
  BY <1>1, <1>5, <1>6 DEF u

MonthCall(beyond, y, mon, mday) ==
  /\ beyond \in Seq(Int) /\ y \in 2001 .. 2069 /\ mon \in Int /\ mday \in Int
  /\ mon <= 24 /\ mon - 13 <= Len(beyond)

(* The day that a date of any month names; whether mktime finds it.          *)
DayNamed(y, mon, mday) == DaysSince1970(y + (mon - 1) \div 12, ((mon - 1) % 12) + 1, mday)
ReadsRight(beyond, y, mon) ==
  LET read == SubSeq(beyond, 1, mon - 13)
  IN \/ mon \in 1 .. 13
     \/ mon > 13 /\ MonthsOf(read, y, Len(read) + 1) = MonthsBefore(y + (mon - 1) \div 12, ((mon - 1) % 12) + 1)

LEMMA SumsFromZero ==
  ASSUME NEW table, table \in Seq(Int), NEW y \in Int
  PROVE  MonthsOf(table, y, 1) = 0
<1>1. 1 \in Int /\ 1 <= 1
  OBVIOUS
<1> QED
  BY <1>1, MonthSums

LEMMA MonthRight ==
  ASSUME NEW beyond, NEW y, NEW mon, NEW mday, MonthCall(beyond, y, mon, mday)
  PROVE  /\ MonthsOf(days_in_month \o beyond, y, mon) \in Int
         /\ (ReadDays(days_in_month \o beyond, y, mon) + mday - 1 = DayNamed(y, mon, mday) <=> ReadsRight(beyond, y, mon))
         /\ ReadDays(days_in_month \o beyond, y, mon) \in Int /\ DayNamed(y, mon, mday) \in Int
<1> DEFINE k == (mon - 1) \div 12
           m == ((mon - 1) % 12) + 1
           read == SubSeq(beyond, 1, mon - 13)
           table == days_in_month \o beyond
           leap == IF Leap(y) THEN 1 ELSE 0
           Right == /\ MonthsOf(table, y, mon) \in Int
                    /\ (ReadDays(table, y, mon) + mday - 1 = DaysSince1970(y + k, m, mday)
                          <=> \/ mon \in 1 .. 13
                              \/ mon > 13 /\ MonthsOf(read, y, Len(read) + 1) = MonthsBefore(y + k, m))
                    /\ ReadDays(table, y, mon) \in Int /\ DaysSince1970(y + k, m, mday) \in Int
<1>1. /\ k \in Int /\ m \in 1 .. 12 /\ (mon <= 0 => k <= -1)
      /\ (mon \in 1 .. 12 => k = 0 /\ m = mon) /\ (mon \in 13 .. 24 => k = 1 /\ m = mon - 12)
      /\ mon \in Int
  <2>1. mon \in Int
    BY DEF MonthCall
  <2> QED
    BY <2>1, MonthIs
<1>2. y \in Int /\ y >= 1970 /\ leap \in 0 .. 1 /\ mon <= 24 /\ mday \in Int
  BY DEF MonthCall
<1>3. /\ OfMonths(table) /\ Len(table) = 12 + Len(beyond) /\ table \in Seq(Int)
      /\ \A i \in 1 .. Len(beyond) : table[12 + i] = beyond[i]
  BY TableJoined DEF MonthCall
<1>4. LeapsBefore(y) \in Nat
  BY <1>2, LeapsFinite
<1> HIDE DEF k, m, table
<1>5. /\ DaysSince1970(y + k, m, mday) = 365 * ((y + k) - 1970) + LeapsBefore(y + k) + MonthsBefore(y + k, m) + mday - 1
      /\ LeapsBefore(y + k) \in Nat /\ MonthsBefore(y + k, m) \in 0 .. 366
      /\ MonthsBefore(y + k, m) = Passed[m] + (IF m > 2 /\ Leap(y + k) THEN 1 ELSE 0)
  <2>1. y + k \in Int
    BY <1>1, <1>2
  <2>2. Normal(y + k, m, mday)
    BY <1>1, <2>1, NormalIs, Zenon
  <2> QED
    BY <2>2 DEF Normal
<1>6. ReadDays(table, y, mon) = 365 * (y - 1970) + LeapsBefore(y) + MonthsOf(table, y, mon)
  BY DEF ReadDays
<1>7. DaysSince1970(y + k, m, mday) \in Int
  BY <1>1, <1>2, <1>5
<1>8. MonthsOf(table, y, mon) \in Int => ReadDays(table, y, mon) \in Int
  BY <1>2, <1>4, <1>6
<1>9. ASSUME mon <= 0 PROVE Right
  <2>1. MonthsOf(table, y, mon) = 0
    BY <1>1, <1>2, <1>3, <1>9, MonthSums
  <2>2. LeapsBefore(y + k) <= LeapsBefore(y)
    BY <1>1, <1>2, <1>9, LeapsMore
  <2>3. Passed[m] + 1 <= 335
    <3>1. PICK j \in 1 .. 12 : j = m
      BY <1>1
    <3>2. Passed[j] <= Passed[12]
      <4>1. 12 \in 1 .. 13
        OBVIOUS
      <4> QED
        BY <4>1, PassedGrows
    <3>3. Passed[j] \in Int
      BY PassedInt
    <3> QED
      BY <3>1, <3>2, <3>3, PassedIs
  <2>4. Passed[m] \in Int
    BY <1>1, PassedInt
  <2>5. ReadDays(table, y, mon) >= 365 * ((y + k) - 1970) + LeapsBefore(y + k) + 365
    BY <1>1, <1>2, <1>4, <1>5, <1>6, <1>9, <2>1, <2>2
  <2>6. ReadDays(table, y, mon) + mday - 1 # DaysSince1970(y + k, m, mday)
    BY <1>1, <1>2, <1>4, <1>5, <1>8, <2>1, <2>3, <2>4, <2>5
  <2> QED
    BY <1>1, <1>7, <1>8, <1>9, <2>1, <2>6
<1>10. ASSUME mon \in 1 .. 12 PROVE Right
  <2>1. mon \in 1 .. 13
    BY <1>10
  <2>2. MonthsOf(table, y, mon) = Passed[mon] + (IF mon > 2 /\ Leap(y) THEN 1 ELSE 0)
    <3>1. PICK j \in 1 .. 13 : j = mon
      BY <2>1
    <3>2. OfMonths(table) /\ y \in Int
      BY <1>2, <1>3
    <3>3. MonthsOf(table, y, j) = Passed[j] + (IF j > 2 /\ Leap(y) THEN 1 ELSE 0)
      BY <3>2, MonthsBeforeIs
    <3> QED
      BY <3>1, <3>3
  <2>3. k = 0 /\ m = mon /\ y + k = y
    BY <1>1, <1>2, <1>10
  <2>4. MonthsOf(table, y, mon) = MonthsBefore(y + k, m)
    BY <1>5, <2>2, <2>3
  <2>5. ReadDays(table, y, mon) + mday - 1 = DaysSince1970(y + k, m, mday) /\ MonthsOf(table, y, mon) \in Int
    BY <1>2, <1>4, <1>5, <1>6, <2>3, <2>4
  <2> QED
    BY <1>1, <1>7, <1>8, <2>1, <2>5
<1>11. ASSUME mon \in 13 .. 24 PROVE Right
  <2>1. k = 1 /\ m = mon - 12 /\ LeapsBefore(y + 1) = LeapsBefore(y) + leap
    BY <1>1, <1>2, <1>11, LeapsStep
  <2>2. MonthsOf(table, y, 13) = 365 + leap
    <3>1. 13 \in 1 .. 13
      OBVIOUS
    <3>2. MonthsOf(table, y, 13) = Passed[13] + (IF 13 > 2 /\ Leap(y) THEN 1 ELSE 0)
      BY <1>2, <1>3, <3>1, MonthsBeforeIs
    <3> QED
      BY <3>2, PassedIs
  <2>3. Len(read) = mon - 13 /\ read \in Seq(Int) /\ \A i \in 1 .. Len(read) : read[i] = beyond[i]
    <3>1. beyond \in Seq(Int) /\ mon - 13 \in 0 .. Len(beyond)
      BY <1>1, <1>11 DEF MonthCall
    <3>2. PICK j \in 0 .. Len(beyond) : j = mon - 13
      BY <3>1
    <3>3. Len(SubSeq(beyond, 1, j)) = j /\ SubSeq(beyond, 1, j) \in Seq(Int) /\ \A i \in 1 .. j : SubSeq(beyond, 1, j)[i] = beyond[i]
      BY <3>1
    <3> QED
      BY <3>2, <3>3
  <2>4. GoesOn(read, table, 12)
    <3> HIDE DEF read
    <3>1. Len(beyond) \in Nat /\ mon - 13 <= Len(beyond)
      BY DEF MonthCall
    <3>2. \A i \in 1 .. Len(read) : i \in 1 .. Len(beyond)
      BY <1>1, <2>3, <3>1
    <3> QED
      BY <1>1, <1>3, <1>11, <2>3, <3>1, <3>2 DEF GoesOn
  <2> HIDE DEF read
  <2>5. /\ MonthsOf(table, y, 12 + Len(read) + 1) = MonthsOf(table, y, 12 + 1) + MonthsOf(read, y, Len(read) + 1)
        /\ MonthsOf(read, y, Len(read) + 1) \in Int
    BY <1>2, <2>4, SumsGoOn
  <2>6. 12 + Len(read) + 1 = mon /\ 12 + 1 = 13
    BY <1>11, <2>3
  <2>7. MonthsOf(table, y, mon) = 365 + leap + MonthsOf(read, y, Len(read) + 1)
    BY <2>2, <2>5, <2>6
  <2>8. ReadDays(table, y, mon) + mday - 1 = DaysSince1970(y + k, m, mday)
          <=> MonthsOf(read, y, Len(read) + 1) = MonthsBefore(y + k, m)
    <3>1. PICK z \in Int : z = MonthsOf(read, y, Len(read) + 1)
      BY <2>5
    <3>2. PICK w \in 0 .. 366 : w = MonthsBefore(y + k, m)
      BY <1>5
    <3>3. LeapsBefore(y + k) = LeapsBefore(y) + leap /\ 365 * ((y + k) - 1970) = 365 * (y - 1970) + 365
      BY <1>2, <2>1
    <3>4. ReadDays(table, y, mon) = 365 * (y - 1970) + LeapsBefore(y) + (365 + leap + z)
      BY <1>6, <2>7, <3>1
    <3>5. DaysSince1970(y + k, m, mday) = 365 * (y - 1970) + 365 + (LeapsBefore(y) + leap) + w + mday - 1
      BY <1>5, <3>2, <3>3
    <3>6. PICK x \in Int : x = 365 * (y - 1970)
      BY <1>2
    <3> HIDE DEF leap
    <3>7. PICK c \in Int : c = x + LeapsBefore(y) + 365 + leap + mday - 1
      BY <1>2, <1>4
    <3>8. ReadDays(table, y, mon) + mday - 1 = c + z
      BY <1>2, <1>4, <3>4, <3>6, <3>7
    <3>9. DaysSince1970(y + k, m, mday) = c + w
      BY <1>2, <1>4, <3>5, <3>6, <3>7
    <3>10. c + z = c + w <=> z = w
      OBVIOUS
    <3> QED
      BY <3>1, <3>2, <3>8, <3>9, <3>10
  <2>9. mon = 13 => MonthsOf(read, y, Len(read) + 1) = MonthsBefore(y + k, m)
    <3> HAVE mon = 13
    <3>1. Len(read) + 1 = 1 /\ m = 1
      BY <2>1, <2>3
    <3>2. MonthsOf(read, y, 1) = 0
      <4>1. read \in Seq(Int)
        BY <2>3
      <4> QED
        BY <1>2, <4>1, SumsFromZero
    <3>3. MonthsBefore(y + k, m) = 0
      BY <1>5, <3>1, PassedIs
    <3> QED
      BY <3>1, <3>2, <3>3
  <2>10. MonthsOf(table, y, mon) \in Int
    BY <1>2, <2>5, <2>7
  <2>11. mon \in 1 .. 13 <=> mon = 13
    BY <1>11
  <2>12. mon > 13 <=> mon # 13
    BY <1>11
  <2> QED
    BY <1>7, <1>8, <2>8, <2>9, <2>10, <2>11, <2>12
<1>12. Right
  <2>1. mon <= 0 \/ mon \in 1 .. 12 \/ mon \in 13 .. 24
    BY <1>1, <1>2
  <2> QED
    BY <2>1, <1>9, <1>10, <1>11
<1> HIDE DEF read
<1> QED
  BY <1>12, Zenon DEF DayNamed, ReadsRight, k, m, read, table

(* What the arguments are that stand for a moment.                           *)
LEMMA MomentIs ==
  ASSUME NEW years, NEW x, OfYears(x, years)
  PROVE  /\ x.y \in years /\ x.m \in 1 .. 12 /\ x.d \in 1 .. 31 /\ x.tod \in 0 .. Day - 1
         /\ OfMonth(x.y, x.m, x.d) /\ x.t = Seconds(DaysSince1970(x.y, x.m, x.d), x.tod)
         /\ x.tm.year = x.y /\ x.tm.mon = x.m /\ x.tm.mday = x.d
         /\ x.tm.hour = x.tod \div 3600 /\ x.tm.min = (x.tod \div 60) % 60 /\ x.tm.sec = x.tod % 60
         /\ x.tm.wday = (DaysSince1970(x.y, x.m, x.d) + 4) % 7
         /\ x.tm.yday = DaysSince1970(x.y, x.m, x.d) - DaysSince1970(x.y, 1, 1)
<1>1. PICK y \in years, m \in 1 .. 12, d \in 1 .. 31, tod \in 0 .. Day - 1 :
        x = Moment(y, m, d, tod) /\ d <= MonthLength(y, m)
  BY DEF OfYears
<1>2. /\ x.y = y /\ x.m = m /\ x.d = d /\ x.tod = tod /\ x.t = DaysSince1970(y, m, d) * Day + tod
      /\ x.tm.year = y /\ x.tm.mon = m /\ x.tm.mday = d
      /\ x.tm.hour = tod \div 3600 /\ x.tm.min = (tod \div 60) % 60 /\ x.tm.sec = tod % 60
      /\ x.tm.wday = (DaysSince1970(y, m, d) + 4) % 7
      /\ x.tm.yday = DaysSince1970(y, m, d) - DaysSince1970(y, 1, 1)
  BY <1>1 DEF Moment
<1>3. 1 <= d
  OBVIOUS
<1> QED
  BY <1>1, <1>2, <1>3 DEF OfMonth, Seconds

LEMMA MomentTells ==
  ASSUME NEW tod \in 0 .. Day - 1, NEW tm, tm.hour = tod \div 3600, tm.min = (tod \div 60) % 60, tm.sec = tod % 60
  PROVE  Tells(tm, tod) /\ tm.hour \in 0 .. 23
<1>1. PICK h, i, s \in Int : Shown(tod, h, i, s)
  BY ClockShows
<1>2. h \in 0 .. 23 /\ i \in 0 .. 59 /\ s \in 0 .. 59 /\ tod = 3600 * h + 60 * i + s
  BY <1>1 DEF Clock, Shown
<1>3. tod % 60 = s
  BY <1>2
<1>4. tod \div 60 = 60 * h + i
  BY <1>2
<1>5. (60 * h + i) % 60 = i
  BY <1>2
<1>6. tod \div 3600 = h
  BY <1>2
<1> QED
  <2>1. tm.hour = h /\ tm.min = i /\ tm.sec = s
    BY <1>3, <1>4, <1>5, <1>6
  <2>2. Clock(h, i, s) = tod
    BY <1>1 DEF Shown
  <2> QED
    BY <1>2, <2>1, <2>2 DEF Tells

LEMMA DateOf ==
  ASSUME NEW x, OfYears(x, 1970 .. 2105)
  PROVE  /\ IsDate(x.y, x.m, x.d) /\ Named(x.y, x.m, x.d) /\ DaysSince1970(x.y, x.m, x.d) \in Int
         /\ Tells(x.tm, x.tod) /\ x.tm.hour \in 0 .. 23
<1>1. /\ x.y \in 1970 .. 2105 /\ x.m \in 1 .. 12 /\ x.d \in 1 .. 31 /\ x.tod \in 0 .. Day - 1
      /\ OfMonth(x.y, x.m, x.d)
      /\ x.tm.hour = x.tod \div 3600 /\ x.tm.min = (x.tod \div 60) % 60 /\ x.tm.sec = x.tod % 60
  BY MomentIs
<1>2. Named(x.y, x.m, x.d)
  BY <1>1 DEF Named
<1>3. IsDate(x.y, x.m, x.d)
  BY <1>1, <1>2 DEF IsDate
<1>4. DaysSince1970(x.y, x.m, x.d) \in Int
  BY <1>2, DaysRead
<1>5. Tells(x.tm, x.tod) /\ x.tm.hour \in 0 .. 23
  BY <1>1, MomentTells
<1> QED
  BY <1>2, <1>3, <1>4, <1>5

LEMMA MoreYears ==
  ASSUME NEW A, NEW B, A \subseteq B, NEW x, OfYears(x, A)
  PROVE  OfYears(x, B)
BY DEF OfYears

LEMMA FewerDates ==
  ASSUME NEW x, OfYears(x, 1970 .. 2069)
  PROVE  OfYears(x, 1970 .. 2105)
<1>1. 1970 .. 2069 \subseteq 1970 .. 2105
  OBVIOUS
<1> QED
  BY <1>1, MoreYears

(* Each call, of what it is given.                                           *)
LEMMA GmtimeOf ==
  ASSUME NEW x, OfYears(x, 1970 .. 2105), NEW r, r = Gmtime(x.t)
  PROVE  /\ 3600 * r.hour + 60 * r.min + r.sec = x.tod
         /\ (x.y > 2000 => r.wday = x.tm.wday)
         /\ (r.year = x.y /\ r.mon = x.m /\ r.mday = x.d
               <=> IF x.y > 2000 THEN ~AfterEnd(x.y, x.m, x.d) /\ ~LateIn(x.y, x.m)
                   ELSE x.m = 1 /\ x.d = 1 /\ (2001 - x.y) % 4 = 0)
<1>1. /\ IsDate(x.y, x.m, x.d) /\ x.y \in 1970 .. 2105 /\ x.tod \in 0 .. Day - 1
      /\ x.t = Seconds(DaysSince1970(x.y, x.m, x.d), x.tod)
      /\ x.tm.wday = (DaysSince1970(x.y, x.m, x.d) + 4) % 7
  BY MomentIs, DateOf
<1>2. CASE x.y > 2000
  <2>1. x.y \in 2001 .. 2105
    BY <1>1, <1>2
  <2>2. /\ Tells(r, x.tod) /\ r.wday = (DaysSince1970(x.y, x.m, x.d) + 4) % 7
        /\ (r.year = x.y /\ r.mon = x.m /\ r.mday = x.d <=> ~AfterEnd(x.y, x.m, x.d) /\ ~LateIn(x.y, x.m))
    BY <1>1, <2>1, GmtimeShows
  <2> QED
    BY <1>1, <1>2, <2>2 DEF Tells, Clock
<1>3. CASE ~(x.y > 2000)
  <2>1. x.y \in 1970 .. 2000
    BY <1>1, <1>3
  <2>2. /\ Tells(r, x.tod)
        /\ (r.year = x.y /\ r.mon = x.m /\ r.mday = x.d <=> x.m = 1 /\ x.d = 1 /\ (2001 - x.y) % 4 = 0)
    BY <1>1, <2>1, GmtimeBefore
  <2> QED
    BY <1>3, <2>2 DEF Tells, Clock
<1> QED
  BY <1>2, <1>3

LEMMA MktimeOf ==
  ASSUME NEW x, OfYears(x, 1970 .. 2105)
  PROVE  Mktime(x.tm) = x.t + (IF EarlyLeap(x.y) THEN Day ELSE 0)
<1>1. /\ x.tod \in 0 .. Day - 1 /\ x.t = Seconds(DaysSince1970(x.y, x.m, x.d), x.tod)
      /\ x.tm.year = x.y /\ x.tm.mon = x.m /\ x.tm.mday = x.d
  BY MomentIs
<1>2. Tells(x.tm, x.tod) /\ Named(x.tm.year, x.tm.mon, x.tm.mday)
  BY <1>1, DateOf
<1>3. Mktime(x.tm) = DaysSince1970(x.tm.year, x.tm.mon, x.tm.mday) * Day + x.tod + (IF EarlyLeap(x.tm.year) THEN Day ELSE 0)
  BY <1>1, <1>2, MktimeIs
<1> QED
  BY <1>1, <1>3 DEF Seconds

LEMMA DayMore ==
  ASSUME NEW n \in Int, NEW tod \in 0 .. Day - 1
  PROVE  (n + 1) * Day + tod = n * Day + tod + Day /\ n * Day + tod = n * Day + tod + 0
<1>1. PICK u \in 0 .. 86399 : u = tod
  BY SMTT(30) DEF Day
<1>2. (n + 1) * 86400 + u = n * 86400 + u + 86400 /\ n * 86400 + u = n * 86400 + u + 0
  OBVIOUS
<1> QED
  BY <1>1, <1>2, SMTT(30) DEF Day

LEMMA BothOf ==
  ASSUME NEW x, OfYears(x, 1970 .. 2105), x.y > 2000
  PROVE  Mktime(Gmtime(x.t)) = x.t + (IF LateIn(x.y, x.m) THEN Day ELSE 0)
<1> DEFINE r == Gmtime(x.t)
           n == DaysSince1970(x.y, x.m, x.d)
<1>1. /\ IsDate(x.y, x.m, x.d) /\ x.y \in 1970 .. 2105 /\ x.tod \in 0 .. Day - 1 /\ x.t = Seconds(n, x.tod) /\ n \in Int
  BY MomentIs, DateOf
<1>2. x.y \in 2001 .. 2105
  BY <1>1
<1>3. /\ Tells(r, x.tod) /\ Named(r.year, r.mon, r.mday) /\ r.year > 2000
      /\ DaysSince1970(r.year, r.mon, r.mday) = n + (IF LateIn(x.y, x.m) THEN 1 ELSE 0)
  BY <1>1, <1>2, GmtimeShows
<1> HIDE DEF r, n
<1>4. Mktime(r) = DaysSince1970(r.year, r.mon, r.mday) * Day + x.tod + (IF EarlyLeap(r.year) THEN Day ELSE 0)
  BY <1>1, <1>3, MktimeIs
<1>5. ~EarlyLeap(r.year)
  BY <1>3 DEF EarlyLeap, Named
<1>6. PICK c \in Int : c = n + (IF LateIn(x.y, x.m) THEN 1 ELSE 0)
  BY <1>1
<1>7. PICK tod \in 0 .. Day - 1 : tod = x.tod
  BY <1>1
<1>8. Mktime(r) = c * Day + tod + 0
  BY <1>3, <1>4, <1>5, <1>6, <1>7
<1>9. x.t = n * Day + tod
  BY <1>1, <1>7 DEF Seconds
<1>10. n \in Int
  BY <1>1
<1>11. CASE LateIn(x.y, x.m)
  BY <1>6, <1>8, <1>9, <1>10, <1>11, DayMore DEF r
<1>12. CASE ~LateIn(x.y, x.m)
  <2>1. c = n
    BY <1>6, <1>10, <1>12
  <2> QED
    BY <1>8, <1>9, <1>12, <2>1 DEF r
<1> QED
  BY <1>11, <1>12

LEMMA HoursOf ==
  ASSUME NEW hour \in 0 .. 23, NEW h24 \in BOOLEAN
  PROVE  LET h == IF h24 THEN hour ELSE ((hour + 11) % 12) + 1
         IN Hours(h, ~h24 /\ hour >= 12, h24) = hour <=> h24 \/ hour \notin {0, 12}
<1>1. CASE h24
  BY <1>1 DEF Hours
<1>2. CASE ~h24
  <2> DEFINE h == ((hour + 11) % 12) + 1
  <2>1. Hours(h, ~h24 /\ hour >= 12, h24) = IF hour >= 12 THEN (h + 12) % 24 ELSE h
    BY <1>2 DEF Hours
  <2>2. CASE hour = 0
    <3>1. h = 12
      BY <2>2
    <3> QED
      BY <1>2, <2>1, <2>2, <3>1
  <2>3. CASE hour \in 1 .. 11
    <3>1. h = hour
      BY <2>3
    <3> QED
      BY <1>2, <2>1, <2>3, <3>1
  <2>4. CASE hour = 12
    <3>1. h = 12
      BY <2>4
    <3>2. (12 + 12) % 24 = 0
      OBVIOUS
    <3> QED
      BY <1>2, <2>1, <2>4, <3>1, <3>2
  <2>5. CASE hour \in 13 .. 23
    <3>1. h = hour - 12 /\ (hour - 12 + 12) % 24 = hour
      BY <2>5
    <3> QED
      BY <1>2, <2>1, <2>5, <3>1
  <2> QED
    BY <2>2, <2>3, <2>4, <2>5
<1> QED
  BY <1>1, <1>2

LEMMA FieldsOf ==
  ASSUME NEW x, OfYears(x, 1970 .. 2105), NEW f, f = Strftime(x.tm)
  PROVE  /\ (f.I = ((x.tm.hour + 11) % 12) + 1 <=> x.tm.hour # 0)
         /\ (f.u = ((x.tm.wday + 6) % 7) + 1 <=> x.tm.wday # 0)
         /\ (f.y = x.y % 100 <=> x.y < 2000)
         /\ f.j # x.tm.yday + 1
<1>1. f.I = TwelveHour(x.tm.hour) /\ f.u = WeekdayU(x.tm.wday) /\ f.y = x.tm.year - 1900 /\ f.j = x.tm.yday
  BY DEF Strftime
<1>2. PICK y \in 1970 .. 2105 : y = x.y
  BY MomentIs
<1>3. PICK hour \in 0 .. 23 : hour = x.tm.hour
  BY DateOf
<1>4. PICK wday \in 0 .. 6 : wday = x.tm.wday
  <2>1. x.tm.wday = (DaysSince1970(x.y, x.m, x.d) + 4) % 7
    BY MomentIs
  <2>2. PICK n \in Int : n = DaysSince1970(x.y, x.m, x.d)
    BY DateOf
  <2> QED
    BY <2>1, <2>2
<1>5. PICK yday \in Int : yday = x.tm.yday
  <2>1. x.tm.yday = DaysSince1970(x.y, x.m, x.d) - DaysSince1970(x.y, 1, 1)
    BY MomentIs
  <2>2. PICK n \in Int : n = DaysSince1970(x.y, x.m, x.d)
    BY DateOf
  <2>3. PICK k \in Int : k = DaysSince1970(x.y, 1, 1)
    <3>1. Named(x.y, 1, 1)
      BY <1>2 DEF Named
    <3> QED
      BY <3>1, DaysRead
  <2> QED
    BY <2>1, <2>2, <2>3
<1>6. x.tm.year = y
  BY <1>2, MomentIs
<1>7. TwelveHour(hour) = ((hour + 11) % 12) + 1 <=> hour # 0
  <2>1. CASE hour = 0
    BY <2>1 DEF TwelveHour, Rem, Quot
  <2>2. CASE hour > 0
    <3>1. Rem(hour - 1, 12) = (hour - 1) % 12
      BY <2>2 DEF Rem, Quot
    <3>2. (hour - 1) % 12 = (hour + 11) % 12
      BY <2>2
    <3> QED
      BY <2>2, <3>1, <3>2 DEF TwelveHour
  <2> QED
    BY <2>1, <2>2
<1>8. WeekdayU(wday) = ((wday + 6) % 7) + 1 <=> wday # 0
  <2>1. CASE wday = 0
    BY <2>1 DEF WeekdayU, Rem, Quot
  <2>2. CASE wday > 0
    <3>1. Rem(wday - 1, 7) = (wday - 1) % 7
      BY <2>2 DEF Rem, Quot
    <3>2. (wday - 1) % 7 = (wday + 6) % 7
      BY <2>2
    <3> QED
      BY <2>2, <3>1, <3>2 DEF WeekdayU
  <2> QED
    BY <2>1, <2>2
<1>9. y - 1900 = y % 100 <=> y < 2000
  OBVIOUS
<1>10. yday # yday + 1
  OBVIOUS
<1>11. f.I = ((x.tm.hour + 11) % 12) + 1 <=> x.tm.hour # 0
  BY <1>1, <1>3, <1>7
<1>12. f.u = ((x.tm.wday + 6) % 7) + 1 <=> x.tm.wday # 0
  BY <1>1, <1>4, <1>8
<1>13. f.y = x.y % 100 <=> x.y < 2000
  BY <1>1, <1>2, <1>6, <1>9
<1>14. f.j # x.tm.yday + 1
  BY <1>1, <1>5, <1>10
<1> QED
  BY <1>11, <1>12, <1>13, <1>14

LEMMA CompositeOf ==
  ASSUME NEW S, NEW text \in Seq(S), NEW left \in Seq(S)
  PROVE  SubSeq(text \o left, 1, Len(text)) = text /\ (text \o left = text <=> left = <<>>)
<1> DEFINE u == text \o left
<1>1. /\ u \in Seq(S) /\ Len(u) = Len(text) + Len(left) /\ Len(text) \in Nat /\ Len(left) \in Nat
      /\ \A i \in 1 .. Len(text) : u[i] = text[i]
  OBVIOUS
<1>2. SubSeq(u, 1, Len(text)) = text
  <2>1. Len(SubSeq(u, 1, Len(text))) = Len(text) /\ SubSeq(u, 1, Len(text)) \in Seq(S)
        /\ \A i \in 1 .. Len(text) : SubSeq(u, 1, Len(text))[i] = u[i]
    BY <1>1
  <2> QED
    BY <1>1, <2>1, SeqEqual
<1>3. left = <<>> => u = text
  OBVIOUS
<1>4. u = text => left = <<>>
  <2> HAVE u = text
  <2>1. Len(left) = 0
    BY <1>1
  <2> QED
    BY <2>1, EmptySeq
<1> QED
  BY <1>2, <1>3, <1>4

LEMMA DayTimes ==
  ASSUME NEW a \in Int, NEW b \in Int
  PROVE  a * Day = b * Day <=> a = b
BY DEF Day

LEMMA SeqLarger ==
  ASSUME NEW S, NEW T, S \subseteq T, NEW s, s \in Seq(S)
  PROVE  s \in Seq(T)
<1>1. PICK n \in Nat : s \in [1 .. n -> S]
  BY SeqDef
<1>2. s \in [1 .. n -> T]
  BY <1>1
<1> QED
  BY <1>2, SeqDef

LEMMA MonthOf ==
  ASSUME NEW beyond, NEW y, NEW mon, NEW mday, MonthCall(beyond, y, mon, mday), NEW tm,
         tm = [sec |-> 0, min |-> 0, hour |-> 0, mday |-> mday, mon |-> mon, year |-> y]
  PROVE  MktimeReading(days_in_month \o beyond, tm) = DayNamed(y, mon, mday) * Day <=> ReadsRight(beyond, y, mon)
<1> DEFINE table == days_in_month \o beyond
           named == DayNamed(y, mon, mday)
           days == ReadDays(table, y, mon)
<1>1. MonthsOf(table, y, mon) \in Int /\ (days + mday - 1 = named <=> ReadsRight(beyond, y, mon)) /\ days \in Int /\ named \in Int
  BY MonthRight
<1>2. y \in 2001 .. 2069 /\ mday \in Int
  BY DEF MonthCall
<1> HIDE DEF named, days, table
<1>3. MktimeReading(table, tm) = (days + mday - 1) * Day
  BY <1>1, <1>2, MktimeReads DEF days
<1>4. days + mday - 1 \in Int
  BY <1>1, <1>2
<1>5. (days + mday - 1) * Day = named * Day <=> days + mday - 1 = named
  BY <1>1, <1>4, DayTimes
<1>6. MktimeReading(table, tm) = named * Day <=> ReadsRight(beyond, y, mon)
  BY <1>1, <1>3, <1>5
<1> QED
  BY <1>6 DEF named, table

(* What has been returned is what the function makes of the argument.        *)
Answered(f, v) == fn = f /\ ret # <<>> => ret = <<v>>
CalendarInv ==
  /\ CalendarCalls
  /\ Answered("gmtime", Gmtime(arg.t))
  /\ Answered("mktime", Mktime(arg.tm))
  /\ Answered("mktime(gmtime)", Mktime(Gmtime(arg.t)))
  /\ Answered("hours", Hours(arg.h, arg.pm, arg.h24))
  /\ Answered("strftime", Strftime(arg.tm))
  /\ Answered("mktime(month)", MktimeReading(days_in_month \o arg.beyond, arg.tm))
  /\ Answered("strftime(composite)", Composite(arg.text, arg.left))

LEMMA CalendarStep == CalendarInv /\ [CalendarNext]_callVars => CalendarInv'
<1> SUFFICES ASSUME CalendarInv, [CalendarNext]_callVars PROVE CalendarInv'
  OBVIOUS
<1>1. fn' = fn /\ arg' = arg
  BY DEF CalendarNext, CallMonth, CallComposite, CallGmtime, CallMktime, CallBoth, CallHours, CallStrftime, Return, callVars
<1>2. CalendarCalls'
  BY <1>1 DEF CalendarInv, CalendarCalls
<1>3. CASE UNCHANGED callVars
  BY <1>2, <1>3 DEF CalendarInv, Answered, callVars
<1>4. CASE CalendarNext
  BY <1>1, <1>2, <1>4 DEF CalendarInv, Answered, CalendarNext, CallMonth, CallComposite, CallGmtime, CallMktime,
       CallBoth, CallHours, CallStrftime, Return
<1> QED
  BY <1>3, <1>4

LEMMA CallIs ==
  ASSUME CalendarCalls
  PROVE  /\ (fn \in {"gmtime", "strftime"} => OfYears(arg, 1970 .. 2105))
         /\ (fn \in {"mktime", "mktime(gmtime)"} => OfYears(arg, 1970 .. 2069))
         /\ (fn = "hours" => OfAnHour(arg))
         /\ (fn = "mktime(month)" => OfAMonth(arg))
         /\ (fn = "strftime(composite)" => arg \in [text : Seq(STRING), left : Seq(STRING)])
BY DEF CalendarCalls

LEMMA GmtimeIsRight == CalendarInv => GmtimeRightExcept
<1> SUFFICES ASSUME CalendarInv, Returned("gmtime") PROVE GmtimeRightExcept
  BY DEF GmtimeRightExcept
<1>1. fn = "gmtime" /\ Result = Gmtime(arg.t)
  BY DEF CalendarInv, Answered, Returned, Result
<1>2. OfYears(arg, 1970 .. 2105)
  BY <1>1, CallIs DEF CalendarInv
<1> DEFINE r == Result
<1>3. /\ 3600 * r.hour + 60 * r.min + r.sec = arg.tod
      /\ (arg.y > 2000 => r.wday = arg.tm.wday)
      /\ (r.year = arg.y /\ r.mon = arg.m /\ r.mday = arg.d
            <=> IF arg.y > 2000 THEN ~AfterEnd(arg.y, arg.m, arg.d) /\ ~LateIn(arg.y, arg.m)
                ELSE arg.m = 1 /\ arg.d = 1 /\ (2001 - arg.y) % 4 = 0)
  BY <1>1, <1>2, GmtimeOf
<1>4. arg.m \in 1 .. 12
  BY <1>2, MomentIs
<1>5. LateIn(arg.y, arg.m) <=> LateInLeapYear
  BY DEF LateIn, LateInLeapYear
<1>6. AfterEnd(arg.y, arg.m, arg.d) <=> AfterMonthEnd
  BY <1>4 DEF AfterEnd, AfterMonthEnd, LateIn
<1> QED
  BY <1>3, <1>5, <1>6, SMT DEF GmtimeRightExcept

LEMMA MktimeIsRight == CalendarInv => MktimeRightExcept
<1> SUFFICES ASSUME CalendarInv, Returned("mktime") PROVE MktimeRightExcept
  BY DEF MktimeRightExcept
<1>1. fn = "mktime" /\ Result = Mktime(arg.tm)
  BY DEF CalendarInv, Answered, Returned, Result
<1>2. OfYears(arg, 1970 .. 2105)
  BY <1>1, CallIs, FewerDates DEF CalendarInv
<1>3. Mktime(arg.tm) = arg.t + (IF EarlyLeap(arg.y) THEN Day ELSE 0)
  BY <1>2, MktimeOf
<1> QED
  BY <1>1, <1>3, Zenon DEF MktimeRightExcept, EarlyLeap

LEMMA RoundTripIs == CalendarInv => RoundTrip
<1> SUFFICES ASSUME CalendarInv, Returned("mktime(gmtime)"), arg.y > 2000 PROVE RoundTrip
  BY DEF RoundTrip
<1>1. fn = "mktime(gmtime)" /\ Result = Mktime(Gmtime(arg.t))
  BY DEF CalendarInv, Answered, Returned, Result
<1>2. OfYears(arg, 1970 .. 2105)
  BY <1>1, CallIs, FewerDates DEF CalendarInv
<1>3. Mktime(Gmtime(arg.t)) = arg.t + (IF LateIn(arg.y, arg.m) THEN Day ELSE 0)
  BY <1>2, BothOf
<1> QED
  BY <1>1, <1>3, SMT DEF RoundTrip, LateIn, LateInLeapYear

LEMMA HoursAreRight == CalendarInv => HoursRightExcept
<1> SUFFICES ASSUME CalendarInv, Returned("hours") PROVE HoursRightExcept
  BY DEF HoursRightExcept
<1>1. fn = "hours" /\ Result = Hours(arg.h, arg.pm, arg.h24)
  BY DEF CalendarInv, Answered, Returned, Result
<1>2. PICK hour \in 0 .. 23, h24 \in BOOLEAN :
        arg = [hour |-> hour, h24 |-> h24, pm |-> ~h24 /\ hour >= 12,
               h |-> IF h24 THEN hour ELSE ((hour + 11) % 12) + 1]
  <2>1. OfAnHour(arg)
    BY <1>1, CallIs DEF CalendarInv
  <2> QED
    BY <2>1 DEF OfAnHour
<1>3. arg.hour = hour /\ arg.h24 = h24 /\ arg.pm = (~h24 /\ hour >= 12)
      /\ arg.h = IF h24 THEN hour ELSE ((hour + 11) % 12) + 1
  BY <1>2
<1>4. Hours(arg.h, arg.pm, arg.h24) = hour <=> h24 \/ hour \notin {0, 12}
  BY <1>3, HoursOf
<1> QED
  BY <1>1, <1>3, <1>4 DEF HoursRightExcept

LEMMA FieldsAreRight == CalendarInv => StrftimeRightExcept
<1> SUFFICES ASSUME CalendarInv, Returned("strftime") PROVE StrftimeRightExcept
  BY DEF StrftimeRightExcept
<1>1. fn = "strftime" /\ Result = Strftime(arg.tm)
  BY DEF CalendarInv, Answered, Returned, Result
<1>2. OfYears(arg, 1970 .. 2105)
  BY <1>1, CallIs DEF CalendarInv
<1>3. /\ (Result.I = ((arg.tm.hour + 11) % 12) + 1 <=> arg.tm.hour # 0)
      /\ (Result.u = ((arg.tm.wday + 6) % 7) + 1 <=> arg.tm.wday # 0)
      /\ (Result.y = arg.y % 100 <=> arg.y < 2000)
      /\ Result.j # arg.tm.yday + 1
  BY <1>1, <1>2, FieldsOf
<1> QED
  BY <1>3, Zenon DEF StrftimeRightExcept

LEMMA MonthsAreRight == CalendarInv => MonthsNormalised
<1> SUFFICES ASSUME CalendarInv, Returned("mktime(month)") PROVE MonthsNormalised
  BY DEF MonthsNormalised
<1>1. fn = "mktime(month)" /\ Result = MktimeReading(days_in_month \o arg.beyond, arg.tm)
  BY DEF CalendarInv, Answered, Returned, Result
<1>2. PICK y, mon, mday \in Int, beyond \in Seq(Byte) : MonthArg(arg, y, mon, mday, beyond)
  <2>1. OfAMonth(arg)
    BY <1>1, CallIs DEF CalendarInv
  <2> QED
    BY <2>1 DEF OfAMonth
<1> DEFINE tm == [sec |-> 0, min |-> 0, hour |-> 0, mday |-> mday, mon |-> mon, year |-> y]
<1>3. /\ arg.tm = tm /\ arg.beyond = beyond /\ tm.mday = mday /\ tm.mon = mon /\ tm.year = y
      /\ mon <= 24 /\ mon - 13 <= Len(beyond) /\ y \in 2001 .. 2069
  BY <1>2 DEF MonthArg
<1>4. beyond \in Seq(Int)
  <2>1. Byte \subseteq Int
    BY DEF Byte
  <2> QED
    BY <1>2, <2>1, SeqLarger, Zenon
<1>5. MonthCall(beyond, y, mon, mday)
  BY <1>3, <1>4 DEF MonthCall
<1>6. MktimeReading(days_in_month \o beyond, tm) = DayNamed(y, mon, mday) * Day <=> ReadsRight(beyond, y, mon)
  BY <1>5, MonthOf
<1> HIDE DEF tm
<1> QED
  BY <1>1, <1>3, <1>6, Zenon DEF MonthsNormalised, DayNamed, ReadsRight

LEMMA CompositeIsRight == CalendarInv => CompositeEnds
<1> SUFFICES ASSUME CalendarInv, Returned("strftime(composite)") PROVE CompositeEnds
  BY DEF CompositeEnds
<1>1. fn = "strftime(composite)" /\ Result = Composite(arg.text, arg.left)
  BY DEF CalendarInv, Answered, Returned, Result
<1>2. arg \in [text : Seq(STRING), left : Seq(STRING)]
  BY <1>1, CallIs DEF CalendarInv
<1>3. Result = arg.text \o arg.left /\ arg.text \in Seq(STRING) /\ arg.left \in Seq(STRING)
  BY <1>1, <1>2 DEF Composite
<1>4. SubSeq(arg.text \o arg.left, 1, Len(arg.text)) = arg.text /\ (arg.text \o arg.left = arg.text <=> arg.left = <<>>)
  BY <1>3, CompositeOf
<1> QED
  BY <1>3, <1>4, Zenon DEF CompositeEnds

(* For every date of its range, gmtime, mktime, their round trip, the hour   *)
(* of the clock, strftime's fields and mktime's months are right but for the *)
(* days, hours and months that CalendarRight names, and wrong on those.      *)
THEOREM CalendarIsRight == CalendarSpec => []CalendarRight
<1>1. CalendarInit => CalendarInv
  BY DEF CalendarInit, CalendarInv, Answered
<1>2. CalendarInv /\ [CalendarNext]_callVars => CalendarInv'
  BY CalendarStep
<1>3. CalendarInv => CalendarRight
  BY GmtimeIsRight, MktimeIsRight, RoundTripIs, HoursAreRight, FieldsAreRight, MonthsAreRight, CompositeIsRight
     DEF CalendarRight
<1> QED
  BY <1>1, <1>2, <1>3, PTL DEF CalendarSpec

-----------------------------------------------------------------------------
(* The table of strings: lists that have each member of a set once.          *)
Lists(q, S) == q \in Seq(S) /\ IsInjective(q) /\ ToSet(q) = S

LEMMA MinIn ==
  ASSUME NEW S \in SUBSET Nat, S # {}
  PROVE  Min(S) \in S /\ \A y \in S : Min(S) <= y
<1>1. IsWellFoundedOn(Less, Nat)
  BY NatLessThanWellFounded DEF Less
<1>2. PICK k \in S : \A j \in S : ~(<<j, k>> \in Less)
  BY <1>1, WFMin, Zenon
<1>3. \A j \in S : k <= j
  <2>1. SUFFICES ASSUME NEW j \in S, ~(k <= j) PROVE FALSE
    OBVIOUS
  <2>2. j \in Nat /\ k \in Nat /\ j < k
    BY <2>1
  <2>3. <<j, k>> \in Less
    BY <2>2 DEF Less, OpToRel
  <2> QED
    BY <1>2, <2>3
<1> QED
  BY <1>3, Zenon DEF Min

LEMMA ListsIn ==
  ASSUME NEW q, NEW S, Lists(q, S)
  PROVE  /\ q \in Seq(S) /\ Len(q) \in Nat /\ DOMAIN q = 1 .. Len(q)
         /\ \A a \in 1 .. Len(q) : q[a] \in S
         /\ \A a, b \in 1 .. Len(q) : q[a] = q[b] => a = b
         /\ \A p \in S : \E a \in 1 .. Len(q) : q[a] = p
BY DEF Lists, IsInjective, ToSet

LEMMA ListsAre ==
  ASSUME NEW S, NEW q \in Seq(S),
         \A a, b \in 1 .. Len(q) : q[a] = q[b] => a = b,
         \A p \in S : \E a \in 1 .. Len(q) : q[a] = p
  PROVE  Lists(q, S)
<1>1. DOMAIN q = 1 .. Len(q) /\ Len(q) \in Nat
  OBVIOUS
<1>2. IsInjective(q)
  BY <1>1 DEF IsInjective
<1>3. ToSet(q) = S
  <2>1. \A a \in 1 .. Len(q) : q[a] \in S
    OBVIOUS
  <2> QED
    BY <1>1, <2>1 DEF ToSet
<1> QED
  BY <1>2, <1>3 DEF Lists

LEMMA Pushed ==
  ASSUME NEW q, NEW S, Lists(q, S), NEW p, p \notin S
  PROVE  Lists(<<p>> \o q, S \cup {p})
<1> DEFINE z == <<p>> \o q
           T == S \cup {p}
           n == Len(q)
<1>1. /\ q \in Seq(T) /\ n \in Nat /\ (\A a \in 1 .. n : q[a] \in S)
      /\ \A a, b \in 1 .. n : q[a] = q[b] => a = b
      /\ \A x \in S : \E a \in 1 .. n : q[a] = x
  BY ListsIn
<1>2. z \in Seq(T) /\ Len(z) = n + 1 /\ z[1] = p /\ \A a \in 2 .. n + 1 : z[a] = q[a - 1]
  BY <1>1
<1> HIDE DEF n
<1>3. ASSUME NEW a \in 2 .. n + 1 PROVE z[a] = q[a - 1] /\ z[a] # p /\ a - 1 \in 1 .. n
  BY <1>1, <1>2
<1> HIDE DEF z
<1>4. ASSUME NEW a \in 1 .. n + 1, NEW b \in 1 .. n + 1, z[a] = z[b] PROVE a = b
  <2>1. CASE a = 1
    <3>1. b = 1
      BY <1>1, <1>2, <1>3, <1>4, <2>1
    <3> QED
      BY <2>1, <3>1
  <2>2. CASE b = 1
    <3>1. a = 1
      BY <1>1, <1>2, <1>3, <1>4, <2>2
    <3> QED
      BY <2>2, <3>1
  <2>3. CASE a # 1 /\ b # 1
    <3>1. a \in 2 .. n + 1 /\ b \in 2 .. n + 1
      BY <1>1, <2>3
    <3>2. q[a - 1] = q[b - 1] /\ a - 1 \in 1 .. n /\ b - 1 \in 1 .. n
      BY <1>3, <1>4, <3>1
    <3>3. a - 1 = b - 1
      BY <1>1, <3>2
    <3> QED
      BY <3>3
  <2> QED
    BY <2>1, <2>2, <2>3
<1>5. ASSUME NEW x \in T PROVE \E a \in 1 .. n + 1 : z[a] = x
  <2>1. CASE x = p
    BY <1>1, <1>2, <2>1
  <2>2. CASE x \in S
    <3>1. PICK a \in 1 .. n : q[a] = x
      BY <1>1, <2>2
    <3>2. a + 1 \in 2 .. n + 1 /\ a + 1 \in 1 .. n + 1 /\ (a + 1) - 1 = a
      BY <1>1
    <3> QED
      BY <1>2, <3>1, <3>2
  <2> QED
    BY <2>1, <2>2
<1> HIDE DEF T
<1>6. Lists(z, T)
  BY <1>2, <1>4, <1>5, ListsAre
<1> QED
  BY <1>6 DEF z, T

LEMMA OnlyOne ==
  ASSUME NEW I \in SUBSET Nat, NEW k \in I, \A i \in I : i = k
  PROVE  Min(I) = k /\ I # {}
BY MinIn

(* Without the element at one place.                                         *)
LEMMA Without ==
  ASSUME NEW q, NEW S, Lists(q, S), NEW at \in 1 .. Len(q)
  PROVE  Lists(SubSeq(q, 1, at - 1) \o SubSeq(q, at + 1, Len(q)), S \ {q[at]})
<1> DEFINE n == Len(q)
           u == SubSeq(q, 1, at - 1)
           v == SubSeq(q, at + 1, n)
           T == S \ {q[at]}
           z == u \o v
<1>1. /\ q \in Seq(S) /\ n \in Nat /\ (\A a \in 1 .. n : q[a] \in S)
      /\ \A a, b \in 1 .. n : q[a] = q[b] => a = b
      /\ \A x \in S : \E a \in 1 .. n : q[a] = x
  BY ListsIn
<1>2. at \in 1 .. n /\ at \in Nat /\ at > 0 /\ at <= n
  BY <1>1
<1>3. \A a \in 1 .. n : a # at => q[a] \in T
  BY <1>1, <1>2
<1>4. u \in Seq(S) /\ Len(u) = at - 1 /\ \A a \in 1 .. at - 1 : u[a] = q[a]
  BY <1>1, <1>2
<1>5. v \in Seq(S) /\ Len(v) = n - at /\ \A a \in 1 .. n - at : v[a] = q[at + a]
  BY <1>1, <1>2
<1> HIDE DEF n, u, v
<1>6. z \in Seq(S) /\ Len(z) = n - 1
  <2>1. z \in Seq(S) /\ Len(z) = Len(u) + Len(v)
    BY <1>4, <1>5, ConcatProperties
  <2> QED
    BY <1>1, <1>2, <1>4, <1>5, <2>1
<1>7. \A a \in 1 .. at - 1 : z[a] = q[a] /\ a \in 1 .. n /\ a # at
  BY <1>1, <1>2, <1>4, <1>5
<1>8. \A a \in at .. n - 1 : z[a] = q[a + 1] /\ a + 1 \in 1 .. n /\ a + 1 # at
  <2>1. SUFFICES ASSUME NEW a \in at .. n - 1 PROVE z[a] = q[a + 1] /\ a + 1 \in 1 .. n /\ a + 1 # at
    OBVIOUS
  <2>2. /\ a - (at - 1) \in 1 .. n - at /\ at + (a - (at - 1)) = a + 1
        /\ a + 1 \in 1 .. n /\ a + 1 # at /\ a \in 1 .. n - 1 /\ ~(a <= at - 1)
    BY <1>1, <1>2
  <2>3. z[a] = v[a - (at - 1)]
    BY <1>4, <1>5, <1>6, <2>2
  <2> QED
    BY <1>5, <2>2, <2>3
<1> HIDE DEF z
<1> DEFINE from(a) == IF a < at THEN a ELSE a + 1
<1>9. ASSUME NEW a \in 1 .. n - 1 PROVE z[a] = q[from(a)] /\ from(a) \in 1 .. n /\ from(a) # at /\ a \in Int
  <2>1. CASE a < at
    <3>1. a \in 1 .. at - 1
      BY <1>2, <2>1
    <3> QED
      BY <1>7, <2>1, <3>1
  <2>2. CASE ~(a < at)
    <3>1. a \in at .. n - 1
      BY <1>1, <1>2, <2>2
    <3> QED
      BY <1>8, <2>2, <3>1
  <2> QED
    BY <2>1, <2>2
<1>10. ASSUME NEW a \in 1 .. n - 1, NEW b \in 1 .. n - 1, z[a] = z[b] PROVE a = b
  <2> HIDE DEF from
  <2>1. from(a) = from(b) /\ a \in Int /\ b \in Int
    BY <1>1, <1>9, <1>10, SMTT(30)
  <2> USE DEF from
  <2> QED
    BY <1>2, <2>1
<1>11. z \in Seq(T)
  <2>1. \A a \in 1 .. n - 1 : z[a] \in T
    BY <1>3, <1>9
  <2> HIDE DEF T
  <2> QED
    BY <1>6, <2>1
<1>12. ASSUME NEW x \in T PROVE \E a \in 1 .. n - 1 : z[a] = x
  <2>1. PICK b \in 1 .. n : q[b] = x
    BY <1>1
  <2>2. b # at
    BY <2>1, <1>12
  <2>3. CASE b < at
    <3>1. b \in 1 .. n - 1 /\ b \in 1 .. at - 1
      BY <1>1, <1>2, <2>3
    <3> QED
      BY <1>7, <2>1, <3>1
  <2>4. CASE b > at
    <3>1. b - 1 \in 1 .. n - 1 /\ b - 1 \in at .. n - 1 /\ (b - 1) + 1 = b
      BY <1>1, <1>2, <2>4
    <3> QED
      BY <1>8, <2>1, <3>1
  <2> QED
    BY <1>1, <1>2, <2>2, <2>3, <2>4
<1> HIDE DEF T
<1>13. Lists(z, T)
  BY <1>6, <1>10, <1>11, <1>12, ListsAre
<1> QED
  BY <1>13 DEF z, T, u, v, n

LEMMA Removed ==
  ASSUME NEW q, NEW S, Lists(q, S), NEW p \in S
  PROVE  Lists(RemoveFirst(q, p), S \ {p})
<1> DEFINE I == {i \in 1 .. Len(q) : q[i] = p}
<1>1. PICK k \in 1 .. Len(q) : q[k] = p
  BY ListsIn
<1>2. k \in I /\ I \in SUBSET Nat /\ \A i \in I : i = k
  BY <1>1, ListsIn
<1>3. Min(I) = k /\ I # {}
  <2> HIDE DEF I
  <2> QED
    BY <1>2, OnlyOne
<1>4. RemoveFirst(q, p) = SubSeq(q, 1, k - 1) \o SubSeq(q, k + 1, Len(q))
  BY <1>1, <1>3 DEF RemoveFirst, RemoveAt, SelectInSeq
<1> QED
  BY <1>1, <1>4, Without

(* The folds of luaS_resize, element by element.                             *)
Tables(D) == [D -> Seq(Pool)]
Pushing(s, N, h, p) == [h EXCEPT ![Hash[s.str[p]] % N] = <<p>> \o @]
Moving(s, N, h, q) == LET moved(g, p) == [g EXCEPT ![Hash[s.str[p]] % N] = <<p>> \o @] IN FoldLeft(moved, h, q)
Moved(s, N, h, i) == Moving(s, N, [h EXCEPT ![i] = <<>>], h[i])
Rehashed(s, N, h) == LET apart(g, i) == Moved(s, N, g, i) IN FoldLeft(apart, h, [i \in 1 .. Size(s) |-> i - 1])

LEMMA PushingType ==
  ASSUME NEW s, NEW N, NEW D, NEW h \in Tables(D), NEW p \in Pool
  PROVE  Pushing(s, N, h, p) \in Tables(D)
<1>1. \A i \in D : <<p>> \o h[i] \in Seq(Pool)
  <2>1. ASSUME NEW i \in D PROVE <<p>> \o h[i] \in Seq(Pool)
    <3>1. h[i] \in Seq(Pool) /\ <<p>> \in Seq(Pool)
      BY DEF Tables
    <3> QED
      BY <3>1, ConcatProperties
  <2> QED
    BY <2>1
<1> QED
  BY <1>1 DEF Pushing, Tables

LEMMA MovingFolds ==
  ASSUME NEW s, NEW N, NEW D, NEW V, V = Tables(D), NEW h \in V, NEW q \in Seq(Pool)
  PROVE  \E d : /\ d[0] = h /\ Moving(s, N, h, q) = d[Len(q)]
                /\ \A k \in 1 .. Len(q) : d[k] = Pushing(s, N, d[k - 1], q[k])
<1> DEFINE n == Len(q)
           F == [z \in (1 .. n) \X V |-> Pushing(s, N, z[2], q[z[1]])]
           Eq(it) == it = [x \in SUBSET DOMAIN q |->
                             IF x = {} THEN h ELSE Pushing(s, N, it[x \ {Max(x)}], q[Max(x)])]
           fold == CHOOSE it : Eq(it)
<1>1. \E it : Eq(it)
  <2>1. F \in [(1 .. n) \X V -> V]
    <3>1. ASSUME NEW z \in (1 .. n) \X V PROVE Pushing(s, N, z[2], q[z[1]]) \in V
      <4>1. z[2] \in V /\ q[z[1]] \in Pool
        OBVIOUS
      <4> QED
        BY <4>1, PushingType
    <3> QED
      BY <3>1
  <2>2. \A z \in (1 .. n) \X V : F[z] = Pushing(s, N, z[2], q[z[1]])
    OBVIOUS
  <2>3. n \in Nat /\ h \in V /\ DOMAIN q = 1 .. n
    OBVIOUS
  <2> HIDE DEF F, n
  <2>4. PICK it \in [SUBSET (1 .. n) -> V] :
          \A x \in SUBSET (1 .. n) :
            /\ it[x] = IF x = {} THEN h ELSE F[<<Max(x), it[x \ {Max(x)}]>>]
            /\ x # {} => Max(x) \in x
    BY <2>1, <2>3, FoldExists
  <2>5. ASSUME NEW x \in SUBSET (1 .. n)
        PROVE  it[x] = IF x = {} THEN h ELSE Pushing(s, N, it[x \ {Max(x)}], q[Max(x)])
    <3>1. CASE x # {}
      <4>1. <<Max(x), it[x \ {Max(x)}]>> \in (1 .. n) \X V
        BY <2>4, <3>1
      <4> QED
        BY <2>2, <2>4, <3>1, <4>1
    <3> QED
      BY <2>4, <3>1
  <2>6. Eq(it)
    BY <2>3, <2>5
  <2> QED
    BY <2>6
<1>2. Moving(s, N, h, q) = fold[DOMAIN q]
  BY DEF Moving, Pushing, FoldLeft, MapThenFoldSet
<1>3. Eq(fold)
  BY <1>1
<1> DEFINE d == [k \in 0 .. n |-> fold[1 .. k]]
<1>4. n \in Nat /\ DOMAIN q = 1 .. n /\ \A k \in 0 .. n : 1 .. k \in SUBSET DOMAIN q
  OBVIOUS
<1> HIDE DEF fold, n
<1>5. d[0] = h
  <2>1. 1 .. 0 = {} /\ 0 \in 0 .. n
    BY <1>4
  <2> QED
    BY <1>3, <1>4, <2>1
<1>6. ASSUME NEW k \in 1 .. n PROVE d[k] = Pushing(s, N, d[k - 1], q[k])
  <2>1. k \in 0 .. n /\ k - 1 \in 0 .. n
    BY <1>4
  <2>2. fold[1 .. k] = Pushing(s, N, fold[1 .. k - 1], q[k])
    <3>1. k \in Nat /\ k > 0
      BY <1>4
    <3>2. Max(1 .. k) = k /\ (1 .. k) \ {k} = 1 .. k - 1 /\ 1 .. k # {}
      BY <3>1, Interval
    <3>3. 1 .. k \in SUBSET DOMAIN q
      BY <1>4, <2>1
    <3> QED
      BY <1>3, <3>2, <3>3
  <2> QED
    BY <2>1, <2>2
<1>7. Moving(s, N, h, q) = d[n]
  BY <1>2, <1>4
<1> HIDE DEF d
<1> QED
  BY <1>5, <1>6, <1>7 DEF n

LEMMA MovingType ==
  ASSUME NEW s, NEW N, NEW D, NEW h \in Tables(D), NEW q \in Seq(Pool)
  PROVE  Moving(s, N, h, q) \in Tables(D)
<1> DEFINE V == Tables(D)
           n == Len(q)
<1>1. h \in V /\ n \in Nat /\ n \in 0 .. n /\ 0 \in 0 .. n /\ \A k \in 1 .. n : q[k] \in Pool
  OBVIOUS
<1>2. PICK d : /\ d[0] = h /\ Moving(s, N, h, q) = d[n]
               /\ \A k \in 1 .. n : d[k] = Pushing(s, N, d[k - 1], q[k])
  BY MovingFolds
<1> DEFINE S == {k \in 0 .. n : d[k] \in V}
<1> HIDE DEF n
<1>3. 0 \in S
  BY <1>1, <1>2
<1>4. ASSUME NEW k \in 0 .. n - 1, k \in S PROVE k + 1 \in S
  <2>1. k + 1 \in 1 .. n /\ k + 1 \in 0 .. n /\ (k + 1) - 1 = k
    BY <1>1
  <2>2. d[k + 1] = Pushing(s, N, d[k], q[k + 1]) /\ d[k] \in V /\ q[k + 1] \in Pool
    BY <1>1, <1>2, <1>4, <2>1
  <2>3. d[k + 1] \in V
    BY <2>2, PushingType
  <2> QED
    BY <2>1, <2>3
<1> HIDE DEF S
<1>5. 0 .. n \subseteq S
  BY <1>1, <1>3, <1>4, Induct
<1> USE DEF S
<1> QED
  BY <1>1, <1>2, <1>5

LEMMA MovedType ==
  ASSUME NEW s, NEW N, NEW D, NEW h \in Tables(D), NEW i \in D
  PROVE  Moved(s, N, h, i) \in Tables(D)
<1>1. [h EXCEPT ![i] = <<>>] \in Tables(D) /\ h[i] \in Seq(Pool)
  BY DEF Tables
<1> QED
  BY <1>1, MovingType DEF Moved

LEMMA RehashedFolds ==
  ASSUME NEW s, NEW N, NEW M \in Nat, NEW V, V = Tables(0 .. M - 1), NEW h \in V,
         Size(s) \in Nat, Size(s) <= M
  PROVE  \E d : /\ d[0] = h /\ Rehashed(s, N, h) = d[Size(s)]
                /\ \A k \in 1 .. Size(s) : d[k] = Moved(s, N, d[k - 1], k - 1)
<1> DEFINE idx == [i \in 1 .. Size(s) |-> i - 1]
<1> DEFINE n == Size(s)
           F == [z \in (1 .. n) \X V |-> Moved(s, N, z[2], idx[z[1]])]
           Eq(it) == it = [x \in SUBSET DOMAIN idx |->
                             IF x = {} THEN h ELSE Moved(s, N, it[x \ {Max(x)}], idx[Max(x)])]
           fold == CHOOSE it : Eq(it)
<1>1. \E it : Eq(it)
  <2>1. F \in [(1 .. n) \X V -> V]
    <3>1. ASSUME NEW z \in (1 .. n) \X V PROVE Moved(s, N, z[2], idx[z[1]]) \in V
      <4>1. z[2] \in V /\ idx[z[1]] \in 0 .. M - 1
        OBVIOUS
      <4> QED
        BY <4>1, MovedType
    <3> QED
      BY <3>1
  <2>2. \A z \in (1 .. n) \X V : F[z] = Moved(s, N, z[2], idx[z[1]])
    OBVIOUS
  <2>3. n \in Nat /\ h \in V /\ DOMAIN idx = 1 .. n
    OBVIOUS
  <2> HIDE DEF F, n
  <2>4. PICK it \in [SUBSET (1 .. n) -> V] :
          \A x \in SUBSET (1 .. n) :
            /\ it[x] = IF x = {} THEN h ELSE F[<<Max(x), it[x \ {Max(x)}]>>]
            /\ x # {} => Max(x) \in x
    BY <2>1, <2>3, FoldExists
  <2>5. ASSUME NEW x \in SUBSET (1 .. n)
        PROVE  it[x] = IF x = {} THEN h ELSE Moved(s, N, it[x \ {Max(x)}], idx[Max(x)])
    <3>1. CASE x # {}
      <4>1. <<Max(x), it[x \ {Max(x)}]>> \in (1 .. n) \X V
        BY <2>4, <3>1
      <4> QED
        BY <2>2, <2>4, <3>1, <4>1
    <3> QED
      BY <2>4, <3>1
  <2>6. Eq(it)
    BY <2>3, <2>5
  <2> QED
    BY <2>6
<1>2. Rehashed(s, N, h) = fold[DOMAIN idx]
  BY DEF Rehashed, FoldLeft, MapThenFoldSet
<1>3. Eq(fold)
  BY <1>1
<1> DEFINE d == [k \in 0 .. n |-> fold[1 .. k]]
<1>4. n \in Nat /\ DOMAIN idx = 1 .. n /\ \A k \in 0 .. n : 1 .. k \in SUBSET DOMAIN idx
  OBVIOUS
<1> HIDE DEF fold, n
<1>5. d[0] = h
  <2>1. 1 .. 0 = {} /\ 0 \in 0 .. n
    BY <1>4
  <2> QED
    BY <1>3, <1>4, <2>1
<1>6. ASSUME NEW k \in 1 .. n PROVE d[k] = Moved(s, N, d[k - 1], idx[k])
  <2>1. k \in 0 .. n /\ k - 1 \in 0 .. n
    BY <1>4
  <2>2. fold[1 .. k] = Moved(s, N, fold[1 .. k - 1], idx[k])
    <3>1. k \in Nat /\ k > 0
      BY <1>4
    <3>2. Max(1 .. k) = k /\ (1 .. k) \ {k} = 1 .. k - 1 /\ 1 .. k # {}
      BY <3>1, Interval
    <3>3. 1 .. k \in SUBSET DOMAIN idx
      BY <1>4, <2>1
    <3> QED
      BY <1>3, <3>2, <3>3
  <2> QED
    BY <2>1, <2>2
<1>7. Rehashed(s, N, h) = d[n]
  BY <1>2, <1>4
<1> HIDE DEF d
<1> QED
  BY <1>5, <1>6, <1>7 DEF n

LEMMA ResizeIs ==
  ASSUME NEW s, NEW N
  PROVE  luaS_resize(s, N) =
           [s EXCEPT !.hash = [i \in 0 .. N - 1 |->
              Rehashed(s, N, [k \in 0 .. Max({Size(s), N}) - 1 |-> IF k < Size(s) THEN s.hash[k] ELSE <<>>])[i]]]
BY DEF luaS_resize, Rehashed, Moved, Moving

(* Each string of T is in the list of its place, loc[p].                     *)
Holds(h, N, T, loc) ==
  /\ h \in Tables(0 .. N - 1)
  /\ \A i \in 0 .. N - 1 : Lists(h[i], {p \in T : loc[p] = i})

LEMMA TableChanged ==
  ASSUME NEW D, NEW h \in Tables(D), NEW i \in D, NEW q \in Seq(Pool)
  PROVE  /\ [h EXCEPT ![i] = q] \in Tables(D)
         /\ [h EXCEPT ![i] = q][i] = q
         /\ \A k \in D : k # i => [h EXCEPT ![i] = q][k] = h[k]
BY DEF Tables

LEMMA HoldsElse ==
  ASSUME NEW N, NEW h, NEW T, NEW loc, Holds(h, N, T, loc),
         NEW U, NEW new, \A p : p \in U <=> p \in T, \A p \in T : new[p] = loc[p]
  PROVE  Holds(h, N, U, new)
<1>1. ASSUME NEW i \in 0 .. N - 1 PROVE {p \in U : new[p] = i} = {p \in T : loc[p] = i}
  OBVIOUS
<1> QED
  BY <1>1 DEF Holds

LEMMA HoldsPushed ==
  ASSUME NEW N, NEW h, NEW T, NEW loc, Holds(h, N, T, loc),
         NEW p \in Pool, p \notin T, loc[p] \in 0 .. N - 1
  PROVE  Holds([h EXCEPT ![loc[p]] = <<p>> \o @], N, T \cup {p}, loc)
<1> DEFINE D == 0 .. N - 1
           k == loc[p]
           Those(U, i) == {x \in U : loc[x] = i}
           q == <<p>> \o h[k]
           g == [h EXCEPT ![k] = q]
<1>1. h \in Tables(D) /\ k \in D /\ \A i \in D : Lists(h[i], Those(T, i))
  BY DEF Holds
<1> HIDE DEF D
<1>2. Lists(q, Those(T, k) \cup {p})
  <2> HIDE DEF Those
  <2>1. p \notin Those(T, k) /\ Lists(h[k], Those(T, k))
    BY <1>1 DEF Those
  <2> QED
    BY <2>1, Pushed
<1>3. Those(T \cup {p}, k) = Those(T, k) \cup {p} /\ \A i \in D : i # k => Those(T \cup {p}, i) = Those(T, i)
  OBVIOUS
<1>4. q \in Seq(Pool)
  <2>1. h[k] \in Seq(Pool) /\ <<p>> \in Seq(Pool)
    BY <1>1 DEF Tables
  <2> QED
    BY <2>1, ConcatProperties
<1> HIDE DEF q
<1>5. g \in Tables(D) /\ g[k] = q /\ \A i \in D : i # k => g[i] = h[i]
  BY <1>1, <1>4, TableChanged
<1> HIDE DEF g, Those
<1>6. \A i \in D : Lists(g[i], Those(T \cup {p}, i))
  BY <1>1, <1>2, <1>3, <1>5
<1> USE DEF Those, D
<1>7. Holds(g, N, T \cup {p}, loc)
  BY <1>5, <1>6 DEF Holds
<1> QED
  BY <1>7 DEF g, q

LEMMA HoldsRemoved ==
  ASSUME NEW N, NEW h, NEW T, NEW loc, Holds(h, N, T, loc),
         NEW p \in T, loc[p] \in 0 .. N - 1, T \subseteq Pool
  PROVE  Holds([h EXCEPT ![loc[p]] = RemoveFirst(@, p)], N, T \ {p}, loc)
<1> DEFINE D == 0 .. N - 1
           k == loc[p]
           Those(U, i) == {x \in U : loc[x] = i}
           q == RemoveFirst(h[k], p)
           g == [h EXCEPT ![k] = q]
<1>1. h \in Tables(D) /\ k \in D /\ \A i \in D : Lists(h[i], Those(T, i))
  BY DEF Holds
<1> HIDE DEF D
<1>2. Lists(q, Those(T, k) \ {p})
  <2>1. p \in Those(T, k) /\ Lists(h[k], Those(T, k))
    BY <1>1
  <2> HIDE DEF Those
  <2> QED
    BY <2>1, Removed
<1>3. Those(T \ {p}, k) = Those(T, k) \ {p} /\ \A i \in D : i # k => Those(T \ {p}, i) = Those(T, i)
  OBVIOUS
<1> HIDE DEF q
<1>4. q \in Seq(Pool)
  <2>1. Those(T, k) \ {p} \subseteq Pool /\ q \in Seq(Those(T, k) \ {p})
    BY <1>2 DEF Lists
  <2> HIDE DEF Those
  <2> QED
    BY <2>1
<1>5. g \in Tables(D) /\ g[k] = q /\ \A i \in D : i # k => g[i] = h[i]
  BY <1>1, <1>4, TableChanged
<1> HIDE DEF g, Those
<1>6. \A i \in D : Lists(g[i], Those(T \ {p}, i))
  BY <1>1, <1>2, <1>3, <1>5
<1> USE DEF Those, D
<1>7. Holds(g, N, T \ {p}, loc)
  BY <1>5, <1>6 DEF Holds
<1> QED
  BY <1>7 DEF g, q

(* The inner loop: the list at i is taken apart.                             *)
PlaceOf(s, N) == [p \in DOMAIN s.str |-> Hash[s.str[p]] % N]

LEMMA MovedHolds ==
  ASSUME NEW s, NEW N, NEW M \in Nat, NEW h, NEW T \in SUBSET Pool, NEW loc, Holds(h, M, T, loc),
         NEW i \in 0 .. M - 1, NEW new, \A p \in T : loc[p] # i => new[p] = loc[p],
         \A p \in T : loc[p] = i => new[p] = Hash[s.str[p]] % N /\ new[p] \in 0 .. M - 1
  PROVE  Holds(Moved(s, N, h, i), M, T, new)
<1> DEFINE D == 0 .. M - 1
           q == h[i]
           n == Len(q)
           g == [h EXCEPT ![i] = <<>>]
           List == {p \in T : loc[p] = i}
           Rest == {p \in T : loc[p] # i}
           Upto(k) == {p \in T : loc[p] # i \/ \E a \in 1 .. k : q[a] = p}
<1>1. h \in Tables(D) /\ i \in D /\ \A k \in D : Lists(h[k], {p \in T : loc[p] = k})
  BY DEF Holds
<1> HIDE DEF D
<1>2. /\ q \in Seq(Pool) /\ n \in Nat /\ (\A a \in 1 .. n : q[a] \in List)
      /\ \A a, b \in 1 .. n : q[a] = q[b] => a = b
      /\ \A p \in List : \E a \in 1 .. n : q[a] = p
  <2>1. Lists(q, List)
    BY <1>1
  <2>2. q \in Seq(Pool)
    BY <1>1 DEF Tables
  <2> HIDE DEF q, List
  <2> QED
    BY <2>1, <2>2, ListsIn
<1>3. PICK d : /\ d[0] = g /\ Moved(s, N, h, i) = d[n]
               /\ \A k \in 1 .. n : d[k] = Pushing(s, N, d[k - 1], q[k])
  <2>1. g \in Tables(D)
    BY <1>1, TableChanged, EmptySeq
  <2> HIDE DEF g, q
  <2>2. \E d : /\ d[0] = g /\ Moving(s, N, g, q) = d[Len(q)]
               /\ \A k \in 1 .. Len(q) : d[k] = Pushing(s, N, d[k - 1], q[k])
    BY <1>2, <2>1, MovingFolds
  <2>3. Moved(s, N, h, i) = Moving(s, N, g, q)
    BY DEF Moved, g, q
  <2> QED
    BY <2>2, <2>3
<1> DEFINE S == {k \in 0 .. n : Holds(d[k], M, Upto(k), new)}
<1> HIDE DEF n
<1>4. 0 \in S
  <2>0. <<>> \in Seq(Pool)
    OBVIOUS
  <2>1. g \in Tables(D) /\ g[i] = <<>> /\ \A k \in D : k # i => g[k] = h[k]
    BY <1>1, <2>0 DEF Tables
  <2>2. ASSUME NEW k \in D PROVE Lists(g[k], {p \in Upto(0) : new[p] = k})
    <3>1. CASE k = i
      <4>1. {p \in Upto(0) : new[p] = k} = {p \in Upto(0) : new[p] = i /\ loc[p] # i}
        BY <3>1
      <4>2. {p \in Upto(0) : new[p] = k} = {}
        BY <3>1, <4>1
      <4>3. Lists(<<>>, {})
        BY DEF Lists, IsInjective, ToSet
      <4> QED
        BY <2>1, <3>1, <4>2, <4>3
    <3>2. CASE k # i
      <4>1. {p \in Upto(0) : new[p] = k} = {p \in T : loc[p] = k}
        BY <3>2
      <4> QED
        BY <1>1, <2>1, <3>2, <4>1
    <3> QED
      BY <3>1, <3>2
  <2> HIDE DEF Upto, g
  <2>3. Holds(g, M, Upto(0), new)
    BY <2>1, <2>2 DEF Holds, D
  <2> QED
    BY <1>2, <1>3, <2>3
<1>5. ASSUME NEW k \in 0 .. n - 1, k \in S PROVE k + 1 \in S
  <2> DEFINE x == q[k + 1]
  <2>1. k + 1 \in 1 .. n /\ k + 1 \in 0 .. n /\ (k + 1) - 1 = k /\ k \in 0 .. n
    BY <1>2
  <2>2. d[k + 1] = Pushing(s, N, d[k], x) /\ Holds(d[k], M, Upto(k), new)
    BY <1>3, <1>5, <2>1
  <2>3. x \in List /\ x \in Pool /\ x \in T
    BY <1>2, <2>1
  <2>4. new[x] = Hash[s.str[x]] % N /\ new[x] \in 0 .. M - 1
    BY <2>3
  <2>5. x \notin Upto(k)
    <3>1. ASSUME NEW a \in 1 .. k PROVE q[a] # x
      <4>1. a \in 1 .. n /\ a # k + 1
        BY <1>2
      <4> QED
        BY <1>2, <2>1, <4>1
    <3> QED
      BY <2>3, <3>1
  <2>6. \A p : p \in Upto(k + 1) <=> p \in Upto(k) \cup {x}
    <3>1. \A a : a \in 1 .. k + 1 <=> a \in 1 .. k \/ a = k + 1
      BY <2>1
    <3> QED
      BY <2>3, <3>1
  <2> HIDE DEF x, Upto
  <2>7. Holds([d[k] EXCEPT ![new[x]] = <<x>> \o @], M, Upto(k) \cup {x}, new)
    BY <2>2, <2>3, <2>4, <2>5, HoldsPushed
  <2>8. Holds(d[k + 1], M, Upto(k) \cup {x}, new)
    BY <2>2, <2>4, <2>7 DEF Pushing
  <2>9. Holds(d[k + 1], M, Upto(k + 1), new)
    BY <2>6, <2>8, HoldsElse
  <2> QED
    BY <2>1, <2>9
<1> HIDE DEF S
<1>6. n \in 0 .. n /\ n \in S
  <2>1. 0 .. n \subseteq S
    BY <1>2, <1>4, <1>5, Induct
  <2> QED
    BY <1>2, <2>1
<1> USE DEF S
<1>7. \A p : p \in T <=> p \in Upto(n)
  BY <1>2
<1>8. Holds(d[n], M, Upto(n), new)
  BY <1>6
<1> HIDE DEF S, Upto
<1>9. Holds(d[n], M, T, new)
  BY <1>7, <1>8, HoldsElse
<1> QED
  BY <1>3, <1>9

LEMMA ModIn ==
  ASSUME NEW a \in Int, NEW n \in Nat \ {0}
  PROVE  a % n \in 0 .. n - 1
OBVIOUS

LEMMA MaxOfTwo ==
  ASSUME NEW a \in Nat, NEW b \in Nat
  PROVE  Max({a, b}) \in Nat /\ Max({a, b}) >= a /\ Max({a, b}) >= b
<1>1. CASE a >= b
  <2>1. \A y \in {a, b} : a >= y
    BY <1>1
  <2>2. a \in {a, b} /\ {a, b} \in SUBSET Int
    OBVIOUS
  <2>3. Max({a, b}) = a
    BY <2>1, <2>2, MaxIs
  <2> QED
    BY <1>1, <2>3
<1>2. CASE b >= a
  <2>1. \A y \in {a, b} : b >= y
    BY <1>2
  <2>2. b \in {a, b} /\ {a, b} \in SUBSET Int
    OBVIOUS
  <2>3. Max({a, b}) = b
    BY <2>1, <2>2, MaxIs
  <2> QED
    BY <1>2, <2>3
<1> QED
  BY <1>1, <1>2

(* The places of the strings whose lists up to i were taken apart.           *)
Mixed(T, old, new, i) == [p \in T |-> IF old[p] < i THEN new[p] ELSE old[p]]

LEMMA MixedStep ==
  ASSUME NEW T, NEW old, NEW new, NEW k \in Nat, \A p \in T : old[p] \in Nat
  PROVE  /\ \A p \in T : Mixed(T, old, new, k)[p] # k => Mixed(T, old, new, k + 1)[p] = Mixed(T, old, new, k)[p]
         /\ \A p \in T : Mixed(T, old, new, k)[p] = k => Mixed(T, old, new, k + 1)[p] = new[p]
<1>1. SUFFICES ASSUME NEW p \in T
      PROVE  /\ Mixed(T, old, new, k)[p] # k => Mixed(T, old, new, k + 1)[p] = Mixed(T, old, new, k)[p]
             /\ Mixed(T, old, new, k)[p] = k => Mixed(T, old, new, k + 1)[p] = new[p]
  OBVIOUS
<1>2. /\ Mixed(T, old, new, k)[p] = IF old[p] < k THEN new[p] ELSE old[p]
      /\ Mixed(T, old, new, k + 1)[p] = IF old[p] < k + 1 THEN new[p] ELSE old[p]
  BY DEF Mixed
<1>3. old[p] \in Nat /\ (old[p] < k \/ old[p] = k \/ old[p] > k)
  OBVIOUS
<1> QED
  BY <1>2, <1>3

Grow(s, M) == [k \in 0 .. M - 1 |-> IF k < Size(s) THEN s.hash[k] ELSE <<>>]

(* A string that was moved to a list that is still to come is moved there     *)
(* again, so that taking the lists apart in place loses none.                 *)
LEMMA ResizedHolds ==
  ASSUME NEW s, NEW N \in Nat \ {0}, NEW S, S = Size(s), S \in Nat \ {0},
         NEW T \in SUBSET Pool, T = DOMAIN s.str, \A p \in T : Hash[s.str[p]] \in Nat,
         Holds(s.hash, S, T, PlaceOf(s, S))
  PROVE  Holds([i \in 0 .. N - 1 |-> Rehashed(s, N, Grow(s, Max({S, N})))[i]], N, T, PlaceOf(s, N))
<1> DEFINE M == Max({S, N})
           old == PlaceOf(s, S)
           new == PlaceOf(s, N)
           h == Grow(s, M)
           Mix(k) == Mixed(T, old, new, k)
<1>1. M \in Nat /\ M >= S /\ M >= N
  BY MaxOfTwo
<1> HIDE DEF M
<1>2. \A p \in T : /\ old[p] \in 0 .. S - 1 /\ new[p] \in 0 .. N - 1
                   /\ new[p] = Hash[s.str[p]] % N
  <2>1. SUFFICES ASSUME NEW p \in T
        PROVE old[p] \in 0 .. S - 1 /\ new[p] \in 0 .. N - 1 /\ new[p] = Hash[s.str[p]] % N
    OBVIOUS
  <2> DEFINE a == Hash[s.str[p]]
  <2>2. a \in Int /\ old[p] = a % S /\ new[p] = a % N
    BY DEF PlaceOf
  <2> HIDE DEF a, old, new
  <2>3. a % S \in 0 .. S - 1 /\ a % N \in 0 .. N - 1
    BY <2>2, ModIn
  <2> QED
    BY <2>2, <2>3 DEF a
<1> HIDE DEF old, new
<1>3. Holds(h, M, T, Mix(0))
  <2>1. s.hash \in Tables(0 .. S - 1) /\ \A i \in 0 .. S - 1 : Lists(s.hash[i], {p \in T : old[p] = i})
    BY DEF Holds, old
  <2>2. \A p \in T : Mix(0)[p] = old[p]
    BY <1>2 DEF Mixed
  <2>3. ASSUME NEW i \in 0 .. M - 1
        PROVE  h[i] \in Seq(Pool) /\ Lists(h[i], {p \in T : Mix(0)[p] = i})
    <3>1. CASE i < S
      <4>1. i \in 0 .. S - 1 /\ h[i] = s.hash[i]
        BY <1>1, <3>1 DEF Grow
      <4>2. {p \in T : Mix(0)[p] = i} = {p \in T : old[p] = i}
        BY <2>2
      <4>3. s.hash[i] \in Seq(Pool)
        BY <2>1, <4>1 DEF Tables
      <4> HIDE DEF h, Mix
      <4> QED
        BY <2>1, <4>1, <4>2, <4>3
    <3>2. CASE ~(i < S)
      <4>1. h[i] = <<>>
        BY <1>1, <3>2 DEF Grow
      <4>2. {p \in T : Mix(0)[p] = i} = {}
        BY <1>1, <1>2, <2>2, <3>2
      <4>3. Lists(<<>>, {}) /\ <<>> \in Seq(Pool)
        BY DEF Lists, IsInjective, ToSet
      <4> HIDE DEF h, Mix
      <4> QED
        BY <4>1, <4>2, <4>3
    <3> QED
      BY <3>1, <3>2
  <2>4. h \in Tables(0 .. M - 1)
    BY <2>3 DEF Tables, Grow
  <2> HIDE DEF h, Mix
  <2> QED
    BY <2>3, <2>4 DEF Holds
<1>4. PICK d : /\ d[0] = h /\ Rehashed(s, N, h) = d[S]
               /\ \A k \in 1 .. S : d[k] = Moved(s, N, d[k - 1], k - 1)
  <2>1. h \in Tables(0 .. M - 1)
    BY <1>3 DEF Holds
  <2> HIDE DEF h
  <2> QED
    BY <1>1, <2>1, RehashedFolds
<1> DEFINE K == {k \in 0 .. S : Holds(d[k], M, T, Mix(k))}
<1>5. 0 \in K
  BY <1>3, <1>4
<1>6. ASSUME NEW k \in 0 .. S - 1, k \in K PROVE k + 1 \in K
  <2>1. k + 1 \in 1 .. S /\ k + 1 \in 0 .. S /\ (k + 1) - 1 = k /\ k \in 0 .. M - 1 /\ k \in Nat
    BY <1>1
  <2>2. d[k + 1] = Moved(s, N, d[k], k) /\ Holds(d[k], M, T, Mix(k))
    BY <1>4, <1>6, <2>1
  <2>3. /\ \A p \in T : Mix(k)[p] # k => Mix(k + 1)[p] = Mix(k)[p]
        /\ \A p \in T : Mix(k)[p] = k => Mix(k + 1)[p] = new[p]
    <3>1. \A p \in T : old[p] \in Nat
      BY <1>2
    <3> QED
      BY <2>1, <3>1, MixedStep
  <2> HIDE DEF Mix
  <2>4. \A p \in T : Mix(k)[p] = k => Mix(k + 1)[p] = Hash[s.str[p]] % N /\ Mix(k + 1)[p] \in 0 .. M - 1
    BY <1>1, <1>2, <2>3
  <2>5. Holds(Moved(s, N, d[k], k), M, T, Mix(k + 1))
    BY <1>1, <2>1, <2>2, <2>3, <2>4, MovedHolds
  <2> QED
    BY <2>1, <2>2, <2>5
<1> HIDE DEF K
<1>7. S \in K
  <2>1. 0 .. S \subseteq K /\ S \in 0 .. S
    BY <1>5, <1>6, Induct
  <2> QED
    BY <2>1
<1> USE DEF K
<1>8. \A p \in T : new[p] = Mix(S)[p]
  BY <1>2 DEF Mixed
<1> HIDE DEF Mix
<1>9. Holds(d[S], M, T, new)
  <2>1. \A p : p \in T <=> p \in T
    OBVIOUS
  <2>2. Holds(d[S], M, T, Mix(S))
    BY <1>7
  <2> QED
    BY <1>8, <2>1, <2>2, HoldsElse
<1> DEFINE g == [i \in 0 .. N - 1 |-> Rehashed(s, N, h)[i]]
<1>10. \A i \in 0 .. N - 1 : i \in 0 .. M - 1 /\ g[i] = d[S][i]
  BY <1>1, <1>4
<1>11. g \in Tables(0 .. N - 1)
  BY <1>9, <1>10 DEF Holds, Tables
<1>12. Holds(g, N, T, new)
  <2> HIDE DEF g
  <2> QED
    BY <1>9, <1>10, <1>11 DEF Holds
<1> QED
  BY <1>12 DEF new, M

(* What the fields of the state are, loosely: a fold needs a set to stay in.  *)
Partial(V) == UNION {[X -> V] : X \in SUBSET Pool}
AllTables == UNION {Tables(0 .. N - 1) : N \in Nat}
StringState ==
  [hash : AllTables, nuse : Int, str : Partial(Content),
   color : Partial({"white", "black", "old"}), held : Partial(Content), state : {"pause", "propagate", "sweep"},
   unswept : SUBSET Pool, cache : [CacheSets -> [1 .. 2 -> Pool]], memerrmsg : Pool]

LEMMA PartialIn ==
  ASSUME NEW V, NEW f \in Partial(V)
  PROVE  /\ DOMAIN f \in SUBSET Pool /\ \A p \in DOMAIN f : f[p] \in V
         /\ f = [p \in DOMAIN f |-> f[p]]
<1>1. PICK X \in SUBSET Pool : f \in [X -> V]
  BY DEF Partial
<1> QED
  BY <1>1

LEMMA PartialIs ==
  ASSUME NEW V, NEW X \in SUBSET Pool, NEW f \in [X -> V]
  PROVE  f \in Partial(V)
BY DEF Partial

Extended(V, f, p, c, g) ==
  /\ g \in Partial(V) /\ DOMAIN g = DOMAIN f \cup {p} /\ g[p] = c
  /\ \A q \in DOMAIN f : q # p => g[q] = f[q]

LEMMA PartialWith ==
  ASSUME NEW V, NEW f \in Partial(V), NEW p \in Pool, NEW c \in V
  PROVE  Extended(V, f, p, c, With(f, p, c))
<1> DEFINE g == With(f, p, c)
<1>1. /\ DOMAIN g = DOMAIN f \cup {p} /\ g[p] = c /\ \A q \in DOMAIN f : q # p => g[q] = f[q]
  BY DEF With
<1>2. DOMAIN f \in SUBSET Pool /\ \A q \in DOMAIN f : f[q] \in V
  BY PartialIn
<1>3. DOMAIN f \cup {p} \in SUBSET Pool /\ g \in [DOMAIN f \cup {p} -> V]
  BY <1>2 DEF With
<1> HIDE DEF g
<1>4. g \in Partial(V)
  BY <1>3, PartialIs
<1> QED
  BY <1>1, <1>4 DEF g, Extended

LEMMA PartialRestrict ==
  ASSUME NEW V, NEW f \in Partial(V), NEW S
  PROVE  /\ Restrict(f, DOMAIN f \ S) \in Partial(V) /\ DOMAIN Restrict(f, DOMAIN f \ S) = DOMAIN f \ S
         /\ \A q \in DOMAIN f \ S : Restrict(f, DOMAIN f \ S)[q] = f[q]
<1> DEFINE g == Restrict(f, DOMAIN f \ S)
<1>1. DOMAIN g = DOMAIN f \ S /\ \A q \in DOMAIN f \ S : g[q] = f[q]
  BY DEF Restrict
<1>2. DOMAIN f \in SUBSET Pool /\ \A q \in DOMAIN f : f[q] \in V
  BY PartialIn
<1>3. DOMAIN f \ S \in SUBSET Pool /\ g \in [DOMAIN f \ S -> V]
  BY <1>2 DEF Restrict
<1> HIDE DEF g
<1>4. g \in Partial(V)
  BY <1>3, PartialIs
<1> QED
  BY <1>1, <1>4 DEF g

LEMMA PartialMap ==
  ASSUME NEW V, NEW f \in Partial(V), NEW g, DOMAIN g = DOMAIN f, g = [p \in DOMAIN g |-> g[p]],
         \A p \in DOMAIN f : g[p] \in V
  PROVE  g \in Partial(V)
<1>1. DOMAIN f \in SUBSET Pool
  BY PartialIn
<1>2. g \in [DOMAIN f -> V]
  OBVIOUS
<1> QED
  BY <1>1, <1>2, PartialIs

LEMMA RemoveFirstType ==
  ASSUME NEW q \in Seq(Pool), NEW p
  PROVE  RemoveFirst(q, p) \in Seq(Pool)
<1> DEFINE I == {i \in 1 .. Len(q) : q[i] = p}
           at == Min(I)
<1>1. CASE \E i \in 1 .. Len(q) : q[i] = p
  <2>1. I # {} /\ I \in SUBSET Nat
    BY <1>1
  <2>2. at \in I
    <3> HIDE DEF I
    <3> QED
      BY <2>1, MinIn
  <2>3. RemoveFirst(q, p) = SubSeq(q, 1, at - 1) \o SubSeq(q, at + 1, Len(q))
    BY <1>1, <2>1 DEF RemoveFirst, RemoveAt, SelectInSeq
  <2>4. at \in 1 .. Len(q)
    BY <2>2
  <2> HIDE DEF at
  <2>5. SubSeq(q, 1, at - 1) \in Seq(Pool) /\ SubSeq(q, at + 1, Len(q)) \in Seq(Pool)
    BY <2>4
  <2> QED
    BY <2>3, <2>5, ConcatProperties
<1>2. CASE ~(\E i \in 1 .. Len(q) : q[i] = p)
  BY <1>2 DEF RemoveFirst
<1> QED
  BY <1>1, <1>2

LEMMA TableSize ==
  ASSUME NEW N \in Nat, NEW h \in Tables(0 .. N - 1)
  PROVE  DOMAIN h = 0 .. N - 1 /\ Cardinality(DOMAIN h) = N
<1>1. DOMAIN h = 0 .. N - 1
  BY DEF Tables
<1>2. Cardinality(0 .. N - 1) = N
  <2>1. Cardinality(0 .. N - 1) = IF 0 > N - 1 THEN 0 ELSE (N - 1) - 0 + 1
    BY FS_Interval
  <2> QED
    BY <2>1
<1> QED
  BY <1>1, <1>2

LEMMA SweptType ==
  ASSUME NEW s \in StringState, NEW p \in Pool
  PROVE  Swept(s, p) \in StringState
<1>1. CASE s.color[p] = "old"
  <2> DEFINE k == lmod(s, s.str[p])
             h == [s.hash EXCEPT ![k] = RemoveFirst(@, p)]
             t == Swept(s, p)
  <2>1. PICK N \in Nat : s.hash \in Tables(0 .. N - 1)
    BY DEF StringState, AllTables
  <2>2. h \in Tables(0 .. N - 1)
    <3> HIDE DEF k
    <3>1. CASE k \in 0 .. N - 1
      <4>1. s.hash[k] \in Seq(Pool)
        BY <2>1, <3>1 DEF Tables
      <4>2. RemoveFirst(s.hash[k], p) \in Seq(Pool)
        BY <4>1, RemoveFirstType
      <4> QED
        BY <2>1, <3>1, <4>2 DEF Tables
    <3>2. CASE k \notin 0 .. N - 1
      BY <2>1, <3>2 DEF Tables
    <3> QED
      BY <3>1, <3>2
  <2>3. h \in AllTables
    BY <2>2 DEF AllTables
  <2> DEFINE str == Restrict(s.str, DOMAIN s.str \ {p})
             color == Restrict(s.color, DOMAIN s.color \ {p})
  <2>4. str \in Partial(Content) /\ color \in Partial({"white", "black", "old"})
    BY PartialRestrict DEF StringState
  <2>5. t = [s EXCEPT !.hash = h, !.nuse = s.nuse - 1, !.str = str, !.color = color, !.unswept = s.unswept \ {p}]
    BY <1>1 DEF Swept, luaS_remove, StringState
  <2> HIDE DEF h, str, color, t
  <2>6. t = [hash |-> h, nuse |-> s.nuse - 1, str |-> str, color |-> color, held |-> s.held, state |-> s.state,
             unswept |-> s.unswept \ {p}, cache |-> s.cache, memerrmsg |-> s.memerrmsg]
    BY <2>5 DEF StringState
  <2>7. s.nuse - 1 \in Int /\ s.unswept \ {p} \in SUBSET Pool
    BY DEF StringState
  <2>8. t \in StringState
    BY <2>3, <2>4, <2>6, <2>7 DEF StringState
  <2> QED
    BY <2>8 DEF t
<1>2. CASE s.color[p] # "old"
  <2> DEFINE g == [s.color EXCEPT ![p] = "white"]
             Color == {"white", "black", "old"}
  <2>1. s.color \in Partial(Color) /\ DOMAIN g = DOMAIN s.color /\ g = [q \in DOMAIN g |-> g[q]]
    BY DEF StringState
  <2>2. \A q \in DOMAIN s.color : g[q] \in Color
    BY <2>1, PartialIn
  <2> HIDE DEF g, Color
  <2>3. g \in Partial(Color)
    BY <2>1, <2>2, PartialMap
  <2>4. Swept(s, p) = [s EXCEPT !.color = g, !.unswept = s.unswept \ {p}]
    BY <1>2 DEF Swept, StringState, g
  <2> USE DEF Color
  <2> QED
    BY <2>3, <2>4 DEF StringState
<1> QED
  BY <1>1, <1>2

(* The inductive invariant.  Alive: what the program or the cache has is in   *)
(* the table and was not found dead.  Table: each string is once in the list  *)
(* of its hash, nuse counts them, and no two have one content.                *)
Alive(s) ==
  /\ DOMAIN s.color = DOMAIN s.str /\ s.unswept \subseteq DOMAIN s.str \ {s.memerrmsg}
  /\ s.memerrmsg \in DOMAIN s.str /\ s.color[s.memerrmsg] = "black"
  /\ \A p \in DOMAIN s.held : p \in DOMAIN s.str /\ s.str[p] = s.held[p] /\ s.color[p] # "old"
  /\ \A i \in CacheSets, j \in 1 .. 2 : s.cache[i][j] \in DOMAIN s.str /\ s.color[s.cache[i][j]] # "old"
Table(s) ==
  /\ Size(s) \in Nat \ {0} /\ Holds(s.hash, Size(s), DOMAIN s.str, PlaceOf(s, Size(s)))
  /\ IsFiniteSet(DOMAIN s.str) /\ s.nuse = Cardinality(DOMAIN s.str)
  /\ \A p, q \in DOMAIN s.str : s.str[p] = s.str[q] => p = q
Sound(s) == s \in StringState /\ Alive(s) /\ Table(s)

(* A collection takes strings that nobody has, and nothing else.             *)
Kept(t, s) ==
  /\ t.held = s.held /\ DOMAIN t.str \subseteq DOMAIN s.str
  /\ \A p \in DOMAIN t.str : t.str[p] = s.str[p]

LEMMA Strings ==
  ASSUME StringConstants, NEW s \in StringState
  PROVE  /\ DOMAIN s.str \in SUBSET Pool /\ Pool \in SUBSET Nat
         /\ \A p \in DOMAIN s.str : s.str[p] \in Content /\ Hash[s.str[p]] \in Nat
         /\ \A p \in DOMAIN s.color : s.color[p] \in {"white", "black", "old"}
         /\ DOMAIN s.held \in SUBSET Pool /\ \A p \in DOMAIN s.held : s.held[p] \in Content
<1>1. s.str \in Partial(Content) /\ s.color \in Partial({"white", "black", "old"}) /\ s.held \in Partial(Content)
  BY DEF StringState
<1>2. DOMAIN s.str \in SUBSET Pool /\ \A p \in DOMAIN s.str : s.str[p] \in Content
  BY <1>1, PartialIn
<1>3. \A p \in DOMAIN s.color : s.color[p] \in {"white", "black", "old"}
  BY <1>1, PartialIn
<1>4. DOMAIN s.held \in SUBSET Pool /\ \A p \in DOMAIN s.held : s.held[p] \in Content
  BY <1>1, PartialIn
<1> QED
  BY <1>2, <1>3, <1>4 DEF StringConstants

LEMMA Placed ==
  ASSUME StringConstants, NEW s \in StringState, NEW N \in Nat \ {0}, NEW p \in DOMAIN s.str
  PROVE  PlaceOf(s, N)[p] \in 0 .. N - 1 /\ PlaceOf(s, N)[p] = Hash[s.str[p]] % N
<1> DEFINE a == Hash[s.str[p]]
<1>1. a \in Int /\ PlaceOf(s, N)[p] = a % N
  BY Strings DEF PlaceOf
<1> HIDE DEF a
<1> QED
  BY <1>1, ModIn DEF a

LEMMA ResizedSound ==
  ASSUME StringConstants, NEW s, Sound(s), NEW N \in Nat \ {0}
  PROVE  /\ Sound(luaS_resize(s, N)) /\ Size(luaS_resize(s, N)) = N
         /\ Kept(luaS_resize(s, N), s) /\ luaS_resize(s, N).nuse = s.nuse
<1> DEFINE t == luaS_resize(s, N)
           S == Size(s)
           T == DOMAIN s.str
           g == [i \in 0 .. N - 1 |-> Rehashed(s, N, Grow(s, Max({S, N})))[i]]
<1>1. s \in StringState /\ Alive(s) /\ Table(s) /\ S \in Nat \ {0} /\ T \in SUBSET Pool
  BY Strings DEF Sound, Table
<1>2. Holds(g, N, T, PlaceOf(s, N))
  <2>1. Holds(s.hash, S, T, PlaceOf(s, S)) /\ \A p \in T : Hash[s.str[p]] \in Nat
    BY <1>1, Strings DEF Table
  <2> HIDE DEF S, T
  <2>2. S = Size(s) /\ T = DOMAIN s.str
    BY DEF S, T
  <2> QED
    BY <1>1, <2>1, <2>2, ResizedHolds
<1>3. t = [s EXCEPT !.hash = g]
  BY ResizeIs DEF Grow
<1> HIDE DEF t, g
<1>4. /\ DOMAIN t = DOMAIN s /\ t.hash = g /\ t.nuse = s.nuse /\ t.str = s.str /\ t.color = s.color /\ t.held = s.held
      /\ t.state = s.state /\ t.unswept = s.unswept /\ t.cache = s.cache /\ t.memerrmsg = s.memerrmsg
  BY <1>1, <1>3 DEF StringState
<1>5. g \in Tables(0 .. N - 1) /\ g \in AllTables
  BY <1>2 DEF Holds, AllTables
<1>6. t \in StringState
  BY <1>1, <1>3, <1>5 DEF StringState
<1>7. Size(t) = N
  BY <1>4, <1>5, TableSize DEF Size
<1>8. Alive(t)
  BY <1>1, <1>4 DEF Alive
<1>9. PlaceOf(t, N) = PlaceOf(s, N)
  BY <1>4 DEF PlaceOf
<1>10. Table(t)
  BY <1>1, <1>2, <1>4, <1>7, <1>9 DEF Table
<1>11. Sound(t) /\ Kept(t, s)
  BY <1>4, <1>6, <1>8, <1>10 DEF Sound, Kept
<1> QED
  BY <1>4, <1>7, <1>11 DEF t

LEMMA SweptSound ==
  ASSUME StringConstants, NEW s, Sound(s), NEW p \in s.unswept
  PROVE  /\ Sound(Swept(s, p)) /\ Size(Swept(s, p)) = Size(s) /\ Swept(s, p).unswept = s.unswept \ {p}
         /\ Kept(Swept(s, p), s) /\ Swept(s, p).nuse <= s.nuse
<1> DEFINE t == Swept(s, p)
           S == Size(s)
           T == DOMAIN s.str
           loc == PlaceOf(s, S)
<1>1. s \in StringState /\ Alive(s) /\ Table(s) /\ S \in Nat \ {0} /\ T \in SUBSET Pool
  BY Strings DEF Sound, Table
<1>2. p \in T /\ p # s.memerrmsg /\ p \in Pool /\ p \in DOMAIN s.color
  BY <1>1 DEF Alive
<1>3. t \in StringState
  BY <1>1, <1>2, SweptType
<1>4. CASE s.color[p] = "old"
  <2> DEFINE h == [s.hash EXCEPT ![loc[p]] = RemoveFirst(@, p)]
  <2>1. loc[p] \in 0 .. S - 1 /\ loc[p] = lmod(s, s.str[p])
    BY <1>1, <1>2, Placed DEF lmod
  <2>2. /\ t.hash = h /\ t.nuse = s.nuse - 1 /\ t.str = Restrict(s.str, T \ {p})
        /\ t.color = Restrict(s.color, DOMAIN s.color \ {p}) /\ t.held = s.held /\ t.state = s.state
        /\ t.unswept = s.unswept \ {p} /\ t.cache = s.cache /\ t.memerrmsg = s.memerrmsg
    BY <1>1, <1>4, <2>1 DEF Swept, luaS_remove, StringState
  <2>3. Holds(h, S, T \ {p}, loc)
    <3> HIDE DEF loc, S, T
    <3>1. Holds(s.hash, S, T, loc)
      BY <1>1 DEF loc, S, T, Table
    <3> QED
      BY <1>1, <1>2, <2>1, <3>1, HoldsRemoved
  <2>4. /\ DOMAIN t.str = T \ {p} /\ \A q \in T \ {p} : t.str[q] = s.str[q]
        /\ DOMAIN t.color = DOMAIN s.color \ {p} /\ \A q \in DOMAIN s.color \ {p} : t.color[q] = s.color[q]
    BY <2>2 DEF Restrict
  <2> HIDE DEF t, h
  <2>5. Size(t) = S
    <3>1. h \in Tables(0 .. S - 1)
      BY <2>3 DEF Holds
    <3> HIDE DEF S
    <3>2. Cardinality(DOMAIN h) = S
      BY <1>1, <3>1, TableSize
    <3> QED
      BY <2>2, <3>2 DEF Size
  <2>6. Holds(h, S, DOMAIN t.str, PlaceOf(t, S))
    <3>1. \A q \in T \ {p} : PlaceOf(t, S)[q] = loc[q]
      BY <2>4 DEF PlaceOf
    <3>2. \A q : q \in DOMAIN t.str <=> q \in T \ {p}
      BY <2>4
    <3> HIDE DEF loc, S, T
    <3> QED
      BY <2>3, <3>1, <3>2, HoldsElse
  <2>7. IsFiniteSet(T \ {p}) /\ Cardinality(T \ {p}) = Cardinality(T) - 1 /\ Cardinality(T) \in Nat
    <3>1. IsFiniteSet(T)
      BY <1>1 DEF Table
    <3> HIDE DEF T
    <3> QED
      BY <1>2, <3>1, FS_RemoveElement, FS_CardinalityType
  <2>8. Table(t)
    BY <1>1, <2>2, <2>4, <2>5, <2>6, <2>7 DEF Table
  <2>9. Alive(t)
    <3>1. DOMAIN s.color = T /\ s.memerrmsg \in T /\ s.unswept \subseteq T \ {s.memerrmsg} /\ s.color[s.memerrmsg] = "black"
      BY <1>1 DEF Alive
    <3>2. \A q \in T : s.color[q] # "old" => q \in DOMAIN t.str /\ t.str[q] = s.str[q] /\ t.color[q] = s.color[q]
      BY <1>4, <2>4, <3>1
    <3>3. /\ DOMAIN t.color = DOMAIN t.str /\ t.unswept \subseteq DOMAIN t.str \ {t.memerrmsg}
          /\ t.memerrmsg \in DOMAIN t.str /\ t.color[t.memerrmsg] = "black"
      BY <1>2, <2>2, <2>4, <3>1, <3>2
    <3>4. \A q \in DOMAIN t.held : q \in DOMAIN t.str /\ t.str[q] = t.held[q] /\ t.color[q] # "old"
      BY <1>1, <2>2, <3>2 DEF Alive
    <3>5. \A i \in CacheSets, j \in 1 .. 2 : t.cache[i][j] \in DOMAIN t.str /\ t.color[t.cache[i][j]] # "old"
      <4>1. SUFFICES ASSUME NEW i \in CacheSets, NEW j \in 1 .. 2
            PROVE s.cache[i][j] \in DOMAIN t.str /\ t.color[s.cache[i][j]] # "old"
        BY <2>2
      <4>2. s.cache[i][j] \in T /\ s.color[s.cache[i][j]] # "old"
        BY <1>1 DEF Alive
      <4> QED
        BY <3>2, <4>2
    <3> QED
      BY <3>3, <3>4, <3>5 DEF Alive
  <2>10. t.nuse <= s.nuse
    BY <1>1, <2>2, <2>7 DEF Table
  <2>11. Kept(t, s)
    BY <2>2, <2>4 DEF Kept
  <2> QED
    BY <1>3, <2>2, <2>5, <2>8, <2>9, <2>10, <2>11 DEF Sound, t
<1>5. CASE s.color[p] # "old"
  <2>1. /\ t.hash = s.hash /\ t.nuse = s.nuse /\ t.str = s.str
        /\ t.color = [s.color EXCEPT ![p] = "white"] /\ t.held = s.held /\ t.state = s.state
        /\ t.unswept = s.unswept \ {p} /\ t.cache = s.cache /\ t.memerrmsg = s.memerrmsg
    BY <1>1, <1>5 DEF Swept, StringState
  <2>2. DOMAIN t.color = DOMAIN s.color /\ \A q \in DOMAIN s.color : t.color[q] = IF q = p THEN "white" ELSE s.color[q]
    BY <2>1
  <2> HIDE DEF t
  <2>3. Size(t) = S /\ PlaceOf(t, S) = loc
    BY <2>1 DEF Size, PlaceOf
  <2>4. Table(t)
    BY <1>1, <2>1, <2>3 DEF Table
  <2>5. Alive(t)
    <3>1. /\ DOMAIN t.color = DOMAIN t.str /\ t.unswept \subseteq DOMAIN t.str \ {t.memerrmsg}
          /\ t.memerrmsg \in DOMAIN t.str /\ t.color[t.memerrmsg] = "black"
      BY <1>1, <1>2, <2>1, <2>2 DEF Alive
    <3>2. \A q \in DOMAIN s.color : s.color[q] # "old" => t.color[q] # "old"
      BY <2>2
    <3>3. \A q \in DOMAIN t.held : q \in DOMAIN t.str /\ t.str[q] = t.held[q] /\ t.color[q] # "old"
      BY <1>1, <2>1, <3>2 DEF Alive
    <3>4. \A i \in CacheSets, j \in 1 .. 2 : t.cache[i][j] \in DOMAIN t.str /\ t.color[t.cache[i][j]] # "old"
      BY <1>1, <2>1, <3>2 DEF Alive
    <3> QED
      BY <3>1, <3>3, <3>4 DEF Alive
  <2>6. Kept(t, s) /\ t.nuse <= s.nuse
    <3>1. s.nuse \in Int
      BY <1>1 DEF StringState
    <3> QED
      BY <2>1, <3>1 DEF Kept
  <2> QED
    BY <1>3, <2>1, <2>3, <2>4, <2>5, <2>6 DEF Sound, t
<1> QED
  BY <1>4, <1>5

(* The sweep, one object after the other.                                    *)
Sweeping(s, q) == FoldLeft(Swept, s, q)

LEMMA SweepingFolds ==
  ASSUME NEW s \in StringState, NEW q \in Seq(Pool)
  PROVE  \E d : /\ d[0] = s /\ Sweeping(s, q) = d[Len(q)]
                /\ \A k \in 1 .. Len(q) : d[k] = Swept(d[k - 1], q[k])
<1> DEFINE V == StringState
<1> DEFINE n == Len(q)
           F == [z \in (1 .. n) \X V |-> Swept(z[2], q[z[1]])]
           Eq(it) == it = [x \in SUBSET DOMAIN q |->
                             IF x = {} THEN s ELSE Swept(it[x \ {Max(x)}], q[Max(x)])]
           fold == CHOOSE it : Eq(it)
<1>1. \E it : Eq(it)
  <2>1. F \in [(1 .. n) \X V -> V]
    <3>1. ASSUME NEW z \in (1 .. n) \X V PROVE Swept(z[2], q[z[1]]) \in V
      <4>1. z[2] \in V /\ q[z[1]] \in Pool
        OBVIOUS
      <4> QED
        BY <4>1, SweptType
    <3> QED
      BY <3>1
  <2>2. \A z \in (1 .. n) \X V : F[z] = Swept(z[2], q[z[1]])
    OBVIOUS
  <2>3. n \in Nat /\ s \in V /\ DOMAIN q = 1 .. n
    OBVIOUS
  <2> HIDE DEF F, n
  <2>4. PICK it \in [SUBSET (1 .. n) -> V] :
          \A x \in SUBSET (1 .. n) :
            /\ it[x] = IF x = {} THEN s ELSE F[<<Max(x), it[x \ {Max(x)}]>>]
            /\ x # {} => Max(x) \in x
    BY <2>1, <2>3, FoldExists
  <2>5. ASSUME NEW x \in SUBSET (1 .. n)
        PROVE  it[x] = IF x = {} THEN s ELSE Swept(it[x \ {Max(x)}], q[Max(x)])
    <3>1. CASE x # {}
      <4>1. <<Max(x), it[x \ {Max(x)}]>> \in (1 .. n) \X V
        BY <2>4, <3>1
      <4> QED
        BY <2>2, <2>4, <3>1, <4>1
    <3> QED
      BY <2>4, <3>1
  <2>6. Eq(it)
    BY <2>3, <2>5
  <2> QED
    BY <2>6
<1>2. Sweeping(s, q) = fold[DOMAIN q]
  BY DEF Sweeping, FoldLeft, MapThenFoldSet
<1>3. Eq(fold)
  BY <1>1
<1> DEFINE d == [k \in 0 .. n |-> fold[1 .. k]]
<1>4. n \in Nat /\ DOMAIN q = 1 .. n /\ \A k \in 0 .. n : 1 .. k \in SUBSET DOMAIN q
  OBVIOUS
<1> HIDE DEF fold, n
<1>5. d[0] = s
  <2>1. 1 .. 0 = {} /\ 0 \in 0 .. n
    BY <1>4
  <2> QED
    BY <1>3, <1>4, <2>1
<1>6. ASSUME NEW k \in 1 .. n PROVE d[k] = Swept(d[k - 1], q[k])
  <2>1. k \in 0 .. n /\ k - 1 \in 0 .. n
    BY <1>4
  <2>2. fold[1 .. k] = Swept(fold[1 .. k - 1], q[k])
    <3>1. k \in Nat /\ k > 0
      BY <1>4
    <3>2. Max(1 .. k) = k /\ (1 .. k) \ {k} = 1 .. k - 1 /\ 1 .. k # {}
      BY <3>1, Interval
    <3>3. 1 .. k \in SUBSET DOMAIN q
      BY <1>4, <2>1
    <3> QED
      BY <1>3, <3>2, <3>3
  <2> QED
    BY <2>1, <2>2
<1>7. Sweeping(s, q) = d[n]
  BY <1>2, <1>4
<1> HIDE DEF d
<1> QED
  BY <1>5, <1>6, <1>7 DEF n

LEMMA SetToSeqIs ==
  ASSUME NEW S, IsFiniteSet(S)
  PROVE  SetToSeq(S) \in Seq(S) /\ \A a, b \in 1 .. Len(SetToSeq(S)) : SetToSeq(S)[a] = SetToSeq(S)[b] => a = b
<1> DEFINE n == Cardinality(S)
           q == SetToSeq(S)
<1>1. n \in Nat /\ ExistsBijection(1 .. n, S)
  BY FS_CardinalityType
<1>2. \E f \in [1 .. n -> S] : IsInjective(f)
  <2>1. PICK f : f \in Bijection(1 .. n, S)
    BY <1>1 DEF ExistsBijection
  <2>2. f \in [1 .. n -> S] /\ \A a, b \in 1 .. n : f[a] = f[b] => a = b
    BY <2>1 DEF Bijection, Injection, IsInjective
  <2> HIDE DEF n
  <2> QED
    BY <2>2 DEF IsInjective
<1> HIDE DEF n
<1>3. q \in [1 .. n -> S] /\ IsInjective(q)
  BY <1>2 DEF SetToSeq, n
<1> HIDE DEF q
<1>4. q \in Seq(S) /\ Len(q) = n /\ \A a, b \in 1 .. n : q[a] = q[b] => a = b
  BY <1>1, <1>3 DEF IsInjective
<1> QED
  BY <1>4 DEF q

LEMMA SweepingSound ==
  ASSUME StringConstants, NEW s, Sound(s)
  PROVE  /\ Sound(Sweeping(s, SetToSeq(s.unswept))) /\ Size(Sweeping(s, SetToSeq(s.unswept))) = Size(s)
         /\ Kept(Sweeping(s, SetToSeq(s.unswept)), s) /\ Sweeping(s, SetToSeq(s.unswept)).nuse <= s.nuse
<1> DEFINE U == s.unswept
           q == SetToSeq(U)
           n == Len(q)
<1>1. s \in StringState /\ U \in SUBSET Pool /\ s.nuse \in Int
  BY DEF Sound, StringState
<1>2. IsFiniteSet(U)
  <2>1. U \subseteq DOMAIN s.str /\ IsFiniteSet(DOMAIN s.str)
    BY DEF Sound, Alive, Table
  <2> HIDE DEF U
  <2> QED
    BY <2>1, FS_Subset
<1> HIDE DEF U
<1>3. q \in Seq(U) /\ \A a, b \in 1 .. n : q[a] = q[b] => a = b
  BY <1>2, SetToSeqIs
<1> HIDE DEF q
<1>4. q \in Seq(Pool) /\ n \in Nat /\ \A a \in 1 .. n : q[a] \in U
  BY <1>1, <1>3
<1>5. PICK d : /\ d[0] = s /\ Sweeping(s, q) = d[n]
               /\ \A k \in 1 .. n : d[k] = Swept(d[k - 1], q[k])
  BY <1>1, <1>4, SweepingFolds
<1> DEFINE Done(k) == {q[a] : a \in 1 .. k}
           Right(t, k) == Sound(t) /\ Size(t) = Size(s) /\ Kept(t, s) /\ t.nuse <= s.nuse /\ t.unswept = U \ Done(k)
           S == {k \in 0 .. n : Right(d[k], k)}
<1> HIDE DEF n
<1>6. 0 \in S
  <2>1. Kept(s, s) /\ s.nuse <= s.nuse
    BY <1>1 DEF Kept
  <2>2. s.unswept = U \ Done(0)
    BY DEF U
  <2> QED
    BY <1>4, <1>5, <2>1, <2>2
<1>7. ASSUME NEW k \in 0 .. n - 1, k \in S PROVE k + 1 \in S
  <2> DEFINE p == q[k + 1]
             t == d[k]
             u == Swept(t, p)
  <2>1. k + 1 \in 1 .. n /\ k + 1 \in 0 .. n /\ (k + 1) - 1 = k
    BY <1>4
  <2>2. d[k + 1] = u /\ Right(t, k)
    BY <1>5, <1>7, <2>1
  <2>3. p \in U \ Done(k)
    <3>1. ASSUME NEW a \in 1 .. k PROVE q[a] # p
      <4>1. a \in 1 .. n /\ a # k + 1
        BY <1>4
      <4> QED
        BY <1>3, <2>1, <4>1
    <3> QED
      BY <1>4, <2>1, <3>1
  <2>4. Done(k + 1) = Done(k) \cup {p}
    <3>1. \A a : a \in 1 .. k + 1 <=> a \in 1 .. k \/ a = k + 1
      BY <2>1
    <3> QED
      BY <3>1
  <2> HIDE DEF p, t, u, Done
  <2>5. /\ Sound(t) /\ p \in t.unswept /\ Size(t) = Size(s) /\ Kept(t, s) /\ t.nuse <= s.nuse
        /\ t.unswept = U \ Done(k)
    BY <2>2, <2>3
  <2>6. Sound(u) /\ Size(u) = Size(t) /\ u.unswept = t.unswept \ {p} /\ Kept(u, t) /\ u.nuse <= t.nuse
    BY <2>5, SweptSound DEF u
  <2>7. u.nuse \in Int /\ t.nuse \in Int
    BY <2>5, <2>6 DEF Sound, StringState
  <2>8. Kept(u, s)
    BY <2>5, <2>6 DEF Kept
  <2>9. u.unswept = U \ Done(k + 1)
    BY <2>4, <2>5, <2>6
  <2>10. Right(u, k + 1)
    BY <1>1, <2>5, <2>6, <2>7, <2>8, <2>9
  <2> HIDE DEF Right
  <2> QED
    BY <2>1, <2>2, <2>10
<1> HIDE DEF S
<1>8. n \in S
  <2>1. n \in Nat /\ n \in 0 .. n
    BY <1>4
  <2>2. 0 .. n \subseteq S
    BY <1>6, <1>7, <2>1, Induct
  <2> QED
    BY <2>1, <2>2
<1> USE DEF S
<1>9. Right(d[n], n)
  BY <1>8
<1> QED
  BY <1>5, <1>9 DEF q, U

Fits(s) == s.nuse <= Size(s) \/ Size(s) > MaxInt \div 2

(* What the table is does not depend on the other fields.                    *)
LEMMA TableSame ==
  ASSUME NEW s, Table(s), NEW t, t.hash = s.hash, t.str = s.str, t.nuse = s.nuse
  PROVE  Table(t) /\ Size(t) = Size(s)
<1>1. Size(t) = Size(s)
  BY DEF Size
<1>2. PlaceOf(t, Size(t)) = PlaceOf(s, Size(s))
  BY <1>1 DEF PlaceOf
<1> QED
  BY <1>1, <1>2 DEF Table

LEMMA PhaseSound ==
  ASSUME NEW s, Sound(s), NEW c \in {"pause", "propagate", "sweep"}
  PROVE  /\ Sound([s EXCEPT !.state = c]) /\ Size([s EXCEPT !.state = c]) = Size(s)
         /\ Kept([s EXCEPT !.state = c], s) /\ [s EXCEPT !.state = c].nuse = s.nuse
<1> DEFINE t == [s EXCEPT !.state = c]
<1>1. s \in StringState /\ Alive(s) /\ Table(s)
  BY DEF Sound
<1>2. /\ t.hash = s.hash /\ t.nuse = s.nuse /\ t.str = s.str /\ t.color = s.color /\ t.held = s.held
      /\ t.unswept = s.unswept /\ t.cache = s.cache /\ t.memerrmsg = s.memerrmsg
  BY <1>1 DEF StringState
<1>3. t \in StringState
  BY <1>1 DEF StringState
<1> HIDE DEF t
<1>4. Table(t) /\ Size(t) = Size(s)
  BY <1>1, <1>2, TableSame
<1>5. Alive(t) /\ Kept(t, s)
  BY <1>1, <1>2 DEF Alive, Kept
<1> QED
  BY <1>2, <1>3, <1>4, <1>5 DEF Sound, t

LEMMA WhitenedSound ==
  ASSUME StringConstants, NEW s, Sound(s)
  PROVE  LET t == [s EXCEPT !.unswept = DOMAIN s.str \ {s.memerrmsg}]
         IN  Sound(t) /\ Size(t) = Size(s) /\ Kept(t, s) /\ t.nuse = s.nuse
<1> DEFINE U == DOMAIN s.str \ {s.memerrmsg}
           t == [s EXCEPT !.unswept = U]
<1>1. s \in StringState /\ Alive(s) /\ Table(s) /\ U \in SUBSET Pool
  BY Strings DEF Sound
<1> HIDE DEF U
<1>2. /\ t.hash = s.hash /\ t.nuse = s.nuse /\ t.str = s.str /\ t.color = s.color /\ t.held = s.held
      /\ t.unswept = U /\ t.cache = s.cache /\ t.memerrmsg = s.memerrmsg
  BY <1>1 DEF StringState
<1>3. t \in StringState
  BY <1>1 DEF StringState
<1> HIDE DEF t
<1>4. Table(t) /\ Size(t) = Size(s)
  BY <1>1, <1>2, TableSame
<1>5. Alive(t) /\ Kept(t, s)
  BY <1>1, <1>2 DEF Alive, Kept, U
<1> QED
  BY <1>2, <1>3, <1>4, <1>5 DEF Sound, t, U

(* What a step of the collector leaves.                                      *)
Collects(t, s, emergency) ==
  /\ Sound(t) /\ Kept(t, s) /\ t.nuse <= s.nuse /\ (Fits(s) => Fits(t))
  /\ emergency => Size(t) = Size(s)

LEMMA Nuse ==
  ASSUME NEW s, Sound(s)
  PROVE  s.nuse \in Nat /\ Size(s) \in Nat \ {0}
<1>1. Table(s)
  BY DEF Sound
<1>2. s.nuse \in Nat
  <2> DEFINE T == DOMAIN s.str
  <2>1. IsFiniteSet(T) /\ s.nuse = Cardinality(T)
    BY <1>1 DEF Table
  <2> HIDE DEF T
  <2> QED
    BY <2>1, FS_CardinalityType
<1> QED
  BY <1>1, <1>2 DEF Table

LEMMA CollectsTwice ==
  ASSUME NEW s, NEW t, NEW u, NEW e, Sound(s), Collects(t, s, e), Collects(u, t, e)
  PROVE  Collects(u, s, e)
<1>1. s.nuse \in Nat /\ t.nuse \in Nat /\ u.nuse \in Nat
  BY Nuse DEF Collects
<1>2. Kept(u, s)
  BY DEF Collects, Kept
<1> QED
  BY <1>1, <1>2 DEF Collects

LEMMA SameCollects ==
  ASSUME NEW s, NEW t, NEW e, Sound(s), Sound(t), Size(t) = Size(s), Kept(t, s), t.nuse <= s.nuse
  PROVE  Collects(t, s, e)
<1>1. s.nuse \in Nat /\ t.nuse \in Nat /\ Size(s) \in Nat
  BY Nuse
<1> QED
  BY <1>1 DEF Collects, Fits

LEMMA CheckSizesCollects ==
  ASSUME StringConstants, NEW s, Sound(s), NEW e \in BOOLEAN
  PROVE  Collects(checkSizes(s, e), s, e)
<1> DEFINE S == Size(s)
<1>1. s.nuse \in Nat /\ S \in Nat \ {0}
  BY Nuse
<1>2. CASE ~e /\ s.nuse < S \div 4
  <2> DEFINE N == S \div 2
             t == luaS_resize(s, N)
  <2>1. N \in Nat \ {0} /\ s.nuse <= N
    <3> HIDE DEF S
    <3> QED
      BY <1>1, <1>2
  <2>2. checkSizes(s, e) = t
    BY <1>2 DEF checkSizes
  <2> HIDE DEF t, N
  <2>3. Sound(t) /\ Size(t) = N /\ Kept(t, s) /\ t.nuse = s.nuse
    BY <2>1, ResizedSound DEF t
  <2> QED
    BY <1>1, <1>2, <2>1, <2>2, <2>3 DEF Collects, Fits
<1>3. CASE ~(~e /\ s.nuse < S \div 4)
  <2>1. checkSizes(s, e) = s
    BY <1>3 DEF checkSizes
  <2>2. Kept(s, s) /\ s.nuse <= s.nuse
    BY <1>1 DEF Kept
  <2> QED
    BY <2>1, <2>2 DEF Collects
<1> QED
  BY <1>2, <1>3

LEMMA EndSweepCollects ==
  ASSUME StringConstants, NEW s, Sound(s), NEW e \in BOOLEAN
  PROVE  Collects(EndSweep(s, e), s, e)
<1> DEFINE t == Sweeping(s, SetToSeq(s.unswept))
           u == checkSizes(t, e)
           v == [u EXCEPT !.state = "pause"]
<1>1. EndSweep(s, e) = v
  BY DEF EndSweep, Sweeping
<1> HIDE DEF t, u, v
<1>2. Collects(t, s, e)
  <2>1. Sound(t) /\ Size(t) = Size(s) /\ Kept(t, s) /\ t.nuse <= s.nuse
    BY SweepingSound DEF t
  <2> QED
    BY <2>1, SameCollects
<1>3. Collects(u, t, e)
  <2>1. Sound(t)
    BY <1>2 DEF Collects
  <2> QED
    BY <2>1, CheckSizesCollects DEF u
<1>4. Collects(v, u, e)
  <2>1. Sound(u) /\ u.nuse \in Nat
    BY <1>3, Nuse DEF Collects
  <2>2. Sound(v) /\ Size(v) = Size(u) /\ Kept(v, u) /\ v.nuse = u.nuse
    BY <2>1, PhaseSound DEF v
  <2>3. v.nuse <= u.nuse
    BY <2>1, <2>2
  <2> QED
    BY <2>1, <2>2, <2>3, SameCollects
<1>5. Sound(t)
  BY <1>2 DEF Collects
<1>6. Collects(u, s, e)
  BY <1>2, <1>3, CollectsTwice
<1> QED
  BY <1>1, <1>4, <1>6, CollectsTwice

(* What atomic finds white nobody has: what is held was marked, the cache     *)
(* cleared.                                                                   *)
LEMMA AtomicCollects ==
  ASSUME StringConstants, NEW s, Sound(s), NEW e \in BOOLEAN
  PROVE  Collects(Atomic(s), s, e)
<1> DEFINE Color == {"white", "black", "old"}
           marked == [p \in DOMAIN s.color |-> IF p \in DOMAIN s.held THEN "black" ELSE s.color[p]]
           cleared == [i \in CacheSets |-> [j \in 1 .. 2 |->
                         IF marked[s.cache[i][j]] = "white" THEN s.memerrmsg ELSE s.cache[i][j]]]
           color == [p \in DOMAIN s.color |-> IF marked[p] = "white" THEN "old" ELSE marked[p]]
           U == DOMAIN s.str \ {s.memerrmsg}
           t == Atomic(s)
<1>1. s \in StringState /\ Alive(s) /\ Table(s) /\ U \in SUBSET Pool
  BY Strings DEF Sound
<1>2. t = [hash |-> s.hash, nuse |-> s.nuse, str |-> s.str, color |-> color, held |-> s.held, state |-> "sweep",
           unswept |-> U, cache |-> cleared, memerrmsg |-> s.memerrmsg]
  <2> DEFINE m == [s EXCEPT !.color = marked]
             c == [m EXCEPT !.cache = cleared]
             a == [c EXCEPT !.color = color, !.state = "sweep", !.unswept = U]
  <2>1. m.color = marked /\ m.cache = s.cache /\ m.memerrmsg = s.memerrmsg
    BY <1>1 DEF StringState
  <2>2. luaS_clearcache(m) = c
    <3> HIDE DEF m, marked
    <3> QED
      BY <2>1 DEF luaS_clearcache
  <2>3. c.color = marked /\ DOMAIN marked = DOMAIN s.color /\ c.str = s.str /\ c.memerrmsg = s.memerrmsg
    BY <1>1 DEF StringState
  <2>4. t = a
    <3>1. t = [luaS_clearcache(m) EXCEPT
                 !.color = [p \in DOMAIN @ |-> IF @[p] = "white" THEN "old" ELSE @[p]],
                 !.state = "sweep", !.unswept = DOMAIN s.str \ {s.memerrmsg}]
      BY DEF Atomic
    <3>2. [p \in DOMAIN c.color |-> IF c.color[p] = "white" THEN "old" ELSE c.color[p]] = color
      BY <2>3
    <3> HIDE DEF t, c, m, color, U
    <3> QED
      BY <2>2, <3>1, <3>2 DEF U
  <2>5. /\ a.hash = s.hash /\ a.nuse = s.nuse /\ a.str = s.str /\ a.color = color /\ a.held = s.held
        /\ a.state = "sweep" /\ a.unswept = U /\ a.cache = cleared /\ a.memerrmsg = s.memerrmsg
    BY <1>1 DEF StringState
  <2>6. DOMAIN a = DOMAIN s /\ a = [f \in DOMAIN a |-> a[f]]
    BY <1>1 DEF StringState
  <2>7. DOMAIN s = {"hash", "nuse", "str", "color", "held", "state", "unswept", "cache", "memerrmsg"}
    BY <1>1 DEF StringState
  <2> HIDE DEF a, t, color, cleared, U
  <2> QED
    BY <2>4, <2>5, <2>6, <2>7
<1> HIDE DEF t, U
<1>3. \A p \in DOMAIN s.color : s.color[p] \in Color
  BY <1>1, Strings
<1>4. color \in Partial(Color)
  <2>1. s.color \in Partial(Color) /\ DOMAIN color = DOMAIN s.color /\ color = [p \in DOMAIN color |-> color[p]]
    BY <1>1 DEF StringState
  <2>2. \A p \in DOMAIN s.color : color[p] \in Color
    BY <1>3
  <2> HIDE DEF color, Color
  <2> QED
    BY <2>1, <2>2, PartialMap
<1>5. s.memerrmsg \in Pool /\ \A i \in CacheSets, j \in 1 .. 2 : s.cache[i][j] \in Pool
  BY <1>1 DEF StringState
<1>6. \A i \in CacheSets, j \in 1 .. 2 :
        cleared[i][j] = IF marked[s.cache[i][j]] = "white" THEN s.memerrmsg ELSE s.cache[i][j]
  OBVIOUS
<1>7. cleared \in [CacheSets -> [1 .. 2 -> Pool]]
  BY <1>5
<1>8. t \in StringState
  BY <1>1, <1>2, <1>4, <1>7 DEF StringState
<1>9. DOMAIN s.color = DOMAIN s.str /\ s.memerrmsg \in DOMAIN s.str /\ s.color[s.memerrmsg] = "black"
  BY <1>1 DEF Alive
<1>10. \A p \in DOMAIN s.str : /\ p \in DOMAIN s.held => color[p] = "black"
                               /\ s.color[p] = "black" => color[p] = "black"
                               /\ marked[p] # "white" /\ s.color[p] # "old" => color[p] # "old"
  BY <1>9
<1>11. ASSUME NEW i \in CacheSets, NEW j \in 1 .. 2
       PROVE  cleared[i][j] \in DOMAIN s.str /\ color[cleared[i][j]] # "old"
  <2> DEFINE x == s.cache[i][j]
  <2>1. x \in DOMAIN s.str /\ s.color[x] # "old" /\ cleared[i][j] = IF marked[x] = "white" THEN s.memerrmsg ELSE x
    BY <1>1, <1>6 DEF Alive
  <2> HIDE DEF x, cleared, color, marked
  <2> QED
    BY <1>9, <1>10, <2>1
<1>12. DOMAIN color = DOMAIN s.str
  BY <1>9
<1> HIDE DEF color, cleared, marked
<1>13. Alive(t)
  <2>1. \A p \in DOMAIN s.held : p \in DOMAIN s.str /\ s.str[p] = s.held[p] /\ color[p] = "black"
    BY <1>1, <1>10 DEF Alive
  <2> QED
    BY <1>2, <1>9, <1>10, <1>11, <1>12, <2>1 DEF Alive, U
<1>14. Table(t) /\ Size(t) = Size(s)
  BY <1>1, <1>2, TableSame
<1>15. Kept(t, s) /\ t.nuse <= s.nuse
  <2>1. s.nuse \in Int
    BY <1>1 DEF StringState
  <2> QED
    BY <1>2, <2>1 DEF Kept
<1> QED
  BY <1>8, <1>13, <1>14, <1>15, SameCollects DEF Sound, t

LEMMA FullgcCollects ==
  ASSUME StringConstants, NEW s, Sound(s), NEW e \in BOOLEAN
  PROVE  Collects(luaC_fullgc(s, e), s, e)
<1> DEFINE w == IF s.state = "propagate" THEN [s EXCEPT !.unswept = DOMAIN s.str \ {s.memerrmsg}] ELSE s
           x == IF s.state = "pause" THEN s ELSE EndSweep(w, e)
           y == Atomic(x)
<1>1. luaC_fullgc(s, e) = EndSweep(y, e)
  BY DEF luaC_fullgc
<1>2. Collects(s, s, e)
  <2>1. s.nuse \in Nat
    BY Nuse
  <2> QED
    BY <2>1 DEF Collects, Kept
<1>3. Collects(w, s, e)
  <2> DEFINE v == [s EXCEPT !.unswept = DOMAIN s.str \ {s.memerrmsg}]
  <2>1. Sound(v) /\ Size(v) = Size(s) /\ Kept(v, s) /\ v.nuse = s.nuse
    BY WhitenedSound
  <2> HIDE DEF v
  <2>2. v.nuse <= s.nuse
    BY <2>1, Nuse
  <2>3. Collects(v, s, e)
    BY <2>1, <2>2, SameCollects
  <2>4. w = v \/ w = s
    BY DEF v
  <2> HIDE DEF w
  <2> QED
    BY <1>2, <2>3, <2>4
<1> HIDE DEF w
<1>4. Collects(x, s, e)
  <2>1. Sound(w)
    BY <1>3 DEF Collects
  <2>2. Collects(EndSweep(w, e), w, e)
    BY <2>1, EndSweepCollects
  <2>3. Collects(EndSweep(w, e), s, e)
    BY <1>3, <2>1, <2>2, CollectsTwice
  <2> QED
    BY <1>2, <2>3
<1> HIDE DEF x
<1>5. Sound(x)
  BY <1>4 DEF Collects
<1>6. Collects(y, s, e) /\ Sound(y)
  <2>1. Collects(y, x, e)
    BY <1>5, AtomicCollects
  <2> HIDE DEF y
  <2>2. Collects(y, s, e)
    BY <1>4, <1>5, <2>1, CollectsTwice
  <2> QED
    BY <2>2 DEF Collects
<1> HIDE DEF y
<1>7. Collects(EndSweep(y, e), y, e)
  BY <1>6, EndSweepCollects
<1> QED
  BY <1>1, <1>6, <1>7, CollectsTwice

Roomy(s) == s.nuse < Size(s) \/ Size(s) > MaxInt \div 2

LEMMA AllocatedCollects ==
  ASSUME StringConstants, NEW s, Sound(s), NEW o
  PROVE  Collects(Allocated(s, o), s, TRUE)
<1>1. Collects(s, s, TRUE)
  <2>1. s.nuse \in Nat
    BY Nuse
  <2> QED
    BY <2>1 DEF Collects, Kept
<1>2. Collects(luaC_fullgc(s, TRUE), s, TRUE)
  BY FullgcCollects
<1> QED
  BY <1>1, <1>2 DEF Allocated

LEMMA GrownSound ==
  ASSUME StringConstants, NEW s, Sound(s), Fits(s), NEW o \in Outcome
  PROVE  /\ Sound(Grown(s, o)) /\ Fits(Grown(s, o)) /\ Kept(Grown(s, o), s)
         /\ ~(MustGrow(s) /\ o = "failed") => Roomy(Grown(s, o))
<1> DEFINE room == Allocated(s, o)
           S == Size(s)
           g == Grown(s, o)
<1>1. s.nuse \in Nat /\ S \in Nat \ {0} /\ MaxInt \in Nat /\ MaxInt \div 2 \in Nat
  BY Nuse DEF StringConstants
<1>2. Collects(room, s, TRUE)
  BY AllocatedCollects
<1>3. Sound(room) /\ Kept(room, s) /\ room.nuse <= s.nuse /\ Fits(room) /\ Size(room) = S
  BY <1>2 DEF Collects
<1>4. room.nuse \in Nat
  BY <1>3, Nuse
<1> HIDE DEF room
<1>5. CASE s.nuse < S \/ S > MaxInt \div 2
  <2>1. g = s
    BY <1>5 DEF Grown
  <2>2. Kept(s, s) /\ Roomy(s)
    BY <1>5 DEF Kept, Roomy
  <2> QED
    BY <2>1, <2>2
<1>6. CASE ~(s.nuse < S \/ S > MaxInt \div 2) /\ o = "failed"
  <2>1. g = room
    BY <1>6 DEF Grown, room
  <2>2. MustGrow(s)
    BY <1>1, <1>6 DEF MustGrow
  <2> QED
    BY <1>3, <1>6, <2>1, <2>2
<1>7. CASE ~(s.nuse < S \/ S > MaxInt \div 2) /\ o # "failed"
  <2> DEFINE N == 2 * S
  <2>1. g = luaS_resize(room, N)
    BY <1>7 DEF Grown, room
  <2>2. N \in Nat \ {0} /\ s.nuse <= S /\ room.nuse < N
    BY <1>1, <1>3, <1>4, <1>7 DEF Fits
  <2> HIDE DEF N, g
  <2>3. Sound(g) /\ Size(g) = N /\ Kept(g, room) /\ g.nuse = room.nuse
    BY <1>3, <2>1, <2>2, ResizedSound
  <2>4. Kept(g, s)
    BY <1>3, <2>3 DEF Kept
  <2>5. Fits(g) /\ Roomy(g)
    BY <1>4, <2>2, <2>3 DEF Fits, Roomy
  <2> QED
    BY <2>3, <2>4, <2>5 DEF g
<1> QED
  BY <1>5, <1>6, <1>7

(* What a function that makes a string gives.                                *)
Made(r, s, c) ==
  /\ Sound(r.s) /\ Fits(r.s) /\ r.s.held = s.held
  /\ r.p = <<>> \/ \E p \in DOMAIN r.s.str : r.p = <<p>> /\ r.s.str[p] = c /\ r.s.color[p] # "old"

Stored(s, p, c, k) ==
  [s EXCEPT !.str = With(@, p, c), !.color = With(@, p, "white"), !.hash[k] = <<p>> \o @, !.nuse = @ + 1]

LEMMA StoredSound ==
  ASSUME StringConstants, NEW s, Sound(s), Roomy(s), NEW c \in Content, \A q \in DOMAIN s.str : s.str[q] # c,
         NEW p \in Pool, p \notin DOMAIN s.str, NEW k, k = lmod(s, c),
         NEW t, t = Stored(s, p, c, k)
  PROVE  Sound(t) /\ Fits(t) /\ t.held = s.held /\ p \in DOMAIN t.str /\ t.str[p] = c /\ t.color[p] # "old"
<1> DEFINE S == Size(s)
           T == DOMAIN s.str
           Color == {"white", "black", "old"}
           str == With(s.str, p, c)
           color == With(s.color, p, "white")
           h == [s.hash EXCEPT ![k] = <<p>> \o @]
<1>1. s \in StringState /\ Alive(s) /\ Table(s) /\ S \in Nat \ {0} /\ T \in SUBSET Pool /\ DOMAIN s.color = T
  BY Strings DEF Sound, Table, Alive
<1>2. t = [s EXCEPT !.str = str, !.color = color, !.hash = h, !.nuse = s.nuse + 1]
  BY <1>1 DEF StringState, Stored
<1> HIDE DEF S, T
<1>3. /\ str \in Partial(Content) /\ DOMAIN str = T \cup {p} /\ str[p] = c /\ \A q \in T : q # p => str[q] = s.str[q]
  <2>1. s.str \in Partial(Content)
    BY <1>1 DEF StringState
  <2>2. Extended(Content, s.str, p, c, str)
    BY <2>1, PartialWith
  <2> QED
    BY <2>2 DEF Extended, T
<1>4. /\ color \in Partial(Color) /\ DOMAIN color = T \cup {p} /\ color[p] = "white"
      /\ \A q \in T : q # p => color[q] = s.color[q]
  <2>1. s.color \in Partial(Color) /\ "white" \in Color
    BY <1>1 DEF StringState
  <2> HIDE DEF Color
  <2>2. Extended(Color, s.color, p, "white", color)
    BY <2>1, PartialWith
  <2> QED
    BY <1>1, <2>2 DEF Extended
<1> HIDE DEF str, color, h
<1>5. p \notin T
  BY DEF T
<1>6. /\ t.hash = h /\ t.nuse = s.nuse + 1 /\ t.str = str /\ t.color = color /\ t.held = s.held /\ t.state = s.state
      /\ t.unswept = s.unswept /\ t.cache = s.cache /\ t.memerrmsg = s.memerrmsg
  BY <1>1, <1>2 DEF StringState
<1>7. Holds(h, S, T \cup {p}, PlaceOf(t, S))
  <2> DEFINE loc == PlaceOf(t, S)
             a == Hash[c]
  <2>1. Holds(s.hash, S, T, PlaceOf(s, S))
    BY <1>1 DEF Table, S, T
  <2>2. \A q \in T : loc[q] = PlaceOf(s, S)[q]
    BY <1>3, <1>5, <1>6 DEF PlaceOf, T
  <2>3. loc[p] = k
    BY <1>3, <1>6 DEF PlaceOf, S, lmod
  <2>4. k \in 0 .. S - 1
    <3>1. a \in Int /\ k = a % S
      BY DEF StringConstants, S, lmod
    <3> HIDE DEF a
    <3> QED
      BY <1>1, <3>1, ModIn
  <2> HIDE DEF loc
  <2>5. Holds(s.hash, S, T, loc)
    BY <2>1, <2>2, HoldsElse
  <2>6. Holds([s.hash EXCEPT ![loc[p]] = <<p>> \o @], S, T \cup {p}, loc)
    BY <1>5, <2>3, <2>4, <2>5, HoldsPushed
  <2> QED
    BY <2>3, <2>6 DEF h, loc
<1>8. h \in Tables(0 .. S - 1) /\ h \in AllTables
  BY <1>1, <1>7 DEF Holds, AllTables
<1>9. t \in StringState
  <2>1. s.nuse + 1 \in Int
    BY <1>1 DEF StringState
  <2>2. t = [hash |-> h, nuse |-> s.nuse + 1, str |-> str, color |-> color, held |-> s.held, state |-> s.state,
             unswept |-> s.unswept, cache |-> s.cache, memerrmsg |-> s.memerrmsg]
    BY <1>1, <1>2 DEF StringState
  <2> QED
    BY <1>1, <1>3, <1>4, <1>8, <2>1, <2>2 DEF StringState
<1>10. Size(t) = S
  BY <1>1, <1>6, <1>8, TableSize DEF Size
<1>11. IsFiniteSet(T \cup {p}) /\ Cardinality(T \cup {p}) = s.nuse + 1
  <2>1. IsFiniteSet(T) /\ s.nuse = Cardinality(T)
    BY <1>1 DEF Table, T
  <2> QED
    BY <1>5, <2>1, FS_AddElement
<1>12. Table(t)
  <2>1. \A q, r \in T \cup {p} : str[q] = str[r] => q = r
    <3>1. \A q \in T : str[q] = s.str[q] /\ str[q] # c
      BY <1>3, <1>5 DEF T
    <3>2. \A q, r \in T : s.str[q] = s.str[r] => q = r
      BY <1>1 DEF Table, T
    <3> QED
      BY <1>3, <3>1, <3>2
  <2>2. Holds(t.hash, Size(t), DOMAIN t.str, PlaceOf(t, Size(t)))
    BY <1>3, <1>6, <1>7, <1>10
  <2>3. IsFiniteSet(DOMAIN t.str) /\ t.nuse = Cardinality(DOMAIN t.str)
    BY <1>3, <1>6, <1>11
  <2>4. \A q, r \in DOMAIN t.str : t.str[q] = t.str[r] => q = r
    BY <1>3, <1>6, <2>1
  <2> QED
    BY <1>1, <1>10, <2>2, <2>3, <2>4 DEF Table
<1>13. Alive(t)
  <2>1. \A q \in T : q \in T \cup {p} /\ str[q] = s.str[q] /\ color[q] = s.color[q]
    BY <1>3, <1>4, <1>5
  <2>2. s.unswept \subseteq T \ {s.memerrmsg} /\ s.memerrmsg \in T /\ s.color[s.memerrmsg] = "black"
    BY <1>1 DEF Alive, T
  <2>3. \A q \in DOMAIN s.held : q \in T /\ s.str[q] = s.held[q] /\ s.color[q] # "old"
    BY <1>1 DEF Alive, T
  <2>4. \A i \in CacheSets, j \in 1 .. 2 : s.cache[i][j] \in T /\ s.color[s.cache[i][j]] # "old"
    BY <1>1 DEF Alive, T
  <2>5. ASSUME NEW i \in CacheSets, NEW j \in 1 .. 2
        PROVE  s.cache[i][j] \in T \cup {p} /\ color[s.cache[i][j]] # "old"
    BY <2>1, <2>4
  <2>6. ASSUME NEW q \in DOMAIN s.held PROVE q \in T \cup {p} /\ str[q] = s.held[q] /\ color[q] # "old"
    BY <2>1, <2>3
  <2> QED
    BY <1>3, <1>4, <1>6, <2>1, <2>2, <2>5, <2>6 DEF Alive
<1>14. Fits(t)
  <2>1. s.nuse \in Nat
    BY Nuse
  <2> QED
    BY <1>1, <1>6, <1>10, <2>1 DEF Fits, Roomy, S
<1> QED
  BY <1>3, <1>4, <1>6, <1>9, <1>12, <1>13, <1>14 DEF Sound

(* A string is created where nothing is, whatever the allocation collected.   *)
LEMMA CreatedMakes ==
  ASSUME StringConstants, NEW s, Sound(s), Fits(s), Roomy(s), NEW c \in Content,
         \A q \in DOMAIN s.str : s.str[q] # c, NEW o \in Outcome
  PROVE  Made(Created(s, c, o), s, c)
<1> DEFINE room == Allocated(s, o)
           free == Pool \ DOMAIN room.str
           p == Min(free)
           k == lmod(s, c)
           t == Stored(room, p, c, k)
           r == Created(s, c, o)
<1>1. Collects(room, s, TRUE)
  BY AllocatedCollects
<1>2. Sound(room) /\ Kept(room, s) /\ room.nuse <= s.nuse /\ Fits(room) /\ Size(room) = Size(s)
  BY <1>1 DEF Collects
<1>3. r = IF o = "failed" \/ free = {} THEN [s |-> room, p |-> <<>>] ELSE [s |-> t, p |-> <<p>>]
  BY DEF Created, Stored
<1> HIDE DEF r, room
<1>4. CASE o = "failed" \/ free = {}
  <2>1. r.s = room /\ r.p = <<>>
    BY <1>3, <1>4
  <2> QED
    BY <1>2, <2>1 DEF Made, Kept, r
<1>5. CASE ~(o = "failed" \/ free = {})
  <2>1. r.s = t /\ r.p = <<p>>
    BY <1>3, <1>5
  <2>2. p \in free
    <3>1. free \in SUBSET Nat /\ free # {}
      BY <1>5 DEF StringConstants
    <3> HIDE DEF free
    <3> QED
      BY <3>1, MinIn
  <2>3. Roomy(room)
    <3>1. room.nuse \in Nat /\ s.nuse \in Nat /\ Size(s) \in Nat
      BY <1>2, Nuse
    <3> QED
      BY <1>2, <3>1 DEF Roomy
  <2>4. \A q \in DOMAIN room.str : room.str[q] # c
    BY <1>2 DEF Kept
  <2>5. k = lmod(room, c) /\ p \in Pool /\ p \notin DOMAIN room.str
    BY <1>2, <2>2 DEF lmod
  <2> HIDE DEF p, k, free
  <2>6. Sound(t) /\ Fits(t) /\ t.held = room.held /\ p \in DOMAIN t.str /\ t.str[p] = c /\ t.color[p] # "old"
    BY <1>2, <2>3, <2>4, <2>5, StoredSound
  <2> HIDE DEF t
  <2>7. Made(r, s, c)
    BY <1>2, <2>1, <2>6 DEF Made, Kept
  <2> QED
    BY <2>7 DEF r
<1> QED
  BY <1>4, <1>5

LEMMA ChangewhiteSound ==
  ASSUME StringConstants, NEW s, Sound(s), Fits(s), NEW p \in DOMAIN s.str, NEW t, t = changewhite(s, p)
  PROVE  Sound(t) /\ Fits(t) /\ t.held = s.held /\ t.str = s.str /\ t.color[p] # "old"
<1> DEFINE Color == {"white", "black", "old"}
           color == [s.color EXCEPT ![p] = "white"]
<1>1. s \in StringState /\ Alive(s) /\ Table(s) /\ DOMAIN s.color = DOMAIN s.str
  BY DEF Sound, Alive
<1>2. CASE s.color[p] # "old"
  BY <1>2 DEF changewhite
<1>3. CASE s.color[p] = "old"
  <2>1. s.color \in Partial(Color) /\ DOMAIN color = DOMAIN s.color /\ color = [q \in DOMAIN color |-> color[q]]
    BY <1>1 DEF StringState
  <2>2. \A q \in DOMAIN s.color : color[q] = IF q = p THEN "white" ELSE s.color[q]
    OBVIOUS
  <2>3. \A q \in DOMAIN s.color : color[q] \in Color
    BY <1>1, <2>2, Strings
  <2>4. t = [s EXCEPT !.color = color]
    BY <1>1, <1>3 DEF changewhite, StringState
  <2> HIDE DEF color
  <2>5. color \in Partial(Color)
    <3> HIDE DEF Color
    <3> QED
      BY <2>1, <2>3, PartialMap
  <2>6. /\ t.hash = s.hash /\ t.nuse = s.nuse /\ t.str = s.str /\ t.color = color /\ t.held = s.held
        /\ t.unswept = s.unswept /\ t.cache = s.cache /\ t.memerrmsg = s.memerrmsg
    BY <1>1, <2>4 DEF StringState
  <2>7. t \in StringState
    BY <1>1, <2>4, <2>5 DEF StringState
  <2>8. Table(t) /\ Size(t) = Size(s)
    BY <1>1, <2>6, TableSame
  <2>9. color[p] = "white" /\ \A q \in DOMAIN s.str : s.color[q] # "old" => color[q] = s.color[q]
    BY <1>1, <1>3, <2>2
  <2>10. Alive(t)
    <3>1. s.memerrmsg \in DOMAIN s.str /\ color[s.memerrmsg] = "black"
      BY <1>1, <2>9 DEF Alive
    <3>2. ASSUME NEW i \in CacheSets, NEW j \in 1 .. 2
          PROVE  s.cache[i][j] \in DOMAIN s.str /\ color[s.cache[i][j]] # "old"
      <4>1. s.cache[i][j] \in DOMAIN s.str /\ s.color[s.cache[i][j]] # "old"
        BY <1>1 DEF Alive
      <4> QED
        BY <2>9, <4>1
    <3>3. ASSUME NEW q \in DOMAIN s.held PROVE q \in DOMAIN s.str /\ s.str[q] = s.held[q] /\ color[q] # "old"
      BY <1>1, <2>9 DEF Alive
    <3> QED
      BY <1>1, <2>1, <2>6, <3>1, <3>2, <3>3 DEF Alive
  <2> QED
    BY <2>6, <2>7, <2>8, <2>9, <2>10 DEF Sound, Fits
<1> QED
  BY <1>2, <1>3

(* internshrstr finds the string if it is there.                             *)
FoundAt(s, list, c) == SelectInSeq(list, LAMBDA p : s.str[p] = c)

LEMMA FoundInList ==
  ASSUME StringConstants, NEW s, Sound(s), NEW c \in Content, NEW list, list = s.hash[lmod(s, c)],
         NEW at, at = FoundAt(s, list, c)
  PROVE  /\ at # 0 => list[at] \in DOMAIN s.str /\ s.str[list[at]] = c
         /\ at = 0 => \A q \in DOMAIN s.str : s.str[q] # c
<1> DEFINE S == Size(s)
           T == DOMAIN s.str
           loc == PlaceOf(s, S)
           k == lmod(s, c)
           I == {i \in 1 .. Len(list) : s.str[list[i]] = c}
<1>1. s \in StringState /\ S \in Nat \ {0} /\ Holds(s.hash, S, T, loc)
  BY DEF Sound, Table
<1>2. k \in 0 .. S - 1
  <2> DEFINE a == Hash[c]
  <2>1. a \in Int /\ k = a % S
    BY DEF StringConstants, lmod
  <2> HIDE DEF a, k, S
  <2> QED
    BY <1>1, <2>1, ModIn
<1> HIDE DEF k, S, T, loc
<1>3. Lists(list, {p \in T : loc[p] = k})
  BY <1>1, <1>2 DEF Holds, k
<1>4. /\ Len(list) \in Nat /\ \A a \in 1 .. Len(list) : list[a] \in T
      /\ \A p \in T : loc[p] = k => \E a \in 1 .. Len(list) : list[a] = p
  <2> DEFINE U == {p \in T : loc[p] = k}
  <2>1. \A x : x \in U <=> x \in T /\ loc[x] = k
    OBVIOUS
  <2>2. Lists(list, U)
    BY <1>3
  <2> HIDE DEF U
  <2> QED
    BY <2>1, <2>2, ListsIn
<1>5. at = IF I # {} THEN Min(I) ELSE 0
  BY DEF SelectInSeq, FoundAt
<1>6. I \in SUBSET Nat /\ 0 \notin I
  BY <1>4
<1>7. CASE I # {}
  <2>1. at \in I
    <3> HIDE DEF I
    <3> QED
      BY <1>5, <1>6, <1>7, MinIn
  <2>2. at \in 1 .. Len(list) /\ s.str[list[at]] = c /\ at # 0
    BY <1>6, <2>1
  <2> QED
    BY <1>4, <2>2 DEF T
<1>8. CASE I = {}
  <2>1. ASSUME NEW q \in T, s.str[q] = c PROVE FALSE
    <3>1. loc[q] = k
      BY <2>1 DEF loc, PlaceOf, k, lmod, S, T
    <3>2. PICK a \in 1 .. Len(list) : list[a] = q
      BY <1>4, <3>1
    <3>3. a \in I
      BY <2>1, <3>2
    <3> QED
      BY <1>8, <3>3
  <2>2. at = 0
    BY <1>5, <1>8
  <2> QED
    BY <2>1, <2>2 DEF T
<1> QED
  BY <1>7, <1>8

LEMMA InternMakes ==
  ASSUME StringConstants, NEW s, Sound(s), Fits(s), NEW c \in Content, NEW grow \in Outcome, NEW create \in Outcome
  PROVE  Made(internshrstr(s, c, grow, create), s, c)
<1> DEFINE list == s.hash[lmod(s, c)]
           at == FoundAt(s, list, c)
           p == list[at]
           g == Grown(s, grow)
           r == internshrstr(s, c, grow, create)
<1>1. r = IF at # 0 THEN [s |-> changewhite(s, p), p |-> <<p>>]
          ELSE IF MustGrow(s) /\ grow = "failed" THEN [s |-> g, p |-> <<>>]
          ELSE Created(g, c, create)
  BY DEF internshrstr, FoundAt
<1>2. /\ at # 0 => p \in DOMAIN s.str /\ s.str[p] = c
      /\ at = 0 => \A q \in DOMAIN s.str : s.str[q] # c
  BY FoundInList
<1> HIDE DEF r, at, p, list, g
<1>3. CASE at # 0
  <2> DEFINE t == changewhite(s, p)
  <2>1. p \in DOMAIN s.str /\ s.str[p] = c
    BY <1>2, <1>3
  <2>2. r.s = t /\ r.p = <<p>>
    BY <1>1, <1>3
  <2> HIDE DEF t
  <2>3. Sound(t) /\ Fits(t) /\ t.held = s.held /\ t.str = s.str /\ t.color[p] # "old"
    BY <2>1, ChangewhiteSound DEF t
  <2>4. Made(r, s, c)
    BY <2>1, <2>2, <2>3 DEF Made
  <2> QED
    BY <2>4 DEF r
<1>4. CASE at = 0
  <2>1. Sound(g) /\ Fits(g) /\ Kept(g, s) /\ (~(MustGrow(s) /\ grow = "failed") => Roomy(g))
    BY GrownSound DEF g
  <2>2. CASE MustGrow(s) /\ grow = "failed"
    <3>1. r.s = g /\ r.p = <<>>
      BY <1>1, <1>4, <2>2
    <3>2. Made(r, s, c)
      BY <2>1, <3>1 DEF Made, Kept
    <3> QED
      BY <3>2 DEF r
  <2>3. CASE ~(MustGrow(s) /\ grow = "failed")
    <3>1. r = Created(g, c, create)
      BY <1>1, <1>4, <2>3
    <3>2. \A q \in DOMAIN g.str : g.str[q] # c
      BY <1>2, <1>4, <2>1 DEF Kept
    <3>3. Made(Created(g, c, create), g, c)
      BY <2>1, <2>3, <3>2, CreatedMakes
    <3>4. Made(r, s, c)
      BY <2>1, <3>1, <3>3 DEF Made, Kept
    <3> QED
      BY <3>4 DEF r
  <2> QED
    BY <2>2, <2>3
<1> QED
  BY <1>3, <1>4

LEMMA CachedSound ==
  ASSUME StringConstants, NEW s, Sound(s), Fits(s), NEW i \in CacheSets, NEW j \in 1 .. 2,
         NEW p \in DOMAIN s.str, s.color[p] # "old", NEW t, t = [s EXCEPT !.cache[i][j] = p]
  PROVE  Sound(t) /\ Fits(t) /\ t.held = s.held /\ t.str = s.str /\ t.color = s.color
<1> DEFINE cache == [s.cache EXCEPT ![i][j] = p]
<1>1. s \in StringState /\ Alive(s) /\ Table(s) /\ p \in Pool
  BY Strings DEF Sound
<1>2. t = [s EXCEPT !.cache = cache] /\ s.cache \in [CacheSets -> [1 .. 2 -> Pool]]
  BY <1>1 DEF StringState
<1>3. /\ cache \in [CacheSets -> [1 .. 2 -> Pool]]
      /\ \A a \in CacheSets, b \in 1 .. 2 : cache[a][b] = p \/ cache[a][b] = s.cache[a][b]
  BY <1>1, <1>2
<1> HIDE DEF cache
<1>4. /\ t.hash = s.hash /\ t.nuse = s.nuse /\ t.str = s.str /\ t.color = s.color /\ t.held = s.held
      /\ t.unswept = s.unswept /\ t.cache = cache /\ t.memerrmsg = s.memerrmsg
  BY <1>1, <1>2 DEF StringState
<1>5. t \in StringState
  BY <1>1, <1>2, <1>3 DEF StringState
<1>6. Table(t) /\ Size(t) = Size(s)
  BY <1>1, <1>4, TableSame
<1>7. Alive(t)
  BY <1>1, <1>3, <1>4 DEF Alive
<1> QED
  BY <1>4, <1>5, <1>6, <1>7 DEF Sound, Fits

LEMMA NewMakes ==
  ASSUME StringConstants, NEW s, Sound(s), Fits(s), NEW i \in CacheSets,
         NEW c \in Content, NEW grow \in Outcome, NEW create \in Outcome
  PROVE  Made(luaS_new(s, i, c, grow, create), s, c)
<1> DEFINE hits == {j \in 1 .. 2 : s.str[s.cache[i][j]] = c}
           s2 == [s EXCEPT !.cache[i][2] = s.cache[i][1]]
           made == internshrstr(s2, c, grow, create)
           q == s.cache[i][Min(hits)]
           kept == [made EXCEPT !.s.cache[i][1] = made.p[1]]
           r == luaS_new(s, i, c, grow, create)
<1>1. r = IF hits # {} THEN [s |-> s, p |-> <<q>>] ELSE IF made.p = <<>> THEN made ELSE kept
  BY DEF luaS_new
<1>2. \A j \in 1 .. 2 : s.cache[i][j] \in DOMAIN s.str /\ s.color[s.cache[i][j]] # "old"
  BY DEF Sound, Alive
<1> HIDE DEF r
<1>3. CASE hits # {}
  <2>1. Min(hits) \in hits
    <3>1. hits \in SUBSET Nat
      OBVIOUS
    <3> HIDE DEF hits
    <3> QED
      BY <1>3, <3>1, MinIn
  <2>2. q \in DOMAIN s.str /\ s.str[q] = c /\ s.color[q] # "old"
    BY <1>2, <2>1
  <2> HIDE DEF q, hits
  <2>3. r.s = s /\ r.p = <<q>>
    BY <1>1, <1>3
  <2>4. Made(r, s, c)
    BY <2>2, <2>3 DEF Made
  <2> QED
    BY <2>4 DEF r
<1>4. CASE hits = {}
  <2>1. Sound(s2) /\ Fits(s2) /\ s2.held = s.held
    <3> DEFINE x == s.cache[i][1]
    <3>1. x \in DOMAIN s.str /\ s.color[x] # "old"
      BY <1>2
    <3> HIDE DEF x
    <3>2. s2 = [s EXCEPT !.cache[i][2] = x] /\ 2 \in 1 .. 2
      BY DEF x
    <3> HIDE DEF s2
    <3> QED
      BY <3>1, <3>2, CachedSound
  <2> HIDE DEF s2
  <2>2. Made(made, s2, c)
    BY <2>1, InternMakes
  <2>3. CASE made.p = <<>>
    <3>1. r = made
      BY <1>1, <1>4, <2>3
    <3> HIDE DEF made
    <3>2. Made(r, s, c)
      BY <2>1, <2>2, <3>1 DEF Made
    <3> QED
      BY <3>2 DEF r
  <2>4. CASE made.p # <<>>
    <3>1. r = kept
      BY <1>1, <1>4, <2>4
    <3>2. DOMAIN made = {"s", "p"} /\ made = [s |-> made.s, p |-> made.p]
      BY DEF internshrstr, Created
    <3> HIDE DEF made
    <3> DEFINE m == made.s
    <3>3. PICK p \in DOMAIN m.str : made.p = <<p>> /\ m.str[p] = c /\ m.color[p] # "old"
      BY <2>2, <2>4 DEF Made
    <3> DEFINE t == [m EXCEPT !.cache[i][1] = p]
    <3>4. r.s = t /\ r.p = <<p>>
      BY <3>1, <3>2, <3>3
    <3>5. Sound(m) /\ Fits(m) /\ m.held = s.held
      BY <2>1, <2>2 DEF Made
    <3> HIDE DEF m
    <3>6. Sound(t) /\ Fits(t) /\ t.held = m.held /\ t.str = m.str /\ t.color = m.color
      <4>1. 1 \in 1 .. 2
        OBVIOUS
      <4> QED
        BY <3>3, <3>5, <4>1, CachedSound
    <3> HIDE DEF t
    <3>7. Made(r, s, c)
      BY <3>3, <3>4, <3>5, <3>6 DEF Made
    <3> QED
      BY <3>7 DEF r
  <2> QED
    BY <2>3, <2>4
<1> QED
  BY <1>3, <1>4

Good == Sound(st) /\ Fits(st)

LEMMA GotGood ==
  ASSUME StringConstants, Good, NEW c \in Content, NEW r, Made(r, st, c), Got(r, c)
  PROVE  Good'
<1>1. CASE r.p = <<>>
  <2>1. st' = r.s
    BY <1>1 DEF Got
  <2>2. Sound(r.s) /\ Fits(r.s)
    BY DEF Made
  <2> QED
    BY <2>1, <2>2 DEF Good
<1>2. CASE r.p # <<>>
  <2> DEFINE s == r.s
             t == [s EXCEPT !.held = With(@, r.p[1], c)]
  <2>1. PICK p \in DOMAIN s.str : r.p = <<p>> /\ s.str[p] = c /\ s.color[p] # "old"
    BY <1>2 DEF Made
  <2>2. Sound(s) /\ Fits(s)
    BY DEF Made
  <2>3. st' = t /\ r.p[1] = p
    BY <1>2, <2>1 DEF Got
  <2> DEFINE held == With(s.held, p, c)
  <2> HIDE DEF s
  <2>4. s \in StringState /\ Alive(s) /\ Table(s) /\ p \in Pool
    BY <2>1, <2>2, Strings DEF Sound
  <2>5. t = [s EXCEPT !.held = held]
    BY <2>3, <2>4 DEF StringState
  <2>6. held \in Partial(Content) /\ DOMAIN held = DOMAIN s.held \cup {p} /\ held[p] = c
        /\ \A q \in DOMAIN s.held : q # p => held[q] = s.held[q]
    <3>1. s.held \in Partial(Content)
      BY <2>4 DEF StringState
    <3>2. Extended(Content, s.held, p, c, held)
      BY <2>4, <3>1, PartialWith
    <3> QED
      BY <3>2 DEF Extended
  <2> HIDE DEF held, t
  <2>7. /\ t.hash = s.hash /\ t.nuse = s.nuse /\ t.str = s.str /\ t.color = s.color /\ t.held = held
        /\ t.unswept = s.unswept /\ t.cache = s.cache /\ t.memerrmsg = s.memerrmsg
    BY <2>4, <2>5 DEF StringState
  <2>8. t \in StringState
    BY <2>4, <2>5, <2>6 DEF StringState
  <2>9. Table(t) /\ Size(t) = Size(s)
    BY <2>4, <2>7, TableSame
  <2>10. Alive(t)
    <3>1. \A q \in DOMAIN held : q \in DOMAIN s.str /\ s.str[q] = held[q] /\ s.color[q] # "old"
      BY <2>1, <2>4, <2>6 DEF Alive
    <3> QED
      BY <2>4, <2>7, <3>1 DEF Alive
  <2>11. Sound(t) /\ Fits(t)
    BY <2>2, <2>7, <2>8, <2>9, <2>10 DEF Sound, Fits
  <2> QED
    BY <2>3, <2>11 DEF Good
<1> QED
  BY <1>1, <1>2

LEMMA DropGood ==
  ASSUME StringConstants, Good, NEW p, Drop(p)
  PROVE  Good'
<1> DEFINE s == st
           held == Restrict(s.held, DOMAIN s.held \ {p})
           t == [s EXCEPT !.held = held]
<1>1. st' = t /\ Sound(s) /\ Fits(s) /\ s \in StringState /\ Alive(s) /\ Table(s)
  BY DEF Drop, Good, Sound, StringState
<1> HIDE DEF s
<1>2. /\ held \in Partial(Content) /\ DOMAIN held = DOMAIN s.held \ {p}
      /\ \A q \in DOMAIN s.held \ {p} : held[q] = s.held[q]
  <2>1. s.held \in Partial(Content)
    BY <1>1 DEF StringState
  <2> QED
    BY <2>1, PartialRestrict
<1> HIDE DEF held
<1>3. /\ t.hash = s.hash /\ t.nuse = s.nuse /\ t.str = s.str /\ t.color = s.color /\ t.held = held
      /\ t.unswept = s.unswept /\ t.cache = s.cache /\ t.memerrmsg = s.memerrmsg
  BY <1>1 DEF StringState
<1>4. t \in StringState
  BY <1>1, <1>2 DEF StringState
<1> HIDE DEF t
<1>5. Table(t) /\ Size(t) = Size(s)
  BY <1>1, <1>3, TableSame
<1>6. Alive(t)
  BY <1>1, <1>2, <1>3 DEF Alive
<1>7. Sound(t) /\ Fits(t)
  BY <1>1, <1>3, <1>4, <1>5, <1>6 DEF Sound, Fits
<1> QED
  BY <1>1, <1>7 DEF Good

LEMMA MarkGood ==
  ASSUME StringConstants, Good, NEW p, MarkString(p)
  PROVE  Good'
<1> DEFINE s == st
           Color == {"white", "black", "old"}
           color == [s.color EXCEPT ![p] = "black"]
           t == [s EXCEPT !.color = color]
<1>1. s \in StringState /\ Alive(s) /\ Table(s) /\ Sound(s) /\ Fits(s) /\ DOMAIN s.color = DOMAIN s.str
  BY DEF Good, Sound, Alive
<1>2. st' = t
  BY <1>1 DEF MarkString, StringState
<1> HIDE DEF s
<1>3. s.color \in Partial(Color) /\ DOMAIN color = DOMAIN s.color /\ color = [q \in DOMAIN color |-> color[q]]
  BY <1>1 DEF StringState
<1>4. \A q \in DOMAIN s.color : color[q] = IF q = p THEN "black" ELSE s.color[q]
  OBVIOUS
<1>5. \A q \in DOMAIN s.color : color[q] \in Color
  BY <1>1, <1>4, Strings
<1> HIDE DEF color
<1>6. color \in Partial(Color)
  <2> HIDE DEF Color
  <2> QED
    BY <1>3, <1>5, PartialMap
<1>7. /\ t.hash = s.hash /\ t.nuse = s.nuse /\ t.str = s.str /\ t.color = color /\ t.held = s.held
      /\ t.unswept = s.unswept /\ t.cache = s.cache /\ t.memerrmsg = s.memerrmsg
  BY <1>1 DEF StringState
<1>8. t \in StringState
  BY <1>1, <1>6 DEF StringState
<1> HIDE DEF t
<1>9. Table(t) /\ Size(t) = Size(s)
  BY <1>1, <1>7, TableSame
<1>10. Alive(t)
  <2>1. \A q \in DOMAIN s.str : (s.color[q] # "old" => color[q] # "old") /\ (s.color[q] = "black" => color[q] = "black")
    BY <1>1, <1>4
  <2>2. s.memerrmsg \in DOMAIN s.str /\ color[s.memerrmsg] = "black"
    BY <1>1, <2>1 DEF Alive
  <2>3. ASSUME NEW i \in CacheSets, NEW j \in 1 .. 2
        PROVE  s.cache[i][j] \in DOMAIN s.str /\ color[s.cache[i][j]] # "old"
    <3>1. s.cache[i][j] \in DOMAIN s.str /\ s.color[s.cache[i][j]] # "old"
      BY <1>1 DEF Alive
    <3> QED
      BY <2>1, <3>1
  <2>4. ASSUME NEW q \in DOMAIN s.held PROVE q \in DOMAIN s.str /\ s.str[q] = s.held[q] /\ color[q] # "old"
    BY <1>1, <2>1 DEF Alive
  <2>5. s.unswept \subseteq DOMAIN s.str \ {s.memerrmsg}
    BY <1>1 DEF Alive
  <2> QED
    BY <1>1, <1>3, <1>7, <2>2, <2>3, <2>4, <2>5 DEF Alive
<1>11. Sound(t) /\ Fits(t)
  BY <1>1, <1>7, <1>8, <1>9, <1>10 DEF Sound, Fits
<1> QED
  BY <1>2, <1>11 DEF Good

(* Every action keeps the table as it has to be.                             *)
LEMMA GoodStep ==
  ASSUME StringConstants, Good, [StringNext]_st
  PROVE  Good'
<1>1. Sound(st) /\ Fits(st)
  BY DEF Good
<1>2. ASSUME NEW c \in Content, NewString(c) PROVE Good'
  <2>1. PICK grow, create \in Outcome : Got(internshrstr(st, c, grow, create), c)
    BY <1>2 DEF NewString
  <2>2. Made(internshrstr(st, c, grow, create), st, c)
    BY <1>1, InternMakes
  <2> QED
    BY <2>1, <2>2, GotGood
<1>3. ASSUME NEW c \in Content, NEW i \in CacheSets, NewCached(i, c) PROVE Good'
  <2>1. PICK grow, create \in Outcome : Got(luaS_new(st, i, c, grow, create), c)
    BY <1>3 DEF NewCached
  <2>2. Made(luaS_new(st, i, c, grow, create), st, c)
    BY <1>1, NewMakes
  <2> QED
    BY <2>1, <2>2, GotGood
<1>4. ASSUME NEW p, Drop(p) PROVE Good'
  BY <1>4, DropGood
<1>5. ASSUME NEW p, MarkString(p) PROVE Good'
  BY <1>5, MarkGood
<1>6. ASSUME NEW p, SweepString(p) PROVE Good'
  <2> DEFINE t == Swept(st, p)
  <2>1. p \in st.unswept /\ st' = t
    BY <1>6 DEF SweepString
  <2>2. Sound(t) /\ Size(t) = Size(st) /\ Kept(t, st) /\ t.nuse <= st.nuse
    BY <1>1, <2>1, SweptSound
  <2> HIDE DEF t
  <2>3. Collects(t, st, TRUE)
    BY <1>1, <2>2, SameCollects
  <2> QED
    BY <1>1, <2>1, <2>3 DEF Collects, Good
<1>7. ASSUME Restart PROVE Good'
  <2> DEFINE t == [st EXCEPT !.state = "propagate"]
  <2>1. st' = t
    BY <1>7 DEF Restart
  <2>2. Sound(t) /\ Size(t) = Size(st) /\ t.nuse = st.nuse
    BY <1>1, PhaseSound
  <2> HIDE DEF t
  <2> QED
    BY <1>1, <2>1, <2>2 DEF Good, Fits
<1>8. ASSUME FinishMark PROVE Good'
  <2>1. Collects(Atomic(st), st, TRUE)
    BY <1>1, AtomicCollects
  <2> QED
    BY <1>1, <1>8, <2>1 DEF FinishMark, Collects, Good
<1>9. ASSUME FinishSweep PROVE Good'
  <2>1. Collects(EndSweep(st, FALSE), st, FALSE)
    BY <1>1, EndSweepCollects
  <2> QED
    BY <1>1, <1>9, <2>1 DEF FinishSweep, Collects, Good
<1>10. ASSUME FullCollect PROVE Good'
  <2>1. Collects(luaC_fullgc(st, FALSE), st, FALSE)
    BY <1>1, FullgcCollects
  <2> QED
    BY <1>1, <1>10, <2>1 DEF FullCollect, Collects, Good
<1>11. CASE UNCHANGED st
  BY <1>1, <1>11 DEF Good
<1> QED
  BY <1>2, <1>3, <1>4, <1>5, <1>6, <1>7, <1>8, <1>9, <1>10, <1>11 DEF StringNext

LEMMA GoodInit ==
  ASSUME StringConstants, StringInit
  PROVE  Good
<1>1. PICK n \in MinSizes : st = luaS_init(n)
  BY DEF StringInit
<1> DEFINE m == Min(Pool)
           c == MEMERRMSG
           k == Hash[c] % n
           none == [i \in 0 .. n - 1 |-> <<>>]
           empty == [hash |-> none, nuse |-> 0, str |-> <<>>, color |-> <<>>, held |-> <<>>,
                     state |-> "pause", unswept |-> {}, cache |-> <<>>, memerrmsg |-> 0]
           str == With(<<>>, m, c)
           color == With(<<>>, m, "black")
           h == [none EXCEPT ![k] = <<m>> \o @]
           cache == [i \in CacheSets |-> <<m, m>>]
           s == luaS_init(n)
<1>2. n \in Nat \ {0} /\ c \in Content /\ Pool \in SUBSET Nat /\ Pool # {} /\ Hash[c] \in Nat
  BY DEF StringConstants
<1>3. m \in Pool
  <2>1. Pool \in SUBSET Nat /\ Pool # {}
    BY <1>2
  <2> QED
    BY <2>1, MinIn
<1>4. DOMAIN none = 0 .. n - 1 /\ none \in Tables(0 .. n - 1) /\ \A i \in 0 .. n - 1 : none[i] = <<>>
  BY DEF Tables
<1> HIDE DEF none
<1>5. Size(empty) = n
  <2>1. Cardinality(DOMAIN none) = n
    BY <1>2, <1>4, TableSize
  <2> QED
    BY <2>1 DEF Size
<1>6. k \in 0 .. n - 1 /\ k = lmod(empty, c)
  <2> DEFINE a == Hash[c]
  <2>1. a \in Int
    BY <1>2
  <2>2. lmod(empty, c) = a % n
    BY <1>5 DEF lmod
  <2> HIDE DEF a
  <2>3. a % n \in 0 .. n - 1
    BY <1>2, <2>1, ModIn
  <2> QED
    BY <2>2, <2>3 DEF a
<1> HIDE DEF m, c, k
<1>7. s = [hash |-> h, nuse |-> 1, str |-> str, color |-> color, held |-> <<>>, state |-> "pause", unswept |-> {},
           cache |-> cache, memerrmsg |-> m]
  <2> DEFINE white == With(<<>>, m, "white")
             t == [hash |-> h, nuse |-> 1, str |-> str, color |-> white, held |-> <<>>, state |-> "pause",
                   unswept |-> {}, cache |-> <<>>, memerrmsg |-> 0]
  <2>1. Allocated(empty, "done") = empty /\ Pool \ DOMAIN empty.str = Pool
    BY DEF Allocated
  <2>2. Created(empty, c, "done") = [s |-> t, p |-> <<m>>]
    <3>1. Created(empty, c, "done") =
            [s |-> [empty EXCEPT !.str = With(@, m, c), !.color = With(@, m, "white"),
                                 !.hash[k] = <<m>> \o @, !.nuse = @ + 1], p |-> <<m>>]
      <4> HIDE DEF empty
      <4> QED
        BY <1>2, <1>6, <2>1 DEF Created, m
    <3> DEFINE new == [empty EXCEPT !.str = With(@, m, c), !.color = With(@, m, "white"),
                                    !.hash[k] = <<m>> \o @, !.nuse = @ + 1]
    <3>2. new = t
      <4>1. new = [empty EXCEPT !.str = With(empty.str, m, c), !.color = With(empty.color, m, "white"),
                                !.hash = [empty.hash EXCEPT ![k] = <<m>> \o @], !.nuse = empty.nuse + 1]
        OBVIOUS
      <4>2. With(empty.str, m, c) = str /\ With(empty.color, m, "white") = white /\ empty.nuse + 1 = 1
        OBVIOUS
      <4>3. [empty.hash EXCEPT ![k] = <<m>> \o @] = h
        OBVIOUS
      <4> HIDE DEF str, white, h, new
      <4> QED
        BY <4>1, <4>2, <4>3
    <3> HIDE DEF empty, t
    <3> QED
      BY <3>1, <3>2
  <2>3. s = [t EXCEPT !.memerrmsg = m, !.color[m] = "black", !.cache = cache]
    <3>1. s = [Created(empty, c, "done").s EXCEPT
                 !.memerrmsg = Created(empty, c, "done").p[1], !.color[Created(empty, c, "done").p[1]] = "black",
                 !.cache = [i \in CacheSets |-> <<Created(empty, c, "done").p[1], Created(empty, c, "done").p[1]>>]]
      BY DEF luaS_init, none, c
    <3>2. Created(empty, c, "done").s = t /\ Created(empty, c, "done").p[1] = m
      <4> HIDE DEF t, empty
      <4> QED
        BY <2>2
    <3> HIDE DEF t, empty
    <3> QED
      BY <3>1, <3>2
  <2>4. [white EXCEPT ![m] = "black"] = color
    BY DEF With
  <2> HIDE DEF white, color, str, h, cache, s
  <2> QED
    BY <2>3, <2>4
<1> HIDE DEF s, h, str, color, cache
<1>8. /\ s.hash = h /\ s.nuse = 1 /\ s.str = str /\ s.color = color /\ s.held = <<>>
      /\ s.unswept = {} /\ s.cache = cache /\ s.memerrmsg = m
  BY <1>7
<1>9. DOMAIN str = {m} /\ str[m] = c /\ DOMAIN color = {m} /\ color[m] = "black"
  BY DEF str, color, With
<1>10. Holds(h, n, {m}, PlaceOf(s, n))
  <2> DEFINE loc == PlaceOf(s, n)
  <2>1. loc[m] = k
    BY <1>8, <1>9 DEF PlaceOf, k
  <2> HIDE DEF loc
  <2>2. Holds(none, n, {}, loc)
    <3>1. \A i \in 0 .. n - 1 : {p \in {} : loc[p] = i} = {}
      OBVIOUS
    <3>2. Lists(<<>>, {})
      BY DEF Lists, IsInjective, ToSet
    <3> QED
      BY <1>4, <3>1, <3>2 DEF Holds
  <2>3. m \notin {} /\ loc[m] \in 0 .. n - 1
    BY <1>6, <2>1
  <2>4. Holds([none EXCEPT ![loc[m]] = <<m>> \o @], n, {} \cup {m}, loc)
    BY <1>3, <2>2, <2>3, HoldsPushed
  <2>5. {} \cup {m} = {m}
    OBVIOUS
  <2> QED
    BY <2>1, <2>4, <2>5 DEF h, loc
<1>11. h \in Tables(0 .. n - 1) /\ h \in AllTables
  BY <1>2, <1>10 DEF Holds, AllTables
<1>12. Size(s) = n
  BY <1>2, <1>8, <1>11, TableSize DEF Size
<1>13. s \in StringState
  <2>1. <<>> \in Partial(Content)
    BY DEF Partial
  <2>2. str \in Partial(Content)
    <3>1. str \in [{m} -> Content] /\ {m} \in SUBSET Pool
      BY <1>2, <1>3 DEF str, With
    <3> QED
      BY <3>1, PartialIs
  <2>3. color \in Partial({"white", "black", "old"})
    <3> DEFINE Color == {"white", "black", "old"}
    <3>1. color \in [{m} -> Color] /\ {m} \in SUBSET Pool
      BY <1>3 DEF color, With
    <3> HIDE DEF Color
    <3>2. color \in Partial(Color)
      BY <3>1, PartialIs
    <3> QED
      BY <3>2 DEF Color
  <2>4. cache \in [CacheSets -> [1 .. 2 -> Pool]]
    BY <1>3 DEF cache
  <2> QED
    BY <1>3, <1>7, <1>11, <2>1, <2>2, <2>3, <2>4 DEF StringState
<1>14. Table(s)
  <2>1. IsFiniteSet({m}) /\ Cardinality({m}) = 1
    BY FS_Singleton
  <2> QED
    BY <1>2, <1>8, <1>9, <1>10, <1>12, <2>1 DEF Table
<1>15. Alive(s)
  <2>1. \A i \in CacheSets, j \in 1 .. 2 : cache[i][j] = m
    BY DEF cache
  <2>2. DOMAIN s.held = {}
    BY <1>8
  <2> QED
    BY <1>8, <1>9, <2>1, <2>2 DEF Alive
<1>16. Fits(s)
  BY <1>2, <1>8, <1>12 DEF Fits
<1> QED
  BY <1>1, <1>13, <1>14, <1>15, <1>16 DEF Good, Sound, s

LEMMA GoodInterned ==
  ASSUME StringConstants, Good
  PROVE  InternedRight
<1> DEFINE s == st
           S == Size(s)
           T == DOMAIN s.str
           loc == PlaceOf(s, S)
           all == UNION {ToSet(s.hash[i]) : i \in DOMAIN s.hash}
<1>1. s \in StringState /\ Alive(s) /\ Table(s) /\ Fits(s) /\ S \in Nat \ {0}
  BY DEF Good, Sound, Table
<1>2. HeldStays
  BY <1>1 DEF Alive, HeldStays
<1>3. Unique
  <2>1. SUFFICES ASSUME NEW p \in DOMAIN st.held, NEW q \in DOMAIN st.held, st.held[p] = st.held[q] PROVE p = q
    BY DEF Unique
  <2>2. p \in T /\ q \in T /\ s.str[p] = s.str[q]
    BY <1>1, <2>1 DEF Alive
  <2> QED
    BY <1>1, <2>2 DEF Table
<1>4. CacheLive
  BY <1>1 DEF Alive, CacheLive
<1>5. /\ DOMAIN s.hash = 0 .. S - 1 /\ Holds(s.hash, S, T, loc)
      /\ \A p \in T : loc[p] \in 0 .. S - 1 /\ loc[p] = lmod(s, s.str[p])
  <2>1. Holds(s.hash, S, T, loc)
    BY <1>1 DEF Table
  <2>2. s.hash \in Tables(0 .. S - 1)
    BY <2>1 DEF Holds
  <2>3. DOMAIN s.hash = 0 .. S - 1
    BY <2>2 DEF Tables
  <2>4. ASSUME NEW p \in T PROVE loc[p] \in 0 .. S - 1 /\ loc[p] = lmod(s, s.str[p])
    BY <1>1, Placed DEF lmod
  <2> QED
    BY <2>1, <2>3, <2>4
<1> HIDE DEF loc
<1>6. \A i \in 0 .. S - 1 : IsInjective(s.hash[i]) /\ \A p : p \in ToSet(s.hash[i]) <=> p \in T /\ loc[p] = i
  <2>1. SUFFICES ASSUME NEW i \in 0 .. S - 1
        PROVE IsInjective(s.hash[i]) /\ \A p : p \in ToSet(s.hash[i]) <=> p \in T /\ loc[p] = i
    OBVIOUS
  <2> DEFINE U == {p \in T : loc[p] = i}
  <2>2. Lists(s.hash[i], U)
    BY <1>5 DEF Holds
  <2>3. IsInjective(s.hash[i]) /\ ToSet(s.hash[i]) = U
    BY <2>2 DEF Lists
  <2> QED
    BY <2>3
<1>7. all = T
  <2>1. ASSUME NEW p \in all PROVE p \in T
    BY <1>5, <1>6
  <2>2. ASSUME NEW p \in T PROVE p \in all
    BY <1>5, <1>6
  <2> QED
    BY <2>1, <2>2
<1>8. TableExact
  <2>1. s.nuse = Cardinality(T)
    BY <1>1 DEF Table
  <2>2. \A i \in DOMAIN s.hash : IsInjective(s.hash[i]) /\ \A p \in ToSet(s.hash[i]) : lmod(s, s.str[p]) = i
    BY <1>5, <1>6
  <2>3. s.nuse <= Size(s) \/ Size(s) > MaxInt \div 2
    BY <1>1 DEF Fits
  <2> HIDE DEF S
  <2> QED
    BY <1>7, <2>1, <2>2, <2>3 DEF TableExact
<1> QED
  BY <1>2, <1>3, <1>4, <1>8 DEF InternedRight

(* However calls of internshrstr and luaS_new, growth, collection, whole or    *)
(* in steps or in the middle of a call, and failed allocations come between   *)
(* one another: what the program has stays, equal strings are the same, the   *)
(* table has each once, and the cache gives out none that will be collected.  *)
THEOREM StringsInterned == StringConstants => (StringSpec => []InternedRight)
<1> SUFFICES ASSUME StringConstants PROVE StringSpec => []InternedRight
  OBVIOUS
<1>1. StringInit => Good
  BY GoodInit
<1>2. Good /\ [StringNext]_st => Good'
  BY GoodStep
<1>3. Good => InternedRight
  BY GoodInterned
<1> QED
  BY <1>1, <1>2, <1>3, PTL DEF StringSpec
=============================================================================
