---------------------------- MODULE TeditProofs ----------------------------
(***************************************************************************)
(* Proofs about Tedit, for every size of the window and every text.        *)
(*                                                                         *)
(* First the index: whatever a key does to a line, the rows whose lines    *)
(* are no longer what they were are drawn again, however a line is drawn.  *)
(* Kept says which rows a handler may leave alone, and FinishShows what    *)
(* follows; TextInv is inductive.                                          *)
(*                                                                         *)
(* Then the cursor.  Ends(line)[n] is the cell behind the first n          *)
(* characters of a line: it grows up to the width of the window, and does  *)
(* not depend on what follows.  GetCharRange is told from it (RangeAt,     *)
(* RangeSome), and At says that a cursor stands behind n characters.  Each *)
(* handler puts the cursor where At holds for the place TextEditor names   *)
(* (Lands); PlaceInv is inductive.                                         *)
(***************************************************************************)
EXTENDS Tedit, FiniteSetTheorems, NaturalsInduction, TLAPS

IsSeq(s) == \E L : s \in Seq(L)

(* The rows that are not drawn again show the same line of the new text.   *)
Kept(text, rows) ==
  \A i \in Row \ rows : scroll_y + i < Len(text) =>
    scroll_y + i < Len(data) /\ text[scroll_y + i + 1] = data[scroll_y + i + 1]

TextInv ==
  /\ IsSeq(data)
  /\ scroll_y \in Nat
  /\ CursorInWindow
  /\ RowsShowText
-----------------------------------------------------------------------------
(* Texts, line by line.                                                    *)

LEMMA SeqMore ==
  ASSUME NEW L, NEW M, L \subseteq M, NEW s \in Seq(L)
  PROVE  s \in Seq(M)
OBVIOUS

LEMMA CatIs ==
  ASSUME NEW L, NEW s \in Seq(L), NEW r \in Seq(L)
  PROVE  /\ s \o r \in Seq(L) /\ Len(s \o r) = Len(s) + Len(r)
         /\ \A j \in 1 .. Len(s) : (s \o r)[j] = s[j]
OBVIOUS

LEMMA ReplaceAtIs ==
  ASSUME NEW s, IsSeq(s), NEW k \in 1 .. Len(s), NEW x
  PROVE  /\ IsSeq(ReplaceAt(s, k, x))
         /\ Len(ReplaceAt(s, k, x)) = Len(s)
         /\ \A j \in 1 .. Len(s) : j # k => ReplaceAt(s, k, x)[j] = s[j]
<1>1. PICK L : s \in Seq(L)
  BY DEF IsSeq
<1>2. s \in Seq(L \cup {x})
  BY <1>1, SeqMore
<1>3. ReplaceAt(s, k, x) \in Seq(L \cup {x})
  BY <1>2 DEF ReplaceAt
<1> QED
  BY <1>1, <1>3 DEF ReplaceAt, IsSeq

LEMMA InsertAtIs ==
  ASSUME NEW s, IsSeq(s), NEW k \in 1 .. Len(s) + 1, NEW x
  PROVE  /\ IsSeq(InsertAt(s, k, x))
         /\ Len(InsertAt(s, k, x)) = Len(s) + 1
         /\ \A j \in 1 .. k - 1 : InsertAt(s, k, x)[j] = s[j]
<1>1. PICK L : s \in Seq(L)
  BY DEF IsSeq
<1>2. s \in Seq(L \cup {x})
  BY <1>1, SeqMore
<1> DEFINE front == SubSeq(s, 1, k - 1)
           back  == SubSeq(s, k, Len(s))
<1>3. front \in Seq(L \cup {x}) /\ Len(front) = k - 1 /\ \A j \in 1 .. k - 1 : front[j] = s[j]
  BY <1>2
<1>4. back \in Seq(L \cup {x}) /\ Len(back) = Len(s) - k + 1
  BY <1>2
<1>5. InsertAt(s, k, x) = front \o <<x>> \o back
  BY DEF InsertAt
<1> HIDE DEF front, back
<1>6. <<x>> \in Seq(L \cup {x}) /\ Len(<<x>>) = 1
  OBVIOUS
<1>7. k - 1 \in Nat /\ Len(s) \in Nat
  BY <1>1
<1> DEFINE mid == front \o <<x>>
<1>8. /\ mid \in Seq(L \cup {x}) /\ Len(mid) = k
      /\ \A j \in 1 .. k - 1 : mid[j] = front[j]
  BY <1>3, <1>6, <1>7, CatIs
<1> HIDE DEF mid
<1>9. /\ InsertAt(s, k, x) \in Seq(L \cup {x}) /\ Len(InsertAt(s, k, x)) = Len(s) + 1
      /\ \A j \in 1 .. k : InsertAt(s, k, x)[j] = mid[j]
  <2>1. InsertAt(s, k, x) = mid \o back
    BY <1>5 DEF mid
  <2>2. /\ mid \o back \in Seq(L \cup {x}) /\ Len(mid \o back) = Len(mid) + Len(back)
        /\ \A j \in 1 .. Len(mid) : (mid \o back)[j] = mid[j]
    BY <1>4, <1>8, CatIs
  <2> QED
    BY <1>4, <1>7, <1>8, <2>1, <2>2
<1>10. IsSeq(InsertAt(s, k, x))
  BY <1>9 DEF IsSeq
<1>11. \A j \in 1 .. k - 1 : InsertAt(s, k, x)[j] = s[j]
  BY <1>3, <1>7, <1>8, <1>9
<1> QED
  BY <1>9, <1>10, <1>11

LEMMA RemoveAtIs ==
  ASSUME NEW s, IsSeq(s), NEW k \in 1 .. Len(s)
  PROVE  /\ IsSeq(RemoveAt(s, k))
         /\ Len(RemoveAt(s, k)) = Len(s) - 1
         /\ \A j \in 1 .. k - 1 : RemoveAt(s, k)[j] = s[j]
<1>1. PICK L : s \in Seq(L)
  BY DEF IsSeq
<1> DEFINE front == SubSeq(s, 1, k - 1)
           back  == SubSeq(s, k + 1, Len(s))
<1>2. front \in Seq(L) /\ Len(front) = k - 1 /\ \A j \in 1 .. k - 1 : front[j] = s[j]
  BY <1>1
<1>3. back \in Seq(L) /\ Len(back) = Len(s) - k
  BY <1>1
<1>4. RemoveAt(s, k) = front \o back
  BY DEF RemoveAt
<1> HIDE DEF front, back
<1>5. k - 1 \in Nat /\ Len(s) \in Nat
  BY <1>1
<1>6. /\ RemoveAt(s, k) \in Seq(L) /\ Len(RemoveAt(s, k)) = Len(s) - 1
      /\ \A j \in 1 .. k - 1 : RemoveAt(s, k)[j] = front[j]
  BY <1>2, <1>3, <1>4, <1>5, CatIs
<1>7. IsSeq(RemoveAt(s, k))
  BY <1>6 DEF IsSeq
<1> QED
  BY <1>2, <1>6, <1>7

LEMMA LenIsNat ==
  ASSUME NEW s, IsSeq(s)
  PROVE  Len(s) \in Nat
BY DEF IsSeq
-----------------------------------------------------------------------------
(* The end of a handler.                                                   *)

LEMMA FinishShows ==
  ASSUME TextInv, NEW text, IsSeq(text), NEW rows, Kept(text, rows),
         NEW y \in 0 .. Len(text) - 1, NEW x, NEW scroll \in Nat,
         Finish(text, y, x, scroll, rows)
  PROVE  TextInv'
<1> DEFINE up   == IF y < scroll THEN y ELSE scroll
           down == IF y >= up + height THEN y - height + 1 ELSE up
<1>1. data' = text /\ cursor_y' = y /\ scroll_y' = down
  BY DEF Finish
<1>2. char_idx' = Drawn(text, down, IF down # scroll_y THEN Row ELSE rows)
  BY DEF Finish
<1>3. Len(text) \in Nat
  BY LenIsNat
<1>4. down \in Nat /\ y - down \in Row
  BY <1>3, SizeAssumption DEF Row
<1> HIDE DEF up, down
<1>5. CursorInWindow'
  BY <1>1, <1>4 DEF CursorInWindow, CursorRow, Row
<1>6. ASSUME NEW i \in Row, down + i < Len(text)
      PROVE  char_idx'[i] = Layout(text[down + i + 1])
  <2>1. i \in Nat
    BY SizeAssumption DEF Row
  <2>2. char_idx'[i] = IF i \in (IF down # scroll_y THEN Row ELSE rows)
                       THEN Layout(text[down + i + 1]) ELSE char_idx[i]
    BY <1>2, <1>3, <1>4, <1>6, <2>1 DEF Drawn
  <2>3. CASE down = scroll_y /\ i \notin rows
    <3>1. scroll_y + i < Len(data) /\ text[scroll_y + i + 1] = data[scroll_y + i + 1]
      BY <1>6, <2>3 DEF Kept
    <3> QED
      BY <2>2, <2>3, <3>1 DEF TextInv, RowsShowText
  <2> QED
    BY <2>2, <2>3
<1>7. RowsShowText'
  BY <1>1, <1>6 DEF RowsShowText, Row
<1> QED
  BY <1>1, <1>4, <1>5, <1>7 DEF TextInv

(* What the handlers know of the cursor.                                   *)
LEMMA Cursor ==
  ASSUME TextInv
  PROVE  /\ Len(data) \in Nat \ {0} /\ scroll_y \in Nat
         /\ cursor_y \in 0 .. Len(data) - 1
         /\ CursorRow = cursor_y - scroll_y
         /\ scroll_y <= cursor_y /\ cursor_y < scroll_y + height
         /\ height \in Nat \ {0}
  BY LenIsNat, SizeAssumption DEF TextInv, CursorInWindow, CursorRow, Row

(* A key that changes the line of the cursor only.                         *)
LEMMA EditLine ==
  ASSUME TextInv, NEW chars, NEW x,
         Edit(ReplaceAt(data, cursor_y + 1, chars), cursor_y, x, {CursorRow})
  PROVE  TextInv'
<1> DEFINE text == ReplaceAt(data, cursor_y + 1, chars)
<1>1. IsSeq(data)
  BY DEF TextInv
<1>2. IsSeq(text) /\ Len(text) = Len(data)
      /\ \A j \in 1 .. Len(data) : j # cursor_y + 1 => text[j] = data[j]
  BY <1>1, Cursor, ReplaceAtIs, SMTT(30)
<1>3. Finish(text, cursor_y, x, scroll_y, {CursorRow})
  BY DEF Edit
<1> HIDE DEF text
<1>4. Kept(text, {CursorRow})
  <2> SUFFICES ASSUME NEW i \in Row \ {CursorRow}, scroll_y + i < Len(text)
               PROVE  /\ scroll_y + i < Len(data)
                      /\ text[scroll_y + i + 1] = data[scroll_y + i + 1]
    BY DEF Kept
  <2>1. i \in Nat /\ i # cursor_y - scroll_y
    BY Cursor DEF Row
  <2>2. scroll_y + i + 1 \in 1 .. Len(data) /\ scroll_y + i + 1 # cursor_y + 1
    BY <1>2, <2>1, Cursor
  <2> QED
    BY <1>2, <2>1, <2>2, Cursor
<1>5. cursor_y \in 0 .. Len(text) - 1
  BY <1>2, Cursor
<1> QED
  BY <1>2, <1>3, <1>4, <1>5, Cursor, FinishShows

(* A key that moves lines below y, too, and leaves those above alone.      *)
LEMMA EditFrom ==
  ASSUME TextInv, NEW text, IsSeq(text), NEW y \in 0 .. Len(data) - 1, NEW z \in 0 .. Len(text) - 1,
         \A j \in 1 .. Len(text) : j <= y => j <= Len(data) /\ text[j] = data[j],
         NEW x,
         Edit(text, z, x, RowsFrom(y - scroll_y))
  PROVE  TextInv'
<1>1. Finish(text, z, x, scroll_y, RowsFrom(y - scroll_y))
  BY DEF Edit
<1>2. Len(text) \in Nat
  BY LenIsNat
<1>3. Kept(text, RowsFrom(y - scroll_y))
  <2> SUFFICES ASSUME NEW i \in Row, i \notin RowsFrom(y - scroll_y), scroll_y + i < Len(text)
               PROVE  /\ scroll_y + i < Len(data)
                      /\ text[scroll_y + i + 1] = data[scroll_y + i + 1]
    BY DEF Kept
  <2>1. i \in Nat /\ i < y - scroll_y
    BY Cursor DEF Row, RowsFrom
  <2>2. scroll_y + i + 1 \in 1 .. Len(text) /\ scroll_y + i + 1 <= y
    BY <1>2, <2>1, Cursor
  <2> QED
    BY <2>1, <2>2, Cursor, SMTT(30)
<1> QED
  BY <1>1, <1>3, Cursor, FinishShows

LEMMA MoveShows ==
  ASSUME TextInv, NEW y \in 0 .. Len(data) - 1, NEW x, Move(y, x)
  PROVE  TextInv'
<1>1. IsSeq(data) /\ Kept(data, {})
  BY DEF TextInv, Kept
<1>2. Finish(data, y, x, scroll_y, {})
  BY DEF Move
<1> QED
  BY <1>1, <1>2, Cursor, FinishShows

(* Line y with the next one joined to it, and the lines in front of it.    *)
LEMMA JoinedIs ==
  ASSUME TextInv, NEW y \in 0 .. Len(data) - 2
  PROVE  /\ IsSeq(Joined(y))
         /\ Len(Joined(y)) = Len(data) - 1
         /\ \A j \in 1 .. Len(Joined(y)) : j <= y => Joined(y)[j] = data[j]
<1> DEFINE shorter == RemoveAt(data, y + 2)
<1>1. IsSeq(data) /\ Len(data) \in Nat /\ y + 2 \in 1 .. Len(data)
  BY Cursor DEF TextInv
<1>2. IsSeq(shorter) /\ Len(shorter) = Len(data) - 1
      /\ \A j \in 1 .. y + 1 : shorter[j] = data[j]
  BY <1>1, RemoveAtIs
<1> HIDE DEF shorter
<1>3. y + 1 \in 1 .. Len(shorter)
  BY <1>1, <1>2
<1>4. Joined(y) = ReplaceAt(shorter, y + 1, data[y + 1] \o data[y + 2])
  BY DEF Joined, shorter
<1>5. /\ IsSeq(Joined(y)) /\ Len(Joined(y)) = Len(shorter)
      /\ \A j \in 1 .. Len(shorter) : j # y + 1 => Joined(y)[j] = shorter[j]
  BY <1>2, <1>3, <1>4, ReplaceAtIs
<1> QED
  BY <1>1, <1>2, <1>5
-----------------------------------------------------------------------------
(* The keys.                                                               *)

LEMMA InsertCharShows ==
  ASSUME TextInv, NEW c, InsertChar(c)
  PROVE  TextInv'
<1>1. PICK chars, x : Edit(ReplaceAt(data, cursor_y + 1, chars), cursor_y, x, {CursorRow})
  BY DEF InsertChar
<1> QED
  BY <1>1, EditLine

LEMMA EnterShows ==
  ASSUME TextInv, Enter
  PROVE  TextInv'
<1>1. PICK rest, front :
        Edit(InsertAt(ReplaceAt(data, cursor_y + 1, rest), cursor_y + 1, front),
             cursor_y + 1, 0, RowsFrom(CursorRow))
  BY DEF Enter
<1> DEFINE shorter == ReplaceAt(data, cursor_y + 1, rest)
           text == InsertAt(shorter, cursor_y + 1, front)
<1>2. IsSeq(data)
  BY DEF TextInv
<1>3. IsSeq(shorter) /\ Len(shorter) = Len(data)
      /\ \A j \in 1 .. Len(data) : j # cursor_y + 1 => shorter[j] = data[j]
  BY <1>2, Cursor, ReplaceAtIs
<1> HIDE DEF shorter
<1>4. IsSeq(text) /\ Len(text) = Len(data) + 1
      /\ \A j \in 1 .. cursor_y : text[j] = shorter[j]
  BY <1>3, Cursor, InsertAtIs, SMTT(30)
<1>5. Edit(text, cursor_y + 1, 0, RowsFrom(cursor_y - scroll_y))
  BY <1>1 DEF shorter, CursorRow
<1> HIDE DEF text
<1>6. ASSUME NEW j \in 1 .. Len(text), j <= cursor_y
      PROVE  j <= Len(data) /\ text[j] = data[j]
  <2>1. j \in 1 .. cursor_y /\ j \in 1 .. Len(data) /\ j # cursor_y + 1
    BY <1>4, <1>6, Cursor
  <2> QED
    BY <1>3, <1>4, <2>1, Cursor
<1>7. cursor_y \in 0 .. Len(data) - 1 /\ cursor_y + 1 \in 0 .. Len(text) - 1
  BY <1>4, Cursor
<1> QED
  BY <1>4, <1>5, <1>6, <1>7, EditFrom

(* Joining line y + 1 to line y.                                           *)
LEMMA JoinShows ==
  ASSUME TextInv, NEW y \in 0 .. Len(data) - 2, NEW x,
         Edit(Joined(y), y, x, RowsFrom(y - scroll_y))
  PROVE  TextInv'
<1>1. /\ IsSeq(Joined(y)) /\ Len(Joined(y)) = Len(data) - 1
      /\ \A j \in 1 .. Len(Joined(y)) : j <= y => Joined(y)[j] = data[j]
  BY JoinedIs
<1>2. y \in 0 .. Len(data) - 1 /\ y \in 0 .. Len(Joined(y)) - 1
  BY <1>1, Cursor
<1>3. \A j \in 1 .. Len(Joined(y)) : j <= y => j <= Len(data) /\ Joined(y)[j] = data[j]
  BY <1>1, Cursor
<1> QED
  BY <1>1, <1>2, <1>3, EditFrom

LEMMA BackspaceShows ==
  ASSUME TextInv, Backspace
  PROVE  TextInv'
<1>1. CASE cursor_x > 0
  <2>1. PICK chars, x : Edit(ReplaceAt(data, cursor_y + 1, chars), cursor_y, x, {CursorRow})
    BY <1>1 DEF Backspace
  <2> QED
    BY <2>1, EditLine
<1>2. CASE ~(cursor_x > 0) /\ cursor_y > 0
  <2>1. PICK x : Edit(Joined(cursor_y - 1), cursor_y - 1, x, RowsFrom(CursorRow - 1))
    BY <1>2 DEF Backspace
  <2>2. CursorRow - 1 = (cursor_y - 1) - scroll_y /\ cursor_y - 1 \in 0 .. Len(data) - 2
    BY <1>2, Cursor
  <2>3. Edit(Joined(cursor_y - 1), cursor_y - 1, x, RowsFrom((cursor_y - 1) - scroll_y))
    BY <2>1, <2>2
  <2> QED
    BY <2>2, <2>3, JoinShows
<1>3. CASE ~(cursor_x > 0) /\ ~(cursor_y > 0)
  <2>1. Move(cursor_y, cursor_x)
    BY <1>3 DEF Backspace
  <2> QED
    BY <2>1, Cursor, MoveShows
<1> QED
  BY <1>1, <1>2, <1>3

LEMMA DeleteShows ==
  ASSUME TextInv, Delete
  PROVE  TextInv'
<1>1. PICK chars :
        \/ Edit(ReplaceAt(data, cursor_y + 1, chars), cursor_y, cursor_x, {CursorRow})
        \/ cursor_y + 1 < Len(data) /\ Edit(Joined(cursor_y), cursor_y, cursor_x, RowsFrom(CursorRow))
        \/ Move(cursor_y, cursor_x)
  BY DEF Delete
<1>2. CASE Edit(ReplaceAt(data, cursor_y + 1, chars), cursor_y, cursor_x, {CursorRow})
  BY <1>2, EditLine
<1>3. CASE cursor_y + 1 < Len(data) /\ Edit(Joined(cursor_y), cursor_y, cursor_x, RowsFrom(CursorRow))
  <2>1. cursor_y \in 0 .. Len(data) - 2
    BY <1>3, Cursor
  <2>2. Edit(Joined(cursor_y), cursor_y, cursor_x, RowsFrom(cursor_y - scroll_y))
    BY <1>3 DEF CursorRow
  <2> QED
    BY <2>1, <2>2, JoinShows
<1>4. CASE Move(cursor_y, cursor_x)
  BY <1>4, Cursor, MoveShows
<1> QED
  BY <1>1, <1>2, <1>3, <1>4

(* The keys that only move the cursor, to a line of the text.              *)
LEMMA MovesShow ==
  ASSUME TextInv, Left \/ Right \/ Up \/ Down \/ \E ctrl \in BOOLEAN : Home(ctrl) \/ End(ctrl)
  PROVE  TextInv'
<1>1. \A x : \A y \in 0 .. Len(data) - 1 : Move(y, x) => TextInv'
  BY MoveShows
<1>2. CASE Left
  <2>1. PICK x : Move(IF cursor_x = 0 /\ cursor_y > 0 THEN cursor_y - 1 ELSE cursor_y, x)
    BY <1>2 DEF Left
  <2> QED
    BY <1>1, <2>1, Cursor
<1>3. CASE Right
  <2>1. PICK x, z : \/ Move(cursor_y, x)
                    \/ cursor_y + 1 < Len(data) /\ Move(cursor_y + 1, z)
    BY <1>3 DEF Right
  <2> QED
    BY <1>1, <2>1, Cursor
<1>4. CASE Up
  <2>1. PICK x, z : (cursor_y > 0 /\ Move(cursor_y - 1, x)) \/ Move(cursor_y, z)
    BY <1>4 DEF Up
  <2> QED
    BY <1>1, <2>1, Cursor
<1>5. CASE Down
  <2>1. PICK x, z : (cursor_y + 1 < Len(data) /\ Move(cursor_y + 1, x)) \/ Move(cursor_y, z)
    BY <1>5 DEF Down
  <2> QED
    BY <1>1, <2>1, Cursor
<1>6. ASSUME NEW ctrl \in BOOLEAN, Home(ctrl)
      PROVE  TextInv'
  <2>1. Move(IF ctrl THEN 0 ELSE cursor_y, 0)
    BY <1>6 DEF Home
  <2> QED
    BY <1>1, <2>1, Cursor
<1>7. ASSUME NEW ctrl \in BOOLEAN, End(ctrl)
      PROVE  TextInv'
  <2>1. PICK x : Move(IF ctrl THEN Len(data) - 1 ELSE cursor_y, x)
    BY <1>7 DEF End
  <2> QED
    BY <1>1, <2>1, Cursor
<1> QED
  BY <1>2, <1>3, <1>4, <1>5, <1>6, <1>7

LEMMA WithinIs ==
  ASSUME TextInv, NEW y \in Int
  PROVE  Within(y) \in 0 .. Len(data) - 1
BY Cursor DEF Within

LEMMA ScrollShows ==
  ASSUME TextInv, PgUp \/ PgDn
  PROVE  TextInv'
<1>1. PICK lines \in Int : Scroll(lines)
  <2>1. height \div 2 \in Int /\ -(height \div 2) \in Int
    BY SizeAssumption
  <2> QED
    BY <2>1 DEF PgUp, PgDn
<1>2. Within(cursor_y + lines) \in 0 .. Len(data) - 1 /\ Within(scroll_y + lines) \in Nat
  <2>1. cursor_y + lines \in Int /\ scroll_y + lines \in Int
    BY Cursor
  <2>2. /\ Within(cursor_y + lines) \in 0 .. Len(data) - 1
        /\ Within(scroll_y + lines) \in 0 .. Len(data) - 1
    BY <2>1, WithinIs
  <2> QED
    BY <2>2, Cursor
<1>3. PICK x : Finish(data, Within(cursor_y + lines), x, Within(scroll_y + lines), {})
  BY <1>1 DEF Scroll
<1>4. IsSeq(data) /\ Kept(data, {})
  BY DEF TextInv, Kept
<1> QED
  BY <1>2, <1>3, <1>4, FinishShows

LEMMA ClickShows ==
  ASSUME TextInv, NEW sx \in Column, NEW sy \in Row, Click(sx, sy)
  PROVE  TextInv'
<1>1. cursor_y' = Within(sy + scroll_y) /\ UNCHANGED <<data, char_idx, scroll_y>>
  BY DEF Click
<1>2. sy \in 0 .. height - 1
  BY DEF Row
<1>3. cursor_y' \in 0 .. Len(data) - 1 /\ cursor_y' - scroll_y \in 0 .. height - 1
  BY <1>1, <1>2, Cursor, SMTT(30) DEF Within
<1>4. CursorInWindow'
  BY <1>1, <1>3 DEF CursorInWindow, CursorRow, Row
<1> QED
  BY <1>1, <1>4 DEF TextInv, RowsShowText

LEMMA DialogShows ==
  ASSUME TextInv, CtrlS \/ Quit \/ DialogSave \/ DialogDiscard \/ DialogCancel
  PROVE  TextInv'
<1>1. UNCHANGED <<data, scroll_y, cursor_y>>
  BY DEF CtrlS, Quit, DialogSave, DialogDiscard, DialogCancel
<1>2. char_idx' = char_idx \/ char_idx' = Drawn(data, scroll_y, Row)
  BY DEF CtrlS, Quit, DialogSave, DialogDiscard, DialogCancel, CloseDialog
<1>3. \A i \in Row : scroll_y + i < Len(data) =>
        Drawn(data, scroll_y, Row)[i] = Layout(data[scroll_y + i + 1])
  <2> SUFFICES ASSUME NEW i \in Row, scroll_y + i < Len(data)
               PROVE  Drawn(data, scroll_y, Row)[i] = Layout(data[scroll_y + i + 1])
    OBVIOUS
  <2>1. i \in Nat /\ ~(scroll_y + i >= Len(data))
    BY Cursor DEF Row
  <2> QED
    BY <2>1 DEF Drawn
<1>4. RowsShowText'
  BY <1>1, <1>2, <1>3 DEF TextInv, RowsShowText
<1> QED
  BY <1>1, <1>4 DEF TextInv, CursorInWindow, CursorRow
-----------------------------------------------------------------------------
LEMMA InitTextInv == Init => TextInv
<1> SUFFICES ASSUME Init
             PROVE  TextInv
  OBVIOUS
<1>1. IsSeq(data) /\ Len(data) \in Nat \ {0}
  <2>1. CASE data = Empty
    <3>1. Empty \in Seq({<<>>}) /\ Len(Empty) = 1
      BY DEF Empty
    <3> QED
      BY <2>1, <3>1 DEF IsSeq
  <2>2. CASE data \in OpenFiles
    <3>1. data # <<>> /\ data \in Seq(Seq(Typed \cup {Tab} \cup Wide \cup Invalid))
      BY <2>2, TextAssumption
    <3> QED
      BY <3>1 DEF IsSeq
  <2> QED
    BY <2>1, <2>2 DEF Init
<1>2. scroll_y = 0 /\ cursor_y = 0
  BY DEF Init
<1>3. CursorInWindow
  BY <1>1, <1>2, SizeAssumption DEF CursorInWindow, CursorRow, Row
<1>4. RowsShowText
  <2> SUFFICES ASSUME NEW i \in Row, scroll_y + i < Len(data)
               PROVE  char_idx[i] = Layout(data[scroll_y + i + 1])
    BY DEF RowsShowText
  <2>1. i \in Nat /\ scroll_y + i = i
    BY <1>2, SizeAssumption DEF Row
  <2> QED
    BY <2>1 DEF Init
<1> QED
  BY <1>1, <1>2, <1>3, <1>4 DEF TextInv

LEMMA NextTextInv == TextInv /\ [Next]_vars => TextInv'
<1> SUFFICES ASSUME TextInv, [Next]_vars
             PROVE  TextInv'
  OBVIOUS
<1>1. CASE UNCHANGED vars
  BY <1>1 DEF vars, TextInv, IsSeq, CursorInWindow, CursorRow, RowsShowText
<1>2. ASSUME NEW c \in Typed, InsertChar(c)
      PROVE  TextInv'
  BY <1>2, InsertCharShows
<1>3. CASE Enter \/ Backspace \/ Delete
  BY <1>3, EnterShows, BackspaceShows, DeleteShows
<1>4. CASE Left \/ Right \/ Up \/ Down \/ \E ctrl \in BOOLEAN : Home(ctrl) \/ End(ctrl)
  BY <1>4, MovesShow
<1>5. CASE PgUp \/ PgDn
  BY <1>5, ScrollShows
<1>6. ASSUME NEW sx \in Column, NEW sy \in Row, Click(sx, sy)
      PROVE  TextInv'
  BY <1>6, ClickShows
<1>7. CASE CtrlS \/ Quit \/ DialogSave \/ DialogDiscard \/ DialogCancel
  BY <1>7, DialogShows
<1> QED
  BY <1>1, <1>2, <1>3, <1>4, <1>5, <1>6, <1>7 DEF Next

(* Whatever is typed, deleted, split, joined or scrolled, in a window of   *)
(* any size: the index that the handlers look places of the text up in is  *)
(* never stale, and the cursor is on a line of the text in the window.     *)
THEOREM IndexIsFresh == Spec => [](RowsShowText /\ CursorInWindow)
<1>1. TextInv => RowsShowText /\ CursorInWindow
  BY DEF TextInv
<1> QED
  BY <1>1, InitTextInv, NextTextInv, PTL DEF Spec
-----------------------------------------------------------------------------
(* What every key leaves alone, and a key that changes the text tells.     *)
LEMMA FinishKeeps ==
  ASSUME NEW text, NEW y, NEW x, NEW scroll, NEW rows, Finish(text, y, x, scroll, rows)
  PROVE  mode = "Editing" /\ data' = text /\ UNCHANGED <<mode, file>>
BY DEF Finish

LEMMA KeysTell ==
  ASSUME \/ \E c \in Typed : InsertChar(c)
         \/ Enter \/ Backspace \/ Delete
         \/ Left \/ Right \/ Up \/ Down \/ PgUp \/ PgDn
         \/ \E ctrl \in BOOLEAN : Home(ctrl) \/ End(ctrl)
         \/ \E sx \in Column, sy \in Row : Click(sx, sy)
  PROVE  /\ mode = "Editing" /\ UNCHANGED <<mode, file>>
         /\ edited' = TRUE \/ UNCHANGED <<data, edited>>
<1>1. \A text, y, x, rows : Edit(text, y, x, rows) =>
        mode = "Editing" /\ UNCHANGED <<mode, file>> /\ edited' = TRUE
  BY FinishKeeps DEF Edit
<1>2. \A y, x : Move(y, x) =>
        mode = "Editing" /\ UNCHANGED <<mode, file>> /\ UNCHANGED <<data, edited>>
  BY FinishKeeps DEF Move
<1>3. \A lines : Scroll(lines) =>
        mode = "Editing" /\ UNCHANGED <<mode, file>> /\ UNCHANGED <<data, edited>>
  BY FinishKeeps DEF Scroll
<1>4. CASE \E c \in Typed : InsertChar(c)
  BY <1>1, <1>4 DEF InsertChar
<1>5. CASE Enter
  BY <1>1, <1>5 DEF Enter
<1>6. CASE Backspace
  BY <1>1, <1>2, <1>6 DEF Backspace
<1>7. CASE Delete
  BY <1>1, <1>2, <1>7 DEF Delete
<1>8. CASE Left
  BY <1>2, <1>8 DEF Left
<1>9. CASE Right
  BY <1>2, <1>9 DEF Right
<1>10. CASE Up
  BY <1>2, <1>10 DEF Up
<1>11. CASE Down
  BY <1>2, <1>11 DEF Down
<1>12. CASE PgUp \/ PgDn
  BY <1>3, <1>12 DEF PgUp, PgDn
<1>13. CASE \E ctrl \in BOOLEAN : Home(ctrl) \/ End(ctrl)
  BY <1>2, <1>13 DEF Home, End
<1>14. CASE \E sx \in Column, sy \in Row : Click(sx, sy)
  BY <1>14 DEF Click
<1> QED
  BY <1>4, <1>5, <1>6, <1>7, <1>8, <1>9, <1>10, <1>11, <1>12, <1>13, <1>14

(* A save that is reported as done has put the text into the file, unless  *)
(* it is empty; one that is not leaves the file, or the text is one that   *)
(* cannot be saved.                                                        *)
LEMMA SaveFileTells ==
  ASSUME SaveFile, Encodable(data), data # Empty
  PROVE  file' = IF Saves THEN data ELSE file
<1>1. file' = IF file = NoFile THEN file ELSE data
  BY DEF SaveFile
<1> QED
  BY <1>1 DEF Saves

(* However long the text and whatever is typed: nothing is lost unasked.   *)
THEOREM NothingIsLost == Spec => []UnsavedTextKept
<1>1. Init => UnsavedTextKept
  BY DEF Init, UnsavedTextKept
<1>2. UnsavedTextKept /\ [Next]_vars => UnsavedTextKept'
  <2> SUFFICES ASSUME UnsavedTextKept, [Next]_vars, (~edited \/ mode = "Ended")',
                      Encodable(data)', (data # Empty)'
               PROVE  file' = data'
    BY DEF UnsavedTextKept
  <2>1. CASE UNCHANGED vars
    BY <2>1 DEF vars, UnsavedTextKept, Encodable
  <2>2. CASE \/ \E c \in Typed : InsertChar(c)
             \/ Enter \/ Backspace \/ Delete
             \/ Left \/ Right \/ Up \/ Down \/ PgUp \/ PgDn
             \/ \E ctrl \in BOOLEAN : Home(ctrl) \/ End(ctrl)
             \/ \E sx \in Column, sy \in Row : Click(sx, sy)
    BY <2>2, KeysTell DEF UnsavedTextKept, Encodable
  <2>3. CASE CtrlS \/ DialogSave
    <3>1. SaveFile /\ data' = data /\ mode # "Ended"
      BY <2>3 DEF CtrlS, DialogSave
    <3>2. Encodable(data) /\ data # Empty
      BY <3>1 DEF Encodable
    <3>3. file' = IF Saves THEN data ELSE file
      BY <3>1, <3>2, SaveFileTells
    <3>4. Saves \/ ~edited
      BY <2>3 DEF CtrlS, DialogSave, CloseDialog
    <3> QED
      BY <3>1, <3>2, <3>3, <3>4 DEF UnsavedTextKept
  <2>4. CASE Quit \/ DialogDiscard \/ DialogCancel
    BY <2>4 DEF Quit, DialogDiscard, DialogCancel, CloseDialog, UnsavedTextKept, Encodable
  <2> QED
    BY <2>1, <2>2, <2>3, <2>4 DEF Next
<1> QED
  BY <1>1, <1>2, PTL DEF Spec
-----------------------------------------------------------------------------
(* Where the characters of a line lie.                                     *)

LEMMA UpTo ==
  ASSUME NEW N \in Nat, NEW T \in SUBSET (0 .. N), 0 \in T,
         \A n \in 1 .. N : n - 1 \in T => n \in T
  PROVE  T = 0 .. N
<1> DEFINE U == (0 .. N) \ T
           Less == {ss \in Nat \X Nat : ss[1] < ss[2]}
<1> SUFFICES ASSUME U # {}
             PROVE  FALSE
  OBVIOUS
<1>1. IsWellFoundedOn(Less, Nat)
  BY NatLessThanWellFounded DEF OpToRel
<1>2. U \in SUBSET Nat
  OBVIOUS
<1>3. PICK x \in U : \A y \in U : ~(<<y, x>> \in Less)
  BY <1>1, <1>2, WFMin
<1>4. x \in 1 .. N /\ x - 1 \in Nat /\ <<x - 1, x>> \in Less
  OBVIOUS
<1>5. x - 1 \in T
  BY <1>3, <1>4
<1> QED
  BY <1>4, <1>5

LEMMA LeastOf ==
  ASSUME NEW T \in SUBSET Int, NEW m \in T, \A n \in T : m <= n
  PROVE  Min(T) = m
<1>1. Min(T) \in T /\ \A n \in T : Min(T) <= n
  BY DEF Min
<1>2. PICK x : x = Min(T)
  OBVIOUS
<1>3. x \in Int /\ m \in Int /\ x <= m /\ m <= x
  BY <1>1, <1>2
<1> QED
  BY <1>2, <1>3

(* DrawLine puts a character into one cell at least, unless the line is    *)
(* full.                                                                   *)
LEMMA BehindIs ==
  ASSUME NEW c, NEW x \in 0 .. width
  PROVE  /\ Behind(c, x) \in x .. width
         /\ x < width => x < Behind(c, x)
<1> DEFINE cells == CellsOf(c, x)
<1>1. cells \subseteq x .. width - 1
  BY SizeAssumption DEF CellsOf, Column
<1>2. IsFiniteSet(x .. width - 1) /\ Cardinality(x .. width - 1) = width - x
  BY SizeAssumption, FS_Interval
<1>3. IsFiniteSet(cells) /\ Cardinality(cells) \in Nat /\ Cardinality(cells) <= width - x
  BY <1>1, <1>2, FS_Subset, FS_CardinalityType
<1>4. ASSUME x < width
      PROVE  Cardinality(cells) # 0
  <2>1. x \in Column /\ x + 1 .. x = {} /\ x < x + CharWidth(c)
    BY <1>4, SizeAssumption DEF Column, CharWidth
  <2>2. x \in cells
    BY <2>1 DEF CellsOf
  <2> QED
    BY <1>3, <2>2, FS_EmptySet
<1> HIDE DEF cells
<1> QED
  BY <1>3, <1>4, SizeAssumption DEF Behind, cells

(* The function Ends is defined by exists.                                 *)
LEMMA EndsIs ==
  ASSUME NEW chars, IsSeq(chars)
  PROVE  Ends(chars) = [n \in 0 .. Len(chars) |->
                          IF n = 0 THEN 0 ELSE Behind(chars[n], Ends(chars)[n - 1])]
<1> DEFINE N == Len(chars)
           IsEnd(f, k) == f = [n \in 0 .. k |->
                                 IF n = 0 THEN 0 ELSE Behind(chars[n], f[n - 1])]
           T == {k \in 0 .. N : \E f : IsEnd(f, k)}
<1>1. N \in Nat
  BY DEF IsSeq
<1>2. 0 \in T
  <2>1. IsEnd([n \in 0 .. 0 |-> 0], 0)
    OBVIOUS
  <2> HIDE DEF IsEnd
  <2>2. \E f : IsEnd(f, 0)
    BY <2>1
  <2> QED
    BY <1>1, <2>2
<1>3. ASSUME NEW k \in 1 .. N, k - 1 \in T
      PROVE  k \in T
  <2>1. PICK f : IsEnd(f, k - 1)
    BY <1>3
  <2> DEFINE g == [n \in 0 .. k |-> IF n = k THEN Behind(chars[k], f[k - 1]) ELSE f[n]]
  <2>2. \A n \in 0 .. k : g[n] = IF n = 0 THEN 0 ELSE Behind(chars[n], g[n - 1])
    <3> SUFFICES ASSUME NEW n \in 0 .. k
                 PROVE  g[n] = IF n = 0 THEN 0 ELSE Behind(chars[n], g[n - 1])
      OBVIOUS
    <3>1. CASE n = k
      <4>1. g[n - 1] = f[n - 1]
        BY <3>1
      <4> QED
        BY <3>1, <4>1
    <3>2. CASE n # k
      <4>1. n \in 0 .. k - 1 /\ g[n] = f[n]
        BY <3>2
      <4>2. n # 0 => g[n - 1] = f[n - 1]
        BY <3>2
      <4>3. f[n] = IF n = 0 THEN 0 ELSE Behind(chars[n], f[n - 1])
        BY <2>1, <4>1
      <4> QED
        BY <4>1, <4>2, <4>3
    <3> QED
      BY <3>1, <3>2
  <2>3. IsEnd(g, k)
    BY <2>2
  <2> HIDE DEF IsEnd, g
  <2>4. \E h : IsEnd(h, k)
    BY <2>3
  <2> QED
    BY <2>4
<1> HIDE DEF IsEnd
<1>4. \E f : IsEnd(f, N)
  <2>1. T \in SUBSET (0 .. N)
    OBVIOUS
  <2>2. T = 0 .. N
    <3> HIDE DEF T, N
    <3> QED
      BY <1>1, <1>2, <1>3, <2>1, UpTo
  <2> QED
    BY <1>1, <2>2
<1>5. Ends(chars) = CHOOSE f : IsEnd(f, N)
  BY DEF Ends, IsEnd
<1>6. IsEnd(Ends(chars), N)
  BY <1>4, <1>5
<1> QED
  BY <1>6 DEF IsEnd

LEMMA EndsSteps ==
  ASSUME NEW chars, IsSeq(chars)
  PROVE  /\ Len(chars) \in Nat
         /\ Ends(chars)[0] = 0
         /\ \A n \in 1 .. Len(chars) : Ends(chars)[n] = Behind(chars[n], Ends(chars)[n - 1])
<1>1. Len(chars) \in Nat
  BY DEF IsSeq
<1> DEFINE end == Ends(chars)
<1>2. end = [n \in 0 .. Len(chars) |-> IF n = 0 THEN 0 ELSE Behind(chars[n], end[n - 1])]
  BY EndsIs
<1> HIDE DEF end
<1>3. end[0] = 0
  BY <1>1, <1>2
<1>4. \A n \in 1 .. Len(chars) : end[n] = Behind(chars[n], end[n - 1])
  BY <1>1, <1>2
<1> QED
  BY <1>1, <1>3, <1>4 DEF end

LEMMA EndsType ==
  ASSUME NEW chars, IsSeq(chars), NEW n \in 0 .. Len(chars)
  PROVE  Ends(chars)[n] \in 0 .. width
<1> DEFINE T == {k \in 0 .. Len(chars) : Ends(chars)[k] \in 0 .. width}
<1>1. Len(chars) \in Nat /\ T \in SUBSET (0 .. Len(chars))
  BY EndsSteps
<1>2. 0 \in T
  BY EndsSteps, SizeAssumption
<1>3. ASSUME NEW k \in 1 .. Len(chars), k - 1 \in T
      PROVE  k \in T
  <2>1. Ends(chars)[k - 1] \in 0 .. width
    BY <1>3
  <2>2. Behind(chars[k], Ends(chars)[k - 1]) \in Ends(chars)[k - 1] .. width
    BY <2>1, BehindIs
  <2>3. Ends(chars)[k] \in Ends(chars)[k - 1] .. width
    BY <2>2, EndsSteps
  <2> QED
    BY <2>1, <2>3, SizeAssumption
<1>4. T = 0 .. Len(chars)
  <2> HIDE DEF T
  <2> QED
    BY <1>1, <1>2, <1>3, UpTo
<1> QED
  BY <1>4

LEMMA EndsGrow ==
  ASSUME NEW chars, IsSeq(chars), NEW n \in 0 .. Len(chars), NEW m \in 0 .. n
  PROVE  /\ Ends(chars)[m] <= Ends(chars)[n]
         /\ m < n /\ Ends(chars)[m] < width => Ends(chars)[m] < Ends(chars)[n]
<1> DEFINE E(k) == Ends(chars)[k]
           T == {d \in 0 .. Len(chars) - m : /\ E(m) <= E(m + d)
                                             /\ 0 < d /\ E(m) < width => E(m) < E(m + d)}
<1>1. Len(chars) \in Nat /\ Len(chars) - m \in Nat
  BY EndsSteps
<1>2. \A k \in 0 .. Len(chars) : E(k) \in 0 .. width
  BY EndsType
<1>3. \A k \in 1 .. Len(chars) : E(k) = Behind(chars[k], E(k - 1))
  BY EndsSteps
<1>4. \A k \in 1 .. Len(chars) : E(k - 1) <= E(k) /\ (E(k - 1) < width => E(k - 1) < E(k))
  <2> SUFFICES ASSUME NEW k \in 1 .. Len(chars)
               PROVE  E(k - 1) <= E(k) /\ (E(k - 1) < width => E(k - 1) < E(k))
    OBVIOUS
  <2>1. k - 1 \in 0 .. Len(chars)
    BY <1>1
  <2>2. E(k - 1) \in 0 .. width
    BY <1>2, <2>1
  <2> HIDE DEF E
  <2>3. /\ Behind(chars[k], E(k - 1)) \in E(k - 1) .. width
        /\ E(k - 1) < width => E(k - 1) < Behind(chars[k], E(k - 1))
    BY <2>2, BehindIs
  <2> QED
    BY <1>3, <2>2, <2>3, SizeAssumption
<1> HIDE DEF E
<1>5. 0 \in T
  BY <1>1, <1>2
<1>6. ASSUME NEW d \in 1 .. Len(chars) - m, d - 1 \in T
      PROVE  d \in T
  <2>1. m + d \in 1 .. Len(chars) /\ (m + d) - 1 = m + (d - 1) /\ m \in 0 .. Len(chars)
    BY <1>1
  <2>2. E(m) <= E(m + (d - 1)) /\ (0 < d - 1 /\ E(m) < width => E(m) < E(m + (d - 1)))
    BY <1>6
  <2>3. /\ E(m + (d - 1)) <= E(m + d)
        /\ E(m + (d - 1)) < width => E(m + (d - 1)) < E(m + d)
    BY <1>4, <2>1
  <2>4. E(m) \in 0 .. width /\ E(m + (d - 1)) \in 0 .. width /\ E(m + d) \in 0 .. width
    BY <1>1, <1>2, <2>1
  <2> QED
    BY <2>2, <2>3, <2>4, SizeAssumption
<1>7. T = 0 .. Len(chars) - m
  <2>1. T \in SUBSET (0 .. Len(chars) - m)
    OBVIOUS
  <2> HIDE DEF T
  <2> QED
    BY <1>1, <1>5, <1>6, <2>1, UpTo
<1>8. n - m \in 0 .. Len(chars) - m /\ m + (n - m) = n
  BY <1>1
<1>9. E(m) <= E(n) /\ (0 < n - m /\ E(m) < width => E(m) < E(n))
  BY <1>7, <1>8
<1> QED
  BY <1>9 DEF E

(* The beginning of a line does not move when the rest of it changes.      *)
LEMMA SameBeginning ==
  ASSUME NEW chars, IsSeq(chars), NEW other, IsSeq(other),
         NEW k \in 0 .. Len(chars), k <= Len(other),
         \A j \in 1 .. k : other[j] = chars[j],
         NEW n \in 0 .. k
  PROVE  Ends(other)[n] = Ends(chars)[n]
<1> DEFINE T == {j \in 0 .. k : Ends(other)[j] = Ends(chars)[j]}
<1>1. k \in Nat /\ Len(chars) \in Nat /\ Len(other) \in Nat /\ T \in SUBSET (0 .. k)
  BY EndsSteps
<1>2. 0 \in T
  BY EndsSteps
<1>3. ASSUME NEW j \in 1 .. k, j - 1 \in T
      PROVE  j \in T
  <2>1. j \in 1 .. Len(chars) /\ j \in 1 .. Len(other)
    BY <1>1
  <2>2. Ends(other)[j] = Behind(other[j], Ends(other)[j - 1])
    BY <2>1, EndsSteps
  <2>3. Ends(chars)[j] = Behind(chars[j], Ends(chars)[j - 1])
    BY <2>1, EndsSteps
  <2> QED
    BY <1>3, <2>2, <2>3
<1>4. T = 0 .. k
  <2> HIDE DEF T
  <2> QED
    BY <1>1, <1>2, <1>3, UpTo
<1> QED
  BY <1>4

-----------------------------------------------------------------------------
(* What the cells of a line show.                                          *)

LEMMA CharAt ==
  ASSUME NEW chars, IsSeq(chars), NEW x \in Nat, x < Ends(chars)[Len(chars)]
  PROVE  \E n \in 0 .. Len(chars) - 1 : Ends(chars)[n] <= x /\ x < Ends(chars)[n + 1]
<1> DEFINE T == {n \in 0 .. Len(chars) : Ends(chars)[n] <= x}
<1> SUFFICES ASSUME \A n \in 0 .. Len(chars) - 1 : ~(Ends(chars)[n] <= x /\ x < Ends(chars)[n + 1])
             PROVE  FALSE
  OBVIOUS
<1>1. Len(chars) \in Nat /\ T \in SUBSET (0 .. Len(chars))
  BY EndsSteps
<1>2. 0 \in T
  BY EndsSteps
<1>3. ASSUME NEW n \in 1 .. Len(chars), n - 1 \in T
      PROVE  n \in T
  <2>1. n - 1 \in 0 .. Len(chars) - 1 /\ (n - 1) + 1 = n /\ n \in 0 .. Len(chars)
    BY <1>1
  <2>2. ~(Ends(chars)[n - 1] <= x /\ x < Ends(chars)[n])
    BY <2>1
  <2>3. Ends(chars)[n] \in 0 .. width
    BY <2>1, EndsType
  <2> QED
    BY <1>3, <2>1, <2>2, <2>3, SizeAssumption
<1>4. T = 0 .. Len(chars)
  <2> HIDE DEF T
  <2> QED
    BY <1>1, <1>2, <1>3, UpTo
<1>5. Len(chars) \in T /\ Ends(chars)[Len(chars)] \in 0 .. width
  BY <1>1, <1>4, EndsType
<1> QED
  BY <1>5, SizeAssumption

LEMMA LayoutOf ==
  ASSUME NEW chars, IsSeq(chars), NEW x \in Column, NEW n \in 0 .. Len(chars) - 1,
         Ends(chars)[n] <= x, x < Ends(chars)[n + 1]
  PROVE  Layout(chars)[x] = n
<1> DEFINE reaching == {k \in DOMAIN chars : x < Ends(chars)[k]}
<1>1. Len(chars) \in Nat /\ DOMAIN chars = 1 .. Len(chars)
  BY DEF IsSeq
<1>2. n + 1 \in reaching /\ reaching \in SUBSET Int
  BY <1>1
<1>3. ASSUME NEW k \in reaching
      PROVE  n + 1 <= k
  <2> SUFFICES ASSUME ~(n + 1 <= k)
               PROVE  FALSE
    OBVIOUS
  <2>1. k \in 0 .. n /\ n \in 0 .. Len(chars) /\ k \in 0 .. Len(chars)
    BY <1>1
  <2>2. Ends(chars)[k] <= Ends(chars)[n]
    BY <2>1, EndsGrow
  <2>3. Ends(chars)[k] \in Nat /\ Ends(chars)[n] \in Nat /\ x \in Nat
    BY <2>1, EndsType, SizeAssumption DEF Column
  <2>4. x < Ends(chars)[k]
    OBVIOUS
  <2> QED
    BY <2>2, <2>3, <2>4
<1>4. Min(reaching) = n + 1
  <2> HIDE DEF reaching
  <2> QED
    BY <1>1, <1>2, <1>3, LeastOf
<1>5. Layout(chars)[x] = IF reaching = {} THEN Nothing ELSE Min(reaching) - 1
  BY DEF Layout
<1> HIDE DEF reaching
<1> QED
  BY <1>1, <1>2, <1>4, <1>5

LEMMA LayoutBehind ==
  ASSUME NEW chars, IsSeq(chars), NEW x \in Column, Ends(chars)[Len(chars)] <= x
  PROVE  Layout(chars)[x] = Nothing
<1> DEFINE reaching == {k \in DOMAIN chars : x < Ends(chars)[k]}
<1>1. Len(chars) \in Nat /\ DOMAIN chars = 1 .. Len(chars)
  BY DEF IsSeq
<1>2. ASSUME NEW k \in reaching
      PROVE  FALSE
  <2>1. k \in 0 .. Len(chars) /\ Len(chars) \in 0 .. Len(chars)
    BY <1>1
  <2>2. Ends(chars)[k] <= Ends(chars)[Len(chars)]
    BY <2>1, EndsGrow
  <2>3. Ends(chars)[k] \in Nat /\ Ends(chars)[Len(chars)] \in Nat /\ x \in Nat
    BY <2>1, EndsType, SizeAssumption DEF Column
  <2> QED
    BY <2>2, <2>3
<1>3. reaching = {}
  BY <1>2
<1> QED
  BY <1>3 DEF Layout

LEMMA LayoutIs ==
  ASSUME NEW chars, IsSeq(chars), NEW x \in Column
  PROVE  /\ Layout(chars)[x] # Nothing <=> x < Ends(chars)[Len(chars)]
         /\ \A n \in 0 .. Len(chars) - 1 :
              Layout(chars)[x] = n <=> Ends(chars)[n] <= x /\ x < Ends(chars)[n + 1]
<1>1. Len(chars) \in Nat /\ x \in Nat
  BY EndsSteps, SizeAssumption DEF Column
<1>2. Ends(chars)[Len(chars)] \in Nat
  BY <1>1, EndsType
<1>3. CASE x < Ends(chars)[Len(chars)]
  <2>1. PICK m \in 0 .. Len(chars) - 1 : Ends(chars)[m] <= x /\ x < Ends(chars)[m + 1]
    BY <1>1, <1>3, CharAt
  <2>2. Layout(chars)[x] = m
    BY <2>1, LayoutOf
  <2>3. \A n \in 0 .. Len(chars) - 1 :
          Ends(chars)[n] <= x /\ x < Ends(chars)[n + 1] => Layout(chars)[x] = n
    BY LayoutOf
  <2> QED
    BY <1>1, <1>3, <2>1, <2>2, <2>3 DEF Nothing
<1>4. CASE ~(x < Ends(chars)[Len(chars)])
  <2>1. Layout(chars)[x] = Nothing
    BY <1>1, <1>2, <1>4, LayoutBehind
  <2>2. ASSUME NEW n \in 0 .. Len(chars) - 1
        PROVE  ~(x < Ends(chars)[n + 1])
    <3>1. n + 1 \in 0 .. Len(chars) /\ Len(chars) \in 0 .. Len(chars)
      BY <1>1
    <3>2. Ends(chars)[n + 1] <= Ends(chars)[Len(chars)] /\ Ends(chars)[n + 1] \in Nat
      BY <3>1, EndsGrow, EndsType, SizeAssumption
    <3> QED
      BY <1>1, <1>2, <1>4, <3>2
  <2> QED
    BY <1>1, <1>4, <2>1, <2>2 DEF Nothing
<1> QED
  BY <1>3, <1>4

(* GetCharRange in a cell of character n, and behind the line.             *)
LEMMA RangeOf ==
  ASSUME NEW chars, IsSeq(chars), NEW pos \in Column, NEW n \in 0 .. Len(chars) - 1,
         Ends(chars)[n] <= pos, pos < Ends(chars)[n + 1]
  PROVE  /\ Range0(Layout(chars), pos)[1] = Ends(chars)[n]
         /\ Range0(Layout(chars), pos)[2] = Ends(chars)[n + 1] - Ends(chars)[n]
<1> DEFINE cells == {x \in Column : Layout(chars)[x] = Layout(chars)[pos]}
           from == Ends(chars)[n]
           to   == Ends(chars)[n + 1] - 1
<1>1. Len(chars) \in Nat /\ n \in 0 .. Len(chars) /\ n + 1 \in 0 .. Len(chars)
  BY EndsSteps
<1>2. from \in 0 .. width /\ Ends(chars)[n + 1] \in 0 .. width
  BY <1>1, EndsType
<1>3. Layout(chars)[pos] = n
  BY LayoutOf
<1>4. \A x \in Column : Layout(chars)[x] = n <=> Ends(chars)[n] <= x /\ x < Ends(chars)[n + 1]
  BY LayoutIs
<1>5. pos \in Nat
  BY SizeAssumption DEF Column
<1>6. cells = from .. to /\ from <= to /\ from \in Int /\ to \in Int
  BY <1>2, <1>3, <1>4, <1>5, SizeAssumption DEF Column
<1>7. Range0(Layout(chars), pos) = <<Min(cells), Cardinality(cells)>>
  BY <1>1, <1>3 DEF Range0, Nothing
<1> HIDE DEF cells
<1>8. Min(cells) = from
  <2> HIDE DEF from, to
  <2>1. cells \in SUBSET Int /\ from \in cells /\ \A x \in cells : from <= x
    BY <1>6
  <2> QED
    BY <2>1, LeastOf
<1>9. Cardinality(cells) = to - from + 1
  <2> HIDE DEF from, to
  <2> QED
    BY <1>6, FS_Interval
<1>10. to - from + 1 = Ends(chars)[n + 1] - Ends(chars)[n]
  BY <1>2
<1> QED
  BY <1>7, <1>8, <1>9, <1>10

LEMMA RangeBehind ==
  ASSUME NEW chars, IsSeq(chars), NEW pos \in Nat, Ends(chars)[Len(chars)] <= pos
  PROVE  /\ Range0(Layout(chars), pos)[1] = Ends(chars)[Len(chars)]
         /\ Range0(Layout(chars), pos)[2] = 0
<1> DEFINE cells == {x \in Column : Layout(chars)[x] # Nothing}
           end == Ends(chars)[Len(chars)]
<1>1. end \in 0 .. width
  BY EndsSteps, EndsType
<1>2. cells = 0 .. end - 1
  BY <1>1, LayoutIs, SizeAssumption DEF Column
<1>3. pos \notin Column \/ Layout(chars)[pos] = Nothing
  BY LayoutBehind
<1>4. Range0(Layout(chars), pos) = <<Cardinality(cells), 0>>
  BY <1>3 DEF Range0
<1> HIDE DEF cells
<1>5. Cardinality(cells) = end
  <2> HIDE DEF end
  <2>1. 0 \in Int /\ end - 1 \in Int /\ end \in Nat
    BY <1>1, SizeAssumption
  <2>2. Cardinality(0 .. end - 1) = IF 0 > end - 1 THEN 0 ELSE (end - 1) - 0 + 1
    BY <2>1, FS_Interval
  <2> QED
    BY <1>2, <2>1, <2>2
<1> QED
  BY <1>4, <1>5

-----------------------------------------------------------------------------
(* A cursor in cell x stands behind the first n characters of its line:    *)
(* behind the fewest of them, as those that do not fit the window end      *)
(* where it ends.                                                          *)
At(chars, n, x) ==
  /\ n \in 0 .. Len(chars)
  /\ Ends(chars)[n] = x
  /\ \A m \in 0 .. n - 1 : Ends(chars)[m] < x

LEMMA AtStart ==
  ASSUME NEW chars, IsSeq(chars)
  PROVE  At(chars, 0, 0)
BY EndsSteps DEF At

LEMMA AtIs ==
  ASSUME NEW chars, IsSeq(chars), NEW n, NEW x, At(chars, n, x)
  PROVE  /\ n \in 0 .. Len(chars) /\ Len(chars) \in Nat /\ x \in 0 .. width
         /\ Ends(chars)[n] = x /\ Ends(chars)[Len(chars)] \in x .. width
         /\ n = 0 <=> x = 0
         /\ \A m \in 0 .. n - 1 : Ends(chars)[m] < x
<1>1. n \in 0 .. Len(chars) /\ Ends(chars)[n] = x /\ \A m \in 0 .. n - 1 : Ends(chars)[m] < x
  BY DEF At
<1>2. Len(chars) \in Nat /\ Ends(chars)[0] = 0
  BY EndsSteps
<1>3. x \in 0 .. width /\ Ends(chars)[Len(chars)] \in 0 .. width
  BY <1>1, <1>2, EndsType
<1>4. x <= Ends(chars)[Len(chars)]
  <2>1. Len(chars) \in 0 .. Len(chars) /\ n \in 0 .. Len(chars)
    BY <1>1, <1>2
  <2> QED
    BY <1>1, <2>1, EndsGrow
<1>5. n # 0 => 0 < x
  BY <1>1, <1>2
<1> QED
  BY <1>1, <1>2, <1>3, <1>4, <1>5, SizeAssumption

(* The next character, unless the line is full.                            *)
LEMMA AtNext ==
  ASSUME NEW chars, IsSeq(chars), NEW n, NEW x, At(chars, n, x), n < Len(chars), x < width
  PROVE  At(chars, n + 1, Ends(chars)[n + 1]) /\ x < Ends(chars)[n + 1]
<1>1. n \in 0 .. Len(chars) /\ Len(chars) \in Nat /\ x \in 0 .. width /\ Ends(chars)[n] = x
  BY AtIs
<1>2. n + 1 \in 0 .. Len(chars) /\ n \in 0 .. n + 1
  BY <1>1
<1>3. x < Ends(chars)[n + 1] /\ Ends(chars)[n + 1] \in 0 .. width
  BY <1>1, <1>2, EndsGrow, EndsType
<1>4. ASSUME NEW m \in 0 .. (n + 1) - 1
      PROVE  Ends(chars)[m] < Ends(chars)[n + 1]
  <2>1. m \in 0 .. n /\ m \in 0 .. Len(chars)
    BY <1>1
  <2>2. Ends(chars)[m] <= Ends(chars)[n] /\ Ends(chars)[m] \in 0 .. width
    BY <1>1, <2>1, EndsGrow, EndsType
  <2> QED
    BY <1>1, <1>3, <2>2, SizeAssumption
<1> QED
  BY <1>2, <1>3, <1>4 DEF At

(* Every end is that of the fewest characters.                             *)
LEMMA AtSome ==
  ASSUME NEW chars, IsSeq(chars), NEW k \in 0 .. Len(chars), NEW x, Ends(chars)[k] = x
  PROVE  \E n \in 0 .. k : At(chars, n, x)
<1>1. Len(chars) \in Nat /\ k \in Nat
  BY EndsSteps
<1>2. x \in 0 .. width
  BY EndsType
<1>3. CASE x = 0
  <2>1. At(chars, 0, x)
    BY <1>3, AtStart
  <2> QED
    BY <1>1, <2>1
<1>4. CASE x > 0
  <2>1. Ends(chars)[k] <= Ends(chars)[Len(chars)] /\ Ends(chars)[Len(chars)] \in 0 .. width
    BY <1>1, EndsGrow, EndsType
  <2>2. x - 1 \in Nat /\ x - 1 \in Column /\ x - 1 < Ends(chars)[Len(chars)]
    BY <1>2, <1>4, <2>1, SizeAssumption DEF Column
  <2>3. PICK n \in 0 .. Len(chars) - 1 : Ends(chars)[n] <= x - 1 /\ x - 1 < Ends(chars)[n + 1]
    BY <2>2, CharAt
  <2>4. n \in 0 .. Len(chars) /\ n + 1 \in 0 .. Len(chars) /\ n \in 0 .. n + 1
    BY <1>1
  <2>5. Ends(chars)[n] \in 0 .. width /\ Ends(chars)[n + 1] \in 0 .. width
    BY <2>4, EndsType
  <2>6. n < k
    <3> SUFFICES ASSUME k <= n
                 PROVE  FALSE
      BY <1>1
    <3>1. k \in 0 .. n
      BY <1>1
    <3>2. Ends(chars)[k] <= Ends(chars)[n]
      BY <2>4, <3>1, EndsGrow
    <3> QED
      BY <1>2, <2>3, <2>5, <3>2, SizeAssumption
  <2>7. n + 1 \in 0 .. k
    BY <1>1, <2>6
  <2>8. Ends(chars)[n + 1] <= x
    BY <2>7, EndsGrow
  <2>9. Ends(chars)[n + 1] = x
    BY <1>2, <2>3, <2>5, <2>8, SizeAssumption
  <2>10. ASSUME NEW m \in 0 .. (n + 1) - 1
         PROVE  Ends(chars)[m] < x
    <3>1. m \in 0 .. n /\ m \in 0 .. Len(chars)
      BY <1>1
    <3>2. Ends(chars)[m] <= Ends(chars)[n] /\ Ends(chars)[m] \in 0 .. width
      BY <2>4, <3>1, EndsGrow, EndsType
    <3> QED
      BY <1>2, <2>3, <2>5, <3>2, SizeAssumption
  <2>11. At(chars, n + 1, x)
    BY <2>4, <2>9, <2>10 DEF At
  <2> QED
    BY <2>7, <2>11
<1> QED
  BY <1>2, <1>3, <1>4, SizeAssumption

(* The character in front of the cursor.                                   *)
LEMMA AtIndex ==
  ASSUME NEW chars, IsSeq(chars), NEW n, NEW x, At(chars, n, x)
  PROVE  /\ x = 0 => n = 0
         /\ x # 0 => /\ Layout(chars)[x - 1] + 1 = n
                     /\ n - 1 \in 0 .. Len(chars) - 1
                     /\ At(chars, n - 1, Range0(Layout(chars), x - 1)[1])
<1>1. /\ n \in 0 .. Len(chars) /\ Len(chars) \in Nat /\ Ends(chars)[n] = x /\ x \in 0 .. width
      /\ n = 0 <=> x = 0
      /\ \A m \in 0 .. n - 1 : Ends(chars)[m] < x
  BY AtIs
<1>2. CASE x # 0
  <2>1. /\ n - 1 \in 0 .. Len(chars) - 1 /\ n - 1 \in 0 .. Len(chars)
        /\ n - 1 \in 0 .. n - 1 /\ (n - 1) + 1 = n
    BY <1>1, <1>2
  <2>2. Ends(chars)[n - 1] < x /\ Ends(chars)[n - 1] \in 0 .. width
    BY <1>1, <2>1, EndsType
  <2>3. x - 1 \in Column /\ Ends(chars)[n - 1] <= x - 1 /\ x - 1 < x
    BY <1>1, <1>2, <2>2, SizeAssumption DEF Column
  <2>4. Layout(chars)[x - 1] = n - 1
    BY <1>1, <2>1, <2>3, LayoutOf
  <2>5. Range0(Layout(chars), x - 1)[1] = Ends(chars)[n - 1]
    BY <1>1, <2>1, <2>3, RangeOf
  <2>6. ASSUME NEW m \in 0 .. (n - 1) - 1
        PROVE  Ends(chars)[m] < Ends(chars)[n - 1]
    <3>1. m \in 0 .. n - 1 /\ m < n - 1 /\ m \in 0 .. Len(chars)
      BY <1>1, <2>1
    <3>2. Ends(chars)[m] < x /\ Ends(chars)[m] \in 0 .. width
      BY <1>1, <3>1, EndsType
    <3>3. Ends(chars)[m] < width
      BY <1>1, <3>2, SizeAssumption
    <3> QED
      BY <2>1, <3>1, <3>3, EndsGrow
  <2>7. At(chars, n - 1, Ends(chars)[n - 1])
    BY <2>1, <2>6 DEF At
  <2> QED
    BY <1>2, <1>1, <2>1, <2>4, <2>5, <2>7
<1> QED
  BY <1>1, <1>2

(* Visible(chars) characters reach the end of the line, or of the window.  *)
LEMMA AtEnd ==
  ASSUME NEW chars, IsSeq(chars)
  PROVE  At(chars, Visible(chars), Ends(chars)[Len(chars)])
<1> DEFINE end == Ends(chars)[Len(chars)]
<1>1. Len(chars) \in Nat /\ end \in 0 .. width /\ Len(chars) \in 0 .. Len(chars)
  BY EndsSteps, EndsType
<1>2. PICK v \in 0 .. Len(chars) : At(chars, v, end)
  BY <1>1, AtSome
<1>3. Ends(chars)[v] = end /\ \A m \in 0 .. v - 1 : Ends(chars)[m] < end
  BY <1>2 DEF At
<1> DEFINE shown == {Layout(chars)[x] : x \in Column} \ {Nothing}
<1>4. ASSUME NEW n \in 0 .. v - 1
      PROVE  n \in shown
  <2>1. n \in 0 .. Len(chars) /\ n + 1 \in 0 .. Len(chars) /\ n \in 0 .. n + 1
        /\ n \in 0 .. Len(chars) - 1
    BY <1>1
  <2>2. Ends(chars)[n] < width /\ Ends(chars)[n] \in 0 .. width
    BY <1>1, <1>3, <2>1, EndsType, SizeAssumption
  <2>3. Ends(chars)[n] < Ends(chars)[n + 1]
    BY <2>1, <2>2, EndsGrow
  <2>4. Ends(chars)[n] \in Column
    BY <2>2, SizeAssumption DEF Column
  <2>5. Layout(chars)[Ends(chars)[n]] = n
    BY <2>1, <2>2, <2>3, <2>4, LayoutOf, SizeAssumption
  <2> QED
    BY <2>1, <2>4, <2>5 DEF Nothing
<1>5. ASSUME NEW x \in Column, Layout(chars)[x] # Nothing
      PROVE  Layout(chars)[x] \in 0 .. v - 1
  <2>1. x \in Nat /\ x < end
    BY <1>5, LayoutIs, SizeAssumption DEF Column
  <2>2. PICK n \in 0 .. Len(chars) - 1 : Ends(chars)[n] <= x /\ x < Ends(chars)[n + 1]
    BY <2>1, CharAt
  <2>3. Layout(chars)[x] = n
    BY <2>2, LayoutOf
  <2>4. ~(v <= n)
    <3> SUFFICES ASSUME v <= n
                 PROVE  FALSE
      OBVIOUS
    <3>1. n \in 0 .. Len(chars) /\ v \in 0 .. n
      BY <1>1
    <3>2. Ends(chars)[v] <= Ends(chars)[n] /\ Ends(chars)[n] \in 0 .. width
      BY <3>1, EndsGrow, EndsType
    <3> QED
      BY <1>1, <1>3, <2>1, <2>2, <3>2, SizeAssumption
  <2> QED
    BY <1>1, <2>3, <2>4
<1>6. shown = 0 .. v - 1
  BY <1>4, <1>5
<1>7. Cardinality(0 .. v - 1) = v
  <2>1. 0 \in Int /\ v - 1 \in Int /\ v \in Nat
    BY <1>1
  <2>2. Cardinality(0 .. v - 1) = IF 0 > v - 1 THEN 0 ELSE (v - 1) - 0 + 1
    BY <2>1, FS_Interval
  <2> QED
    BY <2>1, <2>2
<1>8. Visible(chars) = v
  BY <1>6, <1>7 DEF Visible
<1> QED
  BY <1>2, <1>8

LEMMA AtVisible ==
  ASSUME NEW chars, IsSeq(chars), NEW n, NEW x, At(chars, n, x)
  PROVE  /\ n \in 0 .. Visible(chars) /\ Visible(chars) \in 0 .. Len(chars)
         /\ n < Visible(chars) <=> x < Ends(chars)[Len(chars)]
<1> DEFINE v == Visible(chars)
           end == Ends(chars)[Len(chars)]
<1>1. At(chars, v, end)
  BY AtEnd
<1>2. /\ v \in 0 .. Len(chars) /\ Len(chars) \in Nat /\ end \in 0 .. width
      /\ Ends(chars)[v] = end /\ \A m \in 0 .. v - 1 : Ends(chars)[m] < end
  BY <1>1, AtIs
<1>3. /\ n \in 0 .. Len(chars) /\ x \in 0 .. width /\ end \in x .. width
      /\ Ends(chars)[n] = x /\ \A m \in 0 .. n - 1 : Ends(chars)[m] < x
  BY AtIs
<1> HIDE DEF v, end
<1>4. n < v => x < end
  <2>1. n < v => n \in 0 .. v - 1
    BY <1>2, <1>3
  <2> QED
    BY <1>2, <1>3, <2>1
<1>5. v < n => end < x
  <2>1. v < n => v \in 0 .. n - 1
    BY <1>2, <1>3
  <2> QED
    BY <1>2, <1>3, <2>1
<1>6. n <= v
  BY <1>2, <1>3, <1>5, SizeAssumption
<1>7. n = v => x = end
  BY <1>2, <1>3
<1> QED
  BY <1>2, <1>3, <1>4, <1>6, <1>7, SizeAssumption DEF v, end

(* GetCharRange where the cursor stands: its cell, and a width if there is *)
(* a character in front of it.                                             *)
LEMMA RangeAt ==
  ASSUME NEW chars, IsSeq(chars), NEW n, NEW x, At(chars, n, x)
  PROVE  /\ Range0(Layout(chars), x)[1] = x
         /\ n < Visible(chars) =>
              /\ At(chars, n + 1, x + Range0(Layout(chars), x)[2])
              /\ Range0(Layout(chars), x)[2] > 0
         /\ ~(n < Visible(chars)) => Range0(Layout(chars), x)[2] = 0
<1>1. /\ n \in 0 .. Len(chars) /\ Len(chars) \in Nat /\ x \in 0 .. width
      /\ Ends(chars)[n] = x /\ Ends(chars)[Len(chars)] \in x .. width
  BY AtIs
<1>2. CASE n < Visible(chars)
  <2>1. x < Ends(chars)[Len(chars)] /\ n < Len(chars)
    BY <1>1, <1>2, AtVisible
  <2>2. x < width /\ x \in Column /\ n \in 0 .. Len(chars) - 1
    BY <1>1, <2>1, SizeAssumption DEF Column
  <2>3. At(chars, n + 1, Ends(chars)[n + 1]) /\ x < Ends(chars)[n + 1]
    BY <2>1, <2>2, AtNext
  <2>4. Ends(chars)[n] <= x
    BY <1>1, SizeAssumption
  <2>5. /\ Range0(Layout(chars), x)[1] = Ends(chars)[n]
        /\ Range0(Layout(chars), x)[2] = Ends(chars)[n + 1] - Ends(chars)[n]
    BY <2>2, <2>3, <2>4, RangeOf
  <2>6. Ends(chars)[n + 1] \in 0 .. width
    BY <2>3, AtIs
  <2>7. x + (Ends(chars)[n + 1] - Ends(chars)[n]) = Ends(chars)[n + 1]
    BY <1>1, <2>6, SizeAssumption
  <2> QED
    BY <1>1, <1>2, <2>3, <2>5, <2>6, <2>7, SizeAssumption
<1>3. CASE ~(n < Visible(chars))
  <2>1. x = Ends(chars)[Len(chars)] /\ x \in Nat
    BY <1>1, <1>3, AtVisible, SizeAssumption
  <2> QED
    BY <1>3, <2>1, RangeBehind, SizeAssumption
<1> QED
  BY <1>2, <1>3

(* GetCharRange anywhere: some character's first cell, or the end.         *)
LEMMA RangeSome ==
  ASSUME NEW chars, IsSeq(chars), NEW pos \in Nat
  PROVE  /\ \E n \in 0 .. Visible(chars) : At(chars, n, Range0(Layout(chars), pos)[1])
         /\ pos >= width => At(chars, Visible(chars), Range0(Layout(chars), pos)[1])
<1>1. Len(chars) \in Nat /\ Len(chars) \in 0 .. Len(chars)
  BY EndsSteps
<1>2. Ends(chars)[Len(chars)] \in 0 .. width
  BY <1>1, EndsType
<1>3. CASE pos < Ends(chars)[Len(chars)]
  <2>1. PICK n \in 0 .. Len(chars) - 1 : Ends(chars)[n] <= pos /\ pos < Ends(chars)[n + 1]
    BY <1>3, CharAt
  <2>2. pos \in Column /\ ~(pos >= width)
    BY <1>2, <1>3, SizeAssumption DEF Column
  <2>3. Range0(Layout(chars), pos)[1] = Ends(chars)[n]
    BY <2>1, <2>2, RangeOf
  <2>4. n \in 0 .. Len(chars)
    BY <1>1
  <2>5. PICK m \in 0 .. n : At(chars, m, Ends(chars)[n])
    BY <2>4, AtSome
  <2>6. m \in 0 .. Visible(chars)
    BY <2>5, AtVisible
  <2> QED
    BY <2>2, <2>3, <2>5, <2>6
<1>4. CASE ~(pos < Ends(chars)[Len(chars)])
  <2>1. Range0(Layout(chars), pos)[1] = Ends(chars)[Len(chars)]
    BY <1>2, <1>4, RangeBehind, SizeAssumption
  <2>2. At(chars, Visible(chars), Ends(chars)[Len(chars)])
    BY AtEnd
  <2>3. Visible(chars) \in 0 .. Visible(chars)
    BY <2>2, AtVisible
  <2> QED
    BY <2>1, <2>2, <2>3
<1> QED
  BY <1>3, <1>4

(* A cursor stays where it is when only characters behind it change.       *)
LEMMA AtKept ==
  ASSUME NEW chars, IsSeq(chars), NEW other, IsSeq(other), NEW n, NEW x, At(chars, n, x),
         n <= Len(other), \A j \in 1 .. n : other[j] = chars[j]
  PROVE  At(other, n, x)
<1>1. n \in 0 .. Len(chars) /\ Len(chars) \in Nat /\ Len(other) \in Nat
      /\ Ends(chars)[n] = x /\ \A m \in 0 .. n - 1 : Ends(chars)[m] < x
  BY AtIs, EndsSteps
<1>2. \A m \in 0 .. n : Ends(other)[m] = Ends(chars)[m]
  BY <1>1, SameBeginning
<1>3. n \in 0 .. n /\ n \in 0 .. Len(other)
  BY <1>1
<1>4. \A m \in 0 .. n - 1 : m \in 0 .. n
  BY <1>1
<1> QED
  BY <1>1, <1>2, <1>3, <1>4 DEF At

-----------------------------------------------------------------------------
(* The cursor's place in the text.                                         *)
Character == Typed \cup {Tab} \cup Wide \cup Invalid

PlaceInv ==
  /\ TextInv
  /\ data \in Seq(Seq(Character))
  /\ At(ThisLine, Place, cursor_x)

(* After the step the cursor stands in line y of text, behind n characters. *)
Lands(text, y, n) == PlaceInv' /\ data' = text /\ cursor_y' = y /\ Place' = n

LEMMA LinesAre ==
  ASSUME NEW text \in Seq(Seq(Character)), NEW y \in 0 .. Len(text) - 1
  PROVE  text[y + 1] \in Seq(Character) /\ IsSeq(text[y + 1])
<1>1. y + 1 \in 1 .. Len(text)
  OBVIOUS
<1>2. text[y + 1] \in Seq(Character)
  BY <1>1
<1> QED
  BY <1>2 DEF IsSeq

LEMMA ReplaceAtType ==
  ASSUME NEW S, NEW s \in Seq(S), NEW k \in 1 .. Len(s), NEW x \in S
  PROVE  ReplaceAt(s, k, x) \in Seq(S) /\ ReplaceAt(s, k, x)[k] = x
BY DEF ReplaceAt

LEMMA InsertAtType ==
  ASSUME NEW S, NEW s \in Seq(S), NEW k \in 1 .. Len(s) + 1, NEW x \in S
  PROVE  InsertAt(s, k, x) \in Seq(S)
<1>1. SubSeq(s, 1, k - 1) \in Seq(S) /\ SubSeq(s, k, Len(s)) \in Seq(S) /\ <<x>> \in Seq(S)
  OBVIOUS
<1> QED
  BY <1>1 DEF InsertAt

LEMMA RemoveAtType ==
  ASSUME NEW S, NEW s \in Seq(S), NEW k \in 1 .. Len(s)
  PROVE  RemoveAt(s, k) \in Seq(S)
<1>1. SubSeq(s, 1, k - 1) \in Seq(S) /\ SubSeq(s, k + 1, Len(s)) \in Seq(S)
  OBVIOUS
<1> QED
  BY <1>1 DEF RemoveAt

LEMMA LineReplaced ==
  ASSUME NEW text \in Seq(Seq(Character)), NEW k \in 1 .. Len(text), NEW chars \in Seq(Character),
         NEW other, other = ReplaceAt(text, k, chars)
  PROVE  other \in Seq(Seq(Character)) /\ other[k] = chars
<1>1. PICK S : S = Seq(Character)
  OBVIOUS
<1> QED
  BY <1>1, ReplaceAtType

(* What Place finds in the index is what the cursor stands behind.         *)
LEMMA PlaceIs ==
  TextInv /\ data \in Seq(Seq(Character)) =>
    \A n : At(ThisLine, n, cursor_x) => Place = n
<1> SUFFICES ASSUME TextInv, data \in Seq(Seq(Character)), NEW n, At(ThisLine, n, cursor_x)
             PROVE  Place = n
  OBVIOUS
<1>1. IsSeq(ThisLine)
  BY Cursor, LinesAre DEF ThisLine
<1>2. CursorRow \in Row /\ scroll_y + CursorRow < Len(data)
      /\ scroll_y + CursorRow + 1 = cursor_y + 1
  BY Cursor DEF Row
<1>3. char_idx[CursorRow] = Layout(ThisLine)
  BY <1>2 DEF TextInv, RowsShowText, ThisLine
<1>4. /\ cursor_x = 0 => n = 0
      /\ cursor_x # 0 => Layout(ThisLine)[cursor_x - 1] + 1 = n
  BY <1>1, AtIndex
<1> QED
  BY <1>3, <1>4 DEF Place, CursorRow

LEMMA PlaceIsNext ==
  TextInv' /\ data' \in Seq(Seq(Character)) =>
    \A n : At(data'[cursor_y' + 1], n, cursor_x') => Place' = n
<1>1. (TextInv /\ data \in Seq(Seq(Character)) =>
         \A n : At(ThisLine, n, cursor_x) => Place = n)'
  BY PlaceIs, PTL
<1> QED
  BY <1>1 DEF ThisLine

LEMMA LandsIf ==
  ASSUME TextInv', NEW text \in Seq(Seq(Character)), data' = text, NEW y, cursor_y' = y,
         NEW n, NEW x, cursor_x' = x, At(text[y + 1], n, x)
  PROVE  Lands(text, y, n)
<1>1. At(data'[cursor_y' + 1], n, cursor_x') /\ data' \in Seq(Seq(Character))
  OBVIOUS
<1>2. Place' = n
  BY <1>1, PlaceIsNext
<1> QED
  BY <1>1, <1>2 DEF Lands, PlaceInv, ThisLine

LEMMA FinishLands ==
  ASSUME TextInv', NEW text \in Seq(Seq(Character)), NEW y, NEW x, NEW scroll, NEW rows,
         Finish(text, y, x, scroll, rows), NEW n, At(text[y + 1], n, x)
  PROVE  Lands(text, y, n)
<1>1. data' = text /\ cursor_y' = y /\ cursor_x' = x
  BY DEF Finish
<1> QED
  BY <1>1, LandsIf

LEMMA EditLands ==
  ASSUME TextInv', NEW text \in Seq(Seq(Character)), NEW y, NEW x, NEW rows,
         Edit(text, y, x, rows), NEW n, At(text[y + 1], n, x)
  PROVE  Lands(text, y, n)
BY FinishLands DEF Edit

LEMMA MoveLands ==
  ASSUME PlaceInv, NEW y \in 0 .. Len(data) - 1, NEW x, Move(y, x), NEW n, At(data[y + 1], n, x)
  PROVE  Lands(data, y, n)
<1>1. TextInv' /\ data \in Seq(Seq(Character))
  BY MoveShows DEF PlaceInv
<1> QED
  BY <1>1, FinishLands DEF Move

(* What the handlers know of the line they work on.                        *)
LEMMA Here ==
  ASSUME PlaceInv
  PROVE  /\ TextInv /\ data \in Seq(Seq(Character))
         /\ ThisLine \in Seq(Character) /\ IsSeq(ThisLine)
         /\ cursor_y \in 0 .. Len(data) - 1 /\ Len(data) \in Nat
         /\ cursor_y + 1 \in 1 .. Len(data) /\ Len(ThisLine) \in Nat
         /\ At(ThisLine, Place, cursor_x)
         /\ Place \in 0 .. Len(ThisLine) /\ cursor_x \in 0 .. width
         /\ Place = 0 <=> cursor_x = 0
<1>1. TextInv /\ data \in Seq(Seq(Character)) /\ At(ThisLine, Place, cursor_x)
  BY DEF PlaceInv
<1>2. ThisLine \in Seq(Character) /\ IsSeq(ThisLine)
  BY <1>1, Cursor, LinesAre DEF ThisLine
<1>3. cursor_y \in 0 .. Len(data) - 1 /\ cursor_y + 1 \in 1 .. Len(data) /\ Len(data) \in Nat
  <2>1. TextInv
    BY <1>1
  <2>2. cursor_y \in 0 .. Len(data) - 1 /\ Len(data) \in Nat
    BY <2>1, Cursor
  <2> QED
    BY <2>2
<1>4. Len(ThisLine) \in Nat
  BY <1>2, LenIsNat
<1> QED
  BY <1>1, <1>2, <1>3, <1>4, AtIs

LEMMA RowHere ==
  ASSUME PlaceInv
  PROVE  char_idx[CursorRow] = Layout(ThisLine)
<1>1. TextInv
  BY Here
<1>2. CursorRow \in Row /\ scroll_y + CursorRow < Len(data)
      /\ scroll_y + CursorRow + 1 = cursor_y + 1
  BY <1>1, Cursor DEF Row
<1> QED
  BY <1>1, <1>2 DEF TextInv, RowsShowText, ThisLine

LEMMA RangeThere ==
  ASSUME PlaceInv, NEW y \in 0 .. Len(data) - 1, NEW pos
  PROVE  CharRange(y, pos) = Range0(Layout(data[y + 1]), pos)
<1>1. TextInv
  BY Here
<1>2. CASE y - scroll_y \in Row
  <2>1. PICK i \in Row : i = y - scroll_y
    BY <1>2
  <2>2. scroll_y + i = y /\ scroll_y + i + 1 = y + 1 /\ y < Len(data)
    BY <1>1, <2>1, Cursor
  <2>3. char_idx[i] = Layout(data[y + 1])
    BY <1>1, <2>2 DEF TextInv, RowsShowText
  <2> QED
    BY <1>2, <2>1, <2>3 DEF CharRange
<1> QED
  BY <1>2 DEF CharRange

LEMMA RangeHere ==
  ASSUME PlaceInv, NEW pos
  PROVE  CharRange(cursor_y, pos) = Range0(Layout(ThisLine), pos)
<1>1. cursor_y \in 0 .. Len(data) - 1
  BY Here, Cursor
<1> QED
  BY <1>1, RangeThere DEF ThisLine

(* TextEditor has these of SequencesExt, too.                              *)
LEMMA SameText ==
  ASSUME NEW s, NEW k, NEW x
  PROVE  /\ Editor!InsertAt(s, k, x) = InsertAt(s, k, x)
         /\ Editor!ReplaceAt(s, k, x) = ReplaceAt(s, k, x)
         /\ Editor!RemoveAt(s, k) = RemoveAt(s, k)
BY DEF Editor!InsertAt, InsertAt, Editor!ReplaceAt, ReplaceAt, Editor!RemoveAt, RemoveAt

LEMMA SameJoined ==
  ASSUME NEW y \in Int
  PROVE  Editor!Joined(y) = Joined(y)
<1>1. y + 1 + 1 = y + 2
  OBVIOUS
<1> QED
  BY <1>1, SameText DEF Editor!Joined, Editor!LineAt, Joined

-----------------------------------------------------------------------------
(* What the keys do to the text, and to the cursor's place in it.          *)

LEMMA InsertCharTypes ==
  ASSUME PlaceInv, NEW c \in Typed, InsertChar(c)
  PROVE  PlaceInv' /\ Editor!Type(c)
<1>1. PICK line, place, chars, text :
        /\ line = ThisLine /\ place = Place
        /\ chars = InsertAt(line, place + 1, c)
        /\ text = ReplaceAt(data, cursor_y + 1, chars)
  OBVIOUS
<1>2. PICK cells : cells = Range0(Layout(chars), cursor_x)[2]
  OBVIOUS
<1>3. Edit(text, cursor_y, IF cursor_x + cells <= width THEN cursor_x + cells ELSE cursor_x,
           {CursorRow})
  BY <1>1, <1>2 DEF InsertChar
<1>4. /\ line \in Seq(Character) /\ IsSeq(line) /\ At(line, place, cursor_x)
      /\ place \in 0 .. Len(line) /\ Len(line) \in Nat /\ cursor_x \in 0 .. width
  BY <1>1, Here, LenIsNat
<1>5. place + 1 \in 1 .. Len(line) + 1 /\ c \in Character
  BY <1>4 DEF Character
<1>6. chars \in Seq(Character)
  BY <1>1, <1>4, <1>5, InsertAtType
<1>7. IsSeq(chars) /\ Len(chars) = Len(line) + 1 /\ \A j \in 1 .. place : chars[j] = line[j]
  <2>1. /\ IsSeq(InsertAt(line, place + 1, c))
        /\ Len(InsertAt(line, place + 1, c)) = Len(line) + 1
        /\ \A j \in 1 .. (place + 1) - 1 : InsertAt(line, place + 1, c)[j] = line[j]
    BY <1>4, <1>5, InsertAtIs
  <2>2. (place + 1) - 1 = place
    BY <1>4
  <2> QED
    BY <1>1, <2>1, <2>2
<1>8. At(chars, place, cursor_x)
  BY <1>4, <1>7, AtKept
<1>9. text \in Seq(Seq(Character)) /\ text[cursor_y + 1] = chars
  BY <1>1, <1>6, Here, LineReplaced
<1>10. TextInv'
  BY Here, InsertCharShows
<1>11. CASE place < Visible(chars)
  <2>1. At(chars, place + 1, cursor_x + cells)
    BY <1>2, <1>7, <1>8, <1>11, RangeAt
  <2>2. cursor_x + cells \in 0 .. width
    BY <1>7, <2>1, AtIs
  <2>3. Edit(text, cursor_y, cursor_x + cells, {CursorRow})
    BY <1>3, <2>2, SizeAssumption
  <2>4. Lands(text, cursor_y, place + 1)
    BY <1>9, <1>10, <2>1, <2>3, EditLands
  <2> QED
    BY <1>1, <1>9, <1>11, <2>4, SameText DEF Lands, Editor!Type, Editor!LineAt, ThisLine
<1>12. CASE ~(place < Visible(chars))
  <2>1. cells = 0
    BY <1>2, <1>7, <1>8, <1>12, RangeAt
  <2>2. Edit(text, cursor_y, cursor_x, {CursorRow})
    BY <1>3, <1>4, <2>1, SizeAssumption
  <2>3. Lands(text, cursor_y, place)
    BY <1>8, <1>9, <1>10, <2>2, EditLands
  <2> QED
    BY <1>1, <1>9, <1>12, <2>3, SameText DEF Lands, Editor!Type, Editor!LineAt, ThisLine
<1> QED
  BY <1>11, <1>12

LEMMA EnterBreaks ==
  ASSUME PlaceInv, Enter
  PROVE  PlaceInv' /\ Editor!Break
<1>1. PICK line, front, rest, shorter, text :
        /\ line = ThisLine
        /\ front = SubSeq(line, 1, Place) /\ rest = SubSeq(line, Place + 1, Len(line))
        /\ shorter = ReplaceAt(data, cursor_y + 1, rest)
        /\ text = InsertAt(shorter, cursor_y + 1, front)
  OBVIOUS
<1>2. Edit(text, cursor_y + 1, 0, RowsFrom(CursorRow))
  BY <1>1 DEF Enter
<1>3. line \in Seq(Character) /\ Place \in 0 .. Len(line)
  BY <1>1, Here
<1>4. front \in Seq(Character) /\ rest \in Seq(Character)
  BY <1>1, <1>3
<1>5. shorter \in Seq(Seq(Character)) /\ shorter[cursor_y + 1] = rest
  <2>1. /\ data \in Seq(Seq(Character)) /\ cursor_y + 1 \in 1 .. Len(data)
        /\ shorter = ReplaceAt(data, cursor_y + 1, rest)
    BY <1>1, Here
  <2> QED
    BY <1>4, <2>1, LineReplaced
<1>6. IsSeq(data) /\ cursor_y + 1 \in 1 .. Len(data)
  BY Here DEF IsSeq
<1>7. Len(shorter) = Len(data)
  BY <1>1, <1>6, ReplaceAtIs
<1>8. cursor_y + 1 \in 1 .. Len(shorter) + 1 /\ cursor_y \in Nat /\ Len(data) \in Nat
  BY <1>6, <1>7, Here, Cursor
<1>9. text \in Seq(Seq(Character))
  BY <1>1, <1>4, <1>5, <1>8, InsertAtType
<1>10. IsSeq(shorter) /\ Len(text) = Len(data) + 1
  <2>1. IsSeq(shorter)
    BY <1>5 DEF IsSeq
  <2> QED
    BY <1>1, <1>7, <1>8, <2>1, InsertAtIs
<1>11. IsSeq(text[cursor_y + 1 + 1])
  <2>1. cursor_y + 1 \in 0 .. Len(text) - 1
    BY <1>6, <1>8, <1>10
  <2> QED
    BY <1>9, <2>1, LinesAre
<1>12. At(text[cursor_y + 1 + 1], 0, 0)
  BY <1>11, AtStart
<1>13. TextInv'
  BY Here, EnterShows
<1>14. Lands(text, cursor_y + 1, 0)
  BY <1>2, <1>9, <1>12, <1>13, EditLands
<1> QED
  BY <1>1, <1>14, SameText DEF Lands, Editor!Break, Editor!LineAt, ThisLine

(* The line the cursor is in with the next one joined to it.               *)
LEMMA JoinedAt ==
  ASSUME PlaceInv, NEW y \in 0 .. Len(data) - 2, NEW n, NEW x, At(data[y + 1], n, x)
  PROVE  Joined(y) \in Seq(Seq(Character)) /\ At(Joined(y)[y + 1], n, x)
<1>1. PICK above, below, shorter :
        /\ above = data[y + 1] /\ below = data[y + 2]
        /\ shorter = RemoveAt(data, y + 2)
  OBVIOUS
<1>2. data \in Seq(Seq(Character)) /\ IsSeq(data) /\ Len(data) \in Nat
      /\ y + 2 \in 1 .. Len(data) /\ y + 1 \in 1 .. Len(data)
  <2>1. data \in Seq(Seq(Character)) /\ Len(data) \in Nat
    BY Here
  <2>2. IsSeq(data)
    BY Here DEF TextInv
  <2> QED
    BY <2>1, <2>2
<1>3. above \in Seq(Character) /\ below \in Seq(Character)
  BY <1>1, <1>2
<1>4. shorter \in Seq(Seq(Character)) /\ Len(shorter) = Len(data) - 1
  BY <1>1, <1>2, RemoveAtType, RemoveAtIs
<1>5. y + 1 \in 1 .. Len(shorter)
  BY <1>2, <1>4
<1>6. PICK both : both = above \o below
  OBVIOUS
<1>7. both \in Seq(Character) /\ Len(both) = Len(above) + Len(below)
      /\ \A j \in 1 .. Len(above) : both[j] = above[j]
  BY <1>3, <1>6, CatIs
<1>8. Joined(y) = ReplaceAt(shorter, y + 1, both)
  BY <1>1, <1>6 DEF Joined
<1>9. Joined(y) \in Seq(Seq(Character)) /\ Joined(y)[y + 1] = both
  <2>1. PICK text, k : text = Joined(y) /\ k = y + 1
    OBVIOUS
  <2>2. /\ text = ReplaceAt(shorter, k, both) /\ k \in 1 .. Len(shorter)
        /\ shorter \in Seq(Seq(Character)) /\ both \in Seq(Character)
    BY <1>4, <1>5, <1>7, <1>8, <2>1
  <2>3. text \in Seq(Seq(Character)) /\ text[k] = both
    BY <2>2, LineReplaced
  <2> QED
    BY <2>1, <2>3
<1>10. IsSeq(above) /\ IsSeq(both) /\ Len(above) \in Nat /\ Len(below) \in Nat
  BY <1>3, <1>7 DEF IsSeq
<1>11. n \in 0 .. Len(above)
  BY <1>1 DEF At
<1>12. n <= Len(both) /\ \A j \in 1 .. n : both[j] = above[j]
  BY <1>7, <1>10, <1>11
<1>13. At(both, n, x)
  BY <1>1, <1>10, <1>12, AtKept
<1> QED
  BY <1>9, <1>13

(* The line the cursor is in without character m.                          *)
LEMMA RemovedAt ==
  ASSUME PlaceInv, NEW m \in 0 .. Len(ThisLine) - 1, NEW n \in 0 .. m, NEW x, At(ThisLine, n, x),
         NEW chars, chars = RemoveAt(ThisLine, m + 1),
         NEW text, text = ReplaceAt(data, cursor_y + 1, chars)
  PROVE  text \in Seq(Seq(Character)) /\ At(text[cursor_y + 1], n, x)
<1>1. PICK line : line = ThisLine
  OBVIOUS
<1>2. line \in Seq(Character) /\ IsSeq(line) /\ Len(line) \in Nat
  BY <1>1, Here, LenIsNat
<1>3. m + 1 \in 1 .. Len(line) /\ (m + 1) - 1 = m
  BY <1>1, <1>2
<1>4. /\ IsSeq(chars) /\ Len(chars) = Len(line) - 1
      /\ \A j \in 1 .. (m + 1) - 1 : chars[j] = line[j]
  BY <1>1, <1>2, <1>3, RemoveAtIs
<1>5. chars \in Seq(Character)
  BY <1>1, <1>2, <1>3, RemoveAtType
<1>6. n <= Len(chars) /\ \A j \in 1 .. n : chars[j] = line[j]
  BY <1>2, <1>3, <1>4
<1>7. At(chars, n, x)
  BY <1>1, <1>2, <1>4, <1>6, AtKept
<1>8. text \in Seq(Seq(Character)) /\ text[cursor_y + 1] = chars
  BY <1>1, <1>5, Here, LineReplaced
<1> QED
  BY <1>7, <1>8


LEMMA BackspaceDeletes ==
  ASSUME PlaceInv, Backspace
  PROVE  PlaceInv' /\ Editor!DeleteBefore
<1>1. TextInv'
  BY Here, BackspaceShows
<1>2. CASE cursor_x > 0
  <2>1. PICK m, x, chars, text :
          /\ m = Place - 1 /\ x = CharRange(cursor_y, cursor_x - 1)[1]
          /\ chars = RemoveAt(ThisLine, m + 1)
          /\ text = ReplaceAt(data, cursor_y + 1, chars)
    OBVIOUS
  <2>2. /\ Layout(ThisLine)[cursor_x - 1] + 1 = Place
        /\ Place - 1 \in 0 .. Len(ThisLine) - 1
        /\ At(ThisLine, Place - 1, Range0(Layout(ThisLine), cursor_x - 1)[1])
    BY <1>2, Here, AtIndex, SizeAssumption
  <2>3. Place \in Nat /\ Len(ThisLine) \in Nat /\ Place > 0 /\ m + 1 = Place
    <3>1. Place \in 0 .. Len(ThisLine) /\ Len(ThisLine) \in Nat
      BY Here
    <3>2. Place - 1 \in 0 .. Len(ThisLine) - 1
      BY <2>2
    <3> QED
      BY <2>1, <3>1, <3>2
  <2>4. char_idx[CursorRow][cursor_x - 1] + 1 = m + 1
    BY <2>2, <2>3, RowHere
  <2>5. At(ThisLine, m, x) /\ m \in 0 .. Len(ThisLine) - 1 /\ m \in 0 .. m
    BY <2>1, <2>2, <2>3, RangeHere
  <2>6. Edit(text, cursor_y, x, {CursorRow})
    BY <1>2, <2>1, <2>4 DEF Backspace
  <2>7. text \in Seq(Seq(Character)) /\ At(text[cursor_y + 1], m, x)
    BY <2>1, <2>5, RemovedAt
  <2>8. Lands(text, cursor_y, m)
    BY <1>1, <2>6, <2>7, EditLands
  <2> QED
    BY <2>1, <2>3, <2>8, SameText DEF Lands, Editor!DeleteBefore, Editor!LineAt, ThisLine
<1>3. CASE ~(cursor_x > 0) /\ cursor_y > 0
  <2>1. PICK y, x, n, text : /\ y = cursor_y - 1 /\ x = CharRange(y, width)[1]
                             /\ n = Visible(data[y + 1]) /\ text = Joined(y)
    OBVIOUS
  <2>2. y \in 0 .. Len(data) - 2 /\ y \in 0 .. Len(data) - 1
    <3>1. cursor_y \in 0 .. Len(data) - 1 /\ Len(data) \in Nat
      BY Here
    <3> QED
      BY <1>3, <2>1, <3>1
  <2>3. Edit(text, y, x, RowsFrom(CursorRow - 1))
    BY <1>3, <2>1 DEF Backspace
  <2>4. At(data[y + 1], n, x)
    <3>1. IsSeq(data[y + 1])
      BY <2>2, Here, LinesAre
    <3>2. width \in Nat /\ width >= width
      BY SizeAssumption
    <3>3. x = Range0(Layout(data[y + 1]), width)[1]
      BY <2>1, <2>2, RangeThere
    <3> QED
      BY <2>1, <3>1, <3>2, <3>3, RangeSome
  <2>5. text \in Seq(Seq(Character)) /\ At(text[y + 1], n, x)
    BY <2>1, <2>2, <2>4, JoinedAt
  <2>6. Lands(text, y, n)
    BY <1>1, <2>3, <2>5, EditLands
  <2>7. ~(Place > 0) /\ y \in Int
    BY <1>3, <2>2, Here, SizeAssumption
  <2>8. Editor!Joined(y) = text
    BY <2>1, <2>7, SameJoined
  <2> QED
    BY <1>3, <2>1, <2>6, <2>7, <2>8 DEF Lands, Editor!DeleteBefore, Editor!LineAt
<1>4. CASE ~(cursor_x > 0) /\ ~(cursor_y > 0)
  <2>1. Move(cursor_y, cursor_x)
    BY <1>4 DEF Backspace
  <2>2. Lands(data, cursor_y, Place)
    BY <2>1, Here, MoveLands DEF ThisLine
  <2>3. ~(Place > 0)
    BY <1>4, Here, SizeAssumption
  <2> QED
    BY <1>4, <2>2, <2>3 DEF Lands, Editor!DeleteBefore
<1> QED
  BY <1>2, <1>3, <1>4

LEMMA DeleteDeletes ==
  ASSUME PlaceInv, Delete
  PROVE  PlaceInv' /\ Editor!DeleteBehind
<1>1. TextInv'
  BY Here, DeleteShows
<1>2. PICK line, place, end :
        line = ThisLine /\ place = Place /\ end = Visible(ThisLine)
  OBVIOUS
<1>3. PICK s, cells, row :
        /\ s = CharRange(cursor_y, cursor_x)[1] /\ cells = CharRange(cursor_y, cursor_x)[2]
        /\ row = char_idx[CursorRow]
  OBVIOUS
<1>4. /\ line \in Seq(Character) /\ IsSeq(line) /\ Len(line) \in Nat
      /\ At(line, place, cursor_x) /\ place \in 0 .. Len(line)
      /\ cursor_x \in 0 .. width /\ (place = 0 <=> cursor_x = 0)
  BY <1>2, Here
<1>5. row = Layout(line)
  BY <1>2, <1>3, RowHere
<1>6. s = cursor_x /\ (place < end => cells > 0) /\ (~(place < end) => cells = 0)
  <2>1. s = Range0(Layout(line), cursor_x)[1] /\ cells = Range0(Layout(line), cursor_x)[2]
    BY <1>2, <1>3, RangeHere
  <2> QED
    BY <1>2, <1>4, <2>1, RangeAt
<1>7. s # 0 => row[s - 1] + 1 = place
  BY <1>4, <1>5, <1>6, AtIndex
<1>8. place \in 0 .. end /\ end \in 0 .. Len(line)
  BY <1>2, <1>4, AtVisible
<1>9. cells # 0 /\ s = 0 => row[s] = place
  <2> SUFFICES ASSUME cells # 0, s = 0
               PROVE  row[0] = place
    OBVIOUS
  <2>1. place = 0 /\ cursor_x = 0 /\ 0 < end /\ 0 \in 0 .. Len(line) - 1
    BY <1>4, <1>6, <1>8
  <2>2. 0 < Ends(line)[Len(line)] /\ 0 \in Column /\ 0 < width
    BY <1>2, <1>4, <2>1, AtVisible, SizeAssumption DEF Column
  <2>3. At(line, 0 + 1, Ends(line)[0 + 1]) /\ 0 < Ends(line)[0 + 1]
    BY <1>4, <1>8, <2>1, <2>2, AtNext
  <2>4. Ends(line)[0] <= 0
    BY <1>4, EndsSteps
  <2>5. Layout(line)[0] = 0
    BY <1>4, <2>1, <2>2, <2>3, <2>4, LayoutOf
  <2> QED
    BY <1>5, <2>1, <2>5
<1> DEFINE atEnd == cells = 0 /\ (s = 0 \/ row[s - 1] + 1 = Len(line))
           idx   == IF s = 0 THEN row[s] ELSE row[s - 1] + 1
<1>10. IF ~atEnd
       THEN Edit(ReplaceAt(data, cursor_y + 1, RemoveAt(line, idx + 1)),
                 cursor_y, cursor_x, {CursorRow})
       ELSE IF cursor_y + 1 < Len(data)
       THEN Edit(Joined(cursor_y), cursor_y, cursor_x, RowsFrom(CursorRow))
       ELSE Move(cursor_y, cursor_x)
  BY <1>2, <1>3 DEF Delete
<1>11. atEnd => ~(place < Len(line))
  <2>1. ASSUME cells = 0, s = 0
        PROVE  ~(place < Len(line))
    <3>1. place = 0 /\ ~(place < end)
      BY <1>4, <1>6, <2>1, SizeAssumption
    <3>2. end = 0
      BY <1>8, <3>1
    <3> SUFFICES ASSUME 0 < Len(line)
                 PROVE  FALSE
      BY <3>1
    <3>3. cursor_x < width
      BY <1>6, <2>1, SizeAssumption
    <3>4. At(line, place + 1, Ends(line)[place + 1])
      BY <1>4, <3>1, <3>3, AtNext
    <3>5. place + 1 \in 0 .. end
      BY <1>2, <1>4, <3>4, AtVisible
    <3> QED
      BY <3>1, <3>2, <3>5
  <2> QED
    BY <1>4, <1>7, <2>1
<1>12. ~atEnd => place < Len(line) /\ idx = place
  <2>1. CASE cells = 0
    BY <1>4, <1>7, <2>1
  <2>2. CASE cells # 0
    BY <1>4, <1>6, <1>7, <1>8, <1>9, <2>2
  <2> QED
    BY <2>1, <2>2
<1> HIDE DEF atEnd, idx
<1>13. CASE place < Len(line)
  <2>1. PICK chars, text : chars = RemoveAt(line, place + 1)
                           /\ text = ReplaceAt(data, cursor_y + 1, chars)
    OBVIOUS
  <2>2. Edit(text, cursor_y, cursor_x, {CursorRow})
    BY <1>10, <1>11, <1>12, <1>13, <2>1
  <2>3. place \in 0 .. Len(ThisLine) - 1 /\ place \in 0 .. place /\ At(ThisLine, place, cursor_x)
        /\ chars = RemoveAt(ThisLine, place + 1)
    BY <1>2, <1>4, <1>13, <2>1
  <2>4. text \in Seq(Seq(Character)) /\ At(text[cursor_y + 1], place, cursor_x)
    BY <2>1, <2>3, RemovedAt
  <2>5. Lands(text, cursor_y, place)
    BY <1>1, <2>2, <2>4, EditLands
  <2> QED
    BY <1>2, <1>13, <2>1, <2>5, SameText DEF Lands, Editor!DeleteBehind, Editor!LineAt, ThisLine
<1>14. CASE ~(place < Len(line)) /\ cursor_y + 1 < Len(data)
  <2>1. PICK text : text = Joined(cursor_y)
    OBVIOUS
  <2>2. Edit(text, cursor_y, cursor_x, RowsFrom(CursorRow))
    BY <1>10, <1>12, <1>14, <2>1
  <2>3. cursor_y \in 0 .. Len(data) - 2 /\ cursor_y \in Int /\ Len(data) \in Nat
    BY <1>14, Here
  <2>4. At(data[cursor_y + 1], place, cursor_x)
    BY <1>2, <1>4 DEF ThisLine
  <2>5. text \in Seq(Seq(Character)) /\ At(text[cursor_y + 1], place, cursor_x)
    BY <2>1, <2>3, <2>4, JoinedAt
  <2>6. Lands(text, cursor_y, place)
    BY <1>1, <2>2, <2>5, EditLands
  <2>7. Editor!Joined(cursor_y) = text /\ cursor_y < Len(data) - 1
    BY <1>14, <2>1, <2>3, SameJoined
  <2> QED
    BY <1>2, <1>14, <2>6, <2>7
    DEF Lands, Editor!DeleteBehind, Editor!LineAt, Editor!LastLine, ThisLine
<1>15. CASE ~(place < Len(line)) /\ ~(cursor_y + 1 < Len(data))
  <2>1. Move(cursor_y, cursor_x)
    BY <1>10, <1>12, <1>15
  <2>2. Lands(data, cursor_y, place)
    BY <1>2, <2>1, Here, MoveLands DEF ThisLine
  <2>3. ~(cursor_y < Len(data) - 1)
    BY <1>15, Here
  <2> QED
    BY <1>2, <1>15, <2>2, <2>3
    DEF Lands, Editor!DeleteBehind, Editor!LineAt, Editor!LastLine, ThisLine
<1> QED
  BY <1>13, <1>14, <1>15


LEMMA EndThere ==
  ASSUME PlaceInv, NEW y \in 0 .. Len(data) - 1
  PROVE  At(data[y + 1], Visible(data[y + 1]), CharRange(y, width)[1])
<1>1. IsSeq(data[y + 1])
  BY Here, LinesAre
<1>2. CharRange(y, width)[1] = Range0(Layout(data[y + 1]), width)[1]
  BY RangeThere
<1>3. width \in Nat /\ width >= width
  BY SizeAssumption
<1> QED
  BY <1>1, <1>2, <1>3, RangeSome

LEMMA SomewhereThere ==
  ASSUME PlaceInv, NEW y \in 0 .. Len(data) - 1, NEW pos \in Nat
  PROVE  \E n \in 0 .. Visible(data[y + 1]) : At(data[y + 1], n, CharRange(y, pos)[1])
<1>1. IsSeq(data[y + 1])
  BY Here, LinesAre
<1>2. CharRange(y, pos)[1] = Range0(Layout(data[y + 1]), pos)[1]
  BY RangeThere
<1> QED
  BY <1>1, <1>2, RangeSome

LEMMA LeftGoes ==
  ASSUME PlaceInv, Left
  PROVE  PlaceInv' /\ Editor!Left
<1>1. /\ cursor_y \in 0 .. Len(data) - 1 /\ Len(data) \in Nat /\ cursor_x \in 0 .. width
      /\ At(ThisLine, Place, cursor_x) /\ IsSeq(ThisLine) /\ Place \in 0 .. Len(ThisLine)
      /\ Place = 0 <=> cursor_x = 0
  BY Here
<1>2. CASE cursor_x > 0
  <2>1. PICK x : x = CharRange(cursor_y, cursor_x - 1)[1]
    OBVIOUS
  <2>2. Move(cursor_y, x)
    BY <1>1, <1>2, <2>1, SizeAssumption DEF Left
  <2>3. At(ThisLine, Place - 1, Range0(Layout(ThisLine), cursor_x - 1)[1])
    BY <1>1, <1>2, AtIndex, SizeAssumption
  <2>4. At(data[cursor_y + 1], Place - 1, x)
    BY <2>1, <2>3, RangeHere DEF ThisLine
  <2>5. Lands(data, cursor_y, Place - 1)
    BY <1>1, <2>2, <2>4, MoveLands
  <2>6. Place > 0
    <3>1. Place # 0 /\ Place \in Nat
      BY <1>1, <1>2, SizeAssumption
    <3> QED
      BY <3>1
  <2> QED
    BY <2>5, <2>6 DEF Lands, Editor!Left, Editor!GoTo
<1>3. CASE ~(cursor_x > 0) /\ cursor_y > 0
  <2>1. PICK y, x : y = cursor_y - 1 /\ x = CharRange(y, width)[1]
    OBVIOUS
  <2>2. cursor_x = 0 /\ y \in 0 .. Len(data) - 1 /\ ~(Place > 0)
    BY <1>1, <1>3, <2>1, SizeAssumption
  <2>3. Move(y, x)
    BY <1>3, <2>1, <2>2 DEF Left
  <2>4. At(data[y + 1], Visible(data[y + 1]), x)
    BY <2>1, <2>2, EndThere
  <2>5. Lands(data, y, Visible(data[y + 1]))
    BY <2>2, <2>3, <2>4, MoveLands
  <2> QED
    BY <1>3, <2>1, <2>2, <2>5 DEF Lands, Editor!Left, Editor!GoTo, Editor!LineAt
<1>4. CASE ~(cursor_x > 0) /\ ~(cursor_y > 0)
  <2>1. cursor_x = 0 /\ ~(Place > 0)
    BY <1>1, <1>4, SizeAssumption
  <2>2. Move(cursor_y, CharRange(cursor_y, cursor_x)[1])
    BY <1>4, <2>1 DEF Left
  <2>3. CharRange(cursor_y, cursor_x)[1] = cursor_x
    BY <1>1, RangeHere, RangeAt
  <2>4. At(data[cursor_y + 1], Place, cursor_x) /\ Move(cursor_y, cursor_x)
    BY <1>1, <2>2, <2>3 DEF ThisLine
  <2>5. Lands(data, cursor_y, Place)
    BY <1>1, <2>4, MoveLands
  <2> QED
    BY <1>4, <2>1, <2>5 DEF Lands, Editor!Left, Editor!GoTo
<1> QED
  BY <1>2, <1>3, <1>4

LEMMA RightGoes ==
  ASSUME PlaceInv, Right
  PROVE  PlaceInv' /\ Editor!Right
<1>1. /\ cursor_y \in 0 .. Len(data) - 1 /\ Len(data) \in Nat /\ cursor_x \in 0 .. width
      /\ At(ThisLine, Place, cursor_x) /\ IsSeq(ThisLine)
  BY Here
<1>2. PICK cells : cells = CharRange(cursor_y, cursor_x)[2]
  OBVIOUS
<1>3. /\ Place < Visible(ThisLine) => At(ThisLine, Place + 1, cursor_x + cells) /\ cells > 0
      /\ ~(Place < Visible(ThisLine)) => cells = 0
  <2>1. cells = Range0(Layout(ThisLine), cursor_x)[2]
    BY <1>2, RangeHere
  <2> QED
    BY <1>1, <2>1, RangeAt
<1>4. CASE Place < Visible(ThisLine)
  <2>1. Move(cursor_y, cursor_x + cells)
    BY <1>2, <1>3, <1>4 DEF Right
  <2>2. At(data[cursor_y + 1], Place + 1, cursor_x + cells)
    BY <1>3, <1>4 DEF ThisLine
  <2>3. Lands(data, cursor_y, Place + 1)
    BY <1>1, <2>1, <2>2, MoveLands
  <2> QED
    BY <1>4, <2>3 DEF Lands, Editor!Right, Editor!GoTo, Editor!LineAt, ThisLine
<1>5. CASE ~(Place < Visible(ThisLine)) /\ cursor_y + 1 < Len(data)
  <2>1. ~(cells > 0)
    BY <1>3, <1>5
  <2>2. Move(cursor_y + 1, 0)
    BY <1>2, <1>5, <2>1 DEF Right
  <2>3. cursor_y + 1 \in 0 .. Len(data) - 1 /\ cursor_y < Len(data) - 1
    BY <1>1, <1>5
  <2>4. At(data[cursor_y + 1 + 1], 0, 0)
    <3>1. IsSeq(data[cursor_y + 1 + 1])
      BY <2>3, Here, LinesAre
    <3> QED
      BY <3>1, AtStart
  <2>5. Lands(data, cursor_y + 1, 0)
    BY <2>2, <2>3, <2>4, MoveLands
  <2> QED
    BY <1>5, <2>3, <2>5
    DEF Lands, Editor!Right, Editor!GoTo, Editor!LineAt, Editor!LastLine, ThisLine
<1>6. CASE ~(Place < Visible(ThisLine)) /\ ~(cursor_y + 1 < Len(data))
  <2>1. ~(cells > 0)
    BY <1>3, <1>6
  <2>2. Move(cursor_y, cursor_x) /\ ~(cursor_y < Len(data) - 1)
    BY <1>1, <1>2, <1>6, <2>1 DEF Right
  <2>3. At(data[cursor_y + 1], Place, cursor_x)
    BY <1>1 DEF ThisLine
  <2>4. Lands(data, cursor_y, Place)
    BY <1>1, <2>2, <2>3, MoveLands
  <2> QED
    BY <1>6, <2>2, <2>4
    DEF Lands, Editor!Right, Editor!GoTo, Editor!LineAt, Editor!LastLine, ThisLine
<1> QED
  BY <1>4, <1>5, <1>6

LEMMA UpGoes ==
  ASSUME PlaceInv, Up
  PROVE  PlaceInv' /\ Editor!Up
<1>1. /\ cursor_y \in 0 .. Len(data) - 1 /\ Len(data) \in Nat /\ cursor_x \in Nat
      /\ At(data[cursor_y + 1], Place, cursor_x)
  BY Here, SizeAssumption DEF ThisLine
<1>2. CASE cursor_y > 0
  <2>1. PICK y : y = cursor_y - 1 /\ y \in 0 .. Len(data) - 1
    BY <1>1, <1>2
  <2>2. PICK n \in 0 .. Visible(data[y + 1]) : At(data[y + 1], n, CharRange(y, cursor_x)[1])
    BY <1>1, <2>1, SomewhereThere
  <2>3. Move(y, CharRange(y, cursor_x)[1])
    BY <1>2, <2>1 DEF Up
  <2>4. Lands(data, y, n)
    BY <2>1, <2>2, <2>3, MoveLands
  <2> QED
    BY <1>2, <2>1, <2>2, <2>4
    DEF Lands, Editor!Up, Editor!GoToLine, Editor!GoTo, Editor!LineAt
<1>3. CASE ~(cursor_y > 0)
  <2>1. Lands(data, cursor_y, Place)
    BY <1>1, <1>3, MoveLands DEF Up
  <2> QED
    BY <1>3, <2>1 DEF Lands, Editor!Up, Editor!GoTo
<1> QED
  BY <1>2, <1>3

LEMMA DownGoes ==
  ASSUME PlaceInv, Down
  PROVE  PlaceInv' /\ Editor!Down
<1>1. /\ cursor_y \in 0 .. Len(data) - 1 /\ Len(data) \in Nat /\ cursor_x \in Nat
      /\ At(data[cursor_y + 1], Place, cursor_x)
  BY Here, SizeAssumption DEF ThisLine
<1>2. CASE cursor_y + 1 < Len(data)
  <2>1. PICK y : y = cursor_y + 1 /\ y \in 0 .. Len(data) - 1 /\ cursor_y < Len(data) - 1
    BY <1>1, <1>2
  <2>2. PICK n \in 0 .. Visible(data[y + 1]) : At(data[y + 1], n, CharRange(y, cursor_x)[1])
    BY <1>1, <2>1, SomewhereThere
  <2>3. Move(y, CharRange(y, cursor_x)[1])
    BY <1>2, <2>1 DEF Down
  <2>4. Lands(data, y, n)
    BY <2>1, <2>2, <2>3, MoveLands
  <2> QED
    BY <2>1, <2>2, <2>4
    DEF Lands, Editor!Down, Editor!GoToLine, Editor!GoTo, Editor!LineAt, Editor!LastLine
<1>3. CASE ~(cursor_y + 1 < Len(data))
  <2>1. Lands(data, cursor_y, Place)
    BY <1>1, <1>3, MoveLands DEF Down
  <2>2. ~(cursor_y < Len(data) - 1)
    BY <1>1, <1>3
  <2> QED
    BY <2>1, <2>2 DEF Lands, Editor!Down, Editor!GoTo, Editor!LastLine
<1> QED
  BY <1>2, <1>3

LEMMA HomeGoes ==
  ASSUME PlaceInv, NEW ctrl \in BOOLEAN, Home(ctrl)
  PROVE  PlaceInv' /\ Editor!Home(ctrl)
<1>1. PICK y : y = IF ctrl THEN 0 ELSE cursor_y
  OBVIOUS
<1>2. y \in 0 .. Len(data) - 1
  <2>1. cursor_y \in 0 .. Len(data) - 1 /\ Len(data) \in Nat
    BY Here
  <2> QED
    BY <1>1, <2>1
<1>3. At(data[y + 1], 0, 0)
  <2>1. IsSeq(data[y + 1])
    BY <1>2, Here, LinesAre
  <2> QED
    BY <2>1, AtStart
<1>4. Move(y, 0)
  BY <1>1 DEF Home
<1>5. Lands(data, y, 0)
  BY <1>2, <1>3, <1>4, MoveLands
<1> QED
  BY <1>1, <1>5 DEF Lands, Editor!Home, Editor!GoTo

LEMMA EndGoes ==
  ASSUME PlaceInv, NEW ctrl \in BOOLEAN, End(ctrl)
  PROVE  PlaceInv' /\ Editor!End(ctrl)
<1>1. PICK y : y = IF ctrl THEN Len(data) - 1 ELSE cursor_y
  OBVIOUS
<1>2. y \in 0 .. Len(data) - 1
  <2>1. cursor_y \in 0 .. Len(data) - 1 /\ Len(data) \in Nat
    BY Here
  <2> QED
    BY <1>1, <2>1
<1>3. Move(y, CharRange(y, width)[1])
  BY <1>1 DEF End
<1>4. Lands(data, y, Visible(data[y + 1]))
  BY <1>2, <1>3, EndThere, MoveLands
<1> QED
  BY <1>1, <1>4 DEF Lands, Editor!End, Editor!GoTo, Editor!LineAt, Editor!LastLine

LEMMA ScrollGoes ==
  ASSUME PlaceInv, NEW lines \in Int, Scroll(lines), TextInv'
  PROVE  /\ Within(cursor_y + lines) \in 0 .. Len(data) - 1
         /\ \E n \in 0 .. Visible(data[Within(cursor_y + lines) + 1]) :
              Lands(data, Within(cursor_y + lines), n)
<1>1. PICK y : y = Within(cursor_y + lines)
  OBVIOUS
<1>2. cursor_y + lines \in Int /\ cursor_x \in Nat
  BY Here, SizeAssumption
<1>3. y \in 0 .. Len(data) - 1
  BY <1>1, <1>2, Here, WithinIs
<1>4. PICK n \in 0 .. Visible(data[y + 1]) : At(data[y + 1], n, CharRange(y, cursor_x)[1])
  BY <1>2, <1>3, SomewhereThere
<1>5. Finish(data, y, CharRange(y, cursor_x)[1], Within(scroll_y + lines), {})
  BY <1>1 DEF Scroll
<1>6. Lands(data, y, n)
  BY <1>4, <1>5, Here, FinishLands
<1> QED
  BY <1>1, <1>3, <1>4, <1>6

LEMMA PgUpGoes ==
  ASSUME PlaceInv, PgUp
  PROVE  PlaceInv' /\ Editor!PageUp
<1>1. PICK page : page = height \div 2 /\ page \in Nat
  BY SizeAssumption
<1>2. Scroll(-page) /\ -page \in Int
  BY <1>1 DEF PgUp
<1>3. TextInv'
  BY Here, ScrollShows
<1>4. PICK y : y = Within(cursor_y + (-page))
  OBVIOUS
<1>5. PICK n \in 0 .. Visible(data[y + 1]) : Lands(data, y, n)
  BY <1>2, <1>3, <1>4, ScrollGoes
<1>6. cursor_y \in 0 .. Len(data) - 1 /\ Len(data) \in Nat
  BY Here
<1>7. y = IF cursor_y < page THEN 0 ELSE cursor_y - page
  BY <1>1, <1>4, <1>6 DEF Within
<1> QED
  BY <1>1, <1>5, <1>7 DEF Lands, Editor!PageUp, Editor!GoToLine, Editor!GoTo, Editor!LineAt

LEMMA PgDnGoes ==
  ASSUME PlaceInv, PgDn
  PROVE  PlaceInv' /\ Editor!PageDown
<1>1. PICK page : page = height \div 2 /\ page \in Nat
  BY SizeAssumption
<1>2. Scroll(page)
  BY <1>1 DEF PgDn
<1>3. TextInv' /\ page \in Int
  BY <1>1, Here, ScrollShows
<1>4. PICK y : y = Within(cursor_y + page)
  OBVIOUS
<1>5. PICK n \in 0 .. Visible(data[y + 1]) : Lands(data, y, n)
  BY <1>2, <1>3, <1>4, ScrollGoes
<1>6. cursor_y \in 0 .. Len(data) - 1 /\ Len(data) \in Nat
  BY Here
<1>7. y = IF cursor_y + page > Len(data) - 1 THEN Len(data) - 1 ELSE cursor_y + page
  <2>1. page \in Nat
    BY <1>1
  <2>2. ~(cursor_y + page < 0) /\ (cursor_y + page >= Len(data) <=> cursor_y + page > Len(data) - 1)
    BY <1>6, <2>1
  <2> QED
    BY <1>4, <2>2 DEF Within
<1> QED
  BY <1>1, <1>5, <1>7
  DEF Lands, Editor!PageDown, Editor!GoToLine, Editor!GoTo, Editor!LineAt, Editor!LastLine

LEMMA ClickGoes ==
  ASSUME PlaceInv, NEW sx \in Column, NEW sy \in Row, Click(sx, sy)
  PROVE  PlaceInv' /\ Editor!Point
<1>1. PICK y : y = Within(sy + scroll_y)
  OBVIOUS
<1>2. TextInv
  BY Here
<1>3. sy + scroll_y \in Int /\ sx \in Nat
  BY <1>2, Cursor, SizeAssumption DEF Row, Column
<1>4. y \in 0 .. Len(data) - 1
  BY <1>1, <1>2, <1>3, WithinIs
<1>5. PICK n \in 0 .. Visible(data[y + 1]) : At(data[y + 1], n, CharRange(y, sx)[1])
  BY <1>3, <1>4, SomewhereThere
<1>6. data' = data /\ cursor_y' = y /\ cursor_x' = CharRange(y, sx)[1]
  BY <1>1 DEF Click
<1>7. TextInv'
  BY <1>2, ClickShows
<1>8. Lands(data, y, n)
  BY <1>5, <1>6, <1>7, Here, LandsIf
<1> QED
  BY <1>4, <1>5, <1>8 DEF Lands, Editor!Point, Editor!GoToLine, Editor!GoTo, Editor!LineAt, Editor!LastLine

(* Saving, and the dialog.                                                 *)
LEMMA DialogStays ==
  ASSUME PlaceInv, CtrlS \/ Quit \/ DialogSave \/ DialogDiscard \/ DialogCancel
  PROVE  PlaceInv'
<1>1. data' = data /\ cursor_y' = cursor_y /\ cursor_x' = cursor_x
  BY DEF CtrlS, Quit, DialogSave, DialogDiscard, DialogCancel
<1>2. TextInv' /\ At(data[cursor_y + 1], Place, cursor_x)
  BY Here, DialogShows DEF ThisLine
<1>3. Lands(data, cursor_y, Place)
  BY <1>1, <1>2, Here, LandsIf
<1> QED
  BY <1>3 DEF Lands
-----------------------------------------------------------------------------
LEMMA InitPlaceInv == Init => PlaceInv
<1> SUFFICES ASSUME Init
             PROVE  PlaceInv
  OBVIOUS
<1>1. TextInv /\ cursor_x = 0
  BY InitTextInv DEF Init
<1>2. data \in Seq(Seq(Character))
  <2>1. CASE data = Empty
    <3>1. <<>> \in Seq(Character)
      OBVIOUS
    <3> QED
      BY <2>1, <3>1 DEF Empty
  <2>2. CASE data \in OpenFiles
    BY <2>2, TextAssumption DEF Character
  <2> QED
    BY <2>1, <2>2 DEF Init
<1>3. IsSeq(ThisLine)
  <2>1. cursor_y \in 0 .. Len(data) - 1
    BY <1>1, Cursor
  <2> QED
    BY <1>2, <2>1, LinesAre DEF ThisLine
<1>4. At(ThisLine, 0, cursor_x)
  BY <1>1, <1>3, AtStart
<1> QED
  BY <1>1, <1>2, <1>4, PlaceIs DEF PlaceInv

LEMMA NextPlaceInv == PlaceInv /\ [Next]_vars => PlaceInv' /\ [DoesWhatItSays]_vars
<1> SUFFICES ASSUME PlaceInv, [Next]_vars
             PROVE  PlaceInv' /\ [DoesWhatItSays]_vars
  OBVIOUS
<1>1. DoesWhatItSays
  BY InsertCharTypes, EnterBreaks, BackspaceDeletes, DeleteDeletes, LeftGoes, RightGoes,
     UpGoes, DownGoes, PgUpGoes, PgDnGoes, HomeGoes, EndGoes, ClickGoes
  DEF DoesWhatItSays
<1>2. PlaceInv'
  <2>1. CASE UNCHANGED vars
    BY <2>1 DEF vars, PlaceInv, TextInv, IsSeq, CursorInWindow, CursorRow, RowsShowText,
                ThisLine, Place
  <2>2. ASSUME NEW c \in Typed, InsertChar(c)
        PROVE  PlaceInv'
    BY <2>2, InsertCharTypes
  <2>3. CASE Enter \/ Backspace \/ Delete
    BY <2>3, EnterBreaks, BackspaceDeletes, DeleteDeletes
  <2>4. CASE Left \/ Right \/ Up \/ Down \/ PgUp \/ PgDn
    BY <2>4, LeftGoes, RightGoes, UpGoes, DownGoes, PgUpGoes, PgDnGoes
  <2>5. ASSUME NEW ctrl \in BOOLEAN, Home(ctrl) \/ End(ctrl)
        PROVE  PlaceInv'
    BY <2>5, HomeGoes, EndGoes
  <2>6. ASSUME NEW sx \in Column, NEW sy \in Row, Click(sx, sy)
        PROVE  PlaceInv'
    BY <2>6, ClickGoes
  <2>7. CASE CtrlS \/ Quit \/ DialogSave \/ DialogDiscard \/ DialogCancel
    BY <2>7, DialogStays
  <2> QED
    BY <2>1, <2>2, <2>3, <2>4, <2>5, <2>6, <2>7 DEF Next
<1> QED
  BY <1>1, <1>2

(* In a window of any size, whatever characters of one, two or a tab's     *)
(* cells the text holds: the index the handlers look places up in is       *)
(* fresh, and the cursor is in the window, on the first cell of a          *)
(* character or behind the last.                                           *)
THEOREM CursorIsOnACharacter == Spec => []ScreenMatchesText
<1>1. PlaceInv => ScreenMatchesText
  <2> SUFFICES ASSUME PlaceInv
               PROVE  ScreenMatchesText
    OBVIOUS
  <2>1. RowsShowText /\ CursorInWindow
    BY Here DEF TextInv
  <2>2. CharRange(cursor_y, cursor_x)[1] = cursor_x
    BY Here, RangeHere, RangeAt
  <2> QED
    BY <2>1, <2>2 DEF ScreenMatchesText
<1>2. PlaceInv /\ [Next]_vars => PlaceInv'
  BY NextPlaceInv
<1> QED
  BY <1>1, <1>2, InitPlaceInv, PTL DEF Spec

(* Every key does to the text, and to the cursor's place in it, what an    *)
(* editor without a screen does (TextEditor): the right character is       *)
(* inserted, deleted or passed, however the line lies in the window.       *)
THEOREM KeysAreObeyed == Spec => KeysDoWhatTheySay
<1>1. PlaceInv /\ [Next]_vars => PlaceInv' /\ [DoesWhatItSays]_vars
  BY NextPlaceInv
<1> QED
  BY <1>1, InitPlaceInv, PTL DEF Spec, KeysDoWhatTheySay
=============================================================================
