-------------------------------- MODULE Tedit --------------------------------
(***************************************************************************)
(* The text editor (src/apps/tedit/tedit.cpp), an application whose events *)
(* come from ReadEvent one at a time.                                      *)
(*                                                                         *)
(* It keeps the text, `data`, apart from what it knows about the screen:   *)
(* char_idx says for every cell of the window which character of its line  *)
(* is drawn there.  A character may take several cells, so that the        *)
(* handlers find their place in the text through char_idx, and must redraw *)
(* every line they change or move.  Lines and cells count from zero.       *)
(*                                                                         *)
(* Drawing, and the timer that blinks the cursor, are left out.            *)
(***************************************************************************)
EXTENDS Integers, SequencesExt, FiniteSetsExt

CONSTANTS width, height, tab_size,  \* of the window, and of a tab, in cells
          Typed,      \* characters of one cell, and Tab: what keys type
          Tab,
          Wide,       \* characters of two cells that only files hold
          Invalid,    \* bytes that are no UTF-8: INVALID_BYTE is set
          OpenFiles,  \* texts of files the editor may be started with
          NoFile,     \* no file name was given
          MaxSize     \* characters and lines of the text

ASSUME SizeAssumption ==
  width \in Nat \ {0} /\ height \in Nat \ {0} /\ tab_size \in Nat \ {0}
ASSUME TextAssumption ==
  \A text \in OpenFiles :
    text # <<>> /\ text \in Seq(Seq(Typed \cup {Tab} \cup Wide \cup Invalid))

VARIABLES data, char_idx, scroll_y, cursor_x, cursor_y, edited,
          mode,  \* "Editing", dialog_shown, or how exit_flag was set
          file   \* what the file holds

vars == <<data, char_idx, scroll_y, cursor_x, cursor_y, edited, mode, file>>

Column == 0 .. width - 1
Row == 0 .. height - 1
Nothing == -1  \* no character is drawn in the cell
StaleRow == [x \in Column |-> -2]  \* stands for a row of some earlier line
Empty == << <<>> >>
-----------------------------------------------------------------------------
(* The cells of a line.                                                    *)

(* DrawOneChar: a byte that is no UTF-8 is shown as two digits.            *)
CharWidth(c) == IF c \in Wide \cup Invalid THEN 2 ELSE 1

(* Cells that are drawn when c is put into cell x: a tab goes on up to a   *)
(* multiple of tab_size.                                                   *)
CellsOf(c, x) ==
  {y \in Column : /\ x <= y
                  /\ IF c = Tab THEN \A z \in x + 1 .. y : z % tab_size # 0
                     ELSE y < x + CharWidth(c)}

(* The cell behind c, when c is put into cell x.                           *)
Behind(c, x) == x + Cardinality(CellsOf(c, x))

(* The cell behind the first n characters of a line.                       *)
Ends(chars) ==
  LET end[n \in 0 .. Len(chars)] == IF n = 0 THEN 0 ELSE Behind(chars[n], end[n - 1])
  IN  end

(* DrawLine.                                                               *)
Layout(chars) ==
  LET end == Ends(chars)
  IN  [x \in Column |->
         LET reaching == {n \in DOMAIN chars : x < end[n]}
         IN  IF reaching = {} THEN Nothing ELSE Min(reaching) - 1]

(* GetCharRange: the first cell of the character in cell pos, and how many *)
(* it has; none behind the end of the line.                                *)
Range0(row, pos) ==
  IF pos \notin Column \/ row[pos] = Nothing
  THEN <<Cardinality({x \in Column : row[x] # Nothing}), 0>>
  ELSE LET cells == {x \in Column : row[x] = row[pos]}
       IN  <<Min(cells), Cardinality(cells)>>

(* get_char_range_2.                                                       *)
CharRange(y, pos) ==
  IF y - scroll_y \in Row THEN Range0(char_idx[y - scroll_y], pos)
  ELSE Range0(Layout(data[y + 1]), pos)

(* Where the handlers change the text: in front of this character.         *)
Place == IF cursor_x = 0 THEN 0 ELSE char_idx[cursor_y - scroll_y][cursor_x - 1] + 1

(* draw_lines.  Rows below the text are blanked without char_idx, which    *)
(* keeps there whatever it held.                                           *)
Drawn(text, scroll, rows) ==
  [i \in Row |-> IF scroll + i >= Len(text) THEN StaleRow
                 ELSE IF i \in rows THEN Layout(text[scroll + i + 1])
                 ELSE char_idx[i]]

Init ==
  /\ file \in OpenFiles \cup {NoFile}
  /\ data = IF file = NoFile THEN Empty ELSE file
  /\ char_idx = [i \in Row |-> IF i < Len(data) THEN Layout(data[i + 1])
                               ELSE StaleRow]
  /\ scroll_y = 0
  /\ cursor_x = 0 /\ cursor_y = 0
  /\ edited = FALSE
  /\ mode = "Editing"
-----------------------------------------------------------------------------
(* The end of the handler of a key: the window is scrolled to the cursor,  *)
(* and `rows`, or after scrolling all of them, are drawn again.            *)
Finish(text, y, x, scroll, rows) ==
  LET up   == IF y < scroll THEN y ELSE scroll
      down == IF y >= up + height THEN y - height + 1 ELSE up
  IN  /\ mode = "Editing"
      /\ data' = text
      /\ scroll_y' = down
      /\ char_idx' = Drawn(text, down, IF down # scroll_y THEN Row ELSE rows)
      /\ cursor_y' = y
      /\ cursor_x' = x
      /\ UNCHANGED <<mode, file>>

Edit(text, y, x, rows) == Finish(text, y, x, scroll_y, rows) /\ edited' = TRUE
Move(y, x) == Finish(data, y, x, scroll_y, {}) /\ UNCHANGED edited

CursorRow == cursor_y - scroll_y
RowsFrom(row) == {i \in Row : i >= row}
ThisLine == data[cursor_y + 1]
Size == FoldLeft(LAMBDA n, chars : n + 1 + Len(chars), 0, data)

(* Seeded fault: the cell under the cursor is taken for the character.     *)
InsertCharAtCell(c) ==
  LET chars == InsertAt(ThisLine, IF cursor_x > Len(ThisLine) THEN Len(ThisLine) + 1
                                  ELSE cursor_x + 1, c)
      range == Range0(Layout(chars), cursor_x)
  IN  /\ Size < MaxSize
      /\ Edit(ReplaceAt(data, cursor_y + 1, chars), cursor_y, cursor_x + range[2], {CursorRow})

InsertChar(c) ==
  LET chars == InsertAt(ThisLine, Place + 1, c)
      range == Range0(Layout(chars), cursor_x)
      x     == IF cursor_x + range[2] <= width THEN cursor_x + range[2] ELSE cursor_x
  IN  /\ Size < MaxSize
      /\ Edit(ReplaceAt(data, cursor_y + 1, chars), cursor_y, x, {CursorRow})

(* Seeded fault: only the line with the cursor is drawn again.             *)
EnterThisRow ==
  /\ Size < MaxSize
  /\ Edit(InsertAt(ReplaceAt(data, cursor_y + 1, SubSeq(ThisLine, Place + 1, Len(ThisLine))),
                   cursor_y + 1, SubSeq(ThisLine, 1, Place)),
          cursor_y + 1, 0, {CursorRow})

Enter ==
  /\ Size < MaxSize
  /\ Edit(InsertAt(ReplaceAt(data, cursor_y + 1, SubSeq(ThisLine, Place + 1, Len(ThisLine))),
                   cursor_y + 1, SubSeq(ThisLine, 1, Place)),
          cursor_y + 1, 0, RowsFrom(CursorRow))

(* Line y, counted from zero, with the next one joined to it.              *)
Joined(y) == ReplaceAt(RemoveAt(data, y + 2), y + 1, data[y + 1] \o data[y + 2])

Backspace ==
  IF cursor_x > 0
  THEN Edit(ReplaceAt(data, cursor_y + 1,
                      RemoveAt(ThisLine, char_idx[CursorRow][cursor_x - 1] + 1)),
            cursor_y, CharRange(cursor_y, cursor_x - 1)[1], {CursorRow})
  ELSE IF cursor_y > 0
  THEN Edit(Joined(cursor_y - 1), cursor_y - 1, CharRange(cursor_y - 1, width)[1],
            RowsFrom(CursorRow - 1))
  ELSE Move(cursor_y, cursor_x)

Delete ==
  LET range == CharRange(cursor_y, cursor_x)
      s     == range[1]
      row   == char_idx[CursorRow]
      atEnd == range[2] = 0 /\ (s = 0 \/ row[s - 1] + 1 = Len(ThisLine))
      idx   == IF s = 0 THEN row[s] ELSE row[s - 1] + 1
  IN  IF ~atEnd
      THEN Edit(ReplaceAt(data, cursor_y + 1, RemoveAt(ThisLine, idx + 1)),
                cursor_y, cursor_x, {CursorRow})
      ELSE IF cursor_y + 1 < Len(data)
      THEN Edit(Joined(cursor_y), cursor_y, cursor_x, RowsFrom(CursorRow))
      ELSE Move(cursor_y, cursor_x)

Left ==
  LET y == IF cursor_x = 0 /\ cursor_y > 0 THEN cursor_y - 1 ELSE cursor_y
      x == IF cursor_x > 0 THEN cursor_x - 1 ELSE IF cursor_y > 0 THEN width ELSE 0
  IN  Move(y, CharRange(y, x)[1])

Right ==
  LET cells == CharRange(cursor_y, cursor_x)[2]
  IN  IF cells > 0 THEN Move(cursor_y, cursor_x + cells)
      ELSE IF cursor_y + 1 < Len(data) THEN Move(cursor_y + 1, 0)
      ELSE Move(cursor_y, cursor_x)

Up ==
  IF cursor_y > 0 THEN Move(cursor_y - 1, CharRange(cursor_y - 1, cursor_x)[1])
  ELSE Move(cursor_y, cursor_x)

Down ==
  IF cursor_y + 1 < Len(data) THEN Move(cursor_y + 1, CharRange(cursor_y + 1, cursor_x)[1])
  ELSE Move(cursor_y, cursor_x)

Home(ctrl) == Move(IF ctrl THEN 0 ELSE cursor_y, 0)

End(ctrl) ==
  LET y == IF ctrl THEN Len(data) - 1 ELSE cursor_y
  IN  Move(y, CharRange(y, width)[1])

(* PgUp and PgDn scroll by half the window, and never leave the text.      *)
Within(y) == IF y < 0 THEN 0 ELSE IF y >= Len(data) THEN Len(data) - 1 ELSE y

Scroll(lines) ==
  LET y == Within(cursor_y + lines)
  IN  Finish(data, y, CharRange(y, cursor_x)[1], Within(scroll_y + lines), {}) /\ UNCHANGED edited

PgUp == Scroll(-(height \div 2))
PgDn == Scroll(height \div 2)

(* A click into cell (sx, sy) of the window.                               *)
Click(sx, sy) ==
  LET y == Within(sy + scroll_y)
  IN  /\ mode = "Editing"
      /\ cursor_y' = y
      /\ cursor_x' = CharRange(y, sx)[1]
      /\ UNCHANGED <<data, char_idx, scroll_y, edited, mode, file>>
-----------------------------------------------------------------------------
(* Saving and leaving.                                                     *)

Encodable(text) == \A y \in DOMAIN text : \A x \in DOMAIN text[y] : text[y][x] \notin Invalid

(* What has been written when SaveFile meets a character it cannot encode. *)
UpToInvalid(text) ==
  LET y == Min({k \in DOMAIN text : ~Encodable(<<text[k]>>)})
      x == Min({k \in DOMAIN text[y] : text[y][k] \in Invalid})
  IN  SubSeq(text, 1, y - 1) \o <<SubSeq(text[y], 1, x - 1)>>

(* SaveFile, down to FileDescriptor::Write: OpenFile does not empty the    *)
(* file, and the size is set by a write, so that an empty text leaves the  *)
(* file as it is.                                                          *)
Saves == file # NoFile /\ Encodable(data)

SaveFile ==
  LET written == IF Encodable(data) THEN data ELSE UpToInvalid(data)
  IN  file' = IF file = NoFile \/ written = Empty THEN file ELSE written

(* Seeded fault: the result of SaveFile is not looked at.                  *)
CtrlSAlways ==
  /\ mode = "Editing"
  /\ SaveFile
  /\ edited' = FALSE
  /\ UNCHANGED <<data, char_idx, scroll_y, cursor_x, cursor_y, mode>>

CtrlS ==
  /\ mode = "Editing"
  /\ SaveFile
  /\ edited' = (edited /\ ~Saves)
  /\ UNCHANGED <<data, char_idx, scroll_y, cursor_x, cursor_y, mode>>

(* kQuit: asks if there is something to save.                              *)
Quit ==
  /\ mode = "Editing"
  /\ mode' = IF edited THEN "Dialog" ELSE "Ended"
  /\ UNCHANGED <<data, char_idx, scroll_y, cursor_x, cursor_y, edited, file>>

CloseDialog ==
  /\ mode' = "Editing"
  /\ char_idx' = Drawn(data, scroll_y, Row)

(* The dialog's buttons, Alt-S, Alt-D, Alt-C; Esc and kQuit cancel.        *)
DialogSave ==
  /\ mode = "Dialog"
  /\ SaveFile
  /\ IF Saves THEN mode' = "Ended" /\ UNCHANGED char_idx ELSE CloseDialog
  /\ UNCHANGED <<data, scroll_y, cursor_x, cursor_y, edited>>

DialogDiscard ==
  /\ mode = "Dialog"
  /\ mode' = "Discarded"
  /\ UNCHANGED <<data, char_idx, scroll_y, cursor_x, cursor_y, edited, file>>

DialogCancel ==
  /\ mode = "Dialog"
  /\ CloseDialog
  /\ UNCHANGED <<data, scroll_y, cursor_x, cursor_y, edited, file>>
-----------------------------------------------------------------------------
Next ==
  \/ \E c \in Typed : InsertChar(c)
  \/ Enter \/ Backspace \/ Delete
  \/ Left \/ Right \/ Up \/ Down \/ PgUp \/ PgDn
  \/ \E ctrl \in BOOLEAN : Home(ctrl) \/ End(ctrl)
  \/ \E sx \in Column, sy \in Row : Click(sx, sy)
  \/ CtrlS \/ Quit \/ DialogSave \/ DialogDiscard \/ DialogCancel

Spec == Init /\ [][Next]_vars
-----------------------------------------------------------------------------
(* Every row shows its line as it is now.                                  *)
RowsShowText ==
  \A i \in Row : scroll_y + i < Len(data) => char_idx[i] = Layout(data[scroll_y + i + 1])

CursorInWindow == CursorRow \in Row /\ cursor_y \in 0 .. Len(data) - 1

(* What the handlers rely on when they look up a place of the text in      *)
(* char_idx: it is up to date, and the cursor stands in the window, on the *)
(* first cell of a character or behind the last.                           *)
ScreenMatchesText ==
  RowsShowText /\ CursorInWindow /\ CharRange(cursor_y, cursor_x)[1] = cursor_x

Visible(chars) == Cardinality({Layout(chars)[x] : x \in Column} \ {Nothing})

Editor == INSTANCE TextEditor
  WITH text <- data, line <- cursor_y, col <- Place, Page <- height \div 2

DoesWhatItSays ==
  /\ \A c \in Typed : InsertChar(c) => Editor!Type(c)
  /\ Enter => Editor!Break
  /\ Backspace => Editor!DeleteBefore
  /\ Delete => Editor!DeleteBehind
  /\ Left => Editor!Left
  /\ Right => Editor!Right
  /\ Up => Editor!Up
  /\ Down => Editor!Down
  /\ PgUp => Editor!PageUp
  /\ PgDn => Editor!PageDown
  /\ \A ctrl \in BOOLEAN : /\ Home(ctrl) => Editor!Home(ctrl)
                           /\ End(ctrl) => Editor!End(ctrl)
  /\ \A sx \in Column, sy \in Row : Click(sx, sy) => Editor!Point

(* Every key does to the text and to the cursor's place in it what it says, *)
(* however the characters lie on the screen.                               *)
KeysDoWhatTheySay == [][DoesWhatItSays]_vars

(* Nothing is lost unasked: when no change is unsaved, or the editor has   *)
(* ended but for Discard, the text is the file's, and empty if there is no *)
(* file.  Two texts are never saved: one with bytes that are no UTF-8,     *)
(* whose file loses what follows the first of them, and an empty one,      *)
(* whose file keeps the last text.                                         *)
UnsavedTextKept ==
  /\ ~edited \/ mode = "Ended"
  /\ Encodable(data) /\ data # Empty
  => file = data
=============================================================================
