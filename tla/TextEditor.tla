----------------------------- MODULE TextEditor -----------------------------
(***************************************************************************)
(* What the keys of tedit (src/apps/tedit/tedit.cpp) do to a text, without *)
(* a screen: the text is lines of characters, and the cursor stands in a   *)
(* line behind `col` of its characters.  Of a line only the first          *)
(* Visible(line) characters can be reached: tedit does not scroll sideways. *)
(***************************************************************************)
EXTENDS Integers, SequencesExt

CONSTANTS Visible(_),  \* how many characters of a line fit the window
          Page         \* lines PgUp and PgDn go

VARIABLES text, line, col

LastLine == Len(text) - 1
LineAt(y) == text[y + 1]

(* Joins line y + 1 to line y.                                             *)
Joined(y) ==
  ReplaceAt(RemoveAt(text, y + 2), y + 1, LineAt(y) \o LineAt(y + 1))

(* A character typed where nothing more fits appears behind the cursor.    *)
Type(c) ==
  /\ text' = ReplaceAt(text, line + 1, InsertAt(LineAt(line), col + 1, c))
  /\ line' = line
  /\ col' = IF col < Visible(text'[line + 1]) THEN col + 1 ELSE col

Break ==
  /\ text' = InsertAt(ReplaceAt(text, line + 1, SubSeq(LineAt(line), col + 1, Len(LineAt(line)))),
                      line + 1, SubSeq(LineAt(line), 1, col))
  /\ line' = line + 1
  /\ col' = 0

DeleteBefore ==
  IF col > 0
  THEN /\ text' = ReplaceAt(text, line + 1, RemoveAt(LineAt(line), col))
       /\ line' = line
       /\ col' = col - 1
  ELSE IF line > 0
  THEN /\ text' = Joined(line - 1)
       /\ line' = line - 1
       /\ col' = Visible(LineAt(line - 1))
  ELSE UNCHANGED <<text, line, col>>

DeleteBehind ==
  /\ text' = IF col < Len(LineAt(line))
             THEN ReplaceAt(text, line + 1, RemoveAt(LineAt(line), col + 1))
             ELSE IF line < LastLine THEN Joined(line) ELSE text
  /\ UNCHANGED <<line, col>>

(* The cursor moves, the text stays.                                       *)
GoTo(y, x) == text' = text /\ line' = y /\ col' = x

(* Somewhere in line y, where there is such a line.                        *)
GoToLine(y) == \E x \in 0 .. Visible(LineAt(y)) : GoTo(y, x)

Left ==
  IF col > 0 THEN GoTo(line, col - 1)
  ELSE IF line > 0 THEN GoTo(line - 1, Visible(LineAt(line - 1)))
  ELSE GoTo(line, col)

Right ==
  IF col < Visible(LineAt(line)) THEN GoTo(line, col + 1)
  ELSE IF line < LastLine THEN GoTo(line + 1, 0)
  ELSE GoTo(line, col)

Up   == IF line > 0 THEN GoToLine(line - 1) ELSE GoTo(line, col)
Down == IF line < LastLine THEN GoToLine(line + 1) ELSE GoTo(line, col)

PageUp   == GoToLine(IF line < Page THEN 0 ELSE line - Page)
PageDown == GoToLine(IF line + Page > LastLine THEN LastLine ELSE line + Page)

Home(ctrl) == GoTo(IF ctrl THEN 0 ELSE line, 0)

End(ctrl) ==
  LET y == IF ctrl THEN LastLine ELSE line
  IN  GoTo(y, Visible(LineAt(y)))

Point == \E y \in 0 .. LastLine : GoToLine(y)
=============================================================================
