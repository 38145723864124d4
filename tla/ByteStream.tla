----------------------------- MODULE ByteStream -----------------------------
(***************************************************************************)
(* What a pipe promises to the two commands of `left | right`: every byte  *)
(* the left one writes is read by the right one, in order and once, and    *)
(* the right one is told the end after the last byte only.  The right one  *)
(* may leave at any time.  Bytes are positions in the stream.              *)
(***************************************************************************)
EXTENDS Integers

VARIABLES written,  \* bytes written
          read,     \* the positions [from, to) the last read returned
          closed,   \* the writer has finished
          ended,    \* the reader has been told the end
          left      \* the reader has gone, told or not

vars == <<written, read, closed, ended, left>>

Init ==
  /\ written = 0
  /\ read = [from |-> 0, to |-> 0]
  /\ closed = FALSE
  /\ ended = FALSE
  /\ left = FALSE

Write ==
  /\ ~closed
  /\ written' \in Nat /\ written' > written
  /\ UNCHANGED <<read, closed, ended, left>>

Close ==
  /\ closed' = TRUE
  /\ UNCHANGED <<written, read, ended, left>>

Read ==
  /\ ~ended /\ ~left
  /\ \E to \in read.to + 1 .. written : read' = [from |-> read.to, to |-> to]
  /\ UNCHANGED <<written, closed, ended, left>>

End ==
  /\ closed /\ ~left
  /\ read.to = written
  /\ ended' = TRUE
  /\ UNCHANGED <<written, read, closed, left>>

Leave ==
  /\ left' = TRUE
  /\ UNCHANGED <<written, read, closed, ended>>

Next == Write \/ Close \/ Read \/ End \/ Leave

(* The reader of a closed stream gets to its end, or leaves before.        *)
Spec == Init /\ [][Next]_vars /\ (closed ~> ended \/ left)
=============================================================================
