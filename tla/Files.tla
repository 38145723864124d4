------------------------------- MODULE Files -------------------------------
(***************************************************************************)
(* What a fat::FileDescriptor promises, without clusters: a file is a row  *)
(* of bytes and a size; a descriptor has a read and a write position of    *)
(* its own and at most one Write under way, which stores its buffer piece  *)
(* by piece and sets the size, to the position it reached, when it ends.   *)
(*                                                                         *)
(* The promise has three exceptions.  A read returns the bytes of the file *)
(* unless the descriptor is `lost` (an earlier read of it stopped at the   *)
(* end of the file), or is past the end (another descriptor shortened the  *)
(* file), or the file is `holed` (a Write had more than Burst bytes left   *)
(* when it needed more room).                                              *)
(***************************************************************************)
EXTENDS Integers, Sequences

CONSTANTS File,    \* directory entries
          Fd,      \* descriptors
          Offset,  \* positions in a file
          Byte,    \* values of a byte
          Blank,   \* a byte nobody has written
          Buffer,  \* what the callers write
          Count,   \* how many bytes the callers ask for
          Burst,   \* the number of bytes that is always stored in place
          Closed,  \* no descriptor
          NoCall   \* no Write is under way

VARIABLES body, size, holed, desc, out

vars == <<body, size, holed, desc, out>>

Init ==
  /\ body = [f \in File |-> [i \in Offset |-> Blank]]
  /\ size = [f \in File |-> 0]
  /\ holed = {}
  /\ desc = [d \in Fd |-> Closed]
  /\ out = <<>>

Idle(d) == desc[d] # Closed /\ desc[d].todo = NoCall

Open(d, f) ==
  /\ desc[d] = Closed
  /\ desc' = [desc EXCEPT ![d] = [file |-> f, rd |-> 0, wr |-> 0,
                                  todo |-> NoCall, lost |-> FALSE]]
  /\ out' = <<>>
  /\ UNCHANGED <<body, size, holed>>

Close(d) ==
  /\ Idle(d)
  /\ desc' = [desc EXCEPT ![d] = Closed]
  /\ out' = <<>>
  /\ UNCHANGED <<body, size, holed>>

BeginWrite(d, buf) ==
  /\ Idle(d)
  /\ desc' = [desc EXCEPT ![d].todo = buf]
  /\ out' = <<>>
  /\ UNCHANGED <<body, size, holed>>

(* The next n bytes go to the write position, unless the file is holed.    *)
Put(d, n) ==
  LET f    == desc[d].file
      wr   == desc[d].wr
      todo == desc[d].todo
  IN  /\ desc[d] # Closed
      /\ todo # NoCall
      /\ n <= Len(todo)
      /\ desc' = [desc EXCEPT ![d].wr = wr + n,
                              ![d].todo = SubSeq(todo, n + 1, Len(todo))]
      /\ \/ holed' = holed
         \/ Len(todo) > Burst /\ holed' = holed \cup {f}
      /\ body' = [body EXCEPT ![f] =
           [i \in Offset |-> IF f \in holed' THEN Blank
                             ELSE IF i \in wr .. wr + n - 1 THEN todo[i - wr + 1] ELSE @[i]]]
      /\ out' = <<>>
      /\ UNCHANGED size

EndWrite(d) ==
  /\ desc[d] # Closed
  /\ desc[d].todo = <<>>
  /\ desc' = [desc EXCEPT ![d].todo = NoCall]
  /\ size' = [size EXCEPT ![desc[d].file] = desc[d].wr]
  /\ out' = <<>>
  /\ UNCHANGED <<body, holed>>

(* Up to n bytes of f from position p; past the end, n bytes of anything.  *)
Fetched(f, p, n, reliable) ==
  /\ Len(out') = IF p > size[f] \/ n <= size[f] - p THEN n ELSE size[f] - p
  /\ reliable /\ f \notin holed /\ p <= size[f] =>
       \A i \in DOMAIN out' : out'[i] = body[f][p + i - 1]

Read(d, n) ==
  LET f  == desc[d].file
      rd == desc[d].rd + Len(out')
  IN  /\ Idle(d)
      /\ \E lost \in BOOLEAN :
           /\ desc' = [desc EXCEPT ![d].rd = rd, ![d].lost = lost]
           /\ lost => desc[d].lost \/ rd >= size[f]
      /\ Fetched(f, desc[d].rd, n, ~desc[d].lost)
      /\ UNCHANGED <<body, size, holed>>

(* "Load reads file content without changing internal offset"              *)
(* (file.hpp:14), and does not depend on it either.                        *)
Load(d, n, offset) ==
  /\ Idle(d)
  /\ UNCHANGED desc
  /\ Fetched(desc[d].file, offset, n, TRUE)
  /\ UNCHANGED <<body, size, holed>>

Next ==
  \E d \in Fd :
    \/ \E f \in File : Open(d, f)
    \/ Close(d)
    \/ \E buf \in Buffer : BeginWrite(d, buf)
    \/ \E n \in 1 .. Burst : Put(d, n)
    \/ EndWrite(d)
    \/ \E n \in Count : Read(d, n) \/ \E offset \in Offset : Load(d, n, offset)

Spec == Init /\ [][Next]_vars
=============================================================================
