----------------------------- MODULE FramePool ------------------------------
(***************************************************************************)
(* What the frame allocator promises: a granted region lies in usable      *)
(* memory and overlaps no region in use, and a request is refused only     *)
(* when no free region is long enough.                                     *)
(***************************************************************************)
EXTENDS Integers

CONSTANT Owner

VARIABLES usable,   \* the frames that may be handed out
          regions,  \* regions[o]: the regions o uses
          asked,    \* asked[o]: the frames o is waiting for, 0 if it is not
          refused   \* refused[o]: o's last request was refused

vars == <<usable, regions, asked, refused>>

Frames(r) == r.start .. r.start + r.num - 1
InUse == UNION {Frames(r) : r \in UNION {regions[o] : o \in Owner}}
Free(r) == Frames(r) \subseteq usable \ InUse

Init ==
  /\ regions = [o \in Owner |-> {}]
  /\ asked = [o \in Owner |-> 0]
  /\ refused = [o \in Owner |-> FALSE]

Ask(o) ==
  /\ asked[o] = 0
  /\ asked'[o] \in Nat \ {0}
  /\ asked' = [asked EXCEPT ![o] = asked'[o]]
  /\ refused' = [refused EXCEPT ![o] = FALSE]
  /\ UNCHANGED <<usable, regions>>

Grant(o) ==
  /\ asked[o] # 0
  /\ \E start \in usable :
       LET r == [start |-> start, num |-> asked[o]]
       IN  Free(r) /\ regions' = [regions EXCEPT ![o] = @ \cup {r}]
  /\ asked' = [asked EXCEPT ![o] = 0]
  /\ UNCHANGED <<usable, refused>>

Refuse(o) ==
  /\ asked[o] # 0
  /\ \A start \in usable : ~Free([start |-> start, num |-> asked[o]])
  /\ asked' = [asked EXCEPT ![o] = 0]
  /\ refused' = [refused EXCEPT ![o] = TRUE]
  /\ UNCHANGED <<usable, regions>>

Release(o) ==
  /\ \E r \in regions[o] : regions' = [regions EXCEPT ![o] = @ \ {r}]
  /\ UNCHANGED <<usable, asked, refused>>

Next == \E o \in Owner : Ask(o) \/ Grant(o) \/ Refuse(o) \/ Release(o)

Spec == Init /\ [][Next]_vars
=============================================================================
