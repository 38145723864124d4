------------------------------- MODULE Alarms -------------------------------
(***************************************************************************)
(* What the timers promise their callers.  A caller asks for an alarm at a *)
(* time `due` in milliseconds; it is set for a tick at most two ticks      *)
(* before that time and never after it.  Every alarm that has been set     *)
(* rings once, at the first tick that is not before its own; alarms that   *)
(* ring at one tick do so in the order of their times.  It rings for the   *)
(* task that asked, as long as that has not ended.  An application is told *)
(* of alarms that applications set, with the value that was given.         *)
(***************************************************************************)
EXTENDS Integers, Sequences, FiniteSets, Bags

CONSTANTS Task,       \* who sets alarms
          TickLength, \* milliseconds between two ticks
          Horizon,    \* from this time on, the computation of ticks overflows
          None,       \* nothing asked, no event
          Gone        \* a task that has ended

VARIABLES now,      \* the tick
          asked,    \* what each task is asking for
          pending,  \* bag of the alarms that have not rung
          queue,    \* the alarms that have rung, in the order they did
          got       \* what an application was told last

vars == <<now, asked, pending, queue, got>>

Init ==
  /\ now = 0
  /\ asked = [t \in Task |-> None]
  /\ pending = EmptyBag
  /\ queue = [t \in Task |-> <<>>]
  /\ got = None

Request == [due : Nat, value : Nat, app : BOOLEAN]

NewRequest(t) ==
  /\ asked[t] = None
  /\ asked'[t] \in Request
  /\ asked' = [asked EXCEPT ![t] = asked'[t]]

Ask(t) ==
  /\ queue[t] # Gone
  /\ NewRequest(t)
  /\ UNCHANGED <<now, pending, queue, got>>

InTime(due, at) ==
  at * TickLength <= due /\ (due < Horizon => due - 2 * TickLength < at * TickLength)

Set(t, at) ==
  /\ asked[t] # None /\ queue[t] # Gone
  /\ InTime(asked[t].due, at)
  /\ pending' = pending (+) SetToBag({[at |-> at, task |-> t, value |-> asked[t].value,
                                       app |-> asked[t].app]})
  /\ asked' = [asked EXCEPT ![t] = None]
  /\ UNCHANGED <<now, queue, got>>

Copies(s, a) == Cardinality({i \in DOMAIN s : s[i] = a})

(* The next tick: everything that is due rings.                            *)
Ring(t, rung) ==
  LET n     == Len(queue[t])
      added == SubSeq(rung, n + 1, Len(rung))
  IN  /\ Len(rung) >= n /\ SubSeq(rung, 1, n) = queue[t]
      /\ \A i, j \in DOMAIN added : i < j => added[i].at <= added[j].at
      /\ \A i \in DOMAIN added : added[i] \in BagToSet(pending)
      /\ \A a \in BagToSet(pending) :
           Copies(added, a) = IF a.task = t /\ a.at <= now + 1 THEN pending[a] ELSE 0

Advance ==
  /\ now' = now + 1
  /\ pending' = [a \in {a \in BagToSet(pending) : a.at > now'} |-> pending[a]]
  /\ \A t \in Task :
       IF queue[t] = Gone THEN queue'[t] = Gone ELSE queue'[t] # Gone /\ Ring(t, queue'[t])
  /\ UNCHANGED <<asked, got>>

(* A task takes the oldest alarm that has rung, for itself or for the      *)
(* application it runs.                                                    *)
Take(t) ==
  /\ queue[t] \notin {Gone, <<>>}
  /\ queue' = [queue EXCEPT ![t] = Tail(@)]
  /\ got' \in {got} \cup (IF Head(queue[t]).app THEN {Head(queue[t]).value} ELSE {})
  /\ UNCHANGED asked \/ NewRequest(t)
  /\ UNCHANGED <<now, pending>>

End(t) ==
  /\ queue[t] # Gone
  /\ queue' = [queue EXCEPT ![t] = Gone]
  /\ UNCHANGED <<now, asked, pending, got>>

Next ==
  \/ Advance
  \/ \E t \in Task :
       Ask(t) \/ (\E a \in BagToSet(pending') : Set(t, a.at)) \/ Take(t) \/ End(t)

Spec == Init /\ [][Next]_vars
=============================================================================
