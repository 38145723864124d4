------------------------------- MODULE Timers -------------------------------
(***************************************************************************)
(* The timer heap (src/kernel/io/timer.cpp) and the loops that live on it: *)
(* the clock of the task bar (TaskWallclock, main.cpp), the cursor of a    *)
(* terminal (TaskTerminal, console/terminal.cpp), the timers that          *)
(* applications ask for (CreateTimer and ReadEvent, app/syscall.cpp), and  *)
(* the timer that switches tasks.                                          *)
(*                                                                         *)
(* Tick runs with interrupts disabled: while it is popping the heap        *)
(* (`handler`) nobody else takes a step.  Outside, any task may take the   *)
(* next step; sleeping and waking up are the business of Scheduler.  The   *)
(* sentinel of the heap, which never rings, is left out.                   *)
(***************************************************************************)
EXTENDS Integers, Sequences, FiniteSets, Bags

CONSTANTS kTimerFreq,        \* ticks per second
          kTaskTimerPeriod,
          Modulus,           \* 2^64: the width of a time
          Terminal,          \* the tasks that execute TaskTerminal
          Clock,             \* the task that executes TaskWallclock
          Main,              \* task 1, to which the task timer belongs
          Value,             \* the values applications give their timers
          Millisecond,       \* the times they give, in milliseconds
          MaxTick,           \* bound: the ticks of a behaviour
          MaxTimers,         \* bound: how many timers applications ask for
          MaxRuns,           \* bound: how many applications a terminal runs
          None, Gone

TickLength == 1000 \div kTimerFreq

ASSUME FreqAssumption ==
  /\ kTimerFreq \in 1 .. 1000 /\ kTimerFreq * TickLength = 1000
  /\ kTaskTimerPeriod \in Nat \ {0}
ASSUME ValueAssumption == Value \subseteq Nat \ {0}
ASSUME TimeAssumption == Millisecond \subseteq Nat /\ Modulus \in Nat \ {0}
ASSUME TaskAssumption == Clock \notin Terminal /\ Main \notin Terminal \cup {Clock}
ASSUME BoundAssumption == MaxTick \in Nat /\ MaxTimers \in Nat /\ MaxRuns \in Nat
ASSUME NoneAssumption ==
  /\ None \notin [timeout : Nat, value : Int, due : Nat]
  /\ None \notin [due : Nat, value : Nat, app : BOOLEAN]
ASSUME GoneAssumption ==
  /\ Gone \notin Seq([timeout : Nat, value : Int])
  /\ Gone \notin Seq([at : Nat, task : Terminal \cup {Clock}, value : Nat, app : BOOLEAN])

Task == Terminal \cup {Clock}

\* The value of the chains of the clock and of the cursor, and of the task timer.
ChainValue == 1
kTaskTimerValue == 0

VARIABLES
  tick,     \* tick_
  timers,   \* timers_, a bag: the heap may hold equal timers
  handler,  \* Idle, or the heap and the queues when Tick began
  msgs,     \* the timer messages in the queue of each task
  hand,     \* the Timer each task is about to pass to AddTimer
  place,    \* what each task is executing
  got,      \* the value of the last timer event ReadEvent returned
  asked,    \* how many timers applications have asked for: bound of the model
  runs,     \* how many applications have been started: bound of the model
  drawn,    \* history: how often the clock has drawn the time
  origin,   \* history: when it started its chain
  left,     \* history: timers pending when their application ended
  dropped   \* history: the terminals whose cursor timer was thrown away

vars == <<tick, timers, handler, msgs, hand, place, got, asked, runs,
          drawn, origin, left, dropped>>

(* Nobody executes Tick.                                                   *)
Idle == [running |-> FALSE]

Timer(timeout, value, task) == [timeout |-> timeout, value |-> value, task |-> task]

Init ==
  /\ tick = 0
  /\ timers = SetToBag({Timer(kTaskTimerPeriod, kTaskTimerValue, Main)})
  /\ handler = Idle
  /\ msgs = [t \in Task |-> <<>>]
  /\ hand = [t \in Task |-> None]
  /\ place = [t \in Task |-> "start"]
  /\ got = None
  /\ asked = 0
  /\ runs = [t \in Terminal |-> 0]
  /\ drawn = 0
  /\ origin = 0
  /\ left = [t \in Terminal |-> 0]
  /\ dropped = {}
-----------------------------------------------------------------------------
(* The timer interrupt.                                                    *)

Tick ==
  /\ handler = Idle
  /\ tick < MaxTick
  /\ tick' = tick + 1
  /\ handler' = [running |-> TRUE, timers |-> timers, msgs |-> msgs]
  /\ UNCHANGED <<timers, msgs, hand, place, got, asked, runs, drawn, origin, left, dropped>>

(* Seeded fault: operator< is not turned round, the furthest timer is on   *)
(* top.                                                                    *)
TopIsFurthest(bag) ==
  {t \in BagToSet(bag) : \A u \in BagToSet(bag) : t.timeout >= u.timeout}

(* The timers that timers_.top() may return.                               *)
Top(bag) ==
  {t \in BagToSet(bag) : \A u \in BagToSet(bag) : t.timeout <= u.timeout}

Remove(t) == timers (-) SetToBag({t})

(* A pass of the loop of Tick.  SendMessage does nothing if the task has   *)
(* ended.                                                                  *)
Expire(t) ==
  /\ handler # Idle
  /\ t \in Top(timers)
  /\ t.timeout <= tick
  /\ IF t.value = kTaskTimerValue
     THEN /\ timers' = Remove(t) (+)
                 SetToBag({Timer(tick + kTaskTimerPeriod, kTaskTimerValue, Main)})
          /\ UNCHANGED msgs
     ELSE /\ timers' = Remove(t)
          /\ msgs' = IF msgs[t.task] = Gone THEN msgs
                     ELSE [msgs EXCEPT ![t.task] =
                            Append(@, [timeout |-> t.timeout, value |-> t.value])]
  /\ UNCHANGED <<tick, handler, hand, place, got, asked, runs, drawn, origin, left, dropped>>

(* The end of the handler; SwitchTask follows if the task timer rang.      *)
Return ==
  /\ handler # Idle
  /\ \A t \in Top(timers) : t.timeout > tick
  /\ handler' = Idle
  /\ UNCHANGED <<tick, timers, msgs, hand, place, got, asked, runs, drawn, origin, left, dropped>>
-----------------------------------------------------------------------------
(* Steps of the tasks.  Between the reading of the tick and AddTimer there *)
(* may be interrupts.                                                      *)

Ready(t) == handler = Idle /\ hand[t] = None /\ place[t] # "gone"

Prepared(t, timeout, value, due) ==
  hand' = [hand EXCEPT ![t] = [timeout |-> timeout, value |-> value, due |-> due]]

PrepareChain(t, timeout) == Prepared(t, timeout, ChainValue, timeout * TickLength)

AddTimer(t) ==
  /\ handler = Idle
  /\ hand[t] # None
  /\ timers' = timers (+) SetToBag({Timer(hand[t].timeout, hand[t].value, t)})
  /\ hand' = [hand EXCEPT ![t] = None]
  /\ UNCHANGED <<tick, handler, msgs, place, got, asked, runs, drawn, origin, left, dropped>>

StartClock ==
  /\ Ready(Clock) /\ place[Clock] = "start"
  /\ place' = [place EXCEPT ![Clock] = "loop"]
  /\ drawn' = drawn + 1
  /\ origin' = tick
  /\ PrepareChain(Clock, tick)
  /\ UNCHANGED <<tick, timers, handler, msgs, got, asked, runs, left, dropped>>

Receive(t) ==
  /\ Ready(t)
  /\ msgs[t] # <<>>
  /\ msgs' = [msgs EXCEPT ![t] = Tail(@)]

(* Seeded fault: the next second is counted from now, not from the last.   *)
DrawAndRestart ==
  /\ place[Clock] = "loop"
  /\ Receive(Clock)
  /\ drawn' = drawn + 1
  /\ PrepareChain(Clock, tick + kTimerFreq)
  /\ UNCHANGED <<tick, timers, handler, place, got, asked, runs, origin, left, dropped>>

DrawCurrentTime ==
  /\ place[Clock] = "loop"
  /\ Receive(Clock)
  /\ drawn' = drawn + 1
  /\ PrepareChain(Clock, Head(msgs[Clock]).timeout + kTimerFreq)
  /\ UNCHANGED <<tick, timers, handler, place, got, asked, runs, origin, left, dropped>>

BlinkPeriod == kTimerFreq \div 2

StartTerminal(t) ==
  /\ Ready(t) /\ place[t] = "start"
  /\ place' = [place EXCEPT ![t] = "shell"]
  /\ PrepareChain(t, tick + BlinkPeriod)
  /\ UNCHANGED <<tick, timers, handler, msgs, got, asked, runs, drawn, origin, left, dropped>>

(* TaskTerminal takes every timer message for one of its own.              *)
BlinkCursor(t) ==
  /\ place[t] = "shell"
  /\ Receive(t)
  /\ PrepareChain(t, Head(msgs[t]).timeout + BlinkPeriod)
  /\ UNCHANGED <<tick, timers, handler, place, got, asked, runs, drawn, origin, left, dropped>>

(* The task of a window that is closed ends.                               *)
CloseWindow(t) ==
  /\ Ready(t) /\ place[t] = "shell"
  /\ place' = [place EXCEPT ![t] = "gone"]
  /\ msgs' = [msgs EXCEPT ![t] = Gone]
  /\ UNCHANGED <<tick, timers, handler, hand, got, asked, runs, drawn, origin, left, dropped>>

ExecuteFile(t) ==
  /\ Ready(t) /\ place[t] = "shell"
  /\ runs[t] < MaxRuns
  /\ place' = [place EXCEPT ![t] = "app"]
  /\ runs' = [runs EXCEPT ![t] = @ + 1]
  /\ UNCHANGED <<tick, timers, handler, msgs, hand, got, asked, drawn, origin, left, dropped>>

(* Seeded fault: the value is not negated, the terminal takes the timer    *)
(* for its own.                                                            *)
CreateOwnTimer(t, value, ms, relative, phase) ==
  LET timeout == ((ms * kTimerFreq) % Modulus) \div 1000
  IN  /\ Ready(t) /\ place[t] = "app"
      /\ asked < MaxTimers
      /\ asked' = asked + 1
      /\ IF relative THEN Prepared(t, (timeout + tick) % Modulus, value,
                                   tick * TickLength + phase + ms)
                     ELSE Prepared(t, timeout, value, ms)
      /\ UNCHANGED <<tick, timers, handler, msgs, place, got, runs, drawn, origin, left, dropped>>

(* The time asked for, relative or not; `phase` is how far the current     *)
(* tick is gone.                                                           *)
CreateTimer(t, value, ms, relative, phase) ==
  LET timeout == ((ms * kTimerFreq) % Modulus) \div 1000
  IN  /\ Ready(t) /\ place[t] = "app"
      /\ asked < MaxTimers
      /\ asked' = asked + 1
      /\ IF relative THEN Prepared(t, (timeout + tick) % Modulus, -value,
                                   tick * TickLength + phase + ms)
                     ELSE Prepared(t, timeout, -value, ms)
      /\ UNCHANGED <<tick, timers, handler, msgs, place, got, runs, drawn, origin, left, dropped>>

(* ReadEvent passes the application's own timers on, and drops the others; *)
(* the file @stdin and a pipe drop every timer (`events` is FALSE).        *)
Read(t, events) ==
  LET value == Head(msgs[t]).value
  IN  /\ place[t] = "app"
      /\ Receive(t)
      /\ got' = IF events /\ value < 0 THEN -value ELSE got
      /\ dropped' = IF value > 0 THEN dropped \cup {t} ELSE dropped
      /\ UNCHANGED <<tick, timers, handler, hand, place, asked, runs, drawn, origin, left>>

(* The timers of t with a value in `values`: each copy in a heap, where in *)
(* a queue, and how many there are in all.                                 *)
Held(bag, t, values) ==
  UNION {{x} \X (1 .. bag[x]) : x \in {x \in BagToSet(bag) : x.task = t /\ x.value \in values}}

Rung(q, values) == {i \in DOMAIN q : q[i].value \in values}

Pending(t, values) ==
  Cardinality(Held(timers, t, values)) + Cardinality(Rung(msgs[t], values))

AppValues == {-value : value \in Value}

Exit(t) ==
  /\ Ready(t) /\ place[t] = "app"
  /\ place' = [place EXCEPT ![t] = "shell"]
  /\ left' = [left EXCEPT ![t] = @ + Pending(t, AppValues)]
  /\ UNCHANGED <<tick, timers, handler, msgs, hand, got, asked, runs, drawn, origin, dropped>>
-----------------------------------------------------------------------------
Next ==
  \/ Tick \/ Return
  \/ \E x \in BagToSet(timers) : Expire(x)
  \/ \E t \in Task : AddTimer(t)
  \/ StartClock \/ DrawCurrentTime
  \/ \E t \in Terminal :
       \/ StartTerminal(t) \/ BlinkCursor(t) \/ CloseWindow(t)
       \/ ExecuteFile(t) \/ Exit(t)
       \/ \E value \in Value, ms \in Millisecond, relative \in BOOLEAN,
            phase \in {0, TickLength - 1} : CreateTimer(t, value, ms, relative, phase)
       \/ \E events \in BOOLEAN : Read(t, events)

Spec == Init /\ [][Next]_vars
-----------------------------------------------------------------------------
(* What repeats neither breaks, doubles nor drifts: there is one task      *)
(* timer, at most a period ahead, and one timer of the clock, wherever it  *)
(* is, which is as many seconds after the first as the clock has been      *)
(* drawn, however late each drawing was.                                   *)
PeriodsKept ==
  LET ring == {x \in BagToSet(timers) : x.value = kTaskTimerValue}
      next == origin + (drawn - 1) * kTimerFreq
  IN  /\ \E x \in ring : /\ ring = {x} /\ timers[x] = 1
                         /\ x.timeout <= tick + kTaskTimerPeriod
                         /\ handler = Idle => tick < x.timeout
      /\ place[Clock] = "loop" =>
           \/ /\ hand[Clock] # None /\ hand[Clock].timeout = next
              /\ Pending(Clock, Int) = 0
           \/ /\ hand[Clock] = None /\ Pending(Clock, Int) = 1
              /\ \/ Timer(next, ChainValue, Clock) \in BagToSet(timers)
                 \/ msgs[Clock] # <<>> /\ Head(msgs[Clock]).timeout = next

(* The timers that drive the cursor of a terminal.                         *)
Chains(t) ==
  Pending(t, Nat \ {0}) + IF hand[t] # None /\ hand[t].value > 0 THEN 1 ELSE 0

(* The cursor does not stop unless a program has thrown its timer away,    *)
(* and blinks at its pace unless timers were left by an application that   *)
(* has ended: each of those starts at most one more chain.                 *)
CursorBlinks ==
  \A t \in Terminal : place[t] \in {"shell", "app"} =>
    /\ Chains(t) <= 1 + left[t]
    /\ t \notin dropped => Chains(t) >= 1

Alarm(timeout, value, t) ==
  [at |-> timeout, task |-> t, value |-> IF value < 0 THEN -value ELSE value, app |-> value < 0]

AlarmBag(bag) ==
  LET own      == {x \in BagToSet(bag) : x.value # kTaskTimerValue}
      alarm(x) == Alarm(x.timeout, x.value, x.task)
  IN  [a \in {alarm(x) : x \in own} |-> bag[CHOOSE x \in own : alarm(x) = a]]

AlarmQueue(t, s) ==
  IF s = Gone THEN Gone ELSE [i \in DOMAIN s |-> Alarm(s[i].timeout, s[i].value, t)]

RequestOf(h) ==
  IF h = None THEN None
  ELSE [due |-> h.due, app |-> h.value < 0, value |-> IF h.value < 0 THEN -h.value ELSE h.value]

(* The alarms.  Those of a tick ring when Tick returns.                    *)
Now      == IF handler = Idle THEN tick ELSE tick - 1
Requests == [t \in Task |-> RequestOf(hand[t])]
Unrung   == AlarmBag(IF handler = Idle THEN timers ELSE handler.timers)
Queues   == [t \in Task |-> AlarmQueue(t, IF handler = Idle THEN msgs[t] ELSE handler.msgs[t])]

Promise ==
  INSTANCE Alarms WITH
    Horizon <- Modulus \div kTimerFreq,
    now <- Now, asked <- Requests, pending <- Unrung, queue <- Queues

(* Whatever interrupts whom, every timer rings once, for its task, at the  *)
(* first tick that is due, in the order of the times; CreateTimer is early *)
(* by less than two ticks and never late; and an application gets values   *)
(* that applications gave.                                                 *)
ImplementsAlarms == Promise!Spec
=============================================================================
