------------------------------ MODULE Windows ------------------------------
(***************************************************************************)
(* Windows: the layer stack (src/kernel/graphic/layer.cpp), the active     *)
(* layer, the mouse that activates, drags and closes (io/mouse.cpp), and   *)
(* the tasks that own windows: terminals, the programs they run (OpenWindow *)
(* and CloseWindow, app/syscall.cpp), pipes, and the clock.                *)
(*                                                                         *)
(* The main task handles the mouse.  Its level is higher than that of the  *)
(* others, so none of them runs in the middle of a handler; a terminal's   *)
(* sections between cli and sti are steps, too.  A click hits any layer of *)
(* the stack but the mouse: positions are left out, and the desktop lies   *)
(* under every point.  A program closes windows that it opened.  Of the    *)
(* messages to the tasks only those about windows are kept, and only for   *)
(* terminals with a window: the others drop them.                          *)
(*                                                                         *)
(* TaskTerminal is executed without a window, too, for one line: the right *)
(* side of a pipe or what follows `start`.  Such a line may be a pipe and  *)
(* run programs.  It does not read the keyboard after `start`, which would *)
(* take the messages of the terminal or stop the machine.                  *)
(***************************************************************************)
EXTENDS Integers, Sequences, SequencesExt, FiniteSets

CONSTANTS Terminal,    \* the tasks that execute TaskTerminal for a window
          Windowless,  \* those that execute it without one, for one line
          MaxLayer,    \* bound: latest_id_
          MaxMsgs,     \* bound: the mouse rests while a queue is longer
          MaxRuns      \* bound: how many lines each terminal executes

Task == Terminal \cup Windowless

\* The layers of InitializeLayer and InitializeMouse.
Background == 1
ConsoleLayer == 2
mouse_layer == 3
None == 0

ASSUME TaskAssumption == Terminal \cap Windowless = {} /\ None \notin Task
ASSUME BoundAssumption == MaxLayer \in Nat /\ MaxMsgs \in Nat /\ MaxRuns \in [Terminal -> Nat]

VARIABLES
  latest_id,        \* latest_id_
  layers,           \* layers_
  draggable,        \* the layers that are draggable
  stack,            \* layer_stack_
  active,           \* active_layer_
  task_map,         \* layer_task_map
  pressed,          \* previous_buttons_: the left button
  drag,             \* drag_layer_id_
  msgs,             \* messages about windows in the queue of each terminal
  place,            \* what each task executes
  own,              \* layer_id_ of each task
  right,            \* subtask_id of the line each task executes
  window_isactive,  \* window_isactive of each terminal
  windows,          \* what the program of each task has opened
  clock,            \* the clock's window is there
  runs,             \* how many lines have been executed: bound of the model
  missed,           \* history: terminals a kWindowActive message did not reach
  disowned          \* history: tasks with a window that nobody cares for

vars == <<latest_id, layers, draggable, stack, active, task_map, pressed, drag, msgs,
          place, own, right, window_isactive, windows, clock, runs, missed, disowned>>

Init ==
  /\ latest_id = mouse_layer
  /\ layers = {Background, ConsoleLayer, mouse_layer}
  /\ draggable = {}
  /\ stack = <<Background, ConsoleLayer, mouse_layer>>
  /\ active = None
  /\ task_map = [l \in {} |-> None]
  /\ pressed = FALSE
  /\ drag = None
  /\ msgs = [t \in Terminal |-> <<>>]
  /\ place = [t \in Task |-> "none"]
  /\ own = [t \in Task |-> None]
  /\ right = [t \in Task |-> None]
  /\ window_isactive = [t \in Terminal |-> FALSE]
  /\ windows = [t \in Task |-> {}]
  /\ clock = FALSE
  /\ runs = [t \in Terminal |-> 0]
  /\ missed = {}
  /\ disowned = {}
-----------------------------------------------------------------------------
(* The stack, bottom to top.                                               *)

Position(s, id) == CHOOSE i \in DOMAIN s : s[i] = id

Hide(s, id) == IF id \in ToSet(s) THEN RemoveAt(s, Position(s, id)) ELSE s

Lower(m, n) == IF m < n THEN m ELSE n

UpDown(s, id, new_height) ==
  IF new_height < 0 THEN Hide(s, id)
  ELSE LET rest == Hide(s, id)
       IN  InsertAt(rest, Lower(new_height, Len(rest)) + 1, id)

(* GetHeight, of a layer that is in the stack.                             *)
Height(s, id) == Position(s, id) - 1

(* Below the mouse, from the bottom so that the mouse is counted without.  *)
Raised(s, id) ==
  LET lowest == UpDown(s, id, 0)
  IN  UpDown(lowest, id, Height(lowest, mouse_layer) - 1)

(* Messages to a task that has ended are dropped.  No layer is 0.          *)
Sent(queues, id, message) ==
  IF id \in DOMAIN task_map \ {None} /\ task_map[id] \in Terminal /\ place[task_map[id]] # "gone"
  THEN [queues EXCEPT ![task_map[id]] = Append(@, message)] ELSE queues

IsActive(on) == [type |-> "active", on |-> on]
Close(id) == [type |-> "close", layer |-> id]

(* Seeded fault: the window that was active is not told that it is not.    *)
NotifiedOfActivation(id) == IF active = id THEN msgs ELSE Sent(msgs, id, IsActive(TRUE))

(* The queues when Activate has passed the activity from the active layer  *)
(* to layer id, which nobody is told of twice.                             *)
Notified(id) ==
  IF active = id THEN msgs ELSE Sent(Sent(msgs, active, IsActive(FALSE)), id, IsActive(TRUE))

(* The messages of a window that belongs to a pipe go to its right side,   *)
(* also when that has ended.                                               *)
Missing(id) ==
  IF active = id THEN {}
  ELSE {t \in Terminal : own[t] \in ({active, id} \ {None}) \cap DOMAIN task_map
                          /\ task_map[own[t]] # t}

Activate(id) ==
  /\ active' = id
  /\ stack' = IF id \notin {None, active} THEN Raised(stack, id) ELSE stack
  /\ msgs' = Notified(id)
  /\ missed' = missed \cup Missing(id)

Unmap(id) == [l \in DOMAIN task_map \ {id} |-> task_map[l]]

(* Seeded fault: the layer is closed while it is active.                   *)
CloseActiveLayer(id) ==
  IF id \notin layers THEN UNCHANGED <<layers, stack, active, task_map, msgs, missed>>
  ELSE /\ stack' = Hide(stack, id)
       /\ layers' = layers \ {id}
       /\ task_map' = Unmap(id)
       /\ UNCHANGED <<active, msgs, missed>>

(* CloseLayer does nothing if there is no such layer.                      *)
CloseLayer(id) ==
  IF id \notin layers THEN UNCHANGED <<layers, stack, active, task_map, msgs, missed>>
  ELSE /\ active' = None
       /\ msgs' = Notified(None)
       /\ missed' = missed \cup Missing(None)
       /\ stack' = Hide(stack, id)
       /\ layers' = layers \ {id}
       /\ task_map' = Unmap(id)

Map(id, task) == [l \in DOMAIN task_map \cup {id} |-> IF l = id THEN task ELSE task_map[l]]

NewLayer(id) ==
  /\ latest_id < MaxLayer
  /\ id = latest_id + 1
  /\ latest_id' = id
  /\ layers' = layers \cup {id}
-----------------------------------------------------------------------------
(* The main task.                                                          *)

Quiet == \A t \in Terminal : Len(msgs[t]) < MaxMsgs

(* Mouse::OnInterrupt when the left button goes down on layer id.  A press *)
(* of the close button goes to the task of the layer that is now active.   *)
Press(id, region) ==
  /\ ~pressed /\ Quiet
  /\ id \in ToSet(stack) \ {mouse_layer}
  /\ pressed' = TRUE
  /\ IF id \in draggable
     THEN /\ drag' = IF region = "TitleBar" THEN id ELSE None
          /\ active' = id
          /\ stack' = IF active = id THEN stack ELSE Raised(stack, id)
          /\ msgs' = IF region = "CloseButton" THEN Sent(Notified(id), id, Close(id))
                                               ELSE Notified(id)
          /\ missed' = missed \cup Missing(id)
     ELSE /\ Activate(None)
          /\ UNCHANGED drag
  /\ UNCHANGED <<latest_id, layers, draggable, task_map, place, own, right, window_isactive,
                 windows, clock, runs, disowned>>

Release ==
  /\ pressed
  /\ pressed' = FALSE
  /\ drag' = None
  /\ UNCHANGED <<latest_id, layers, draggable, stack, active, task_map, msgs, place, own, right,
                 window_isactive, windows, clock, runs, missed, disowned>>

(* The first terminal, and one more when F2 is pressed.                    *)
NewTerminal(t) ==
  /\ place[t] = "none"
  /\ place' = [place EXCEPT ![t] = "new"]
  /\ UNCHANGED <<latest_id, layers, draggable, stack, active, task_map, pressed, drag, msgs,
                 own, right, window_isactive, windows, clock, runs, missed, disowned>>
-----------------------------------------------------------------------------
(* The clock puts its window on the desktop and the console.               *)
ShowClock ==
  /\ ~clock
  /\ clock' = TRUE
  /\ \E id \in 1 .. MaxLayer : NewLayer(id) /\ stack' = UpDown(stack, id, 2)
  /\ UNCHANGED <<draggable, active, task_map, pressed, drag, msgs, place, own, right,
                 window_isactive, windows, runs, missed, disowned>>
-----------------------------------------------------------------------------
(* A terminal.  Its constructor prints the prompt, which enables interrupts *)
(* in the middle of the section.                                           *)

MakeWindow(t) ==
  /\ place[t] = "new"
  /\ place' = [place EXCEPT ![t] = "made"]
  /\ \E id \in 1 .. MaxLayer :
       /\ NewLayer(id)
       /\ draggable' = draggable \cup {id}
       /\ own' = [own EXCEPT ![t] = id]
  /\ UNCHANGED <<stack, active, task_map, pressed, drag, msgs, right, window_isactive, windows,
                 clock, runs, missed, disowned>>

MapWindow(t) ==
  /\ place[t] = "made"
  /\ place' = [place EXCEPT ![t] = "mapped"]
  /\ task_map' = Map(own[t], t)
  /\ UNCHANGED <<latest_id, layers, draggable, stack, active, pressed, drag, msgs, own, right,
                 window_isactive, windows, clock, runs, missed, disowned>>

ShowWindow(t) ==
  /\ place[t] = "mapped"
  /\ place' = [place EXCEPT ![t] = "shell"]
  /\ Activate(own[t])
  /\ UNCHANGED <<latest_id, layers, draggable, task_map, pressed, drag, own, right,
                 window_isactive, windows, clock, runs, disowned>>

(* The loop of TaskTerminal, for each kind of message.                     *)
NoteActive(t) ==
  /\ place[t] = "shell"
  /\ msgs[t] # <<>> /\ Head(msgs[t]).type = "active"
  /\ window_isactive' = [window_isactive EXCEPT ![t] = Head(msgs[t]).on]
  /\ msgs' = [msgs EXCEPT ![t] = Tail(@)]
  /\ UNCHANGED <<latest_id, layers, draggable, stack, active, task_map, pressed, drag, place,
                 own, right, windows, clock, runs, missed, disowned>>

(* The message is taken, then CloseLayer, in a section of its own, sends   *)
(* others; the terminal ends whichever window it was.                      *)
TakeClose(t) ==
  /\ place[t] = "shell"
  /\ msgs[t] # <<>> /\ Head(msgs[t]).type = "close"
  /\ msgs' = [msgs EXCEPT ![t] = <<Head(@)>>]
  /\ place' = [place EXCEPT ![t] = "closing"]
  /\ disowned' = IF Head(msgs[t]).layer = own[t] THEN disowned ELSE disowned \cup {t}
  /\ UNCHANGED <<latest_id, layers, draggable, stack, active, task_map, pressed, drag, own, right,
                 window_isactive, windows, clock, runs, missed>>

CloseWindowAndFinish(t) ==
  /\ place[t] = "closing"
  /\ CloseLayer(Head(msgs[t]).layer)
  /\ place' = [place EXCEPT ![t] = "finish"]
  /\ UNCHANGED <<latest_id, draggable, pressed, drag, own, right, window_isactive, windows, clock,
                 runs, disowned>>

(* `exit`, which may be the left side of a pipe.                           *)
ExitCommand(t) ==
  /\ place[t] \in {"shell", "line"}
  /\ IF t \in Terminal THEN CloseLayer(own[t])
     ELSE UNCHANGED <<layers, stack, active, task_map, msgs, missed>>
  /\ place' = [place EXCEPT ![t] = "finish"]
  /\ UNCHANGED <<latest_id, draggable, pressed, drag, own, right, window_isactive, windows,
                 clock, runs, disowned>>

Finish(t) ==
  /\ place[t] = "finish"
  /\ place' = [place EXCEPT ![t] = "gone"]
  /\ msgs' = IF t \in Terminal THEN [msgs EXCEPT ![t] = <<>>] ELSE msgs
  /\ UNCHANGED <<latest_id, layers, draggable, stack, active, task_map, pressed, drag, own,
                 right, window_isactive, windows, clock, runs, missed, disowned>>
-----------------------------------------------------------------------------
(* A line: pipes, `start`, and other commands.                             *)

AtLine(t) == place[t] = "line" \/ (place[t] = "shell" /\ runs[t] < MaxRuns[t])

Counted(t) == IF place[t] = "shell" THEN [runs EXCEPT ![t] = @ + 1] ELSE runs

(* What comes after the command, left of a pipe or alone.                  *)
AfterCommand(t) ==
  IF right[t] # None THEN "wait" ELSE IF t \in Terminal THEN "shell" ELSE "finish"

(* The right side of a pipe, which may run and end from now on.  There is  *)
(* no pipe in what follows `start`.                                        *)
CreateRight(t, s) ==
  /\ AtLine(t) /\ right[t] = None
  /\ t \in Terminal \/ \E u \in Task : right[u] = t
  /\ place[s] = "none"
  /\ place' = [place EXCEPT ![t] = "created", ![s] = "line"]
  /\ right' = [right EXCEPT ![t] = s]
  /\ runs' = Counted(t)
  /\ UNCHANGED <<latest_id, layers, draggable, stack, active, task_map, pressed, drag, msgs,
                 own, window_isactive, windows, clock, missed, disowned>>

(* The window belongs to the right side; where there is none, layer 0 does. *)
MapRight(t) ==
  /\ place[t] = "created"
  /\ place' = [place EXCEPT ![t] = "line"]
  /\ task_map' = Map(own[t], right[t])
  /\ UNCHANGED <<latest_id, layers, draggable, stack, active, pressed, drag, msgs, own, right,
                 window_isactive, windows, clock, runs, missed, disowned>>

StartCommand(t, s) ==
  /\ AtLine(t)
  /\ place[s] = "none"
  /\ place' = [place EXCEPT ![t] = AfterCommand(t), ![s] = "line"]
  /\ runs' = Counted(t)
  /\ UNCHANGED <<latest_id, layers, draggable, stack, active, task_map, pressed, drag, msgs,
                 own, right, window_isactive, windows, clock, missed, disowned>>

(* A command that leaves the windows alone.                                *)
OtherCommand(t) ==
  /\ place[t] = "line"
  /\ place' = [place EXCEPT ![t] = AfterCommand(t)]
  /\ UNCHANGED <<latest_id, layers, draggable, stack, active, task_map, pressed, drag, msgs,
                 own, right, window_isactive, windows, clock, runs, missed, disowned>>

(* Seeded fault: the window stays with the right side, which has ended.    *)
EndPipeWithoutWindow(t) ==
  /\ place[t] = "wait" /\ place[right[t]] = "gone"
  /\ place' = [place EXCEPT ![t] = IF t \in Terminal THEN "shell" ELSE "finish"]
  /\ right' = [right EXCEPT ![t] = None]
  /\ UNCHANGED <<latest_id, layers, draggable, stack, active, task_map, pressed, drag, msgs,
                 own, window_isactive, windows, clock, runs, missed, disowned>>

(* WaitFinish has returned; a window comes back from a task that has ended. *)
EndPipe(t) ==
  /\ place[t] = "wait" /\ place[right[t]] = "gone"
  /\ place' = [place EXCEPT ![t] = IF t \in Terminal THEN "shell" ELSE "finish"]
  /\ right' = [right EXCEPT ![t] = None]
  /\ task_map' = Map(own[t], t)
  /\ UNCHANGED <<latest_id, layers, draggable, stack, active, pressed, drag, msgs, own,
                 window_isactive, windows, clock, runs, missed, disowned>>
-----------------------------------------------------------------------------
(* A program.                                                              *)

ExecuteFile(t) ==
  /\ AtLine(t)
  /\ place' = [place EXCEPT ![t] = "app"]
  /\ runs' = Counted(t)
  /\ UNCHANGED <<latest_id, layers, draggable, stack, active, task_map, pressed, drag, msgs,
                 own, right, window_isactive, windows, clock, missed, disowned>>

(* The window is activated before it is entered in the map.                *)
OpenWindow(t) ==
  /\ place[t] = "app"
  /\ \E id \in 1 .. MaxLayer :
       /\ NewLayer(id)
       /\ draggable' = draggable \cup {id}
       /\ Activate(id)
       /\ task_map' = Map(id, t)
       /\ windows' = [windows EXCEPT ![t] = @ \cup {id}]
  /\ UNCHANGED <<pressed, drag, place, own, right, window_isactive, clock, runs, disowned>>

CloseWindow(t, id) ==
  /\ place[t] = "app"
  /\ id \in windows[t]
  /\ CloseLayer(id)
  /\ windows' = [windows EXCEPT ![t] = @ \ {id}]
  /\ UNCHANGED <<latest_id, draggable, pressed, drag, place, own, right, window_isactive, clock,
                 runs, disowned>>

(* ReadEvent, and reading from the keyboard, take a message and drop it or *)
(* tell the program to quit.                                               *)
ReadEvent(t) ==
  /\ place[t] = "app"
  /\ msgs[t] # <<>>
  /\ msgs' = [msgs EXCEPT ![t] = Tail(@)]
  /\ missed' = IF Head(msgs[t]).type = "active" THEN missed \cup {t} ELSE missed
  /\ UNCHANGED <<latest_id, layers, draggable, stack, active, task_map, pressed, drag, place,
                 own, right, window_isactive, windows, clock, runs, disowned>>

(* The program ends, or is killed; the windows it has open stay.           *)
Exit(t) ==
  /\ place[t] = "app"
  /\ place' = [place EXCEPT ![t] = AfterCommand(t)]
  /\ windows' = [windows EXCEPT ![t] = {}]
  /\ disowned' = IF windows[t] = {} THEN disowned ELSE disowned \cup {t}
  /\ UNCHANGED <<latest_id, layers, draggable, stack, active, task_map, pressed, drag, msgs,
                 own, right, window_isactive, clock, runs, missed>>
-----------------------------------------------------------------------------
Next ==
  \/ \E id \in layers, region \in {"TitleBar", "CloseButton", "Other"} : Press(id, region)
  \/ Release
  \/ ShowClock
  \/ \E t \in Terminal :
       \/ NewTerminal(t) \/ MakeWindow(t) \/ MapWindow(t) \/ ShowWindow(t)
       \/ NoteActive(t) \/ TakeClose(t) \/ CloseWindowAndFinish(t)
       \/ ReadEvent(t)
  \/ \E t \in Task :
       \/ \E s \in Windowless : CreateRight(t, s) \/ StartCommand(t, s)
       \/ MapRight(t) \/ OtherCommand(t) \/ EndPipe(t) \/ ExitCommand(t) \/ Finish(t)
       \/ ExecuteFile(t) \/ OpenWindow(t) \/ Exit(t)
       \/ \E id \in windows[t] : CloseWindow(t, id)

Spec == Init /\ [][Next]_vars
-----------------------------------------------------------------------------
(* The mouse stays above everything, the desktop and the console below,    *)
(* and the active layer exists and is on top of all but the mouse,         *)
(* whoever opens, closes, activates or inserts layers in whatever order.   *)
ActiveOnTop ==
  LET n == Len(stack)
  IN  /\ \A i, j \in 1 .. n : stack[i] = stack[j] => i = j
      /\ ToSet(stack) \subseteq layers
      /\ stack[1] = Background /\ stack[2] = ConsoleLayer /\ stack[n] = mouse_layer
      /\ active # None => active \in draggable /\ stack[n - 1] = active

(* A terminal with one window that has seen every message about it knows,  *)
(* when it has dealt with them, whether that window is the active one.     *)
LastOn(queue, before) ==
  LET told == {i \in DOMAIN queue : queue[i].type = "active"}
  IN  IF told = {} THEN before
      ELSE \E i \in told : (\A j \in told : j <= i) /\ queue[i].on

LastActive(t) == LastOn(msgs[t], window_isactive[t])

TerminalKnowsActive ==
  \A t \in Terminal \ missed :
    place[t] = "shell" /\ (\A l \in DOMAIN task_map : task_map[l] = t => l = own[t]) =>
      (LastActive(t) <=> active = own[t])

(* Input goes to somebody: a window that is entered in the map exists, and *)
(* its task runs, unless a program left it open, the terminal was ended by *)
(* a request to close another window, or a pipe has just lost its right    *)
(* side and the terminal is going to take its window back.  A terminal     *)
(* that runs has its window, which follows its pipes, whatever pipes are   *)
(* nested in their right sides.  Layer 0, which such pipes enter, is none. *)
Runs(t) == place[t] \notin {"none", "gone"}

Deputy(t) == IF right[t] = None \/ place[t] = "created" THEN t ELSE right[t]

WindowsHaveOwners ==
  /\ \A l \in DOMAIN task_map \ {None} :
       /\ l \in layers
       /\ \/ task_map[l] \in disowned
          \/ \E t \in Task : task_map[l] = t /\ Runs(t)
          \/ \E t \in Terminal : Runs(t) /\ own[t] = l /\ task_map[l] = right[t]
  /\ \A t \in Terminal : place[t] \in {"shell", "created", "line", "app", "wait"} =>
       own[t] \in DOMAIN task_map /\ task_map[own[t]] = Deputy(t)
=============================================================================
