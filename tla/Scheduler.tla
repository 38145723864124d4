------------------------------ MODULE Scheduler ------------------------------
(***************************************************************************)
(* The kernel threads and the interrupt handlers as callers of the task    *)
(* manager (src/kernel/app/task.cpp).  One processor: an action is a       *)
(* section that runs with interrupts disabled, on behalf of the current    *)
(* task or of an interrupt handler that preempts it.                       *)
(*                                                                         *)
(* A thread that calls WaitFinish stays in its loop with interrupts        *)
(* disabled across the sleep (terminal.cpp:749-752), so `waiting[t]` is    *)
(* also t's interrupt flag: while the current task waits no interrupt is   *)
(* taken.                                                                  *)
(***************************************************************************)
EXTENDS TaskManager

CONSTANTS MaxMsgs,     \* bound: messages queued for one task
          WakeLevels,  \* the `level` arguments given to Wakeup
          Sleepable    \* tasks that other tasks put to sleep

ASSUME MaxMsgsAssumption == MaxMsgs \in Nat
ASSUME WakeLevelsAssumption == WakeLevels \subseteq -1 .. kMaxLevel
ASSUME SleepableAssumption == Sleepable \subseteq TaskId \ {IdleId}

VARIABLES subtask,  \* subtask[t]: t's local subtask_id (Terminal::ExecuteLine)
          waiting   \* waiting[t]: t is inside WaitFinish(subtask[t])

vars == <<tm, subtask, waiting>>

Init ==
  /\ tm = InitialManager
  /\ subtask = [t \in TaskId |-> NoTask]
  /\ waiting = [t \in TaskId |-> FALSE]

InterruptsEnabled == ~waiting[Current]

(* The current task executes kernel code that may call the task manager.   *)
Running(t) == t = Current /\ t # IdleId /\ ~waiting[t]

(* NewTask().InitContext(f, data): the new task sleeps until a Wakeup.     *)
CreateTask(t) ==
  /\ Running(t)
  /\ tm.latest_id < MaxId
  /\ tm' = NewTask(tm)
  /\ UNCHANGED <<subtask, waiting>>

(* The same for the right side of a pipe, whose ID the terminal keeps.     *)
CreateSubtask(t) ==
  /\ Running(t)
  /\ t # MainId
  /\ tm.latest_id < MaxId
  /\ subtask[t] = NoTask
  /\ tm' = Wakeup(NewTask(tm), tm.latest_id + 1, -1)
  /\ subtask' = [subtask EXCEPT ![t] = tm.latest_id + 1]
  /\ UNCHANGED waiting

(* The task timer's interrupt.                                             *)
SwitchTask ==
  /\ InterruptsEnabled
  /\ tm' = RotateCurrentRunQueue(tm, FALSE)
  /\ UNCHANGED <<subtask, waiting>>

(* From the current task or from an interrupt handler.                     *)
Send(t, msg) ==
  /\ InterruptsEnabled
  /\ t \in tm.tasks \ {IdleId}
  /\ Len(tm.msgs[t]) < MaxMsgs
  /\ tm' = SendMessage(tm, t, msg)
  /\ UNCHANGED <<subtask, waiting>>

(* The head of every event loop: cli, ReceiveMessage, Sleep if there is    *)
(* none (main.cpp:98-105, 170-178; syscall.cpp:214-220; terminal.cpp).     *)
Receive(t) ==
  /\ Running(t)
  /\ tm' = IF tm.msgs[t] = <<>> THEN Sleep(tm, t) ELSE PopMessage(tm, t)
  /\ UNCHANGED <<subtask, waiting>>

Wake(t, level) ==
  /\ Running(Current)
  /\ t \in tm.tasks \ {IdleId}
  /\ tm' = Wakeup(tm, t, level)
  /\ UNCHANGED <<subtask, waiting>>

PutToSleep(t) ==
  /\ Running(Current)
  /\ t \in tm.tasks \ {Current}
  /\ tm' = Sleep(tm, t)
  /\ UNCHANGED <<subtask, waiting>>

FinishTask(t, code) ==
  /\ Running(t)
  /\ t # MainId
  /\ tm' = Finish(tm, code)
  /\ UNCHANGED <<subtask, waiting>>

(* WaitFinish: a pass of the loop, first or after a wakeup.                *)
WaitForExit(t) ==
  /\ t = Current
  /\ t # IdleId
  /\ subtask[t] # NoTask
  /\ tm.finish_tasks[subtask[t]] = NoCode
  /\ tm' = AwaitFinish(tm, subtask[t])
  /\ waiting' = [waiting EXCEPT ![t] = TRUE]
  /\ UNCHANGED subtask

JoinSubtask(t) ==
  /\ t = Current
  /\ subtask[t] # NoTask
  /\ tm.finish_tasks[subtask[t]] # NoCode
  /\ tm' = TakeExitCode(tm, subtask[t])
  /\ waiting' = [waiting EXCEPT ![t] = FALSE]
  /\ subtask' = [subtask EXCEPT ![t] = NoTask]

Next ==
  \/ SwitchTask
  \/ \E t \in TaskId :
       \/ CreateTask(t)
       \/ CreateSubtask(t)
       \/ \E msg \in Message : Send(t, msg)
       \/ Receive(t)
       \/ \E level \in WakeLevels : Wake(t, level)
       \/ t \in Sleepable /\ PutToSleep(t)
       \/ \E code \in ExitCode : FinishTask(t, code)
       \/ WaitForExit(t)
       \/ JoinSubtask(t)

Spec == Init /\ [][Next]_vars

(* The task timer is periodic and its interrupt stays pending while        *)
(* interrupts are disabled, so it is taken again and again whenever that   *)
(* is possible again and again; WaitFinish's loop runs until it sleeps.    *)
Fairness ==
  /\ SF_vars(SwitchTask)
  /\ \A t \in TaskId : WF_vars(WaitForExit(t) \/ JoinSubtask(t))

FairSpec == Spec /\ Fairness
-----------------------------------------------------------------------------
TypeOK ==
  /\ tm \in Manager
  /\ subtask \in [TaskId -> TaskId \cup {NoTask}]
  /\ waiting \in [TaskId -> BOOLEAN]

(* A task is in the run queue of its level, once, exactly while its        *)
(* running_ flag says so; no queue holds a destroyed task, which a switch  *)
(* would resume (RotateCurrentRunQueue pops one entry, Erase all).         *)
RunQueuesSound == RunQueuesOK(tm)

(* There is always a task to run, and no task above the current level      *)
(* waits without level_changed_, which makes the next rotation look for    *)
(* it: Wakeup and ChangeLevelRunning compare with current_level_ only.     *)
NoMissedPreemption == CurrentLevelOK(tm)

(* A task with queued messages is not asleep in its event loop: Receive    *)
(* and Sleep are one section, SendMessage wakes the task it appends to.    *)
NoLostMessage ==
  \A t \in tm.tasks \ Sleepable :
    tm.msgs[t] # <<>> /\ ~waiting[t] => tm.is_running[t]

(* A task asleep inside WaitFinish will be woken: the task it waits for is *)
(* alive, has left no exit code yet, and knows its waiter.                 *)
WaiterRegistered ==
  \A t \in tm.tasks \ Sleepable :
    waiting[t] /\ ~tm.is_running[t] =>
      LET id == subtask[t]
      IN  /\ id \in tm.tasks
          /\ tm.finish_tasks[id] = NoCode
          /\ tm.finish_waiter[id] = t

(* finish_waiter_ holds raw pointers: none of them outlives its task,      *)
(* or Finish would wake freed memory.                                      *)
WaitersAlive ==
  \A id \in TaskId : tm.finish_waiter[id] \in tm.tasks \cup {NoTask}

(* Who is in front of t in the queue of its level.                         *)
Ahead(m, t) ==
  LET q == m.running[m.level[t]]
  IN  {q[i] : i \in {k \in DOMAIN q : \E j \in k + 1 .. Len(q) : q[j] = t}}

OvertakesNobody ==
  \A t \in tm.tasks \cap tm'.tasks :
    /\ tm.is_running[t] /\ tm'.is_running[t]
    /\ tm.level[t] = tm'.level[t]
    /\ t # Current
    => Ahead(tm', t) \subseteq Ahead(tm, t) \cup {Current}

(* Round robin inside a level: nobody but the task that executes gets in   *)
(* front of a queued task that keeps its level.                            *)
NoOvertaking == [][OvertakesNobody]_vars

(* The main task outranks every task it creates: they run only while it    *)
(* sleeps, so their progress is conditional on it draining its messages,   *)
(* and on nobody being moved to another level (no caller does, after the   *)
(* start: all pass the default argument of Wakeup).                        *)
MainSleepsAgain == []<>(~tm.is_running[MainId])

LevelsKept ==
  [](\A t \in tm.tasks \ {IdleId} :
       tm.level[t] = IF t = MainId THEN kMaxLevel ELSE kDefaultLevel)

(* The tasks the main task creates, but for those put to sleep by others.  *)
Created == TaskId \ (Sleepable \cup {MainId, IdleId})

(* Every runnable task gets the processor: a task that hogs it, or that    *)
(* the main task preempts, goes behind the others of the level.            *)
Runnable(t) == t \in tm.tasks /\ tm.is_running[t]

NoStarvation ==
  MainSleepsAgain /\ LevelsKept =>
    \A t \in Created : Runnable(t) ~> Current = t

(* WaitFinish returns once the task it waits for has finished.             *)
JoinReturns ==
  MainSleepsAgain /\ LevelsKept =>
    \A t \in Created : waiting[t] /\ subtask[t] \notin tm.tasks ~> ~waiting[t]
=============================================================================
