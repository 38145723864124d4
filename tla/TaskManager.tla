----------------------------- MODULE TaskManager -----------------------------
(***************************************************************************)
(* The object `task_manager` of src/kernel/app/task.cpp: the tasks, one    *)
(* FIFO run queue per level, the message queue of every task, and the exit *)
(* codes of finished tasks.  Each method is an operator from the object    *)
(* before the call to the object after it, so that the modules that call   *)
(* several methods inside one uninterruptible section (Scheduler, Pipe)    *)
(* compose them in one action; what changes the variable are their actions. *)
(*                                                                         *)
(* A Task pointer is modelled by the task's ID.  The processor executes the *)
(* front of the current level's queue, so a context switch is the change of *)
(* CurrentTask.                                                            *)
(***************************************************************************)
EXTENDS Integers, Sequences

CONSTANTS MaxId,     \* bound: the number of tasks ever created
          Message,   \* the values a message queue can hold
          ExitCode,  \* the values a task can finish with
          NoCode     \* "no entry" in finish_tasks_

ASSUME MaxIdAssumption == MaxId \in Nat /\ MaxId >= 2
ASSUME NoCodeAssumption == NoCode \notin ExitCode

VARIABLE tm  \* *task_manager

kMaxLevel == 3
kDefaultLevel == 1
Level == 0 .. kMaxLevel
TaskId == 1 .. MaxId
MainId == 1     \* created first, runs KernelMainNewStack
IdleId == 2     \* created second, runs TaskIdle: halts and calls nothing
NoTask == 0

(* The C++ objects reachable from task_manager.  `is_running` is           *)
(* Task::running_, `running` is TaskManager::running_.                     *)
Manager ==
  [latest_id     : TaskId,
   tasks         : SUBSET TaskId,
   level         : [TaskId -> Level],
   is_running    : [TaskId -> BOOLEAN],
   msgs          : [TaskId -> Seq(Message)],
   running       : [Level -> Seq(TaskId)],
   current_level : Level,
   level_changed : BOOLEAN,
   finish_tasks  : [TaskId -> ExitCode \cup {NoCode}],
   finish_waiter : [TaskId -> TaskId \cup {NoTask}]]

InitialManager ==
  [latest_id     |-> IdleId,
   tasks         |-> {MainId, IdleId},
   level         |-> [t \in TaskId |-> CASE t = MainId -> kMaxLevel
                                         [] t = IdleId -> 0
                                         [] OTHER -> kDefaultLevel],
   is_running    |-> [t \in TaskId |-> t \in {MainId, IdleId}],
   msgs          |-> [t \in TaskId |-> <<>>],
   running       |-> [lv \in Level |-> CASE lv = kMaxLevel -> <<MainId>>
                                         [] lv = 0 -> <<IdleId>>
                                         [] OTHER -> <<>>],
   current_level |-> kMaxLevel,
   level_changed |-> FALSE,
   finish_tasks  |-> [t \in TaskId |-> NoCode],
   finish_waiter |-> [t \in TaskId |-> NoTask]]

CurrentTask(m) == Head(m.running[m.current_level])
Current == CurrentTask(tm)

NewTask(m) ==
  [m EXCEPT !.latest_id = @ + 1, !.tasks = @ \cup {m.latest_id + 1}]

-----------------------------------------------------------------------------
(* Run queues.                                                             *)

(* std::remove and erase on a queue that holds t at most once.             *)
Erase(q, t) ==
  IF \E i \in DOMAIN q : q[i] = t
  THEN LET i == CHOOSE j \in DOMAIN q : q[j] = t
       IN  SubSeq(q, 1, i - 1) \o SubSeq(q, i + 1, Len(q))
  ELSE q

(* The scan of RotateCurrentRunQueue from kMaxLevel down; the idle task    *)
(* never sleeps, so some queue is not empty.                               *)
HighestLevel(queues) ==
  CHOOSE lv \in Level : /\ queues[lv] # <<>>
                        /\ \A l \in Level : l > lv => queues[l] = <<>>

(* Seeded fault: the current task stays at the front.                      *)
RotateNothing(m, current_sleep) ==
  LET queue  == IF current_sleep THEN Tail(m.running[m.current_level])
                ELSE m.running[m.current_level]
      queues == [m.running EXCEPT ![m.current_level] = queue]
  IN  IF m.level_changed \/ queue = <<>>
      THEN [m EXCEPT !.running = queues,
                     !.current_level = HighestLevel(queues),
                     !.level_changed = FALSE]
      ELSE [m EXCEPT !.running = queues]

RotateCurrentRunQueue(m, current_sleep) ==
  LET rest   == Tail(m.running[m.current_level])
      queue  == IF current_sleep THEN rest ELSE Append(rest, CurrentTask(m))
      queues == [m.running EXCEPT ![m.current_level] = queue]
  IN  IF m.level_changed \/ queue = <<>>
      THEN [m EXCEPT !.running = queues,
                     !.current_level = HighestLevel(queues),
                     !.level_changed = FALSE]
      ELSE [m EXCEPT !.running = queues]

(* TaskManager::Sleep of the task itself or of another one.                *)
Sleep(m, t) ==
  LET asleep == [m EXCEPT !.is_running[t] = FALSE]
  IN  IF ~m.is_running[t] THEN m
      ELSE IF t = CurrentTask(m) THEN RotateCurrentRunQueue(asleep, TRUE)
      ELSE [asleep EXCEPT !.running[m.level[t]] = Erase(@, t)]

(* Seeded fault: the old entry stays in the queue.                         *)
MoveWithoutErase(m, t, level) ==
  [m EXCEPT !.running[level] = Append(@, t),
            !.level[t] = level,
            !.level_changed = @ \/ level > m.current_level]

(* A task other than the current one: to the back of its new level.        *)
MoveOther(m, t, level) ==
  LET erased == [m.running EXCEPT ![m.level[t]] = Erase(@, t)]
  IN  [m EXCEPT !.running = [erased EXCEPT ![level] = Append(@, t)],
                !.level[t] = level,
                !.level_changed = @ \/ level > m.current_level]

(* The current task: it keeps the processor, at the front of its new level. *)
MoveCurrent(m, t, level) ==
  LET popped == [m.running EXCEPT ![m.current_level] = Tail(@)]
  IN  [m EXCEPT !.running = [popped EXCEPT ![level] = <<t>> \o @],
                !.level[t] = level,
                !.current_level = level,
                !.level_changed = @ \/ level < m.current_level]

ChangeLevelRunning(m, t, level) ==
  IF level < 0 \/ level = m.level[t] THEN m
  ELSE IF t = CurrentTask(m) THEN MoveCurrent(m, t, level)
  ELSE MoveOther(m, t, level)

(* Seeded faults: the next rotation stays at its level; the woken task is  *)
(* pushed to the front.                                                    *)
EnqueueQuietly(m, t, level) ==
  [m EXCEPT !.level[t] = level,
            !.is_running[t] = TRUE,
            !.running[level] = Append(@, t)]

EnqueueFront(m, t, level) ==
  [m EXCEPT !.level[t] = level,
            !.is_running[t] = TRUE,
            !.running[level] = <<t>> \o @,
            !.level_changed = @ \/ level > m.current_level]

(* TaskManager::Wakeup, part for a task that sleeps.                       *)
Enqueue(m, t, level) ==
  [m EXCEPT !.level[t] = level,
            !.is_running[t] = TRUE,
            !.running[level] = Append(@, t),
            !.level_changed = @ \/ level > m.current_level]

(* Seeded fault: a sleeping task takes the level argument as it is.        *)
WakeupRawLevel(m, t, level) ==
  IF m.is_running[t] THEN ChangeLevelRunning(m, t, level)
  ELSE Enqueue(m, t, level)

Wakeup(m, t, level) ==
  IF m.is_running[t] THEN ChangeLevelRunning(m, t, level)
  ELSE Enqueue(m, t, IF level < 0 THEN m.level[t] ELSE level)

-----------------------------------------------------------------------------
(* Messages.                                                               *)

(* Seeded fault: the receiver is not woken.                                *)
SendWithoutWakeup(m, t, msg) ==
  IF t \in m.tasks THEN [m EXCEPT !.msgs[t] = Append(@, msg)] ELSE m

(* TaskManager::SendMessage(id, msg): kNoSuchTask changes nothing.         *)
SendMessage(m, t, msg) ==
  IF t \in m.tasks
  THEN Wakeup([m EXCEPT !.msgs[t] = Append(@, msg)], t, -1)
  ELSE m

(* Task::ReceiveMessage of a task whose queue is not empty.                *)
PopMessage(m, t) == [m EXCEPT !.msgs[t] = Tail(@)]

-----------------------------------------------------------------------------
(* Finish and WaitFinish.                                                  *)

(* tasks_.erase destroys the Task: its flag and its messages go with it.   *)
Destroy(m, t) ==
  [m EXCEPT !.tasks = @ \ {t}, !.is_running[t] = FALSE, !.msgs[t] = <<>>]

(* Seeded faults: the waiter is not woken; its entry is not erased.        *)
FinishWithoutWakeup(m, code) ==
  LET t == CurrentTask(m)
  IN  [Destroy(RotateCurrentRunQueue(m, TRUE), t)
         EXCEPT !.finish_tasks[t] = code, !.finish_waiter[t] = NoTask]

FinishKeepsWaiter(m, code) ==
  LET t      == CurrentTask(m)
      waiter == m.finish_waiter[t]
      gone   == [Destroy(RotateCurrentRunQueue(m, TRUE), t)
                   EXCEPT !.finish_tasks[t] = code]
  IN  IF waiter = NoTask THEN gone ELSE Wakeup(gone, waiter, -1)

(* TaskManager::Finish of the current task.                                *)
Finish(m, code) ==
  LET t      == CurrentTask(m)
      waiter == m.finish_waiter[t]
      gone   == [Destroy(RotateCurrentRunQueue(m, TRUE), t)
                   EXCEPT !.finish_tasks[t] = code,
                          !.finish_waiter[t] = NoTask]
  IN  IF waiter = NoTask THEN gone ELSE Wakeup(gone, waiter, -1)

(* Seeded fault: the waiter is not registered.                             *)
AwaitUnregistered(m, id) == Sleep(m, CurrentTask(m))

(* One pass of WaitFinish's loop that finds no exit code: register and     *)
(* sleep.  TakeExitCode is the pass that finds one.                        *)
AwaitFinish(m, id) ==
  Sleep([m EXCEPT !.finish_waiter[id] = CurrentTask(m)], CurrentTask(m))

TakeExitCode(m, id) == [m EXCEPT !.finish_tasks[id] = NoCode]

-----------------------------------------------------------------------------
(* What the methods keep true of the object.                               *)

RunQueuesOK(m) ==
  /\ \A lv \in Level : \A i \in 1 .. Len(m.running[lv]) :
       LET t == m.running[lv][i]
       IN  t \in m.tasks /\ m.is_running[t] /\ m.level[t] = lv
  /\ \A lv \in Level : \A i, j \in 1 .. Len(m.running[lv]) :
       m.running[lv][i] = m.running[lv][j] => i = j
  /\ \A t \in m.tasks : m.is_running[t] =>
       \E i \in 1 .. Len(m.running[m.level[t]]) : m.running[m.level[t]][i] = t

CurrentLevelOK(m) ==
  /\ m.running[m.current_level] # <<>>
  /\ \/ m.level_changed
     \/ \A lv \in Level : lv > m.current_level => m.running[lv] = <<>>
=============================================================================
