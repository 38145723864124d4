# TLA+ models of the TNTOS kernel

TNTOS is a small operating system for x86-64, a fork of MikanOS: a UEFI loader,
a kernel in C++ (`src/kernel/`) and applications that run in terminals.  This
directory holds TLA+ models of the parts of the kernel, and of its text editor,
whose correctness depends on the order in which things happen, TLC configurations that check them on small
instances, and TLAPS proofs of the most important invariants for every size.

Paths below are relative to `src/kernel/` unless they start with `src/`.

## 1. The system

One processor.  Kernel threads ("tasks") are switched by a timer interrupt and
by calls to `Sleep` and `Finish`; critical sections are written as `cli` ... `sti`.

| component | state it keeps | operations | talks to |
|---|---|---|---|
| Task manager, `app/task.cpp` | tasks, a run queue per level, `current_level_`, `level_changed_`, a message queue per task, exit codes and waiters | NewTask, Sleep, Wakeup, SendMessage, ReceiveMessage, SwitchTask, Finish, WaitFinish | everybody; the timer interrupt calls SwitchTask |
| Timers, `io/timer.cpp` | the tick, a heap of timers | AddTimer, Tick | Tick sends messages to tasks |
| Main task, `main.cpp` | - | the loop over interrupts, keys and layer messages; TaskWallclock | xHCI, layers, terminals |
| Terminal, `console/terminal.cpp` | line buffer, history, cursor, escape state, the three files, last exit code | InputKey, ExecuteLine, ExecuteFile, Print, the loop TaskTerminal | task manager, FAT, paging, pipes |
| Pipe, `console/terminal.cpp` | the rest of a chunk, `closed_` | Read, Write, FinishWrite | the right command's message queue |
| xHCI port configuration, `usb/xhci/xhci.cpp`, `usb/device.cpp` | a phase per port, `addressing_port`, devices, the rings | Initialize, ProcessEvent | the controller, the class drivers |
| TRB rings, `usb/xhci/ring.cpp` | write index, cycle bits | Push, HasFront, Pop | the controller |
| Class drivers, `usb/classdriver/` | report buffers, observers | OnNormalCompleted, SendSerial, ... | mouse, keyboard, terminal |
| Frame allocator, `memory/memory_manager.cpp` | a bitmap | Allocate, Free, MarkAllocated, Stat | paging, heap |
| Paging, `memory/paging.cpp` | page maps | SetupPageMaps, CleanPageMaps, CopyPageMaps, HandlePageFault | frame allocator, files, `app_loads` |
| FAT, `io/fat.cpp` | the volume in memory | FindFile, CreateFile, Read, Write, ExtendCluster | terminal, system calls |
| Layers, `graphic/layer.cpp`, `io/mouse.cpp` | the layer stack, the active layer, the dragged layer | UpDown, Activate, CloseLayer, OnInterrupt | main task, terminals |
| Text editor, `src/apps/tedit/tedit.cpp` | the text, an index of what each cell of the window shows, cursor, scroll position, `edited`, the dialog | one handler per key, click and button; LoadFile, SaveFile | system calls |
| System calls, `app/syscall.cpp` | file descriptors of a task | OpenFile, ReadFile, ReadEvent, CreateTimer, MapFile, ... | all of the above |

PCI and ACPI enumeration, segments and interrupt tables, fonts, the frame buffer,
the log and the loader run once or only produce output.  The other applications
draw, compute, or copy their input to their output; two of them include vendored
libraries (`duktape`, `stb_image`), which make up nine tenths of the lines of the
repository and have nothing to do with this system.

What is hard in this code: every structure of the task manager is changed by
tasks and by interrupt handlers in any order; a wake-up between an empty receive
and a sleep; joins that race with exits; raw `Task*` that outlive their task; a
controller whose answers come late, in any order, and not at all once a cable is
pulled; a ring that two sides go round with nothing but cycle bits between them;
windows that change hands while their messages are queued; timers that outlive the
program that set them; shared page frames; offsets at cluster boundaries; an index
into a text that must be redrawn with every change of it.  `PROJECT.json` lists
these hazards at their lines, with the properties that cover them.

What makes each part correct: run queues hold exactly the running tasks, the
highest level runs, no message and no waiter is forgotten, nobody starves (task
manager); a pipe is a FIFO byte stream with an end (pipe); one port at a time is
addressed, slots go to their port, every device ends up configured (xHCI); the
controller finds every command once and in order (rings); every
timer fires once and in time, the clock's chain neither breaks nor doubles
(timers); no frame is both free and mapped, applications are isolated and give
everything back (paging); chains are disjoint and a file reads back what was
written (FAT); the active layer exists and is on top, terminals know whether it is
theirs, windows have somebody who serves them (layers); a key changes the character
at the cursor, and unsaved text is lost only on demand (editor).

## 2. Plan

In the order of how much of the system depends on a part:

1. Task manager under its callers, with proofs: `TaskManager`, `Scheduler`. *Done.*
2. Pipe on top of it, against an abstract stream, with proofs: `Pipe`, `ByteStream`. *Done.*
3. xHCI port configuration with its command ring, with proofs: `Xhci`, `CommandRing`. *Done.*
4. Frame allocator, against an abstract pool, with proofs: `FrameAllocator`, `FramePool`. *Done.*
5. Page maps and the starts of applications, against private memories:
   with proofs: `PageMaps`, `AddressSpaces`, `PrivateMemory`. *Done.*
6. FAT against files as rows of bytes, with proofs: `Fat`, `Files`. *Done.*
7. Timers and the loops they drive, against alarms, with proofs: `Timers`, `Alarms`. *Done.*
8. Layers, the active window and who owns windows, with proofs: `Windows`. *Done.*
9. The text editor, against a text without a screen, with proofs: `Tedit`, `TextEditor`. *Done.*
10. Event ring and transfer rings with their segment table and dequeue pointer; the
    bounded map of control transfers in the class drivers.
11. Terminal: line editing and history, the escape sequences.
12. Positions of windows: dragging a layer that is gone.

`Xhci` composes with `CommandRing` (which EXTENDS it), `Scheduler` and `Pipe` share
`TaskManager`, `AddressSpaces` uses `PageMaps`; the other modules stand alone and name
what they assume of their callers.

## 3. Modules and the code

Method and field names are the code's.  Where the code returns an error or logs
and goes on, the action leaves the state as the code does; log output, drawing
and formatting are left out everywhere.  Operators named as *seeded faults* are
not part of the models: they are mutated forms of the operator that follows them,
which the mutants of `PROJECT.json` swap in to show that a property can fail.

### TaskManager, Scheduler (`app/task.cpp`, `app/task.hpp`)

`TaskManager` has no actions: every method of the class is an operator from one
manager object to the next, so that `Scheduler` and `Pipe` share it, and so that
lemmas are about operators.  The object, its variable `tm`, holds the fields of `TaskManager`
and of each `Task`: `tasks`, `running` (a sequence per level), `current_level`,
`level_changed`, `latest_id`, `level`, `is_running`, `msgs`, `finish_tasks`,
`finish_waiter`.  IDs are counted up to `MaxId`; 1 is the main task, 2 the idle
task (`TaskIdle`).  `RotateCurrentRunQueue`, `Sleep`, `Wakeup` with
`ChangeLevelRunning`, `SendMessage`, `Finish`, `WaitFinish` are translated branch
by branch, including the pushes to the front of a queue.

`Scheduler` is who calls them: threads and interrupt handlers.  One action is one
`cli`..`sti` section, or one handler, which is how the code protects the manager.
A thread inside `WaitFinish` sleeps with interrupts disabled and is resumed that
way, so `waiting` doubles as the interrupt flag.  `Receive` is the loop at the
head of every event loop (receive, and sleep if there is nothing, in one
section), `CreateSubtask`, `WaitForExit`, `JoinSubtask` the life of a pipe's right
side in `Terminal::ExecuteLine`.  The calls the code makes with interrupts enabled
(hazards at `main.cpp:185`, `main.cpp:94`) are modelled as sections too.

### Pipe, ByteStream (`console/terminal.cpp`)

`PipeDescriptor` and both sides of `left | right`.  Bytes are positions in the
stream, so a chunk is an interval, and a lost, repeated or reordered byte is
visible without payloads.  `writer` is the terminal's task inside `ExecuteLine`,
`reader` the right command.  `Read`'s loop keeps interrupts disabled across its
sleep; a message that is no chunk is dropped, as in the code.  The left command
may write any sizes.  The right one may return at any time (`FinishReader`): `echo`, `ls`, an unknown
command read nothing at all, and others stop early.  Its task is then freed while `PipeDescriptor`
still holds a reference to it, and what the left side sends (`SendToReader`) is undefined: either the
memory is still as it was, and the message goes nowhere, or the model gives up (`writer.pc = "undefined"`).
So the claims are: a right command that reads until it is told the end is never sent to
afterwards (`SafeIfReadToEnd`), bytes are in their place while there is somebody to read them
(`NothingLost`), and `ByteStream`: in order, once, the end after the last byte only, and a reader of a closed
stream gets to the end unless it leaves.  Assumed: the left command returns to `ExecuteLine`, and it alone
writes to the pipe.  `exit | b` finishes the terminal first, so that nobody sends the end (the hazard at
`terminal.cpp:495`), and in `start a | b` the task that `start` makes has the pipe as its output and may
write after the end.

### Xhci (`usb/xhci/xhci.cpp`, `port.cpp`, `devmgr.cpp`, `usb/device.cpp`)

Driver: `Boot` is `Initialize`'s loop over the ports, `ProcessEvent` one event with the
whole chain of calls its handler makes.  Controller and cables (external): the
bits of PORTSC, commands executed in order, transfers completed in any order,
possibly failing once the device is gone, plugging and unplugging at any moment.
Rings are sequences.  `port` in an Enable Slot command is not in the
TRB; it is kept to state `SlotForItsPort`.  `Removable` are the ports whose cable may
be pulled, `Supported` those whose device has a class driver.

### CommandRing (`usb/xhci/ring.cpp`)

Adds to `Xhci` the buffer behind `commands`: the driver's `Ring` (`cr`: buffer, write
index, cycle bit) with `Push` and `CopyToLast`, and the controller's side (`crcr`),
which reads an entry if its cycle bit is the expected one and follows the Link TRB.
Every action of `Xhci` is joined with what it does to the ring, so the driver over its
ring is shown, and proved, to implement the driver over a sequence.

### FrameAllocator, FramePool (`memory/memory_manager.cpp`)

`MarkDescriptor`, `SetMemoryRange`, `BootAllocate` are the start-up, alone on the
processor; `TaskAllocate`, `Scan`, `Mark`, `Free`, `Clear` are the calls, one bit
per step.  `Preemptible` tells whether another task may run between these steps:
the code allows it (the callers execute `sti` first), and `frames_race` shows what
then happens; the other run and the theorems show that the algorithm is right
when it is not.  `MemoryMaps` is a set, so one run covers every small memory map.

### PageMaps, AddressSpaces, PrivateMemory (`memory/paging.cpp`, `console/terminal.cpp`)

`PageMaps` are the functions of `paging.cpp` as operators on the physical memory
`mem`: the allocated frames, and for each frame its contents as a table and as a
page.  The four levels are two, a top table and page tables, of `TableSize` entries each;
the recursion of the code becomes one pass per level.  A function that runs out
of frames returns what it has done so far, as the code leaves it.  Contents of
free frames are not kept: `NewPageMap` clears a frame before anybody reads it.

`AddressSpaces` is the way of an application through `ExecuteFile`: `cr3[t]` is
`Context().cr3`, `run[t]` the place in the code with its local variables,
`app_loads` the cache of images.  Between two steps any other task may run.  A
page's content is where it comes from (`base`) and who wrote to it (`by`).  In the
program, reads and writes of any address, page faults, and system calls that
write to a buffer.  `SystemCallWrites` does what the processor does with CR0.WP
clear.  `lost` names the frames that a failed start, or the loser of two first
loads, leaves behind for ever; the code never frees them, and no text says it
should.  In the run one page stands for
the arguments' and the stack's.  Demand-paged and mapped ranges are constants: the program has asked for
them (`DemandPages`, `MapFile`) before it touches them.  `SpacesAssumption` says that the stack has no
page in common with an image or a mapped file, as the link scripts, `ExecuteFile`'s stack address and
its `SetFileMapEnd`, from which files are mapped downwards, see to.

`PrivateMemory` is the promise.  Its `memory[t]` is `Memories[t]`: while `t` is in `CallApp`, what the
program reads at each address, through the page map or, where no page is yet, what the page
fault handler would put there; otherwise nothing.

### Fat, Files (`io/fat.cpp`, `io/fat.hpp`)

`Fat` has the table of clusters, the bytes of each, directories of several clusters,
and descriptors.  A `FileDescriptor` is the record of its offsets and current
clusters; a `Write` stores one piece per step (`BeginWrite`, `WriteChunk`, `EndWrite`),
so that another task may write, read or open in between, and sets the size when it
ends.  `OpenFile` finds or creates, taking a new cluster for the directory when it is
full.  A name is a sequence of characters, and the conversions are the code's: `SetFileName` cuts what is
before the last dot to eight characters and what is behind it to three, in upper case; `NextPathElement` and
`NameIsEqual` cut nothing but refuse to compare a name that is no 8.3 name (`Is83`).  Each open with `O_CREAT` of, say,
`verylongname.txt` therefore makes another entry, `VERYLONGTXT`, which is found under `VERYLONG.TXT` only.
`FilesAreFound` is about files made for 8.3 names (`asked` remembers the name an entry was made for), among
entries made for whatever names: none of these hides a file or comes to be found beside it.  `MCFat` has
`NameIsEqual`'s loop as it is written and compares it with the definition, for all names of up to 13
characters that are letters or dots.  Left out: a name that begins with the character 0xe5, which
`AllocateEntry` takes for an unused entry.  `Load` is what the page fault handler reads of a mapped file.  A scan of a directory
goes through its `Places`, the clusters of its chain and the entries of each, in the order `Before`.
`Files` is the
promise: a file is a row of bytes, a read returns the bytes at its position.  Its
three exceptions are behaviours of the code that no text of the repository speaks
about, and are stated there: a descriptor that has read up to the end of the last
cluster, one behind the end of a file that was shortened, and a file whose chain got
two clusters at once from one `Write` (the first of them is skipped).

### Timers, Alarms (`io/timer.cpp`, `main.cpp`, `console/terminal.cpp`, `app/syscall.cpp`)

`Timers` has the heap, `Tick` (one pass of its loop per step; nobody else runs
meanwhile), the clock's chain, the cursor's, the task timer, and the timers programs
ask for, with the negated value that marks them, the truncation of milliseconds and
the overflow at `Modulus`.  Reading the tick and pushing the timer are two steps,
because an interrupt may come in between.  `Alarms` is the promise: an alarm rings
once, for its task, at the first tick that is not before it, in order; `CreateTimer`
is early by less than two ticks and never late.  `CursorBlinks` names the two ways in
which a program can disturb its terminal's cursor: its pending timers outlive it, and
its `ReadEvent` swallows the terminal's.  `Now`, `Requests`, `Unrung` and `Queues` are the mapping: what
a tick rings has rung when `Tick` returns.

### Windows (`graphic/layer.cpp`, `io/mouse.cpp`, and the tasks that own windows)

The layer stack, `active_layer_`, `layer_task_map`, and the life of a window in each
kind of owner: a terminal (`MakeWindow`, `MapWindow`, `ShowWindow` are three sections),
a program (`OpenWindow`, `CloseWindow`, `Exit`), on either side of a pipe, the clock.  `Terminal` are the tasks
that execute `TaskTerminal` for a window, `Windowless` those that do so for one line: the right side of a pipe
(`CreateRight`) and what follows `start` (`StartCommand`).  The terminal's window goes to the right side when this may have
run, and ended, already (`MapRight`), and comes back after it has (`EndPipe`).  A right side may have a pipe of
its own (`a | b | c`).  It has no window and its `layer_id_` is 0, so that it enters layer 0 in
the map, first for its right side and then for itself, and ends: an entry for ever, of no layer and of no task.
`WindowsHaveOwners` excepts this entry and says so; it does no harm, because layers are numbered from 1,
`Activate` sends nothing for 0, and the main loop's keys, which go there while no layer is active
(`main.cpp:193`), are for a task that is gone, or for a right side while it runs.  A click may hit any
layer; positions are left out.  Assumed: a program closes windows of its own, and what follows `start` does
not read the keyboard (it would take the messages of the terminal, or stop the machine: the hazard at
`terminal.cpp:1081`).  As in the code, a terminal ends at any
`kWindowClose`, also one for a window of its program that comes late, `ReadEvent`
swallows messages that are not for the program, `OpenWindow` activates a layer before
it is in the map.  Where these leave a terminal uninformed or a window without a
living owner, the history variables `missed` and `disowned` say so, and the
properties except exactly those.

### Tedit, TextEditor (`src/apps/tedit/tedit.cpp`)

One action per key.  `char_idx` is kept as the code keeps it: cell by cell the index of
the character drawn there, filled when a row is drawn, read by every handler.
`Layout` is `DrawLine` (tabs, characters of two cells, the right edge): `Ends` is the cell
behind the first n characters, up to the edge.  `Range0` and
`CharRange` are `GetCharRange` and `get_char_range_2`, `Finish` is the common end of the
key handlers with scrolling and redrawing.  Rows below the text keep old contents in
the code; here they are `StaleRow`, which matches no line, so that a handler that
relied on one would be found.  `TextEditor` is the promise, with no screen: lines of
characters and a place in them.  `SaveFile` is followed down to `OpenFile`, which does not
truncate, and `FileDescriptor::Write`, which sets the size: saving an empty text writes
nothing and is reported as done, and a text with bytes that are no UTF-8 is written up
to the first of them before the save fails.  `UnsavedTextKept` names both.  Drawing and the
blinking cursor are left out.

## 4. What the runs check

| run | instance and bounds | checked |
|---|---|---|
| `scheduler` | 5 tasks (main, idle, three created: terminals, subtasks), one message queued per task, wake-ups to levels -1 (keep) and 2, task 5 may be put to sleep by others | `TypeOK`, `RunQueuesSound`, `NoMissedPreemption`, `NoLostMessage`, `WaiterRegistered`, `WaitersAlive`, `NoOvertaking`, `NoStarvation`, `JoinReturns` |
| `pipe` | 5 bytes, chunks of 2, reads of 1 and 3, writes of 0 to 5, one key, a right command that ends at any time; deadlock is checked | `SafeIfReadToEnd`, `NothingLost`, `ImplementsStream`, `PipelineEnds` |
| `xhci` | 3 ports, one device unsupported, one unplugged and plugged at will; a command ring of 5 TRBs (608,441 states) | `OneAddressingPort`, `SlotForItsPort`, `SlotsDistinct`, `RingHoldsCommands`, `FollowsDiagram`, `EveryDeviceConfigured` |
| `xhci_waiting` | 3 ports, unplugging | *violated*: `WaitingPortGetsItsTurn` |
| `frames` | 6 frames, every map of up to three regions, requests of 1 and 2, heap of 1 | `TypeOK`, `OneOwner`, `BitsMatch`, `ImplementsPool`, `CallsReturn` |
| `frames_race` | 5 frames, 2 tasks, preemption inside calls | *violated*: `OneOwner` |
| `spaces` | 2 tasks, an application and a file that is none, 10 frames, tables of 2 entries, 2 starts | `MappedIsAllocated`, `AllocatedIsMapped`, `NoAliasing`, `ImplementsPrivateMemory` |
| `spaces_image` | the same, a system call may fill a buffer in the image | *violated*: `ImagesIntact` |
| `files` | 8 clusters of two bytes, directory clusters of one entry, 4 names (two of the same file, one that is cut, a fourth), 2 descriptors, 3 opens, writes of a cluster and of one and a half | `ClustersOwnedOnce`, `FilesAreFound`, `ImplementsFiles` |
| `timers` | the clock, a terminal that runs two programs, 2 timers of theirs, 3 ticks at 2 per second, requests of 499, 1499 and 4200 ms (below a tick, between ticks, past the overflow) | `PeriodsKept`, `CursorBlinks`, `ImplementsAlarms` |
| `windows` | 2 terminals, one of which executes a line, 2 tasks without a window (a right side and its right side, or what follows `start`), 6 layers, no press of the mouse while messages are queued (3.62 million states) | `ActiveOnTop`, `TerminalKnowsActive`, `WindowsHaveOwners` |
| `editor` | a window of 3 by 2 cells, tabs of 2, texts of up to 4 lines and characters, a file with a two-cell character, one with a byte that is no UTF-8 and a line longer than the window, and no file | `ScreenMatchesText`, `UnsavedTextKept`, `KeysDoWhatTheySay` |

Why the bounds are enough.  `scheduler`: three created tasks share the default level,
wait for each other, and one of them is put to sleep from outside; with the idle and
the main task, rotations, insertions in front and moves between levels happen;
`MaxMsgs = 1` is enough to distinguish an empty queue from one that is
not, and no decision of the code depends on more.  `pipe`: 5 bytes
in chunks of 2 give a full chunk, a rest, a last short chunk and an empty write;
reads of 1 leave a rest and reads of 3 exceed a chunk; and the right command may end
between any two of them, or before the first.  `xhci`: with three ports one
is addressed while two wait; the ring of five TRBs, the smallest that the assumption
allows, is gone round several times.  One entry of the ring is the link and one must
stay free: with one TRB fewer the push that fills the ring turns over the cycle bit of a
link the controller has not followed yet.  The driver's ring has 32, which is enough for
30 ports.
`frames`: six frames hold a hole, a region in use and an available one in every
order; with one task calls do not overlap, which is what `Preemptible = FALSE`
means.  `spaces`: an image takes three frames, a running program three more, its
heap or file two; ten frames let both tasks load the image at the same time, run
at the same time and copy a page, and every allocation of the code fails in some
behaviour; the second start
shares the image, doubles its load, or follows a start that has ended or failed,
and uses its frames again; a third one would repeat one of these.  `files`: the
directory grows by a cluster at each name, a file takes up to three clusters and ends at a
cluster's end or within it, and the other descriptor writes the same file, shortens it, or
reads it between the pieces of a write; one name is cut to the same eleven characters as
another, one is the same in other letters.  `timers`: both terminal programs may leave timers behind,
and three ticks let a timer be set late, ring, and be set again.  `windows`: two terminals, the clock and
the programs on each side of a pipe compete for the top; six layers are three windows, open at a time or closed
before, and two tasks without a window are a pipe in a pipe.  Messages of programs and terminals
mix with queued ones as in the code; only the mouse waits, and the theorems do without this bound,
too.  `editor`: the program never opens a window smaller than its dialog, but its
handlers know width and height only as variables; three cells are cut by a tab, a wide
character and a line that is longer; two rows scroll as soon as there are three lines.

The three violations are disagreements between the code and its own comments,
quoted in `PROJECT.json` under `findings`: a port that waits for its turn waits for
ever once the addressed device is unplugged; `Allocate` can hand one frame to two
tasks; system calls write through the read-only mapping of a shared image.

## 5. Fairness

- `Scheduler`: strong fairness of `SwitchTask`: the timer is periodic and its
  interrupt stays pending while interrupts are disabled, so it is taken if it is
  possible again and again.  Weak fairness of the loop in `WaitFinish`, which runs
  until it sleeps.  Nothing makes a task sleep or send.  `NoStarvation` and `JoinReturns`
  assume `MainSleepsAgain` and `LevelsKept`: the main task outranks the others and starves
  them while it has messages, which the code intends, and so would a task that
  somebody keeps on a higher level.
- `Pipe`: the same timer; a task that gets the processor again and again makes
  progress (its own code is a loop), the left command ends (`FinishWrite`), and so does a right one that
  is told the end again and again.  A left side whose send was undefined need not go on: `PipelineEnds`
  excepts it.
- `Xhci`: the controller executes commands and completes transfers, the main task
  drains the event ring.  Nobody has to plug anything in.  `EveryDeviceConfigured` is
  about the behaviours in which nothing is unplugged; what happens otherwise is the
  violation that `xhci_waiting` shows.  `RingSpec` has the same fairness.
- `FrameAllocator`: a task inside a call gets the processor again.
- `AddressSpaces`, `Fat`, `Timers`, `Windows` and `Tedit` have safety properties only; that a
  timer rings in time is one of them.

Runs whose `.cfg` disables the deadlock check are of systems that may rightly stop:
no device is plugged, nobody asks for a frame, a bound (`MaxStarts`, `MaxOpens`, `MaxTick`,
`MaxRuns`) is reached, a fault in the kernel halts the machine, or the editor ends.

## 6. What is proved

`tlapm` checks every proof to its last leaf.  The assumptions are those named in
the modules (`MaxIdAssumption` and the like): constants are naturals, sets or
levels of the right kind, of any size.

**Task manager** (`TaskProofs`, which is about `TaskManager`, `Scheduler` and `Pipe`): `Spec => []P` for `TypeOK`,
`RunQueuesSound`, `NoMissedPreemption`, `NoLostMessage`, `WaiterRegistered`,
`WaitersAlive`, for every number of tasks, messages, levels passed to `Wakeup`.
Lemmas show, method by method, that `ManagerInv` is preserved: the
types, `RunQueuesOK` (a task is in the queue of its level once, exactly while
`running_`) and `CurrentLevelOK` (the current level's queue is not empty, nothing
above it waits without `level_changed_`).  Its core are lemmas on the predicate `Holds`
(queues hold exactly a given set of tasks, once each) under append, push to the
front, removal of the head and `Erase`.  `IInv` adds what the properties need to be inductive:
`JoinInv`, which ties a thread's `subtask` to `finish_waiter` and `finish_tasks` (a waiting thread is
alive and has a subtask, which nobody else has; a recorded waiter does wait for that task, which has
left no exit code; a subtask that is gone has left one), and
`AsleepInv` (a task asleep in its event loop has no message; one asleep in
`WaitFinish` is registered with a living task).  There is a lemma per action, and `Inductive` collects them.

`NobodyIsOvertaken` is `NoOvertaking`, a property of steps.  `Orderly` says of two versions of a queue that nobody
is in front of t in the second who was not in the first, but the current task; popping, `Erase` and pushing
another task at the back are orderly, and so is the current task's push to the front
when it changes its level.  `InOrder` is the same of all queues of the object, and holds of
each method around every task that runs, keeps its level and is not the current one: the task
that `Wakeup` pushes was not running or changes its level, so it is another one.

**Pipe** (`TaskProofs`): for every number of bytes, every chunk size and every sizes of reads and
writes, and wherever the right command ends, `SafeIfReadToEnd` (`EndIsLast`), `NothingLost`, and that every step of the pipe is a step of
`ByteStream` or none, which is the safety part of `ImplementsStream`; that the end is reached is
left to TLC.  `QueueOK` says that the bytes the reader has not seen yet are, in order, the rest of
its chunk, the chunks in its queue and nothing else, with the end message behind them exactly if the pipe
is closed; `TasksInv` ties the two programs to the fields of the task manager (who may
have exited, who waits for whom); `ReaderInv` says where the reader is inside `Read`.  The
methods of the manager come in through the same lemmas as for `Scheduler`.

**Frame allocator** (`FrameAllocatorProofs`): under `~Preemptible`, for every memory
map, bitmap size, request and number of tasks, `TypeOK`, `OneOwner`, `BitsMatch`, and
that the allocator implements `FramePool`.  The inductive invariant `IInv` has four
parts: `BootInv`, what the bits mean while the map is read (frames below
`available_end` are marked unless available); `CallInv`, which says of a call in
progress that the frames scanned are free, and that no run that starts further
left is (the reason why a refusal is justified); `PoolInv`, the bits against the
regions in use; `OneBusy`, that at most one call is in progress, which is the only
use of `~Preemptible`.  `AllocatorImplementsPool` shows that `Init` maps to `Init`
and each step to a step of `FramePool` or a stutter: the scan's last step is
`Refuse` or nothing, the last `Mark` is `Grant`.

**xHCI** (`CommandRingProofs`): for every number of ports and whichever of them are
removable or supported, `TypeOK` (proved only), `OneAddressingPort`, `SlotForItsPort`, `SlotsDistinct`,
`FollowsDiagram` and `OneCommandPerPort`.  None of these is inductive, since an answer may
be handled long after the command was given.  `IInv` therefore says of everything that is
under way what it implies: a command that is not executed (`Unexecuted`) or an event that is posted
(`Posted`) pins down the phase of its port, the state of its slot, and `addressing_port`; and a port
has at most one command or answer under way (`Unique`).  These are operators of the phases,
slots and queues (`Good`), so that a handler is the composition of small lemmas about pushing, popping and moving a
phase.

For the ring, `RingImplementsXhci` says that adding the buffer restricts nothing that matters, so that the
theorems above hold over it, and `RingIsFaithful` that for every number of ports and every
`buf_size > NumPorts + 1` the controller finds exactly the commands that were pushed, in order.  Its
invariant `RInv` lays the commands out from the controller's index (`Laid`): each stands at its place, across the link, with
the cycle bit of its round, and every other entry has the bit that makes the controller stop.
`CommandsFit`, that there are never more commands than ports, follows from `Unique` by counting; this is
what makes the blind `Push` safe.

**Windows** (`WindowsProofs`): `Spec => []ActiveOnTop` for any number of terminals, tasks without a window,
lines, layers and messages.  By itself it is not inductive: a terminal shows its window some time after
it has made it, and a request to close a window waits in a queue.  `IInv` adds which layers
may still be named: a window made and not yet shown (`Hidden`) exists, is not in the
stack, is nobody else's, and neither a message nor a program names it, so nobody closes
it before it is shown; messages and programs only name layers of windows (`Shown`), never the
desktop, the console or the mouse.  The stack has lemmas of its own: `HideIs`, `InsertedIs` and `RaisedIs`,
that `Activate`, which moves a layer to the bottom, looks where the mouse is and moves
the layer below it, ends with the layer right below the mouse and everything else in its order.

`WindowsHaveOwners` and `TerminalKnowsActive` rest on four further parts.  `LineInv`: which tasks have a right
side, and that those without a window own none, so that a pipe of theirs touches no entry but that of layer 0.  `MapInv`: every layer in
`layer_task_map` is there for a reason (`Cares`): it is the window of a terminal or of its program and the map names
that terminal, or, while the pipe runs, its right side, or `disowned` says why not; and a terminal that
works has its window in the map.  `CloseInv`: a request to close names a window of the terminal in whose
queue it is, never another terminal's (`Closable`).  `KnowInv`: unless it is in `missed`, what a terminal
believes after the last news in its queue is whether the active layer is one that the map has for its sake.

**Address spaces** (`AddressSpacesProofs`): for every number of tasks, frames, starts,
applications, and tables of any size, `MappedIsAllocated`, `AllocatedIsMapped` (every frame in use belongs to
somebody or is named `lost`) and `NoAliasing`.  `SpaceInv` says that the address spaces somebody can
reach are trees whose frames are in use (`WellFormed`); that two of them never share a table, and share a
page only if it is read-only in both (`Apart`); that each has one user, an image one name (`OwnerInv`); and
at each place in `ExecuteFile` what the page map looks like (`PlaceInv`): empty, an
image, a copy of one, a program's, whose read-only pages are an image's or `lost`.  The last part is why
`CleanPageMaps` frees all it must and nothing that is shared; the properties alone are not inductive.
The functions of `paging.cpp` are recursive functions of the page's number.  What each does is stated as a
relation between the memory before and after (`Takes`, `Extends`, `Copied`, `Cleaned`) and shown
from the least number at which it would fail (`LeastNumber`), which is induction without the
library's schema.

`ProgramsHaveTheirMemory` is that `AddressSpaces` implements `PrivateMemory`.  Its hypothesis is that the
buffers that programs pass to system calls are not in the pages of a segment (`KernelBuffers`
and `ImagePages` are disjoint): the run `spaces_image` shows that it is needed, `spaces` checks the refinement where it
holds, and a program that passes a static buffer breaks it; that is the finding, not something the
code rules out.  `ContentInv` is what `SpaceInv` lacks: every image holds its file (`ImagesInv`, from which
`ImagesStayIntact` follows), so does the page map of a start in progress, and in a program's only the image's pages
are read-only (`ContentPlace`).  A step of `t` changes the contents of no page outside
its own tables and private pages (`Rewrites`, `Own`), which by `Apart` nobody else reads
(`OthersReads`); what it does to its own program's memory is a step of `PrivateMemory` or nothing (`Moves`): page
faults are `Quiet`, and a store is to a page that `NoAliasing` gives to one address only.

**Text editor** (`TeditProofs`): for every window, every size of a tab and every text, `ScreenMatchesText`,
`KeysDoWhatTheySay` and `UnsavedTextKept`.  `TextInv` says that the text is a
sequence of lines, `scroll_y` a natural, that the drawn rows are fresh and the cursor's row is in the window
(`IndexIsFresh`).  That part of the argument leaves open what a
line looks like (`Layout`): `Kept` says which rows a handler may leave alone, those whose line is
the same as before, and `FinishShows` that then, after the common end of the handlers, no row is stale.
There is a lemma per key that gives the rows it draws again.  `UnsavedTextKept` follows, step by step, from what
the keys do to `edited` (`KeysTell`) and from `SaveFileTells`, what a save leaves in the file.

The other part is where the cursor is in its row.  `Ends` never falls and depends on the characters
before only (`EndsGrow`, `SameBeginning`), every cell of a row belongs to the character
whose `Ends` pass it, so the two scans of `GetCharRange` return the cells of one character
(`RangeAt`, `RangeSome`).  `At` says that the cursor is behind the first n characters of its line
and behind no fewer (those that do not fit all end at the edge).  For each handler a lemma shows that it `Lands` where `TextEditor` says:
the text is the one that `TextEditor` makes of it and the cursor is `At` its place in it.
`PlaceInv`, which is `TextInv` and that the cursor is `At` some place, is therefore inductive, and the two
theorems follow.  The induction over the characters of a line is by the least counterexample.

**Timers** (`TimersProofs`): `PeriodsKept` and `CursorBlinks`, for every number of terminals, programs, timers,
every frequency, period and overflow.  A timer is somewhere between the call that makes it and the handler of its message:
prepared (`hand`), in the heap, or rung (`msgs`).  `RingInv` says that the heap has one task timer, one
copy, at most a period ahead; `ClockInv` that the clock's one timer is in exactly one
of the three places, with the time of the next second, and `TypeInv` that nobody else's timers carry its
name; `CursorInv` that a terminal has at least one blinking chain unless
one was swallowed, and at most one more than its programs have left behind.  The last is inductive only
together with the timers a program has still pending, which `Exit` adds to `left`:
`Chains(t) + Pending(t, AppValues) <= 1 + left[t]`, in the shell.  The heap is a bag; `Held` counts its copies
one by one, so that pushing and popping (`Added`, `Taken`) change a cardinality by one, and no induction on bags is needed.

`TimersAreAlarms` is the refinement.  `TickInv` is about a tick in progress: what is new in a queue came out of
the heap since `Tick` began, each timer as often as the heap has lost it (`SinceTick`), in the order of the
times, and all of it is due; what is left is not earlier than what has rung.  So when `Tick` returns, its messages
are a ringing of exactly the alarms that are due, in order.  `HandInv` is that the time of a
prepared timer is one that `Alarms` allows, with the truncation and the overflow.  `Tick` and `Expire` are stutters,
`Return` is `Advance`, and a task's calls are `Ask`, `Set`, `Take` and `End`.

**Fat** (`FatProofs`): `ClustersOwnedOnce` and `FilesAreFound`, for volumes, directories and files of any size, whatever
steps of whatever calls mix.  `Walk(F, c, n)` is the cluster n links behind c in a table F; that the recursion of `Behind` has
a function is a lemma (`WalkExists`: its initial parts exist and agree).  `Owned(F, A)` says that the clusters in use
are chains that begin at the clusters A, each used once.  From it follows that a cluster is at one place of
one chain (`WalkOnce`), so a chain has no more places than the volume has clusters (`WalkBound`, by the
pigeonhole principle): every chain ends, and every scan of a directory with it.  `Appended` is what
`AllocateClusterChain` and `ExtendCluster` do to the table; it keeps `Owned` (`AppendOwned`), it keeps what each chain has
(`AppendKeeps`) and leaves the other chains as they are (`AppendElsewhere`).  `Volume` adds that each file has a chain of its own and that
in a directory no unused entry comes before a used one and that no entry comes before the one of an 8.3 name
that is equal to it (`Scanned`), which is what makes `FindFile` and `UnusedEntry` right.  `Valid` is what a descriptor knows: its current clusters are those of its offsets in the
chain of its file, exactly for reading, and for writing exactly if no cluster of the file was skipped.
`IInv`, the conjunction, is inductive; without `Valid` a `Write` could extend a chain of another file.

`VolumesKeepFiles` is the refinement: `Fat` implements `Files`, over the same invariant.  The body of a file is what is seen
through its chain (`BodyIn`).  A new cluster changes no body, because an unused cluster is blank (`Unwritten`) and
bytes behind a chain are blank in `Files` (`BytesGrown`, `BytesBegun`), so `OpenFile`, `BeginWrite` and
the growth in a `WriteChunk` do to `Files` what the call promises.  `Chunk` says what a `WriteChunk` stores, and is a `Put` of 1 to
`bytes_per_cluster` bytes: of its own file at the write position (`StoredBytes`, where `WritesAt` says that the current cluster is the one of
the offset), and of other files nothing, because chains are apart (`OthersStay`); a file becomes `holed` only if
more than a cluster was left to write.  `ReadsAt` says the same of the read position, so that `Read` and `Load` return the
bytes there (`BytesRead`), and `EndIsBehind` that a descriptor is `lost` only at or behind the size.

Only model-checked: liveness (`NoStarvation`, `JoinReturns`, `PipelineEnds`,
`EveryDeviceConfigured`, `CallsReturn`, the end of `ImplementsStream`) and anything with `ENABLED`,
which is outside the prover's reach, as are the library's induction theorems and `RECURSIVE` operators
(there are none in these modules).

## 7. What is not modelled

Line editing, history and escape sequences of the terminal, the event ring, the
class drivers and the positions of windows are planned (section 2).  Register-level code, PCI,
ACPI, graphics, fonts, run-time
support, the loader and the other applications are not: `PROJECT.json` gives the reason
for each.  Of the 130,000 lines of the repository 115,000 are `duktape` and `stb_image`, vendored
libraries that two applications include; they are left out for good, so the share of the lines that the
models stand for stays small.  Known simplifications: calls to the task manager and the timer heap with
interrupts enabled are treated as sections (they are data races, whose outcome
C++ leaves undefined); `Finish` frees the stack it runs on; the failure of
commands of the xHC other than through unplugging; TLB contents; the files of
`AddressSpaces` do not change while they are loaded; a volume that is full, where the
search for a free cluster does not end; the editor's `draw_cursor`, which may look at a line that the key
has just removed (it only draws).
