-------------------------------- MODULE Pipe --------------------------------
(***************************************************************************)
(* `left | right` in a terminal: PipeDescriptor                            *)
(* (src/kernel/console/terminal.cpp), which sends what the left command    *)
(* writes to the task of the right command in kPipe messages, on top of    *)
(* the task manager.                                                       *)
(*                                                                         *)
(* Writer is the terminal's task: Terminal::ExecuteLine creates the right  *)
(* command's task, runs the left command, sends the empty chunk that ends  *)
(* the stream and waits for the task.  Reader, the right command, reads as *)
(* much as it likes, nothing at all included (echo, ls, an unknown         *)
(* command), and finishes.  The stream's bytes are numbered: a chunk is    *)
(* the positions [from, to), empty when they are equal.                    *)
(***************************************************************************)
EXTENDS TaskManager

CONSTANTS ChunkSize,  \* sizeof Message::arg.pipe.data
          MaxBytes,   \* bound: bytes the left command writes
          ReadLens,   \* the `len` arguments of Read
          MaxKeys     \* bound: keys pushed while the pipe is in use

Chunk(from, to) == [type |-> "kPipe", from |-> from, to |-> to]
Key == [type |-> "kKeyPush"]

Messages ==
  [type : {"kPipe"}, from : 0 .. MaxBytes, to : 0 .. MaxBytes] \cup {Key}

ASSUME PipeAssumption ==
  /\ MaxId >= 4
  /\ Messages \subseteq Message
  /\ ChunkSize \in Nat \ {0} /\ MaxBytes \in Nat /\ MaxKeys \in Nat
  /\ ReadLens \subseteq Nat \ {0}

Writer == 3
Reader == 4

VARIABLES
  writer,  \* pc; `sent` bytes, of which the current Write wants `end`;
           \* "undefined": a message was sent to a task that is freed memory
  fd,      \* the PipeDescriptor: data_[0 .. len_) and closed_
  reader,  \* pc; `len` of the current Read; `got` by the last one; `eof`
  keys     \* keys pushed

pipe_vars == <<tm, writer, fd, reader, keys>>

Size(data) == data.to - data.from
SmallerOf(m, n) == IF m < n THEN m ELSE n

(* The main task has started the terminal and sleeps.                      *)
PipeInit ==
  /\ tm = Sleep(Wakeup(NewTask(InitialManager), Writer, -1), MainId)
  /\ writer = [pc |-> "start", sent |-> 0, end |-> 0]
  /\ fd = [from |-> 0, to |-> 0, closed |-> FALSE]
  /\ reader = [pc |-> "run", len |-> 0, got |-> [from |-> 0, to |-> 0], eof |-> FALSE]
  /\ keys = 0

-----------------------------------------------------------------------------
(* The left side.                                                          *)

(* task_.SendMessage(chunk): a call through the reference PipeDescriptor   *)
(* keeps; nothing looks the task up.  Once the reader has finished its     *)
(* Task is freed and the call undefined.  Memory that nothing has reused   *)
(* still says running_, and the message goes nowhere; of any other outcome *)
(* nothing can be said, and the left side takes no further step.           *)
SendToReader(chunk, next) ==
  \/ /\ tm' = SendMessage(tm, Reader, chunk)
     /\ writer' = next
  \/ /\ Reader \notin tm.tasks
     /\ writer' = [writer EXCEPT !.pc = "undefined"]
     /\ UNCHANGED tm

(* The part of ExecuteLine for a line with a pipe, up to the command.      *)
CreateReader ==
  /\ Current = Writer /\ writer.pc = "start"
  /\ tm' = Wakeup(NewTask(tm), Reader, -1)
  /\ writer' = [writer EXCEPT !.pc = "run"]
  /\ UNCHANGED <<fd, reader, keys>>

(* PipeDescriptor::Write up to its loop.                                   *)
Write(len) ==
  /\ Current = Writer /\ writer.pc = "run"
  /\ writer.sent + len <= MaxBytes
  /\ writer' = [writer EXCEPT !.pc = "write", !.end = writer.sent + len]
  /\ UNCHANGED <<tm, fd, reader, keys>>

(* Seeded fault: a do-while loop, which sends a chunk for an empty write.  *)
SendChunkFirst ==
  /\ Current = Writer /\ writer.pc = "write"
  /\ LET to == writer.sent + SmallerOf(writer.end - writer.sent, ChunkSize)
     IN  SendToReader(Chunk(writer.sent, to),
                      [writer EXCEPT !.sent = to, !.pc = IF to = writer.end THEN "run" ELSE @])
  /\ UNCHANGED <<fd, reader, keys>>

(* Its loop: one chunk, or the return.                                     *)
SendChunk ==
  /\ Current = Writer /\ writer.pc = "write"
  /\ IF writer.sent < writer.end
     THEN LET to == writer.sent + SmallerOf(writer.end - writer.sent, ChunkSize)
          IN  SendToReader(Chunk(writer.sent, to), [writer EXCEPT !.sent = to])
     ELSE /\ writer' = [writer EXCEPT !.pc = "run"]
          /\ UNCHANGED tm
  /\ UNCHANGED <<fd, reader, keys>>

FinishWrite ==
  /\ Current = Writer /\ writer.pc = "run"
  /\ SendToReader(Chunk(writer.sent, writer.sent), [writer EXCEPT !.pc = "wait"])
  /\ UNCHANGED <<fd, reader, keys>>

(* The end of ExecuteLine: a pass of WaitFinish's loop.                    *)
WaitFinish ==
  /\ Current = Writer /\ writer.pc \in {"wait", "asleep"}
  /\ IF tm.finish_tasks[Reader] = NoCode
     THEN /\ tm' = AwaitFinish(tm, Reader)
          /\ writer' = [writer EXCEPT !.pc = "asleep"]
     ELSE /\ tm' = TakeExitCode(tm, Reader)
          /\ writer' = [writer EXCEPT !.pc = "done"]
  /\ UNCHANGED <<fd, reader, keys>>
-----------------------------------------------------------------------------
(* The right side.                                                         *)

(* Seeded faults: the rest is forgotten; it is not moved to the front.     *)
DeliverDroppingRest(data, len) ==
  LET mid == data.from + SmallerOf(Size(data), len)
  IN  /\ reader' = [reader EXCEPT !.pc = "run", !.got = [from |-> data.from, to |-> mid]]
      /\ fd' = [fd EXCEPT !.from = mid, !.to = mid]

DeliverWithoutMove(data, len) ==
  LET n == SmallerOf(Size(data), len)
  IN  /\ reader' = [reader EXCEPT !.pc = "run", !.got = [from |-> data.from, to |-> data.from + n]]
      /\ fd' = [fd EXCEPT !.from = data.from, !.to = data.to - n]

(* memcpy of at most len of the bytes of `data`, the rest goes to data_.   *)
Deliver(data, len) ==
  LET mid == data.from + SmallerOf(Size(data), len)
  IN  /\ reader' = [reader EXCEPT !.pc = "run", !.got = [from |-> data.from, to |-> mid]]
      /\ fd' = [fd EXCEPT !.from = mid, !.to = data.to]

(* Seeded fault: the end is told once only.                                *)
ReturnEndOnce ==
  /\ reader' = [reader EXCEPT !.pc = "run", !.eof = TRUE]
  /\ UNCHANGED fd

ReturnEnd ==
  /\ reader' = [reader EXCEPT !.pc = "run", !.eof = TRUE]
  /\ fd' = [fd EXCEPT !.closed = TRUE]

(* PipeDescriptor::Read up to its loop.                                    *)
Read(len) ==
  /\ Current = Reader /\ reader.pc = "run"
  /\ CASE Size(fd) > 0 -> Deliver(fd, len)
       [] Size(fd) = 0 /\ fd.closed -> ReturnEnd
       [] OTHER -> /\ reader' = [reader EXCEPT !.pc = "read", !.len = len]
                   /\ UNCHANGED fd
  /\ UNCHANGED <<tm, writer, keys>>

(* A pass of its loop.  It sleeps with interrupts disabled; a message that *)
(* is no chunk is dropped.                                                 *)
ReceiveChunk ==
  /\ Current = Reader /\ reader.pc \in {"read", "asleep"}
  /\ IF tm.msgs[Reader] = <<>>
     THEN /\ tm' = Sleep(tm, Reader)
          /\ reader' = [reader EXCEPT !.pc = "asleep"]
          /\ UNCHANGED fd
     ELSE LET msg == Head(tm.msgs[Reader])
          IN  /\ tm' = PopMessage(tm, Reader)
              /\ CASE msg.type # "kPipe" ->
                        reader' = [reader EXCEPT !.pc = "read"] /\ UNCHANGED fd
                   [] msg.type = "kPipe" /\ Size(msg) = 0 -> ReturnEnd
                   [] OTHER -> Deliver(msg, reader.len)
  /\ UNCHANGED <<writer, keys>>

(* The right command returns, whatever it has read; TaskTerminal has       *)
(* exit_after_command.                                                     *)
FinishReader ==
  /\ Current = Reader /\ reader.pc = "run"
  /\ \E code \in ExitCode : tm' = Finish(tm, code)
  /\ reader' = [reader EXCEPT !.pc = "done"]
  /\ UNCHANGED <<writer, fd, keys>>
-----------------------------------------------------------------------------
(* Interrupts.  A task that sleeps in the loop of Read or of WaitFinish is *)
(* resumed with interrupts disabled.                                       *)
Interruptible ==
  /\ ~(Current = Reader /\ reader.pc = "asleep")
  /\ ~(Current = Writer /\ writer.pc = "asleep")

PreemptTask ==
  /\ Interruptible
  /\ tm' = RotateCurrentRunQueue(tm, FALSE)
  /\ UNCHANGED <<writer, fd, reader, keys>>

(* layer_task_map sends the keys of the terminal's window to Reader.       *)
PushKey ==
  /\ Interruptible
  /\ writer.pc # "start"
  /\ keys < MaxKeys
  /\ keys' = keys + 1
  /\ tm' = SendMessage(tm, Reader, Key)
  /\ UNCHANGED <<writer, fd, reader>>

WriterStep ==
  CreateReader \/ (\E len \in 0 .. MaxBytes : Write(len)) \/ SendChunk \/ FinishWrite \/ WaitFinish

ReaderStep ==
  (\E len \in ReadLens : Read(len)) \/ ReceiveChunk \/ FinishReader

PipeNext == WriterStep \/ ReaderStep \/ PreemptTask \/ PushKey

PipeSpec == PipeInit /\ [][PipeNext]_pipe_vars

(* The timer keeps interrupting; a task that gets the processor again and  *)
(* again makes progress, the left command ends, and so does a right        *)
(* command that keeps being told the end.                                  *)
PipeFairness ==
  /\ SF_pipe_vars(PreemptTask)
  /\ SF_pipe_vars(WriterStep)
  /\ SF_pipe_vars(FinishWrite)
  /\ SF_pipe_vars(ReaderStep)
  /\ SF_pipe_vars(reader.eof /\ FinishReader)

FairPipeSpec == PipeSpec /\ PipeFairness
-----------------------------------------------------------------------------
(* PipeDescriptor keeps a Task& and sends without looking the task up.     *)
(* The task can be gone while Write or FinishWrite may still send only if  *)
(* the right command ended by itself: one that reads until it is told the  *)
(* end is never outlived by a write, for it is told after the last one.    *)
SafeIfReadToEnd ==
  writer.pc \in {"run", "write", "undefined"} /\ Reader \notin tm.tasks => ~reader.eof

(* As long as the right command runs, every byte sent is in exactly one    *)
(* place, in order: read, then in data_, then in the messages queued.      *)
Received == IF Size(fd) > 0 THEN fd.to ELSE reader.got.to

Chunks(q) == {i \in DOMAIN q : q[i].type = "kPipe"}

(* The chunks of q continue the stream from one position to another.       *)
Continue(q, from, to) ==
  /\ Chunks(q) = {} => from = to
  /\ \A i \in Chunks(q) :
       /\ (\A j \in Chunks(q) : i <= j) => q[i].from = from
       /\ (\A j \in Chunks(q) : j <= i) => q[i].to = to
       /\ \A j \in Chunks(q) :
            i < j /\ (\A k \in Chunks(q) : k <= i \/ j <= k) => q[i].to = q[j].from

NothingLost == Reader \in tm.tasks =>
  /\ Size(fd) > 0 => fd.from = reader.got.to
  /\ Continue(tm.msgs[Reader], Received, writer.sent)

(* What the pipe promises, with the Write calls refined into chunks.       *)
Stream == INSTANCE ByteStream WITH
  written <- writer.sent,
  read    <- reader.got,
  closed  <- writer.pc \in {"wait", "asleep", "done"},
  ended   <- reader.eof,
  left    <- reader.pc = "done"

ImplementsStream == Stream!Spec

(* The pipeline terminates, at whatever moment the right command ends: the *)
(* terminal gets its exit code and its prompt back, unless it has sent to  *)
(* a task that no longer exists.                                           *)
PipelineEnds == <>(writer.pc \in {"done", "undefined"})
=============================================================================
