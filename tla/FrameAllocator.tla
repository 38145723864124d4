--------------------------- MODULE FrameAllocator ---------------------------
(***************************************************************************)
(* BitmapMemoryManager (src/kernel/memory/memory_manager.cpp): the physical*)
(* frames, handed out in runs by a first-fit scan over a bitmap.           *)
(*                                                                         *)
(* Boot is InitializeMemoryManager and the allocations of the start-up     *)
(* code, alone on the processor; the tasks run afterwards.  A step reads   *)
(* or writes one bit.  No caller disables interrupts: with Preemptible,    *)
(* tasks interleave inside the calls; without, a call runs to its end.     *)
(***************************************************************************)
EXTENDS Integers, Sequences

CONSTANTS Task,          \* the tasks that allocate frames
          FrameCount,    \* kFrameCount
          MemoryMaps,    \* the memory maps the loader may pass
          BootRequests,  \* num_frames of the heap and of the TSS's stacks
          Requests,      \* num_frames of the tasks' requests
          Preemptible    \* a task may lose the processor inside a call

Boot == "boot"
Owner == Task \cup {Boot}
Frame == 0 .. FrameCount - 1

(* A memory map lists the regions in the order of their addresses.         *)
Descriptor == [start : Frame, pages : 1 .. FrameCount, available : BOOLEAN]
EndOf(desc) == desc.start + desc.pages
Sorted(map) ==
  /\ \A k \in DOMAIN map : EndOf(map[k]) <= FrameCount
  /\ \A j, k \in DOMAIN map : j < k => EndOf(map[j]) <= map[k].start

ASSUME FrameAssumption ==
  /\ Boot \notin Task
  /\ FrameCount \in Nat \ {0}
  /\ MemoryMaps \subseteq {map \in Seq(Descriptor) : Sorted(map)}
  /\ BootRequests \in Seq(Nat \ {0})
  /\ Requests \subseteq Nat \ {0}
  /\ Preemptible \in BOOLEAN

VARIABLES memory_map,  \* what the loader passed
          alloc_map,   \* the frames whose bit is 1
          range,       \* range_begin_ and range_end_
          boot,        \* next descriptor, available_end, requests served
          call,        \* call[o]: what o executes, and its variables
          regions,     \* regions[o]: the regions o was given and still uses
          refused      \* refused[o]: o's last Allocate returned an error

vars == <<memory_map, alloc_map, range, boot, call, regions, refused>>

NoCall == [pc |-> "idle", num |-> 0, start |-> 0, i |-> 0]
Region(c) == [start |-> c.start, num |-> c.num]

Init ==
  /\ memory_map \in MemoryMaps
  /\ alloc_map = {}
  /\ range = [begin |-> 0, end |-> FrameCount]
  /\ boot = [desc |-> 1, available_end |-> 0, served |-> 0]
  /\ call = [o \in Owner |-> NoCall]
  /\ regions = [o \in Owner |-> {}]
  /\ refused = [o \in Owner |-> FALSE]

GetBit(f) == f \in alloc_map
-----------------------------------------------------------------------------
(* InitializeMemoryManager.                                                *)

(* Seeded fault: the holes of the memory map stay free.                    *)
MarkDescriptorOnly ==
  /\ boot.desc <= Len(memory_map)
  /\ LET desc == memory_map[boot.desc]
     IN  /\ alloc_map' = alloc_map \cup
              (IF desc.available THEN {} ELSE desc.start .. EndOf(desc) - 1)
         /\ boot' = [boot EXCEPT !.desc = @ + 1,
                       !.available_end = IF desc.available THEN EndOf(desc) ELSE @]
  /\ UNCHANGED <<memory_map, range, call, regions, refused>>

(* One descriptor: mark the hole before it, and its frames if they are not *)
(* available.                                                              *)
MarkDescriptor ==
  /\ boot.desc <= Len(memory_map)
  /\ LET desc == memory_map[boot.desc]
         hole == boot.available_end .. desc.start - 1
     IN  /\ alloc_map' = alloc_map \cup hole \cup
              (IF desc.available THEN {} ELSE desc.start .. EndOf(desc) - 1)
         /\ boot' = [boot EXCEPT !.desc = @ + 1,
                       !.available_end = IF desc.available THEN EndOf(desc) ELSE @]
  /\ UNCHANGED <<memory_map, range, call, regions, refused>>

SetMemoryRange ==
  /\ boot.desc = Len(memory_map) + 1
  /\ range' = [begin |-> 1, end |-> boot.available_end]
  /\ boot' = [boot EXCEPT !.desc = @ + 1]
  /\ UNCHANGED <<memory_map, alloc_map, call, regions, refused>>

MapRead == boot.desc > Len(memory_map) + 1

(* The start-up code is done with its allocations; it calls exit if one of *)
(* them fails.                                                             *)
TasksRun ==
  /\ MapRead
  /\ boot.served = Len(BootRequests)
  /\ call[Boot].pc = "idle"
  /\ ~refused[Boot]
-----------------------------------------------------------------------------
(* Who may take a step.                                                    *)
OnProcessor(o) == Preemptible \/ \A p \in Owner \ {o} : call[p].pc = "idle"

Enter(o, pc, num, start) ==
  /\ call[o].pc = "idle"
  /\ OnProcessor(o)
  /\ call' = [call EXCEPT ![o] = [pc |-> pc, num |-> num, start |-> start, i |-> 0]]

(* Allocate: the scan starts at the range's first frame.                   *)
Allocate(o, num_frames) ==
  /\ Enter(o, "scan", num_frames, range.begin)
  /\ refused' = [refused EXCEPT ![o] = FALSE]
  /\ UNCHANGED <<memory_map, alloc_map, range, regions>>

BootAllocate ==
  /\ MapRead
  /\ boot.served < Len(BootRequests)
  /\ ~refused[Boot]
  /\ Allocate(Boot, BootRequests[boot.served + 1])
  /\ boot' = [boot EXCEPT !.served = @ + 1]

TaskAllocate(t) ==
  /\ TasksRun
  /\ \E n \in Requests : Allocate(t, n)
  /\ UNCHANGED boot

(* Seeded faults: the end of the range is taken for its last frame; the    *)
(* scan goes on at the frame that is in use.                               *)
ScanPastEnd(o) ==
  /\ call[o].pc = "scan" /\ OnProcessor(o)
  /\ LET c == call[o]
         f == c.start + c.i
     IN  \/ /\ c.i < c.num /\ f > range.end
            /\ call' = [call EXCEPT ![o] = NoCall]
            /\ refused' = [refused EXCEPT ![o] = TRUE]
         \/ /\ c.i < c.num /\ f <= range.end
            /\ call' = [call EXCEPT ![o] =
                 IF GetBit(f) THEN [c EXCEPT !.start = f + 1, !.i = 0]
                 ELSE [c EXCEPT !.i = @ + 1]]
            /\ UNCHANGED refused
         \/ /\ c.i = c.num
            /\ call' = [call EXCEPT ![o] = [c EXCEPT !.pc = "mark", !.i = 0]]
            /\ UNCHANGED refused
  /\ UNCHANGED <<memory_map, alloc_map, range, boot, regions>>

ScanAgain(o) ==
  /\ call[o].pc = "scan" /\ OnProcessor(o)
  /\ LET c == call[o]
         f == c.start + c.i
     IN  \/ /\ c.i < c.num /\ f >= range.end
            /\ call' = [call EXCEPT ![o] = NoCall]
            /\ refused' = [refused EXCEPT ![o] = TRUE]
         \/ /\ c.i < c.num /\ f < range.end
            /\ call' = [call EXCEPT ![o] =
                 IF GetBit(f) THEN [c EXCEPT !.start = f, !.i = 0]
                 ELSE [c EXCEPT !.i = @ + 1]]
            /\ UNCHANGED refused
         \/ /\ c.i = c.num
            /\ call' = [call EXCEPT ![o] = [c EXCEPT !.pc = "mark", !.i = 0]]
            /\ UNCHANGED refused
  /\ UNCHANGED <<memory_map, alloc_map, range, boot, regions>>

(* One pass of Allocate's loops: give up at the end of the range, skip a   *)
(* run that holds a used frame, or go on to the next frame of the run.     *)
Scan(o) ==
  /\ call[o].pc = "scan" /\ OnProcessor(o)
  /\ LET c == call[o]
         f == c.start + c.i
     IN  \/ /\ c.i < c.num /\ f >= range.end
            /\ call' = [call EXCEPT ![o] = NoCall]
            /\ refused' = [refused EXCEPT ![o] = TRUE]
         \/ /\ c.i < c.num /\ f < range.end
            /\ call' = [call EXCEPT ![o] =
                 IF GetBit(f) THEN [c EXCEPT !.start = f + 1, !.i = 0]
                 ELSE [c EXCEPT !.i = @ + 1]]
            /\ UNCHANGED refused
         \/ /\ c.i = c.num
            /\ call' = [call EXCEPT ![o] = [c EXCEPT !.pc = "mark", !.i = 0]]
            /\ UNCHANGED refused
  /\ UNCHANGED <<memory_map, alloc_map, range, boot, regions>>

(* Seeded fault: only the first frame of the run is marked.                *)
MarkFirst(o) ==
  /\ call[o].pc = "mark" /\ OnProcessor(o)
  /\ LET c == call[o]
     IN  /\ alloc_map' = alloc_map \cup {c.start}
         /\ call' = [call EXCEPT ![o] = NoCall]
         /\ regions' = [regions EXCEPT ![o] = @ \cup {Region(c)}]
  /\ UNCHANGED <<memory_map, range, boot, refused>>

(* One pass of MarkAllocated's loop; after the last, Allocate returns.     *)
Mark(o) ==
  /\ call[o].pc = "mark" /\ OnProcessor(o)
  /\ LET c == call[o]
     IN  /\ alloc_map' = alloc_map \cup {c.start + c.i}
         /\ IF c.i + 1 < c.num
            THEN /\ call' = [call EXCEPT ![o].i = @ + 1]
                 /\ UNCHANGED regions
            ELSE /\ call' = [call EXCEPT ![o] = NoCall]
                 /\ regions' = [regions EXCEPT ![o] = @ \cup {Region(c)}]
  /\ UNCHANGED <<memory_map, range, boot, refused>>

(* Free(start_frame, num_frames), by a task that gives a region back.      *)
Free(t) ==
  /\ TasksRun
  /\ \E r \in regions[t] :
       /\ Enter(t, "free", r.num, r.start)
       /\ regions' = [regions EXCEPT ![t] = @ \ {r}]
  /\ UNCHANGED <<memory_map, alloc_map, range, boot, refused>>

(* Seeded fault: the loop ends one frame early.                            *)
ClearAllButLast(o) ==
  /\ call[o].pc = "free" /\ OnProcessor(o)
  /\ LET c == call[o]
     IN  IF c.i + 1 < c.num
         THEN /\ alloc_map' = alloc_map \ {c.start + c.i}
              /\ call' = [call EXCEPT ![o].i = @ + 1]
         ELSE /\ call' = [call EXCEPT ![o] = NoCall]
              /\ UNCHANGED alloc_map
  /\ UNCHANGED <<memory_map, range, boot, regions, refused>>

(* One pass of Free's loop.                                                *)
Clear(o) ==
  /\ call[o].pc = "free" /\ OnProcessor(o)
  /\ LET c == call[o]
     IN  /\ alloc_map' = alloc_map \ {c.start + c.i}
         /\ call' = IF c.i + 1 < c.num THEN [call EXCEPT ![o].i = @ + 1]
                    ELSE [call EXCEPT ![o] = NoCall]
  /\ UNCHANGED <<memory_map, range, boot, regions, refused>>

Progress(o) == Scan(o) \/ Mark(o) \/ Clear(o)

Next ==
  \/ MarkDescriptor \/ SetMemoryRange \/ BootAllocate
  \/ \E t \in Task : TaskAllocate(t) \/ Free(t)
  \/ \E o \in Owner : Progress(o)

Spec == Init /\ [][Next]_vars

(* A task inside a call gets the processor again.                          *)
FairSpec == Spec /\ \A o \in Owner : WF_vars(Progress(o))
-----------------------------------------------------------------------------
Frames(r) == r.start .. r.start + r.num - 1

(* The frames of the available descriptors, without frame 0, whose address *)
(* is a null pointer.                                                      *)
Usable ==
  {f \in Frame \ {0} :
     \E k \in DOMAIN memory_map :
       memory_map[k].available /\ f \in memory_map[k].start .. EndOf(memory_map[k]) - 1}

TypeOK ==
  /\ memory_map \in Seq(Descriptor) /\ Sorted(memory_map)
  /\ alloc_map \subseteq Frame
  /\ range \in [begin : {0, 1}, end : 0 .. FrameCount]
  /\ boot \in [desc : 1 .. Len(memory_map) + 2, available_end : 0 .. FrameCount,
               served : 0 .. Len(BootRequests)]
  /\ call \in [Owner -> [pc : {"idle", "scan", "mark", "free"}, num : Nat,
                         start : 0 .. FrameCount, i : Nat]]
  /\ regions \in [Owner -> SUBSET [start : Frame, num : Nat \ {0}]]
  /\ refused \in [Owner -> BOOLEAN]

(* A frame has one owner: whoever was given it may write to it, and to a   *)
(* page table in it.                                                       *)
OneOwner ==
  \A o, p \in Owner : \A r \in regions[o] : \A s \in regions[p] :
    Frames(r) \cap Frames(s) # {} => o = p /\ r = s

(* Class comment: a bit is 1 exactly if its frame is in use.  Bits lag     *)
(* behind only inside the calls that set and clear them.                   *)
Changing(c) ==
  CASE c.pc = "mark" -> c.start .. c.start + c.i - 1
    [] c.pc = "free" -> c.start + c.i .. c.start + c.num - 1
    [] OTHER -> {}

InCall == UNION {Changing(call[o]) : o \in Owner}

InUse == UNION {Frames(r) : r \in UNION {regions[o] : o \in Owner}}

BitsMatch == MapRead => alloc_map \cap Usable = InUse \cup InCall

(* The allocator keeps FramePool's promise if its calls are not preempted. *)
Wanted(c) == IF c.pc \in {"scan", "mark"} THEN c.num ELSE 0

Pool == INSTANCE FramePool WITH
  usable <- Usable,
  asked  <- [o \in Owner |-> Wanted(call[o])]

ImplementsPool == Pool!Spec

(* Every call returns: the scan moves on past the frames in use.           *)
CallsReturn == \A o \in Owner : call[o].pc # "idle" ~> call[o].pc = "idle"
=============================================================================
