---------------------------- MODULE AddressSpaces ---------------------------
(***************************************************************************)
(* How applications get, share and give back their memory:                 *)
(* Terminal::ExecuteFile and LoadApp (src/kernel/console/terminal.cpp) and *)
(* HandlePageFault (src/kernel/memory/paging.cpp) on top of PageMaps.      *)
(*                                                                         *)
(* The first start of an application loads its file into an image, which   *)
(* app_loads keeps; every start maps the image's pages read-only and copies*)
(* a page when the program writes to it.  Tasks interleave between the     *)
(* steps of a start.  A step allocates without being preempted, see        *)
(* FrameAllocator.                                                         *)
(***************************************************************************)
EXTENDS PageMaps

CONSTANTS Task,           \* the terminals' tasks
          App,            \* the files they start
          NotElf,         \* those of them that are no applications
          ImagePages,     \* the addresses of the file's segments
          StackPages,     \* of the arguments, then of the stack
          HeapPages,      \* of demand paging
          FilePages,      \* of a mapped file
          KernelBuffers,  \* addresses that programs pass to system calls
          MaxStarts       \* bound: how often programs are started

Kernel == NoFrame  \* cr3 of a task that runs no program: pml4_table

(* No segment lies where the stack is: lld puts them from the image base   *)
(* of Makefile.elfapp on, the stack is at the end of the addresses.  Files *)
(* are mapped below it: ExecuteFile sets FileMapEnd to its lowest page.    *)
ASSUME SpacesAssumption ==
  /\ NotElf \subseteq App /\ App \cap {"zero", "file", "none"} = {}
  /\ ImagePages \in Seq(Address) /\ StackPages \in Seq(Address) \ {<<>>}
  /\ Range(StackPages) \cap (Range(ImagePages) \cup FilePages) = {}
  /\ HeapPages \subseteq Address /\ FilePages \subseteq Address \ HeapPages
  /\ KernelBuffers \subseteq Address /\ MaxStarts \in Nat

VARIABLES mem,        \* the physical memory
          app_loads,  \* app_loads[app]: the top table of its image
          cr3,        \* cr3[t]: the top table of t's address space
          run,        \* run[t]: where t is in ExecuteFile, and its variables
          panicked,   \* a fault in the kernel has stopped the machine
          lost,       \* frames that failed and doubled loads have lost
          starts      \* how often a program has been started

vars == <<mem, app_loads, cr3, run, panicked, lost, starts>>

Shell == [pc |-> "shell", app |-> "none", temp_pml4 |-> NoFrame]

Init ==
  /\ mem = [alloc |-> {}, table |-> [f \in Frame |-> EmptyTable],
            page |-> [f \in Frame |-> Zero]]
  /\ app_loads = [app \in App |-> NoFrame]
  /\ cr3 = [t \in Task |-> Kernel]
  /\ run = [t \in Task |-> Shell]
  /\ panicked = FALSE
  /\ lost = {}
  /\ starts = 0

At(t, pc) == run[t].pc = pc /\ ~panicked
Goto(t, pc) == run' = [run EXCEPT ![t].pc = pc]
Return(t) == run' = [run EXCEPT ![t] = Shell]

AllFrames(root) == Tables(mem, root) \cup Pages(mem, root)
IsImage(root) == \E app \in App : app_loads[app] = root

(* SetupPML4, which forgets the address space that a failed start has left *)
(* behind.  An error changes nothing.                                      *)
SetupPML4(t) ==
  LET new == NewPageMap(mem)
      old == cr3[t]
  IN  /\ new.frame # NoFrame
      /\ mem' = new.mem
      /\ cr3' = [cr3 EXCEPT ![t] = new.frame]
      /\ lost' = lost \cup (IF old = Kernel \/ IsImage(old) THEN {} ELSE AllFrames(old))

NoMemory == NewPageMap(mem).frame = NoFrame
-----------------------------------------------------------------------------
(* Terminal::ExecuteFile starts: LoadApp's first SetupPML4.                *)
ExecuteFile(t, app) ==
  /\ At(t, "shell")
  /\ starts < MaxStarts
  /\ SetupPML4(t)
  /\ starts' = starts + 1
  /\ run' = [run EXCEPT ![t] = [pc |-> "find", app |-> app, temp_pml4 |-> cr3'[t]]]
  /\ UNCHANGED <<app_loads, panicked>>

(* Share the image if it has been loaded before.                           *)
FindImage(t) ==
  /\ At(t, "find")
  /\ app_loads[run[t].app] # NoFrame
  /\ LET copy == CopyPageMaps(mem, run[t].temp_pml4, app_loads[run[t].app])
     IN  /\ mem' = copy.mem
         /\ IF copy.ok THEN Goto(t, "args") ELSE Return(t)
  /\ UNCHANGED <<app_loads, cr3, panicked, lost, starts>>

(* The segments are mapped read-only and filled through that mapping.      *)
CopyLoadSegments(root, app) ==
  LET mapped == SetupPageMaps(mem, root, ImagePages, FALSE)
      image  == {Lookup(mapped.mem, root, a).frame : a \in Range(ImagePages)}
  IN  IF mapped.ok
      THEN [mem |-> [mapped.mem EXCEPT !.page = [f \in Frame |->
                       IF f \in image THEN [base |-> app, by |-> {}] ELSE @[f]]],
            ok  |-> TRUE]
      ELSE mapped

(* Load the file otherwise.                                                *)
LoadELF(t) ==
  /\ At(t, "find")
  /\ app_loads[run[t].app] = NoFrame
  /\ LET loaded == CopyLoadSegments(run[t].temp_pml4, run[t].app)
     IN  IF run[t].app \in NotElf
         THEN Return(t) /\ UNCHANGED mem
         ELSE /\ mem' = loaded.mem
              /\ IF loaded.ok THEN Goto(t, "insert") ELSE Return(t)
  /\ UNCHANGED <<app_loads, cr3, panicked, lost, starts>>

(* app_loads->insert keeps the entry that another task has put there since.*)
InsertImage(t) ==
  /\ At(t, "insert")
  /\ LET app == run[t].app
         pml4 == run[t].temp_pml4
     IN  IF app_loads[app] = NoFrame
         THEN app_loads' = [app_loads EXCEPT ![app] = pml4] /\ UNCHANGED lost
         ELSE lost' = lost \cup AllFrames(pml4) /\ UNCHANGED app_loads
  /\ Goto(t, "remap")
  /\ UNCHANGED <<mem, cr3, panicked, starts>>

(* The second SetupPML4, for the program itself.                           *)
Remap(t) ==
  /\ At(t, "remap")
  /\ \/ SetupPML4(t) /\ Goto(t, "copy")
     \/ NoMemory /\ Return(t) /\ UNCHANGED <<mem, cr3, lost>>
  /\ UNCHANGED <<app_loads, panicked, starts>>

CopyImage(t) ==
  /\ At(t, "copy")
  /\ LET copy == CopyPageMaps(mem, cr3[t], run[t].temp_pml4)
     IN  /\ mem' = copy.mem
         /\ IF copy.ok THEN Goto(t, "args") ELSE Return(t)
  /\ UNCHANGED <<app_loads, cr3, panicked, lost, starts>>

(* The arguments' page, and the stack.  Without a frame for one of them, or*)
(* when MakeArgVector finds too many arguments, ExecuteFile returns.       *)
SetupStack(t) ==
  /\ At(t, "args")
  /\ LET args  == SetupPageMaps(mem, cr3[t], <<Head(StackPages)>>, TRUE)
         stack == SetupPageMaps(args.mem, cr3[t], Tail(StackPages), TRUE)
     IN  \/ mem' = args.mem /\ Return(t)
         \/ /\ args.ok
            /\ mem' = stack.mem
            /\ IF stack.ok THEN Goto(t, "run") ELSE Return(t)
  /\ UNCHANGED <<app_loads, cr3, panicked, lost, starts>>
-----------------------------------------------------------------------------
(* CallApp: the program runs.                                              *)

(* A page of a mapped file is filled when it is first touched.             *)
PreparePageCache(root, a) ==
  LET mapped == SetupPageMaps(mem, root, <<a>>, TRUE)
      f      == Lookup(mapped.mem, root, a).frame
  IN  IF mapped.ok
      THEN [mem |-> [mapped.mem EXCEPT !.page[f] = [base |-> "file", by |-> {}]], ok |-> TRUE]
      ELSE mapped

(* Programs cause two kinds of faults here: a write to a present page, and *)
(* any access to an absent one.                                            *)
HandlePageFault(t, a) ==
  IF Present(Lookup(mem, cr3[t], a)) THEN CopyOnePage(mem, cr3[t], a)
  ELSE CASE a \in HeapPages -> SetupPageMaps(mem, cr3[t], <<a>>, TRUE)
         [] a \in FilePages -> PreparePageCache(cr3[t], a)
         [] OTHER -> [mem |-> mem, ok |-> FALSE]

Store(m, t, a) ==
  LET f == Lookup(m, cr3[t], a).frame
  IN  [m EXCEPT !.page[f].by = @ \cup {t}]

(* A fault that cannot be handled kills the program: ExitApp.              *)
WriteMemory(t, a) ==
  /\ At(t, "run")
  /\ LET fault == HandlePageFault(t, a)
     IN  IF Lookup(mem, cr3[t], a).writable
         THEN mem' = Store(mem, t, a) /\ UNCHANGED run
         ELSE IF fault.ok
              THEN mem' = Store(fault.mem, t, a) /\ UNCHANGED run
              ELSE mem' = fault.mem /\ Goto(t, "clean")
  /\ UNCHANGED <<app_loads, cr3, panicked, lost, starts>>

(* Only reads of absent pages change anything.                             *)
ReadMemory(t, a) ==
  /\ At(t, "run")
  /\ ~Present(Lookup(mem, cr3[t], a))
  /\ LET fault == HandlePageFault(t, a)
     IN  /\ mem' = fault.mem
         /\ IF fault.ok THEN UNCHANGED run ELSE Goto(t, "clean")
  /\ UNCHANGED <<app_loads, cr3, panicked, lost, starts>>

(* A system call writes to a buffer of the program.  CR0.WP is clear: the  *)
(* kernel's writes ignore the writable bit.  A fault it cannot handle stops*)
(* the machine.                                                            *)
SystemCallWrites(t, a) ==
  /\ At(t, "run")
  /\ a \in KernelBuffers
  /\ LET fault == HandlePageFault(t, a)
     IN  IF Present(Lookup(mem, cr3[t], a))
         THEN mem' = Store(mem, t, a) /\ UNCHANGED panicked
         ELSE IF fault.ok
              THEN mem' = Store(fault.mem, t, a) /\ UNCHANGED panicked
              ELSE mem' = fault.mem /\ panicked' = TRUE
  /\ UNCHANGED <<app_loads, cr3, run, lost, starts>>

(* The system call Exit, or the program's main returns to it.              *)
Exit(t) ==
  /\ At(t, "run")
  /\ Goto(t, "clean")
  /\ UNCHANGED <<mem, app_loads, cr3, panicked, lost, starts>>

Clean(t) ==
  /\ At(t, "clean")
  /\ mem' = CleanPageMaps(mem, cr3[t])
  /\ Goto(t, "free")
  /\ UNCHANGED <<app_loads, cr3, panicked, lost, starts>>

FreePML4(t) ==
  /\ At(t, "free")
  /\ mem' = FreePageMap(mem, cr3[t])
  /\ cr3' = [cr3 EXCEPT ![t] = Kernel]
  /\ Return(t)
  /\ UNCHANGED <<app_loads, panicked, lost, starts>>

Next ==
  \E t \in Task :
    \/ \E app \in App : ExecuteFile(t, app)
    \/ FindImage(t) \/ LoadELF(t) \/ InsertImage(t)
    \/ Remap(t) \/ CopyImage(t) \/ SetupStack(t)
    \/ \E a \in Address : WriteMemory(t, a) \/ ReadMemory(t, a) \/ SystemCallWrites(t, a)
    \/ Exit(t) \/ Clean(t) \/ FreePML4(t)

Spec == Init /\ [][Next]_vars
-----------------------------------------------------------------------------
(* The top tables somebody can still reach.                                *)
Roots ==
  ({cr3[t] : t \in Task} \cup {app_loads[app] : app \in App} \cup
   {run[t].temp_pml4 : t \in {u \in Task : run[u].pc \in {"insert", "remap", "copy"}}})
  \ {NoFrame}

Mapped == UNION {AllFrames(root) : root \in Roots}

(* No page map refers to a frame that has been given back, and may belong  *)
(* to somebody else.                                                       *)
MappedIsAllocated == Mapped \subseteq mem.alloc

(* A program that ends gives everything back: the frames in use are those  *)
(* of the images, of the running programs, and of failed or doubled loads. *)
AllocatedIsMapped == mem.alloc \subseteq Mapped \cup lost

(* A page that a program may write to is mapped once, and a table is a     *)
(* table of one address space.                                             *)
NoAliasing ==
  \A r \in Roots :
    LET tables == Tables(mem, r)
        pages  == Pages(mem, r)
        owned  == PrivatePages(mem, r)
    IN  /\ tables \cap pages = {}
        /\ Cardinality(pages) = Cardinality({a \in Address : Present(Lookup(mem, r, a))})
        /\ \A s \in Roots \ {r} :
             tables \cap AllFrames(s) = {} /\ owned \cap Pages(mem, s) = {}

(* terminal.cpp:105: the image's pages are read-only.  Every later start   *)
(* of the application begins with what its file contains.                  *)
ImagesIntact ==
  \A app \in App : app_loads[app] # NoFrame =>
    \A a \in Range(ImagePages) :
      LET entry == Lookup(mem, app_loads[app], a)
      IN  Present(entry) /\ mem.page[entry.frame] = [base |-> app, by |-> {}]

(* What the program of t reads at a.                                       *)
Reads(t, a) ==
  LET entry == Lookup(mem, cr3[t], a)
  IN  IF Present(entry) THEN mem.page[entry.frame]
      ELSE IF a \in FilePages THEN [base |-> "file", by |-> {}] ELSE Zero

StartMemory(app) ==
  [a \in Address |->
     IF a \in Range(ImagePages) THEN [base |-> app, by |-> {}]
     ELSE IF a \in FilePages THEN [base |-> "file", by |-> {}] ELSE Zero]

NotRunning == [a \in Address |-> [base |-> "none", by |-> {}]]

Memories ==
  [t \in Task |-> IF run[t].pc = "run" THEN [a \in Address |-> Reads(t, a)] ELSE NotRunning]

Private == INSTANCE PrivateMemory WITH
  memory        <- Memories,
  StartMemories <- {StartMemory(app) : app \in App \ NotElf},
  Written       <- LAMBDA c, t : [c EXCEPT !.by = @ \cup {t}],
  NotRunning    <- NotRunning

(* Every program has its memory to itself.                                 *)
ImplementsPrivateMemory == Private!Spec
=============================================================================
