------------------------------ MODULE PageMaps ------------------------------
(***************************************************************************)
(* The functions on page maps of src/kernel/memory/paging.cpp, as          *)
(* operators on the physical memory.                                       *)
(*                                                                         *)
(* The four levels are two: a top table, which stands for PML4, PDP and    *)
(* page directory, and the page tables.  An address is a pair of indices.  *)
(* Tables have any size; the index TableSize - 1 stands for 511.           *)
(* Only the half of the addresses that belongs to applications is modelled;*)
(* every table holds the same kernel half.                                 *)
(*                                                                         *)
(* A function that can run out of frames returns [mem, ok]; when it fails, *)
(* what it has done so far stays.                                          *)
(***************************************************************************)
EXTENDS Integers, Sequences, FiniteSets, SequencesExt

CONSTANTS FrameCount,  \* frames the memory manager can hand out
          TableSize    \* entries of a table

ASSUME SizeAssumption == FrameCount \in Nat /\ TableSize \in Nat

Frame == 1 .. FrameCount
NoFrame == 0
Index == 0 .. TableSize - 1
Address == Index \X Index

Zero == [base |-> "zero", by |-> {}]
NotPresent == [frame |-> NoFrame, writable |-> FALSE]
EmptyTable == [i \in Index |-> NotPresent]

(* mem is a record: alloc, the set of frames in use, and for every frame,  *)
(* table, its entries, and page, where its contents come from.             *)
Present(entry) == entry.frame # NoFrame

(* The entry of address a in the page table, if there is a page table.     *)
Lookup(mem, root, a) ==
  LET dir == mem.table[root][a[1]]
  IN  IF Present(dir) THEN mem.table[dir.frame][a[2]] ELSE NotPresent

(* The tables below root, and the pages they map.                          *)
Tables(mem, root) ==
  {root} \cup {mem.table[root][d].frame : d \in {i \in Index : Present(mem.table[root][i])}}

Entries(mem, root) == {Lookup(mem, root, a) : a \in Address} \ {NotPresent}
Pages(mem, root) == {entry.frame : entry \in Entries(mem, root)}
PrivatePages(mem, root) ==
  {entry.frame : entry \in {x \in Entries(mem, root) : x.writable}}
-----------------------------------------------------------------------------
(* NewPageMap: the first free frame, cleared.  NoFrame is its error.       *)
NewPageMap(mem) ==
  LET free == Frame \ mem.alloc
      f    == CHOOSE x \in free : \A y \in free : x <= y
  IN  IF free = {} THEN [mem |-> mem, frame |-> NoFrame]
      ELSE [mem |-> [mem EXCEPT !.alloc = @ \cup {f},
                                !.table[f] = EmptyTable,
                                !.page[f] = Zero],
            frame |-> f]

(* What is in a free frame does not matter, and is modelled as zeros.      *)
Release(mem, frames) ==
  [mem EXCEPT !.alloc = @ \ frames,
              !.page = [f \in Frame |-> IF f \in frames THEN Zero ELSE mem.page[f]]]

FreePageMap(mem, f) == Release(mem, {f})

(* Entry i of `table` is assigned; its writable bit.                       *)
Put(mem, table, i, entry) == [mem EXCEPT !.table[table][i] = entry]

SetWritable(mem, table, i, writable) ==
  Put(mem, table, i, [mem.table[table][i] EXCEPT !.writable = writable])

(* SetNewPageMapIfNotPresent for entry i of `table`.                       *)
SetNewPageMapIfNotPresent(mem, table, i) ==
  IF Present(mem.table[table][i])
  THEN [mem |-> mem, frame |-> mem.table[table][i].frame]
  ELSE LET new == NewPageMap(mem)
       IN  IF new.frame = NoFrame THEN new
           ELSE [new EXCEPT !.mem =
                   Put(@, table, i, [mem.table[table][i] EXCEPT !.frame = new.frame])]

(* One page of SetupPageMap: an entry of each level.                       *)
SetupPage(mem, root, a, writable) ==
  LET dir == SetNewPageMapIfNotPresent(mem, root, a[1])
      m1  == SetWritable(dir.mem, root, a[1], TRUE)
      new == SetNewPageMapIfNotPresent(m1, dir.frame, a[2])
  IN  IF dir.frame = NoFrame THEN [mem |-> mem, ok |-> FALSE]
      ELSE IF new.frame = NoFrame THEN [mem |-> m1, ok |-> FALSE]
      ELSE [mem |-> SetWritable(new.mem, dir.frame, a[2], writable), ok |-> TRUE]

(* SetupPageMaps for the pages of a sequence of addresses, one by one.     *)
SetupPageMaps(mem, root, pages, writable) ==
  LET upto[k \in 0 .. Len(pages)] ==
        IF k = 0 THEN [mem |-> mem, ok |-> TRUE]
        ELSE LET r == upto[k - 1]
             IN  IF r.ok THEN SetupPage(r.mem, root, pages[k], writable) ELSE r
  IN  upto[Len(pages)]

(* Seeded faults: shared pages are given back too; page tables are not.    *)
CleanSharedToo(mem, root) ==
  [Release(mem, Pages(mem, root) \cup (Tables(mem, root) \ {root}))
     EXCEPT !.table[root] = EmptyTable]

CleanPagesOnly(mem, root) ==
  [Release(mem, PrivatePages(mem, root)) EXCEPT !.table[root] = EmptyTable]

(* CleanPageMaps of the application's half: the pages and the page tables  *)
(* whose entries are writable are given back.                              *)
CleanPageMaps(mem, root) ==
  LET tables == Tables(mem, root) \ {root}
      owned  == {mem.table[root][i].frame : i \in {j \in Index : mem.table[root][j].writable}}
  IN  [Release(mem, PrivatePages(mem, root) \cup owned)
         EXCEPT !.table = [f \in Frame |-> IF f \in tables \cup {root} THEN EmptyTable
                                           ELSE mem.table[f]]]

(* Seeded fault: the page tables are shared instead of copied.             *)
CopyEntriesOnly(mem, dest, src) ==
  [mem |-> [mem EXCEPT !.table[dest] = mem.table[src]], ok |-> TRUE]

(* CopyPageMaps: a page table of its own for each one of src, with the     *)
(* same pages, none of them writable.                                      *)
ReadOnly(table) == [i \in Index |-> [table[i] EXCEPT !.writable = FALSE]]

CopyTable(mem, dest, src, i) ==
  LET entry == mem.table[src][i]
      new   == NewPageMap(mem)
  IN  IF ~Present(entry) THEN [mem |-> mem, ok |-> TRUE]
      ELSE IF new.frame = NoFrame THEN [mem |-> mem, ok |-> FALSE]
      ELSE [mem |-> [Put(new.mem, dest, i, [entry EXCEPT !.frame = new.frame])
                       EXCEPT !.table[new.frame] = ReadOnly(mem.table[entry.frame])],
            ok  |-> TRUE]

CopyPageMaps(mem, dest, src) ==
  LET upto[k \in 0 .. TableSize] ==
        IF k = 0 THEN [mem |-> mem, ok |-> TRUE]
        ELSE LET r == upto[k - 1]
             IN  IF r.ok THEN CopyTable(r.mem, dest, src, k - 1) ELSE r
  IN  upto[TableSize]

(* Seeded faults: the new page is not filled; the old one becomes writable.*)
CopyNothing(mem, root, a) ==
  LET dir == mem.table[root][a[1]].frame
      new == NewPageMap(mem)
  IN  IF new.frame = NoFrame THEN [mem |-> mem, ok |-> FALSE]
      ELSE [mem |-> Put(new.mem, dir, a[2], [frame |-> new.frame, writable |-> TRUE]),
            ok  |-> TRUE]

(* CopyOnePage, with SetPageContent.                                       *)
CopyOnePage(mem, root, a) ==
  LET dir == mem.table[root][a[1]].frame
      old == mem.table[dir][a[2]].frame
      new == NewPageMap(mem)
  IN  IF new.frame = NoFrame THEN [mem |-> mem, ok |-> FALSE]
      ELSE [mem |-> [Put(new.mem, dir, a[2], [frame |-> new.frame, writable |-> TRUE])
                       EXCEPT !.page[new.frame] = mem.page[old]],
            ok  |-> TRUE]
=============================================================================
