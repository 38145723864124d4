-------------------------- MODULE MCFrameAllocator --------------------------
(* Values of FrameAllocator's constants that a configuration cannot write. *)
EXTENDS FrameAllocator

(* Every map of the frames with at most three regions.                     *)
MCMemoryMaps ==
  {map \in UNION {[1 .. n -> Descriptor] : n \in 1 .. 3} : Sorted(map)}

(* One stretch of memory, all available.                                   *)
MCPlainMap == {<<[start |-> 0, pages |-> FrameCount, available |-> TRUE]>>}

MCHeap == <<1>>
=============================================================================
