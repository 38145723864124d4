------------------------ MODULE FrameAllocatorProofs ------------------------
(***************************************************************************)
(* FrameAllocator without preemption inside its calls, for every memory    *)
(* map, size and number of tasks: frames have one owner, the bitmap is     *)
(* right, and the calls implement FramePool.                               *)
(*                                                                         *)
(* IInv is the inductive invariant: what the descriptors read so far have  *)
(* left in the bitmap (BootInv), what a call in progress knows of it       *)
(* (CallInv), and who uses what (PoolInv).                                 *)
(***************************************************************************)
EXTENDS FrameAllocator, TLAPS

(* The available frames of the descriptors before the n-th.                *)
Avail(n) ==
  {f \in Frame :
     \E k \in DOMAIN memory_map :
       /\ k < n /\ memory_map[k].available
       /\ f \in memory_map[k].start .. EndOf(memory_map[k]) - 1}

Quiet == \A o \in Owner : call[o] = NoCall /\ regions[o] = {}

BootInv ==
  /\ \A k \in DOMAIN memory_map : boot.desc <= k =>
       /\ boot.available_end <= memory_map[k].start
       /\ \A f \in alloc_map : f < memory_map[k].start
  /\ \A f \in Avail(boot.desc) : f < boot.available_end
  /\ \A f \in 0 .. boot.available_end - 1 : f \in Avail(boot.desc) \/ f \in alloc_map
  /\ ~MapRead => alloc_map \cap Avail(boot.desc) = {} /\ Quiet
  /\ MapRead => range = [begin |-> 1, end |-> boot.available_end]

Fresh(c) == Frames(Region(c)) \subseteq Usable \ InUse

CallInv(c) ==
  /\ c.pc # "idle" => c.num # 0
  /\ c.pc = "scan" =>
       /\ 1 <= c.start /\ c.i <= c.num
       /\ \A f \in c.start .. c.start + c.i - 1 : f < range.end /\ f \notin alloc_map
       /\ \A s \in 1 .. c.start - 1 : \E f \in s .. s + c.num - 1 : f \in alloc_map
  /\ c.pc = "mark" =>
       /\ c.i < c.num /\ Fresh(c)
       /\ \A f \in c.start + c.i .. c.start + c.num - 1 : f \notin alloc_map
  /\ c.pc = "free" => c.i < c.num /\ Fresh(c)

PoolInv ==
  /\ \A o \in Owner : \A r \in regions[o] : Frames(r) \subseteq Usable
  /\ OneOwner
  /\ BitsMatch

OneBusy ==
  \A o, p \in Owner : call[o].pc # "idle" /\ call[p].pc # "idle" => o = p

IInv ==
  /\ TypeOK /\ BootInv /\ PoolInv /\ OneBusy
  /\ \A o \in Owner : CallInv(call[o])
-----------------------------------------------------------------------------
LEMMA MapFacts ==
  ASSUME memory_map \in Seq(Descriptor), Sorted(memory_map)
  PROVE  /\ Len(memory_map) \in Nat /\ DOMAIN memory_map = 1 .. Len(memory_map)
         /\ FrameCount \in Nat \ {0}
         /\ \A k \in DOMAIN memory_map :
              /\ memory_map[k].start \in Frame /\ memory_map[k].available \in BOOLEAN
              /\ memory_map[k].start \in Nat /\ EndOf(memory_map[k]) \in Nat
              /\ memory_map[k].start < EndOf(memory_map[k])
              /\ EndOf(memory_map[k]) <= FrameCount
         /\ \A j, k \in DOMAIN memory_map :
              j < k => EndOf(memory_map[j]) <= memory_map[k].start
<1>1. /\ Len(memory_map) \in Nat /\ DOMAIN memory_map = 1 .. Len(memory_map)
      /\ FrameCount \in Nat \ {0}
  BY FrameAssumption
<1>2. ASSUME NEW k \in DOMAIN memory_map
      PROVE  /\ memory_map[k].start \in Frame /\ memory_map[k].available \in BOOLEAN
             /\ memory_map[k].start \in Nat /\ EndOf(memory_map[k]) \in Nat
             /\ memory_map[k].start < EndOf(memory_map[k])
             /\ EndOf(memory_map[k]) <= FrameCount
  <2>1. memory_map[k] \in Descriptor OBVIOUS
  <2>2. EndOf(memory_map[k]) <= FrameCount BY DEF Sorted
  <2> QED BY <2>1, <2>2, <1>1 DEF Descriptor, Frame, EndOf
<1> QED BY <1>1, <1>2 DEF Sorted

LEMMA UsableFrames ==
  Usable \subseteq Frame \ {0} /\ (TypeOK /\ MapRead => Usable = Avail(boot.desc) \ {0})
<1>1. Usable \subseteq Frame \ {0} BY DEF Usable
<1>2. ASSUME TypeOK, MapRead PROVE Usable = Avail(boot.desc) \ {0}
  <2>1. Len(memory_map) \in Nat /\ DOMAIN memory_map = 1 .. Len(memory_map)
    BY <1>2 DEF TypeOK
  <2>2. boot.desc \in Nat /\ boot.desc > Len(memory_map) + 1
    BY <1>2, <2>1 DEF TypeOK, MapRead
  <2>3. \A k \in DOMAIN memory_map : k < boot.desc BY <2>1, <2>2
  <2> QED BY <2>3 DEF Usable, Avail
<1> QED BY <1>1, <1>2

(* Only the task that executes is inside a call.                           *)
LEMMA Alone ==
  ASSUME ~Preemptible, NEW o \in Owner, OnProcessor(o)
  PROVE  /\ \A p \in Owner : p # o => call[p].pc = "idle"
         /\ InCall = Changing(call[o])
<1>1. \A p \in Owner : p # o => call[p].pc = "idle" BY DEF OnProcessor
<1>2. \A p \in Owner : p # o => Changing(call[p]) = {} BY <1>1 DEF Changing
<1> QED BY <1>1, <1>2 DEF InCall

(* The same after a step that changes o's call to c.                       *)
LEMMA AloneNext ==
  ASSUME ~Preemptible, NEW o \in Owner, OnProcessor(o), NEW c,
         call \in [Owner -> [pc : {"idle", "scan", "mark", "free"}, num : Nat,
                             start : 0 .. FrameCount, i : Nat]],
         call' = [call EXCEPT ![o] = c]
  PROVE  /\ call'[o] = c /\ \A p \in Owner : p # o => call'[p] = call[p]
         /\ \A p \in Owner : p # o => call'[p].pc = "idle"
         /\ OneBusy'
         /\ InCall' = Changing(c)
<1>1. call'[o] = c /\ \A p \in Owner : p # o => call'[p] = call[p]
  OBVIOUS
<1>2. \A p \in Owner : p # o => call'[p].pc = "idle" BY <1>1, Alone
<1>3. \A p \in Owner : p # o => Changing(call'[p]) = {} BY <1>2 DEF Changing
<1>4. InCall' = UNION {Changing(call'[p]) : p \in Owner} BY DEF InCall, Changing
<1>5. InCall' = Changing(c) BY <1>1, <1>3, <1>4
<1>6. OneBusy' BY <1>1, <1>2 DEF OneBusy
<1> QED BY <1>1, <1>2, <1>5, <1>6

(* An idle call knows nothing.                                             *)
LEMMA IdleInv == \A c : c.pc = "idle" => CallInv(c) /\ CallInv(c)'
BY DEF CallInv
-----------------------------------------------------------------------------
LEMMA InitIInv == Init => IInv
<1> SUFFICES ASSUME Init PROVE IInv
  OBVIOUS
<1>1. /\ memory_map \in Seq(Descriptor) /\ Sorted(memory_map)
      /\ Len(memory_map) \in Nat /\ FrameCount \in Nat \ {0}
      /\ BootRequests \in Seq(Nat \ {0}) /\ Len(BootRequests) \in Nat
  BY FrameAssumption DEF Init
<1>2. TypeOK BY <1>1 DEF Init, TypeOK, NoCall
<1>3. ~MapRead BY <1>1 DEF MapRead, Init
<1>4. BootInv
  <2>1. \A k \in DOMAIN memory_map : memory_map[k].start \in Nat
    BY <1>1, MapFacts
  <2>2. Avail(boot.desc) = {} BY <1>1 DEF Avail, Init
  <2>3. Quiet BY DEF Quiet, Init
  <2> QED BY <2>1, <2>2, <2>3, <1>3 DEF BootInv, Init
<1>5. PoolInv BY <1>3 DEF Init, PoolInv, OneOwner, BitsMatch
<1>6. OneBusy /\ \A o \in Owner : CallInv(call[o])
  BY DEF Init, OneBusy, CallInv, NoCall
<1> QED BY <1>2, <1>4, <1>5, <1>6 DEF IInv

LEMMA MarkDescriptorSafe ==
  ASSUME IInv, MarkDescriptor
  PROVE  IInv'
<1> DEFINE k == boot.desc
           d == memory_map[k]
           hole == boot.available_end .. d.start - 1
           used == IF d.available THEN {} ELSE d.start .. EndOf(d) - 1
<1>1. /\ TypeOK /\ BootInv /\ PoolInv /\ OneBusy /\ k <= Len(memory_map)
      /\ memory_map' = memory_map /\ range' = range /\ call' = call
      /\ regions' = regions /\ refused' = refused
      /\ alloc_map' = alloc_map \cup hole \cup used
      /\ boot' = [boot EXCEPT !.desc = k + 1,
                    !.available_end = IF d.available THEN EndOf(d) ELSE @]
  BY DEF IInv, MarkDescriptor
<1>2. /\ boot \in [desc : 1 .. Len(memory_map) + 2, available_end : 0 .. FrameCount,
                   served : 0 .. Len(BootRequests)]
      /\ alloc_map \subseteq Frame
  BY <1>1 DEF TypeOK
<1>m. /\ Len(memory_map) \in Nat /\ DOMAIN memory_map = 1 .. Len(memory_map)
      /\ FrameCount \in Nat \ {0}
      /\ \A j \in DOMAIN memory_map :
           /\ memory_map[j].start \in Frame /\ memory_map[j].available \in BOOLEAN
           /\ memory_map[j].start \in Nat /\ EndOf(memory_map[j]) \in Nat
           /\ memory_map[j].start < EndOf(memory_map[j])
           /\ EndOf(memory_map[j]) <= FrameCount
      /\ \A i, j \in DOMAIN memory_map :
           i < j => EndOf(memory_map[i]) <= memory_map[j].start
  BY <1>1, MapFacts DEF TypeOK
<1>3. /\ k \in Nat /\ k \in DOMAIN memory_map /\ k + 1 \in 1 .. Len(memory_map) + 2
      /\ boot.available_end \in Nat /\ boot.available_end <= d.start
      /\ d.start \in Nat /\ EndOf(d) \in Nat /\ d.start < EndOf(d)
      /\ EndOf(d) <= FrameCount /\ d.available \in BOOLEAN
  BY <1>1, <1>2, <1>m DEF BootInv
<1>4. /\ boot'.desc = k + 1 /\ boot'.served = boot.served
      /\ boot'.available_end = IF d.available THEN EndOf(d) ELSE boot.available_end
      /\ boot' \in [desc : 1 .. Len(memory_map) + 2, available_end : 0 .. FrameCount,
                    served : 0 .. Len(BootRequests)]
  <2> DEFINE a == IF d.available THEN EndOf(d) ELSE boot.available_end
             n == k + 1
  <2>1. a \in 0 .. FrameCount BY <1>2, <1>3
  <2>2. n \in 1 .. Len(memory_map) + 2 BY <1>3, <1>m
  <2>3. boot' = [boot EXCEPT !.desc = n, !.available_end = a] BY <1>1, <1>2
  <2> HIDE DEF a, n
  <2>4. /\ boot'.desc = n /\ boot'.served = boot.served /\ boot'.available_end = a
        /\ boot' \in [desc : 1 .. Len(memory_map) + 2, available_end : 0 .. FrameCount,
                      served : 0 .. Len(BootRequests)]
    BY <2>1, <2>2, <2>3, <1>2
  <2> QED BY <2>4 DEF a, n
<1>5. ~MapRead /\ ~MapRead' /\ Quiet /\ alloc_map \cap Avail(k) = {}
  <2>1. ~MapRead BY <1>1, <1>3, <1>m DEF MapRead
  <2>2. ~MapRead' BY <1>1, <1>3, <1>4, <1>m DEF MapRead
  <2> QED BY <2>1, <2>2, <1>1 DEF BootInv
<1> DEFINE new == IF d.available THEN d.start .. EndOf(d) - 1 ELSE {}
<1>6. (Avail(boot.desc))' = Avail(k) \cup new
  <2>1. (Avail(boot.desc))' = {f \in Frame :
           \E j \in DOMAIN memory_map :
             /\ j < k + 1 /\ memory_map[j].available
             /\ f \in memory_map[j].start .. EndOf(memory_map[j]) - 1}
    BY <1>1, <1>4 DEF Avail, EndOf
  <2>2. \A j \in DOMAIN memory_map : j < k + 1 <=> j < k \/ j = k BY <1>3, <1>m
  <2>3. new \subseteq Frame BY <1>3, <1>m, SMTT(30) DEF Frame
  <2> QED BY <2>1, <2>2, <2>3, <1>3 DEF Avail
<1>7. /\ \A f \in hole \cup used \cup new : f \in Nat /\ f < EndOf(d)
      /\ hole \cup used \subseteq Frame
      /\ (hole \cup used) \cap new = {}
      /\ \A f \in alloc_map : f < d.start
      /\ \A f \in Avail(k) : f < boot.available_end /\ f \in Nat
  <2>1. \A f \in alloc_map : f < d.start BY <1>1, <1>3 DEF BootInv
  <2>2. \A f \in Avail(k) : f < boot.available_end /\ f \in Nat
    BY <1>1 DEF BootInv, Avail, Frame
  <2>b. PICK e : e = EndOf(d)
    OBVIOUS
  <2>3. \A f \in hole : f \in Nat /\ f < EndOf(d) /\ f < d.start /\ f \in Frame
    <3>1. /\ d.start \in Nat /\ e \in Nat /\ d.start < e /\ e <= FrameCount
          /\ FrameCount \in Nat /\ boot.available_end \in Nat
      BY <2>b, <1>3, <1>m
    <3> QED BY <3>1, <2>b DEF Frame
  <2>4. \A f \in d.start .. EndOf(d) - 1 :
           f \in Nat /\ f < EndOf(d) /\ d.start <= f /\ f \in Frame
    BY <1>3, <1>m DEF Frame
  <2> DEFINE I == d.start .. EndOf(d) - 1
             H == hole
  <2>5. used \subseteq I /\ new \subseteq I /\ used \cap new = {} BY Zenon
  <2>6. \A f \in H : f \in Nat /\ f < EndOf(d) /\ f \notin I /\ f \in Frame
    BY <2>3, <2>4, <1>3
  <2>7. \A f \in I : f \in Nat /\ f < EndOf(d) /\ f \in Frame BY <2>4
  <2> HIDE DEF I, H
  <2>8. /\ \A f \in H \cup used \cup new : f \in Nat /\ f < EndOf(d)
        /\ H \cup used \subseteq Frame
        /\ (H \cup used) \cap new = {}
    <3> HIDE DEF used, new
    <3> QED BY <2>5, <2>6, <2>7
  <2> QED BY <2>1, <2>2, <2>8 DEF H
<1> HIDE DEF hole, used, new
<1>8. TypeOK' BY <1>1, <1>4, <1>7, <1>2 DEF TypeOK
<1>9. BootInv'
  <2>1. ASSUME NEW j \in DOMAIN memory_map, k + 1 <= j
        PROVE  /\ boot'.available_end <= memory_map[j].start
               /\ \A f \in alloc_map' : f < memory_map[j].start
    <3>1. EndOf(d) <= memory_map[j].start /\ d.start < memory_map[j].start
          /\ memory_map[j].start \in Nat
      <4>1. k < j BY <2>1, <1>3, <1>m
      <4>2. EndOf(d) <= memory_map[j].start /\ memory_map[j].start \in Nat
        BY <4>1, <1>3, <1>m
      <4> QED BY <4>2, <1>3
    <3>2. boot'.available_end <= memory_map[j].start BY <3>1, <1>3, <1>4
    <3>3. ASSUME NEW f \in alloc_map' PROVE f < memory_map[j].start
      <4>1. CASE f \in alloc_map
        <5>1. f \in Nat /\ f < d.start BY <4>1, <1>2, <1>7 DEF Frame
        <5> QED BY <5>1, <3>1, <1>3
      <4>2. CASE f \in hole \cup used
        <5>1. f \in Nat /\ f < EndOf(d) BY <4>2, <1>7
        <5> QED BY <5>1, <3>1, <1>3
      <4> QED BY <4>1, <4>2, <1>1
    <3> QED BY <3>2, <3>3
  <2>2. \A f \in Avail(k) \cup new : f < boot'.available_end
    <3>1. ASSUME NEW f \in Avail(k) PROVE f < boot'.available_end
      BY <1>7, <1>3, <1>4
    <3>2. ASSUME NEW f \in new PROVE f < boot'.available_end
      BY <1>7, <1>3, <1>4 DEF new
    <3> QED BY <3>1, <3>2
  <2>3. ASSUME NEW f \in 0 .. boot'.available_end - 1
        PROVE  f \in Avail(k) \cup new \/ f \in alloc_map'
    <3>1. CASE f \in 0 .. boot.available_end - 1
      BY <3>1, <1>1 DEF BootInv
    <3>2. CASE f >= boot.available_end
      <4>1. d.available /\ f \in Nat /\ f < EndOf(d) BY <3>2, <1>3, <1>4
      <4>2. f \in hole \/ f \in new BY <4>1, <3>2, <1>3 DEF hole, new
      <4> QED BY <4>2, <1>1
    <3> QED BY <3>1, <3>2, <1>3, <1>4
  <2>4. alloc_map' \cap (Avail(k) \cup new) = {}
    <3>1. alloc_map \cap new = {} BY <1>7, <1>2, <1>3 DEF new, Frame
    <3>2. hole \cap Avail(k) = {} BY <1>7, <1>3 DEF hole
    <3>3. used \cap Avail(k) = {} BY <1>7, <1>3 DEF used
    <3> QED BY <3>1, <3>2, <3>3, <1>1, <1>5, <1>7
  <2>5. Quiet' BY <1>1, <1>5 DEF Quiet
  <2> QED BY <2>1, <2>2, <2>3, <2>4, <2>5, <1>1, <1>4, <1>5, <1>6 DEF BootInv
<1>10. PoolInv'
  BY <1>1, <1>5 DEF PoolInv, OneOwner, BitsMatch, Quiet
<1>11. OneBusy' /\ (\A o \in Owner : CallInv(call[o]))'
  BY <1>1, <1>5, IdleInv DEF OneBusy, Quiet, NoCall
<1> QED BY <1>8, <1>9, <1>10, <1>11 DEF IInv

LEMMA SetMemoryRangeSafe ==
  ASSUME IInv, SetMemoryRange
  PROVE  IInv'
<1>1. /\ TypeOK /\ BootInv /\ PoolInv /\ OneBusy /\ boot.desc = Len(memory_map) + 1
      /\ memory_map' = memory_map /\ alloc_map' = alloc_map /\ call' = call
      /\ regions' = regions /\ refused' = refused
      /\ range' = [begin |-> 1, end |-> boot.available_end]
      /\ boot' = [boot EXCEPT !.desc = @ + 1]
  BY DEF IInv, SetMemoryRange
<1>2. /\ boot \in [desc : 1 .. Len(memory_map) + 2, available_end : 0 .. FrameCount,
                   served : 0 .. Len(BootRequests)]
      /\ Len(memory_map) \in Nat /\ DOMAIN memory_map = 1 .. Len(memory_map)
  BY <1>1, MapFacts DEF TypeOK
<1>3. /\ boot'.desc = Len(memory_map) + 2 /\ boot'.available_end = boot.available_end
      /\ boot'.served = boot.served
      /\ boot' \in [desc : 1 .. Len(memory_map) + 2, available_end : 0 .. FrameCount,
                    served : 0 .. Len(BootRequests)]
  BY <1>1, <1>2
<1>4. ~MapRead /\ MapRead' /\ Quiet /\ alloc_map \cap Avail(boot.desc) = {}
  BY <1>1, <1>2, <1>3 DEF MapRead, BootInv
<1>5. TypeOK' BY <1>1, <1>3 DEF TypeOK
<1>6. (Avail(boot.desc))' = Avail(boot.desc)
  BY <1>1, <1>2, <1>3 DEF Avail, EndOf
<1>7. BootInv'
  BY <1>1, <1>2, <1>3, <1>4, <1>6 DEF BootInv
<1>8. Usable' = Avail(boot.desc) \ {0}
  BY <1>5, <1>4, <1>6, UsableFrames, <1>1, <1>2, <1>3 DEF Usable, Avail, EndOf
<1>9. InUse' = {} /\ InCall' = {}
  BY <1>1, <1>4 DEF Quiet, InUse, InCall, Changing, NoCall
<1>10. PoolInv'
  BY <1>1, <1>4, <1>8, <1>9 DEF PoolInv, OneOwner, BitsMatch, Quiet
<1>11. OneBusy' /\ (\A o \in Owner : CallInv(call[o]))'
  BY <1>1, <1>4, IdleInv DEF OneBusy, Quiet, NoCall
<1> QED BY <1>5, <1>7, <1>10, <1>11 DEF IInv

(* After the start-up, an allocation or a release touches usable frames    *)
(* only: what the memory map said stays true.                              *)
LEMMA BootFrame ==
  ASSUME IInv, MapRead, memory_map' = memory_map, range' = range,
         boot'.desc = boot.desc, boot'.available_end = boot.available_end,
         \A f \in Frame \ Usable : f \in alloc_map => f \in alloc_map'
  PROVE  BootInv' /\ MapRead'
<1>1. /\ boot \in [desc : 1 .. Len(memory_map) + 2, available_end : 0 .. FrameCount,
                   served : 0 .. Len(BootRequests)]
      /\ Len(memory_map) \in Nat /\ DOMAIN memory_map = 1 .. Len(memory_map)
      /\ FrameCount \in Nat
  BY MapFacts DEF IInv, TypeOK
<1>2. MapRead' BY DEF MapRead
<1>3. \A k \in DOMAIN memory_map : ~(boot.desc <= k) BY <1>1 DEF MapRead
<1>4. (Avail(boot.desc))' = Avail(boot.desc) BY DEF Avail, EndOf
<1>5. Usable \subseteq Avail(boot.desc) BY UsableFrames DEF IInv
<1>6. ASSUME NEW f \in 0 .. boot.available_end - 1
      PROVE  f \in Avail(boot.desc) \/ f \in alloc_map'
  <2>1. f \in Frame BY <1>1 DEF Frame
  <2>2. f \in Avail(boot.desc) \/ f \in alloc_map BY DEF IInv, BootInv
  <2> QED BY <2>1, <2>2, <1>5
<1> QED BY <1>2, <1>3, <1>4, <1>6 DEF IInv, BootInv

LEMMA AllocateSafe ==
  ASSUME ~Preemptible, IInv, MapRead, NEW o \in Owner, NEW n \in Nat \ {0},
         Allocate(o, n),
         boot' \in [desc : {boot.desc}, available_end : {boot.available_end},
                   served : 0 .. Len(BootRequests)]
  PROVE  IInv'
<1>0. PICK c : c = [pc |-> "scan", num |-> n, start |-> range.begin, i |-> 0]
  OBVIOUS
<1>1. /\ TypeOK /\ PoolInv /\ OnProcessor(o) /\ call[o].pc = "idle"
      /\ call' = [call EXCEPT ![o] = c] /\ refused' = [refused EXCEPT ![o] = FALSE]
      /\ memory_map' = memory_map /\ alloc_map' = alloc_map /\ range' = range
      /\ regions' = regions
  BY <1>0 DEF IInv, Allocate, Enter
<1>2. range.begin = 1 BY DEF IInv, BootInv
<1>3. FrameCount \in Nat \ {0} /\ c.start \in 0 .. FrameCount
  BY <1>0, <1>2, FrameAssumption
<1>4. /\ boot'.desc = boot.desc /\ boot'.available_end = boot.available_end
      /\ boot' \in [desc : 1 .. Len(memory_map) + 2, available_end : 0 .. FrameCount,
                    served : 0 .. Len(BootRequests)]
  BY <1>1 DEF TypeOK
<1>5. call' \in [Owner -> [pc : {"idle", "scan", "mark", "free"}, num : Nat,
                         start : 0 .. FrameCount, i : Nat]]
  BY <1>0, <1>1, <1>3 DEF TypeOK
<1>6. TypeOK' BY <1>1, <1>4, <1>5 DEF TypeOK
<1>7. BootInv' /\ MapRead' BY <1>1, <1>4, BootFrame
<1>8. /\ call'[o] = c /\ \A p \in Owner : p # o => call'[p] = call[p]
      /\ \A p \in Owner : p # o => call'[p].pc = "idle"
      /\ OneBusy' /\ InCall' = Changing(c)
  BY <1>1, AloneNext DEF TypeOK
<1>9. InCall' = {} /\ InCall = {} BY <1>0, <1>1, <1>8, Alone DEF Changing
<1>10. Usable' = Usable /\ InUse' = InUse BY <1>1 DEF Usable, InUse, EndOf
<1>11. PoolInv' BY <1>1, <1>7, <1>9, <1>10 DEF PoolInv, OneOwner, BitsMatch
<1>12. CallInv(c)' BY <1>0, <1>2, <1>1, <1>3 DEF CallInv
<1>13. (\A p \in Owner : CallInv(call[p]))' BY <1>8, <1>12, IdleInv
<1> QED BY <1>6, <1>7, <1>8, <1>11, <1>13 DEF IInv

LEMMA ScanSafe ==
  ASSUME ~Preemptible, IInv, MapRead, NEW o \in Owner, Scan(o)
  PROVE  IInv'
<1>0. PICK c : c = call[o]
  OBVIOUS
<1>1. /\ TypeOK /\ PoolInv /\ OnProcessor(o) /\ c.pc = "scan"
      /\ memory_map' = memory_map /\ alloc_map' = alloc_map /\ range' = range
      /\ regions' = regions /\ boot' = boot
  BY <1>0 DEF IInv, Scan
<1>2. /\ range.begin = 1 /\ range.end = boot.available_end
      /\ boot.available_end \in 0 .. FrameCount
      /\ FrameCount \in Nat \ {0}
  BY FrameAssumption DEF IInv, BootInv, TypeOK
<1>3. /\ c \in [pc : {"idle", "scan", "mark", "free"}, num : Nat,
               start : 0 .. FrameCount, i : Nat]
      /\ c.num # 0 /\ 1 <= c.start /\ c.i <= c.num
      /\ \A f \in c.start .. c.start + c.i - 1 : f < range.end /\ f \notin alloc_map
      /\ \A s \in 1 .. c.start - 1 : \E f \in s .. s + c.num - 1 : f \in alloc_map
  BY <1>0, <1>1 DEF IInv, TypeOK, CallInv
<1>4. InCall = {} BY <1>0, <1>1, Alone DEF Changing
<1>5. Usable' = Usable /\ InUse' = InUse BY <1>1 DEF Usable, InUse, EndOf
<1>6. BootInv' /\ MapRead' BY <1>1, BootFrame
<1> DEFINE Call == [pc : {"idle", "scan", "mark", "free"}, num : Nat,
                    start : 0 .. FrameCount, i : Nat]
<1>7. ASSUME NEW d \in Call, call' = [call EXCEPT ![o] = d],
             refused' \in [Owner -> BOOLEAN], CallInv(d)',
             Changing(d) = {}
      PROVE  IInv'
  <2>1. TypeOK' BY <1>1, <1>7 DEF TypeOK
  <2>2. /\ call'[o] = d /\ \A p \in Owner : p # o => call'[p] = call[p]
        /\ \A p \in Owner : p # o => call'[p].pc = "idle"
        /\ OneBusy' /\ InCall' = Changing(d)
    BY <1>1, <1>7, AloneNext DEF TypeOK
  <2>3. PoolInv'
    BY <2>2, <1>1, <1>4, <1>5, <1>6, <1>7 DEF PoolInv, OneOwner, BitsMatch
  <2>4. (\A p \in Owner : CallInv(call[p]))' BY <2>2, <1>7, IdleInv
  <2> QED BY <2>1, <2>2, <2>3, <2>4, <1>6 DEF IInv
<1> DEFINE f == c.start + c.i
<1>8. refused' \in [Owner -> BOOLEAN] BY <1>1 DEF Scan, TypeOK
<1>9. CASE c.i < c.num /\ f >= range.end
  <2>1. call' = [call EXCEPT ![o] = NoCall] BY <1>9, <1>0, <1>3, <1>2 DEF Scan
  <2>2. NoCall \in Call /\ Changing(NoCall) = {} /\ CallInv(NoCall)'
    BY <1>2, IdleInv DEF NoCall, Changing
  <2> QED BY <2>1, <2>2, <1>7, <1>8
<1>10. CASE c.i < c.num /\ f < range.end /\ f \in alloc_map
  <2>0. PICK d : d = [c EXCEPT !.start = f + 1, !.i = 0]
    OBVIOUS
  <2>1. call' = [call EXCEPT ![o] = d] BY <2>0, <1>10, <1>0, <1>3, <1>2 DEF Scan, GetBit
  <2>a. f + 1 \in 0 .. FrameCount BY <1>2, <1>3, <1>10
  <2>2. /\ d.pc = "scan" /\ d.num = c.num /\ d.start = f + 1 /\ d.i = 0
        /\ d \in Call
    <3> HIDE DEF f
    <3> QED BY <2>0, <1>1, <1>3, <2>a
  <2>3. ASSUME NEW s \in 1 .. d.start - 1
        PROVE  \E g \in s .. s + c.num - 1 : g \in alloc_map
    <3>1. CASE s < c.start BY <3>1, <1>3
    <3>2. CASE c.start <= s
      <4>1. f \in s .. s + c.num - 1 BY <3>2, <2>2, <1>3, <1>10
      <4> QED BY <4>1, <1>10
    <3> QED BY <3>1, <3>2, <2>2, <1>3
  <2>4. CallInv(d)' BY <2>2, <2>3, <1>1, <1>3 DEF CallInv
  <2>5. Changing(d) = {} BY <2>2 DEF Changing
  <2> QED BY <2>1, <2>2, <2>4, <2>5, <1>7, <1>8
<1>11. CASE c.i < c.num /\ f < range.end /\ f \notin alloc_map
  <2>0. PICK d : d = [c EXCEPT !.i = @ + 1]
    OBVIOUS
  <2>1. call' = [call EXCEPT ![o] = d] BY <2>0, <1>11, <1>0, <1>3, <1>2 DEF Scan, GetBit
  <2>2. /\ d.pc = "scan" /\ d.num = c.num /\ d.start = c.start /\ d.i = c.i + 1
        /\ d \in Call
    BY <2>0, <1>1, <1>3
  <2>3. ASSUME NEW g \in d.start .. d.start + d.i - 1
        PROVE  g < range.end /\ g \notin alloc_map
    <3>1. g \in c.start .. c.start + c.i - 1 \/ g = f BY <2>2, <1>3
    <3> QED BY <3>1, <1>3, <1>11
  <2>4. CallInv(d)' BY <2>2, <2>3, <1>1, <1>3, <1>11 DEF CallInv
  <2>5. Changing(d) = {} BY <2>2 DEF Changing
  <2> QED BY <2>1, <2>2, <2>4, <2>5, <1>7, <1>8
<1>12. CASE c.i = c.num
  <2>0. PICK d : d = [c EXCEPT !.pc = "mark", !.i = 0]
    OBVIOUS
  <2>1. call' = [call EXCEPT ![o] = d] BY <2>0, <1>12, <1>0, <1>3 DEF Scan
  <2>2. /\ d.pc = "mark" /\ d.num = c.num /\ d.start = c.start /\ d.i = 0
        /\ d \in Call
    BY <2>0, <1>1, <1>3
  <2>3. ASSUME NEW g \in d.start .. d.start + d.num - 1
        PROVE  g \in Usable \ InUse /\ g \notin alloc_map
    <3>1. g \in 1 .. boot.available_end - 1 /\ g \notin alloc_map
      BY <2>2, <1>2, <1>3, <1>12
    <3>2. g \in Usable
      BY <3>1, <1>2, UsableFrames DEF IInv, BootInv
    <3> QED BY <3>1, <3>2, <1>1 DEF PoolInv, BitsMatch
  <2>4. Fresh(d)' /\ Frames(Region(d)) = d.start .. d.start + d.num - 1
    BY <2>3, <1>5 DEF Fresh, Frames, Region
  <2>5. CallInv(d)' BY <2>2, <2>3, <2>4, <1>1, <1>3 DEF CallInv
  <2>6. Changing(d) = {} BY <2>2, <1>3 DEF Changing
  <2> QED BY <2>1, <2>2, <2>5, <2>6, <1>7, <1>8
<1> QED BY <1>3, <1>2, <1>9, <1>10, <1>11, <1>12

(* The frames in use when a region is given, and when one is given back.   *)
LEMMA InUseGiven ==
  ASSUME NEW o \in Owner, NEW r, DOMAIN regions = Owner,
         regions' = [regions EXCEPT ![o] = @ \cup {r}]
  PROVE  InUse' = InUse \cup Frames(r)
<1>1. /\ regions'[o] = regions[o] \cup {r}
      /\ \A p \in Owner : p # o => regions'[p] = regions[p]
  OBVIOUS
<1>2. UNION {regions'[p] : p \in Owner} =
        (UNION {regions[p] : p \in Owner}) \cup {r}
  BY <1>1
<1>3. InUse' = UNION {Frames(s) : s \in UNION {regions'[p] : p \in Owner}}
  BY DEF InUse, Frames
<1> QED BY <1>2, <1>3 DEF InUse

LEMMA InUseReturned ==
  ASSUME NEW o \in Owner, NEW r \in regions[o], DOMAIN regions = Owner, OneOwner,
         regions' = [regions EXCEPT ![o] = @ \ {r}]
  PROVE  InUse' = InUse \ Frames(r)
<1>1. /\ regions'[o] = regions[o] \ {r}
      /\ \A p \in Owner : p # o => regions'[p] = regions[p]
  OBVIOUS
<1>2. InUse' = UNION {Frames(s) : s \in UNION {regions'[p] : p \in Owner}}
  BY DEF InUse, Frames
<1>3. ASSUME NEW f \in InUse', f \in Frames(r) PROVE FALSE
  <2>1. PICK p \in Owner : \E s \in regions'[p] : f \in Frames(s) BY <1>2
  <2>2. PICK s \in regions'[p] : f \in Frames(s) BY <2>1
  <2>3. s \in regions[p] BY <2>2, <1>1
  <2>4. p = o /\ s = r BY <2>2, <2>3, <1>3 DEF OneOwner
  <2> QED BY <2>2, <2>4, <1>1
<1>4. InUse' \subseteq InUse BY <1>1, <1>2 DEF InUse
<1>5. ASSUME NEW f \in InUse, f \notin Frames(r) PROVE f \in InUse'
  <2>1. PICK p \in Owner : \E s \in regions[p] : f \in Frames(s) BY DEF InUse
  <2>2. PICK s \in regions[p] : f \in Frames(s) BY <2>1
  <2>3. s # r BY <2>2, <1>5
  <2>4. s \in regions'[p] BY <2>2, <2>3, <1>1
  <2> QED BY <2>2, <2>4, <1>2
<1> QED BY <1>3, <1>4, <1>5

LEMMA MarkSafe ==
  ASSUME ~Preemptible, IInv, MapRead, NEW o \in Owner, Mark(o)
  PROVE  IInv'
<1>0. PICK c : c = call[o]
  OBVIOUS
<1> DEFINE f == c.start + c.i
           Call == [pc : {"idle", "scan", "mark", "free"}, num : Nat,
                    start : 0 .. FrameCount, i : Nat]
<1>1. /\ TypeOK /\ PoolInv /\ OnProcessor(o) /\ c.pc = "mark"
      /\ memory_map' = memory_map /\ range' = range /\ boot' = boot
      /\ refused' = refused /\ alloc_map' = alloc_map \cup {f}
  BY <1>0 DEF IInv, Mark
<1>2. /\ c \in Call /\ c.num # 0 /\ c.i < c.num /\ Fresh(c)
      /\ \A g \in c.start + c.i .. c.start + c.num - 1 : g \notin alloc_map
      /\ Frames(Region(c)) = c.start .. c.start + c.num - 1
      /\ FrameCount \in Nat \ {0} /\ NoCall \in Call
  <2>1. c \in Call BY <1>0, <1>1 DEF TypeOK
  <2>2. CallInv(c) BY <1>0 DEF IInv
  <2>3. /\ c.num # 0 /\ c.i < c.num /\ Fresh(c)
        /\ \A g \in c.start + c.i .. c.start + c.num - 1 : g \notin alloc_map
    BY <2>2, <1>1 DEF CallInv
  <2>4. Frames(Region(c)) = c.start .. c.start + c.num - 1 BY DEF Frames, Region
  <2>5. FrameCount \in Nat \ {0} /\ NoCall \in Call BY FrameAssumption DEF NoCall
  <2> QED BY <2>1, <2>3, <2>4, <2>5
<1>3. InCall = c.start .. c.start + c.i - 1
  BY <1>0, <1>1, Alone DEF Changing
<1>4. f \in Frames(Region(c)) /\ f \in Usable /\ f \notin InUse /\ f \in Frame
      /\ c.start \in Frame
  <2>1. f \in Frames(Region(c)) /\ c.start \in Frames(Region(c)) BY <1>2
  <2> QED BY <2>1, <1>2, UsableFrames DEF Fresh
<1>5. Usable' = Usable BY <1>1 DEF Usable, EndOf
<1>6. BootInv' /\ MapRead' BY <1>1, BootFrame
<1>7. alloc_map \cap Usable = InUse \cup InCall BY <1>1 DEF PoolInv, BitsMatch
<1>8. CASE c.i + 1 < c.num
  <2>0. PICK d : d = [c EXCEPT !.i = @ + 1]
    OBVIOUS
  <2>1. call' = [call EXCEPT ![o] = d] /\ regions' = regions
    BY <2>0, <1>8, <1>0, <1>1 DEF Mark, TypeOK
  <2>2. /\ d.pc = "mark" /\ d.num = c.num /\ d.start = c.start /\ d.i = c.i + 1
        /\ d \in Call
    BY <2>0, <1>1, <1>2, SMTT(30)
  <2>3. /\ call'[o] = d /\ \A p \in Owner : p # o => call'[p] = call[p]
        /\ \A p \in Owner : p # o => call'[p].pc = "idle"
        /\ OneBusy' /\ InCall' = Changing(d)
    BY <1>1, <2>1, AloneNext DEF TypeOK
  <2>4. TypeOK' BY <2>1, <2>2, <1>1, <1>4 DEF TypeOK
  <2>5. InUse' = InUse BY <2>1 DEF InUse
  <2>6. InCall' = InCall \cup {f}
    <3>1. InCall' = c.start .. c.start + (c.i + 1) - 1 BY <2>2, <2>3 DEF Changing
    <3>2. c.start \in Nat /\ c.i \in Nat BY <1>2
    <3> QED BY <3>1, <3>2, <1>3
  <2>7. PoolInv'
    <3>1. alloc_map' \cap Usable = InUse \cup InCall \cup {f} BY <1>1, <1>4, <1>7
    <3> QED BY <3>1, <2>1, <2>5, <2>6, <1>1, <1>5 DEF PoolInv, OneOwner, BitsMatch
  <2>8. CallInv(d)'
    <3>1. Fresh(d)' BY <2>2, <2>5, <1>2, <1>5 DEF Fresh, Frames, Region
    <3>2. \A g \in d.start + d.i .. d.start + d.num - 1 : g \notin alloc_map'
      BY <2>2, <1>1, <1>2
    <3> QED BY <3>1, <3>2, <2>2, <1>2, <1>8 DEF CallInv
  <2>9. (\A p \in Owner : CallInv(call[p]))' BY <2>3, <2>8, IdleInv
  <2> QED BY <2>3, <2>4, <2>7, <2>9, <1>6 DEF IInv
<1>9. CASE ~(c.i + 1 < c.num)
  <2>0. PICK r : r = Region(c)
    OBVIOUS
  <2>1. /\ call' = [call EXCEPT ![o] = NoCall]
        /\ regions' = [regions EXCEPT ![o] = @ \cup {r}]
    BY <2>0, <1>9, <1>0, <1>1 DEF Mark, TypeOK
  <2>2. c.num = c.i + 1 BY <1>2, <1>9
  <2>3. /\ call'[o] = NoCall /\ \A p \in Owner : p # o => call'[p] = call[p]
        /\ \A p \in Owner : p # o => call'[p].pc = "idle"
        /\ OneBusy' /\ InCall' = Changing(NoCall)
    BY <1>1, <2>1, AloneNext DEF TypeOK
  <2>4. /\ r \in [start : Frame, num : Nat \ {0}]
        /\ Frames(r) = c.start .. c.start + c.num - 1 /\ Frames(r) \subseteq Usable \ InUse
    BY <2>0, <1>2, <1>4 DEF Region, Fresh
  <2>5. /\ regions \in [Owner -> SUBSET [start : Frame, num : Nat \ {0}]]
        /\ regions'[o] = regions[o] \cup {r}
        /\ \A p \in Owner : p # o => regions'[p] = regions[p]
    BY <2>1, <1>1 DEF TypeOK
  <2>6. TypeOK'
    <3>1. regions' \in [Owner -> SUBSET [start : Frame, num : Nat \ {0}]]
      BY <2>1, <2>4, <2>5
    <3>2. call' \in [Owner -> Call] BY <2>1, <1>1, <1>2 DEF TypeOK
    <3> QED BY <3>1, <3>2, <1>1, <1>4 DEF TypeOK
  <2>7. InUse' = InUse \cup Frames(r) BY <2>1, <2>5, InUseGiven
  <2>8. InCall' = {} /\ InCall \cup {f} = Frames(r)
    BY <2>2, <2>3, <2>4, <1>2, <1>3 DEF Changing, NoCall
  <2>9. OneOwner'
    <3> SUFFICES ASSUME NEW p \in Owner, NEW q \in Owner,
                        NEW s \in regions'[p], NEW u \in regions'[q],
                        Frames(s) \cap Frames(u) # {}
                 PROVE  p = q /\ s = u
      BY DEF OneOwner, Frames
    <3>1. \A v \in Owner : \A w \in regions[v] :
             Frames(w) \subseteq InUse /\ Frames(w) \cap Frames(r) = {}
      BY <2>4 DEF InUse
    <3>2. \A v \in Owner : \A w \in regions'[v] : w \in regions[v] \/ (v = o /\ w = r)
      BY <2>5
    <3> QED BY <3>1, <3>2, <1>1 DEF PoolInv, OneOwner
  <2>10. PoolInv'
    <3>1. alloc_map' \cap Usable = InUse' \cup InCall' BY <1>1, <1>4, <1>7, <2>7, <2>8
    <3>2. ASSUME NEW p \in Owner, NEW s \in regions'[p] PROVE Frames(s) \subseteq Usable
      BY <2>4, <2>5, <1>1 DEF PoolInv
    <3> QED BY <3>1, <3>2, <2>9, <1>5 DEF PoolInv, BitsMatch, Frames
  <2>11. (\A p \in Owner : CallInv(call[p]))' BY <2>3, IdleInv DEF NoCall
  <2> QED BY <2>3, <2>6, <2>10, <2>11, <1>6 DEF IInv
<1> QED BY <1>8, <1>9

LEMMA FreeSafe ==
  ASSUME ~Preemptible, IInv, MapRead, NEW o \in Owner, Free(o)
  PROVE  IInv'
<1>0. PICK r \in regions[o] :
        /\ Enter(o, "free", r.num, r.start)
        /\ regions' = [regions EXCEPT ![o] = @ \ {r}]
  BY DEF Free
<1>1. PICK d : d = [pc |-> "free", num |-> r.num, start |-> r.start, i |-> 0]
  OBVIOUS
<1>2. /\ TypeOK /\ PoolInv /\ OnProcessor(o) /\ call[o].pc = "idle"
      /\ call' = [call EXCEPT ![o] = d]
      /\ memory_map' = memory_map /\ alloc_map' = alloc_map /\ range' = range
      /\ boot' = boot /\ refused' = refused
  BY <1>0, <1>1 DEF IInv, Free, Enter
<1>3. /\ regions \in [Owner -> SUBSET [start : Frame, num : Nat \ {0}]]
      /\ regions'[o] = regions[o] \ {r}
      /\ \A p \in Owner : p # o => regions'[p] = regions[p]
      /\ r \in [start : Frame, num : Nat \ {0}]
  BY <1>0, <1>2 DEF TypeOK
<1>4. /\ d.pc = "free" /\ d.num = r.num /\ d.start = r.start /\ d.i = 0
      /\ d.num # 0 /\ d.i < d.num
      /\ d \in [pc : {"idle", "scan", "mark", "free"}, num : Nat,
                start : 0 .. FrameCount, i : Nat]
  BY <1>1, <1>3, FrameAssumption DEF Frame
<1>5. TypeOK'
  <2>1. call' \in [Owner -> [pc : {"idle", "scan", "mark", "free"}, num : Nat,
                            start : 0 .. FrameCount, i : Nat]]
    BY <1>2, <1>4 DEF TypeOK
  <2>2. regions' \in [Owner -> SUBSET [start : Frame, num : Nat \ {0}]]
    BY <1>0, <1>3
  <2> QED BY <2>1, <2>2, <1>2 DEF TypeOK
<1>6. /\ call'[o] = d /\ \A p \in Owner : p # o => call'[p] = call[p]
      /\ \A p \in Owner : p # o => call'[p].pc = "idle"
      /\ OneBusy' /\ InCall' = Changing(d)
  BY <1>2, AloneNext DEF TypeOK
<1>7. InUse' = InUse \ Frames(r) BY <1>0, <1>2, <1>3, InUseReturned DEF PoolInv
<1>8. InCall = {} /\ Changing(d) = Frames(r) /\ Frames(Region(d)) = Frames(r)
  <2>1. InCall = {} BY <1>2, Alone DEF Changing
  <2>2. d.start \in Nat /\ d.num \in Nat BY <1>4
  <2>3. Changing(d) = d.start .. d.start + d.num - 1 BY <2>2, <1>4 DEF Changing
  <2> QED BY <2>1, <2>3, <1>4 DEF Frames, Region
<1>9. Frames(r) \subseteq Usable /\ Frames(r) \subseteq InUse
  BY <1>2 DEF PoolInv, InUse
<1>10. Usable' = Usable BY <1>2 DEF Usable, EndOf
<1>11. BootInv' /\ MapRead' BY <1>2, BootFrame
<1>12. PoolInv'
  <2>1. alloc_map' \cap Usable = InUse' \cup InCall'
    <3>1. alloc_map \cap Usable = InUse \cup InCall BY <1>2 DEF PoolInv, BitsMatch
    <3> QED BY <3>1, <1>2, <1>6, <1>7, <1>8, <1>9
  <2>2. \A p \in Owner : \A s \in regions'[p] : s \in regions[p] BY <1>3
  <2>3. OneOwner' BY <2>2, <1>2 DEF PoolInv, OneOwner, Frames
  <2> QED BY <2>1, <2>2, <2>3, <1>2, <1>10 DEF PoolInv, BitsMatch, Frames
<1>13. CallInv(d)'
  <2>1. Fresh(d)' BY <1>7, <1>8, <1>9, <1>10 DEF Fresh, Frames, Region
  <2> QED BY <2>1, <1>4 DEF CallInv
<1>14. (\A p \in Owner : CallInv(call[p]))' BY <1>6, <1>13, IdleInv
<1> QED BY <1>5, <1>6, <1>11, <1>12, <1>14 DEF IInv

LEMMA ClearSafe ==
  ASSUME ~Preemptible, IInv, MapRead, NEW o \in Owner, Clear(o)
  PROVE  IInv'
<1>0. PICK c : c = call[o]
  OBVIOUS
<1> DEFINE f == c.start + c.i
           Call == [pc : {"idle", "scan", "mark", "free"}, num : Nat,
                    start : 0 .. FrameCount, i : Nat]
<1>1. /\ TypeOK /\ PoolInv /\ OnProcessor(o) /\ c.pc = "free"
      /\ memory_map' = memory_map /\ range' = range /\ boot' = boot
      /\ refused' = refused /\ regions' = regions /\ alloc_map' = alloc_map \ {f}
  BY <1>0 DEF IInv, Clear
<1>2. /\ c \in Call /\ c.num # 0 /\ c.i < c.num /\ Fresh(c)
      /\ Frames(Region(c)) = c.start .. c.start + c.num - 1
      /\ FrameCount \in Nat \ {0} /\ NoCall \in Call
  BY <1>0, <1>1, FrameAssumption DEF IInv, TypeOK, CallInv, Frames, Region, NoCall
<1>3. InCall = c.start + c.i .. c.start + c.num - 1
  BY <1>0, <1>1, Alone DEF Changing
<1>4. f \in Usable /\ f \notin InUse
  <2>1. f \in Frames(Region(c)) BY <1>2
  <2> QED BY <2>1, <1>2 DEF Fresh
<1>5. Usable' = Usable /\ InUse' = InUse BY <1>1 DEF Usable, EndOf, InUse
<1>6. BootInv' /\ MapRead' BY <1>1, <1>4, BootFrame
<1>7. PICK d : d = IF c.i + 1 < c.num THEN [c EXCEPT !.i = @ + 1] ELSE NoCall
  OBVIOUS
<1>8. call' = [call EXCEPT ![o] = d]
  BY <1>0, <1>1, <1>7 DEF Clear, TypeOK
<1>9. /\ d \in Call
      /\ c.i + 1 < c.num => /\ d.pc = "free" /\ d.num = c.num
                           /\ d.start = c.start /\ d.i = c.i + 1
      /\ ~(c.i + 1 < c.num) => d = NoCall
  BY <1>1, <1>2, <1>7
<1>10. /\ call'[o] = d /\ \A p \in Owner : p # o => call'[p] = call[p]
       /\ \A p \in Owner : p # o => call'[p].pc = "idle"
       /\ OneBusy' /\ InCall' = Changing(d)
  BY <1>1, <1>8, AloneNext DEF TypeOK
<1>11. Changing(d) = InCall \ {f}
  <2>1. c.start \in Nat /\ c.i \in Nat /\ c.num \in Nat BY <1>2
  <2>2. CASE c.i + 1 < c.num
    <3>1. Changing(d) = c.start + (c.i + 1) .. c.start + c.num - 1
      BY <2>2, <1>9 DEF Changing
    <3> QED BY <3>1, <2>1, <1>3
  <2>3. CASE ~(c.i + 1 < c.num)
    <3>1. c.num = c.i + 1 BY <2>1, <2>3, <1>2
    <3>2. Changing(d) = {} BY <2>3, <1>9 DEF Changing, NoCall
    <3> QED BY <3>1, <3>2, <2>1, <1>3
  <2> QED BY <2>2, <2>3
<1>12. TypeOK'
  <2>1. call' \in [Owner -> Call] BY <1>1, <1>8, <1>9 DEF TypeOK
  <2> QED BY <2>1, <1>1 DEF TypeOK
<1>13. PoolInv'
  <2>1. alloc_map' \cap Usable = InUse \cup InCall'
    <3>1. alloc_map \cap Usable = InUse \cup InCall BY <1>1, <1>6 DEF PoolInv, BitsMatch
    <3> QED BY <3>1, <1>1, <1>4, <1>10, <1>11
  <2> QED BY <2>1, <1>1, <1>5 DEF PoolInv, BitsMatch, OneOwner, Frames
<1>14. CallInv(d)'
  <2>1. CASE c.i + 1 < c.num
    <3>1. Fresh(d)' BY <2>1, <1>2, <1>5, <1>9 DEF Fresh, Frames, Region
    <3> QED BY <3>1, <2>1, <1>2, <1>9 DEF CallInv
  <2>2. CASE ~(c.i + 1 < c.num) BY <2>2, <1>9, IdleInv DEF NoCall
  <2> QED BY <2>1, <2>2
<1>15. (\A p \in Owner : CallInv(call[p]))' BY <1>10, <1>14, IdleInv
<1> QED BY <1>10, <1>6, <1>12, <1>13, <1>15 DEF IInv
-----------------------------------------------------------------------------
LEMMA NextIInv ==
  ASSUME ~Preemptible
  PROVE  IInv /\ [Next]_vars => IInv'
<1> SUFFICES ASSUME IInv, [Next]_vars PROVE IInv'
  OBVIOUS
<1>1. CASE MarkDescriptor BY <1>1, MarkDescriptorSafe
<1>2. CASE SetMemoryRange BY <1>2, SetMemoryRangeSafe
<1>3. CASE BootAllocate
  <2>1. Boot \in Owner BY DEF Owner
  <2>2. boot.served + 1 \in 1 .. Len(BootRequests)
    BY <1>3, FrameAssumption DEF BootAllocate, IInv, TypeOK
  <2>3. BootRequests[boot.served + 1] \in Nat \ {0} BY <2>2, FrameAssumption
  <2>4. boot' \in [desc : {boot.desc}, available_end : {boot.available_end},
                  served : 0 .. Len(BootRequests)]
    <3>1. PICK n : n = boot.served + 1
      OBVIOUS
    <3>2. n \in 0 .. Len(BootRequests) BY <2>2, <3>1, FrameAssumption
    <3>3. boot' = [boot EXCEPT !.served = n] BY <1>3, <3>1 DEF BootAllocate
    <3> QED BY <3>2, <3>3 DEF IInv, TypeOK
  <2> QED BY <1>3, <2>1, <2>3, <2>4, AllocateSafe DEF BootAllocate
<1>4. ASSUME NEW t \in Task, TaskAllocate(t) PROVE IInv'
  <2>1. PICK n \in Requests : Allocate(t, n) BY <1>4 DEF TaskAllocate
  <2>2. /\ t \in Owner /\ n \in Nat \ {0} /\ MapRead
        /\ boot' \in [desc : {boot.desc}, available_end : {boot.available_end},
                     served : 0 .. Len(BootRequests)]
    BY <1>4, FrameAssumption DEF TaskAllocate, TasksRun, Owner, IInv, TypeOK
  <2> QED BY <2>1, <2>2, AllocateSafe
<1>5. ASSUME NEW t \in Task, Free(t) PROVE IInv'
  BY <1>5, FreeSafe DEF Free, TasksRun, Owner
<1>6. ASSUME NEW o \in Owner, Progress(o) PROVE IInv'
  <2>1. call[o].pc # "idle" BY <1>6 DEF Progress, Scan, Mark, Clear
  <2>2. MapRead BY <2>1 DEF IInv, BootInv, Quiet, NoCall
  <2> QED BY <1>6, <2>2, ScanSafe, MarkSafe, ClearSafe DEF Progress
<1>7. CASE UNCHANGED vars
  <2>1. /\ memory_map' = memory_map /\ alloc_map' = alloc_map /\ range' = range
        /\ boot' = boot /\ call' = call /\ regions' = regions /\ refused' = refused
    BY <1>7 DEF vars
  <2>2. Usable' = Usable /\ InUse' = InUse /\ InCall' = InCall
        /\ (Avail(boot.desc))' = Avail(boot.desc)
    BY <2>1 DEF Usable, InUse, InCall, Avail, EndOf
  <2>3. TypeOK' BY <2>1 DEF IInv, TypeOK
  <2>4. BootInv' BY <2>1, <2>2 DEF IInv, BootInv, MapRead, Quiet
  <2>5. PoolInv' BY <2>1, <2>2 DEF IInv, PoolInv, OneOwner, BitsMatch, MapRead, Frames
  <2>6. OneBusy' BY <2>1 DEF IInv, OneBusy
  <2>7. ASSUME NEW o \in Owner PROVE CallInv(call[o])'
    BY <2>1, <2>2 DEF IInv, CallInv, Fresh, Frames, Region
  <2> QED BY <2>3, <2>4, <2>5, <2>6, <2>7 DEF IInv
<1> QED BY <1>1, <1>2, <1>3, <1>4, <1>5, <1>6, <1>7 DEF Next

(* The inductive invariant, provided no call is preempted.                 *)
THEOREM Inductive ==
  ASSUME ~Preemptible
  PROVE  Spec => []IInv
<1>1. Init => IInv BY InitIInv
<1>2. IInv /\ [Next]_vars => IInv' BY NextIInv
<1> QED BY <1>1, <1>2, PTL DEF Spec

(* The bitmap, the ranges and the calls keep their types: no bit beyond    *)
(* the end of the map is read or written.                                  *)
THEOREM TypeCorrect ==
  ASSUME ~Preemptible
  PROVE  Spec => []TypeOK
<1>1. IInv => TypeOK BY DEF IInv
<1> QED BY <1>1, Inductive, PTL

(* No frame is in two regions that are in use.                             *)
THEOREM FramesHaveOneOwner ==
  ASSUME ~Preemptible
  PROVE  Spec => []OneOwner
<1>1. IInv => OneOwner BY DEF IInv, PoolInv
<1> QED BY <1>1, Inductive, PTL

(* Between calls a usable frame's bit is 1 exactly if somebody uses it.    *)
THEOREM BitmapIsRight ==
  ASSUME ~Preemptible
  PROVE  Spec => []BitsMatch
<1>1. IInv => BitsMatch BY DEF IInv, PoolInv
<1> QED BY <1>1, Inductive, PTL
-----------------------------------------------------------------------------
(* The refinement of FramePool: what a step does to the requests.          *)
Asked == [o \in Owner |-> Wanted(call[o])]

LEMMA AskedStep ==
  ASSUME NEW o \in Owner, NEW c, DOMAIN call = Owner,
         call' = [call EXCEPT ![o] = c]
  PROVE  Asked' = [Asked EXCEPT ![o] = Wanted(c)]
<1>1. call'[o] = c /\ \A p \in Owner : p # o => call'[p] = call[p]
  OBVIOUS
<1>2. Asked' = [p \in Owner |-> Wanted(call'[p])] BY DEF Asked, Wanted
<1>3. \A p \in Owner : Asked[p] = Wanted(call[p]) BY DEF Asked
<1>4. DOMAIN Asked = Owner /\ Asked = [p \in Owner |-> Asked[p]] BY DEF Asked
<1> QED BY <1>1, <1>2, <1>3, <1>4

LEMMA AskedSame ==
  ASSUME NEW o \in Owner, NEW c, DOMAIN call = Owner,
         call' = [call EXCEPT ![o] = c], Wanted(c) = Wanted(call[o])
  PROVE  Asked' = Asked
<1>1. Asked' = [Asked EXCEPT ![o] = Wanted(c)] BY AskedStep
<1>2. Asked[o] = Wanted(c) /\ Asked = [p \in Owner |-> Asked[p]] BY DEF Asked
<1> QED BY <1>1, <1>2

(* The frames FramePool sees are the ones FrameAllocator sees.             *)
LEMMA SameFrames ==
  /\ \A r : Pool!Frames(r) = Frames(r)
  /\ Pool!InUse = InUse
  /\ \A r : Pool!Free(r) <=> Frames(r) \subseteq Usable \ InUse
BY DEF Pool!Frames, Frames, Pool!InUse, InUse, Pool!Free

LEMMA Stutter ==
  ASSUME memory_map' = memory_map, regions' = regions, refused' = refused,
         Asked' = Asked
  PROVE  UNCHANGED Pool!vars
<1>1. Usable' = Usable BY DEF Usable, EndOf
<1> QED BY <1>1 DEF Pool!vars, Asked

LEMMA ScanImplements ==
  ASSUME ~Preemptible, IInv, MapRead, NEW o \in Owner, Scan(o)
  PROVE  Pool!Refuse(o) \/ UNCHANGED Pool!vars
<1>0. PICK c : c = call[o]
  OBVIOUS
<1> DEFINE f == c.start + c.i
<1>1. /\ TypeOK /\ PoolInv /\ OnProcessor(o) /\ c.pc = "scan" /\ DOMAIN call = Owner
      /\ memory_map' = memory_map /\ regions' = regions /\ refused \in [Owner -> BOOLEAN]
  BY <1>0 DEF IInv, Scan, TypeOK
<1>2. /\ c \in [pc : {"idle", "scan", "mark", "free"}, num : Nat,
               start : 0 .. FrameCount, i : Nat]
      /\ c.num # 0 /\ c.num \in Nat /\ c.start \in Nat /\ c.i \in Nat
      /\ 1 <= c.start /\ c.i <= c.num
      /\ \A s \in 1 .. c.start - 1 : \E g \in s .. s + c.num - 1 : g \in alloc_map
      /\ Asked[o] = c.num /\ Wanted(call[o]) = c.num
  BY <1>0, <1>1, FrameAssumption DEF IInv, TypeOK, CallInv, Asked, Wanted
<1>3. Usable' = Usable BY <1>1 DEF Usable, EndOf
<1>4. CASE c.i < c.num /\ f >= range.end
  <2>1. call' = [call EXCEPT ![o] = NoCall] /\ refused' = [refused EXCEPT ![o] = TRUE]
    BY <1>4, <1>0, <1>1, <1>2 DEF Scan, IInv, TypeOK
  <2>2. Asked' = [Asked EXCEPT ![o] = 0]
    <3>1. Wanted(NoCall) = 0 BY DEF Wanted, NoCall
    <3>2. Asked' = [Asked EXCEPT ![o] = Wanted(NoCall)] BY <2>1, <1>1, AskedStep
    <3> QED BY <3>1, <3>2
  <2>3. ASSUME NEW s \in Usable,
               Pool!Free([start |-> s, num |-> c.num])
        PROVE  FALSE
    <3>1. s .. s + c.num - 1 \subseteq Usable \ InUse
      BY <2>3, SameFrames DEF Frames
    <3>2. InCall = {} BY <1>0, <1>1, Alone DEF Changing
    <3>3. \A g \in Usable : g \in Nat /\ 1 <= g /\ g < range.end
      BY <1>1, UsableFrames DEF IInv, BootInv, Frame
    <3>4. \A g \in s .. s + c.num - 1 : g \notin alloc_map
      BY <3>1, <3>2, <1>1 DEF PoolInv, BitsMatch
    <3>5. s \in Nat /\ 1 <= s BY <3>3
    <3>6. ~(s < c.start) BY <3>4, <3>5, <1>2
    <3>7. s + c.num - 1 \in s .. s + c.num - 1 BY <3>5, <1>2
    <3>8. s + c.num - 1 < range.end BY <3>1, <3>3, <3>7
    <3>9. range.end \in Nat BY <1>1 DEF TypeOK, Frame
    <3> QED BY <3>5, <3>6, <3>8, <3>9, <1>2, <1>4
  <2>4. Pool!Refuse(o)
    BY <2>1, <2>2, <2>3, <1>1, <1>2, <1>3 DEF Pool!Refuse, Asked
  <2> QED BY <2>4
<1>5. CASE ~(c.i < c.num /\ f >= range.end)
  <2>0. range.end \in Nat /\ f \in Nat BY <1>1, <1>2, FrameAssumption DEF TypeOK
  <2>1. PICK d : /\ call' = [call EXCEPT ![o] = d]
                 /\ d.pc \in {"scan", "mark"} /\ d.num = c.num
    <3>1. CASE c.i < c.num /\ f < range.end /\ GetBit(f)
      <4>1. call' = [call EXCEPT ![o] = [c EXCEPT !.start = f + 1, !.i = 0]]
        BY <3>1, <2>0, <1>0, <1>2 DEF Scan
      <4>2. PICK d : d = [c EXCEPT !.start = f + 1, !.i = 0]
        OBVIOUS
      <4>3. d.pc = "scan" /\ d.num = c.num BY <4>2, <1>1, <1>2
      <4> QED BY <4>1, <4>2, <4>3
    <3>2. CASE c.i < c.num /\ f < range.end /\ ~GetBit(f)
      <4>1. call' = [call EXCEPT ![o] = [c EXCEPT !.i = @ + 1]]
        BY <3>2, <2>0, <1>0, <1>2 DEF Scan
      <4>2. PICK d : d = [c EXCEPT !.i = @ + 1]
        OBVIOUS
      <4>3. d.pc = "scan" /\ d.num = c.num BY <4>2, <1>1, <1>2
      <4> QED BY <4>1, <4>2, <4>3
    <3>3. CASE c.i = c.num
      <4>1. call' = [call EXCEPT ![o] = [c EXCEPT !.pc = "mark", !.i = 0]]
        BY <3>3, <1>0, <1>2 DEF Scan
      <4>2. PICK d : d = [c EXCEPT !.pc = "mark", !.i = 0]
        OBVIOUS
      <4>3. d.pc = "mark" /\ d.num = c.num BY <4>2, <1>1, <1>2
      <4> QED BY <4>1, <4>2, <4>3
    <3> QED BY <3>1, <3>2, <3>3, <2>0, <1>2, <1>5
  <2>2. refused' = refused
    BY <1>5, <1>0, <1>1, <1>2, FrameAssumption DEF Scan, TypeOK
  <2>3. Asked' = Asked BY <2>1, <1>1, <1>2, AskedSame DEF Wanted
  <2> QED BY <2>2, <2>3, <1>1, Stutter
<1> QED BY <1>4, <1>5

LEMMA MarkImplements ==
  ASSUME ~Preemptible, IInv, MapRead, NEW o \in Owner, Mark(o)
  PROVE  Pool!Grant(o) \/ UNCHANGED Pool!vars
<1>0. PICK c : c = call[o]
  OBVIOUS
<1>1. /\ TypeOK /\ OnProcessor(o) /\ c.pc = "mark" /\ DOMAIN call = Owner
      /\ memory_map' = memory_map /\ refused' = refused
  BY <1>0 DEF IInv, Mark, TypeOK
<1>2. /\ c.num # 0 /\ c.num \in Nat /\ c.start \in Nat /\ Fresh(c)
      /\ Asked[o] = c.num /\ Wanted(call[o]) = c.num
      /\ c \in [pc : {"idle", "scan", "mark", "free"}, num : Nat,
               start : 0 .. FrameCount, i : Nat]
  BY <1>0, <1>1, FrameAssumption DEF IInv, TypeOK, CallInv, Asked, Wanted
<1>3. Usable' = Usable BY <1>1 DEF Usable, EndOf
<1>4. CASE c.i + 1 < c.num
  <2>1. PICK d : d = [c EXCEPT !.i = @ + 1]
    OBVIOUS
  <2>2. call' = [call EXCEPT ![o] = d] /\ regions' = regions
    BY <2>1, <1>4, <1>0, <1>1 DEF Mark, TypeOK
  <2>3. d.pc = "mark" /\ d.num = c.num BY <2>1, <1>1, <1>2
  <2>4. Asked' = Asked BY <2>2, <2>3, <1>1, <1>2, AskedSame DEF Wanted
  <2> QED BY <2>2, <2>4, <1>1, Stutter
<1>5. CASE ~(c.i + 1 < c.num)
  <2>1. /\ call' = [call EXCEPT ![o] = NoCall]
        /\ regions' = [regions EXCEPT ![o] = @ \cup {Region(c)}]
    BY <1>5, <1>0, <1>1 DEF Mark, TypeOK
  <2>2. Asked' = [Asked EXCEPT ![o] = 0]
    <3>1. Wanted(NoCall) = 0 BY DEF Wanted, NoCall
    <3>2. Asked' = [Asked EXCEPT ![o] = Wanted(NoCall)] BY <2>1, <1>1, AskedStep
    <3> QED BY <3>1, <3>2
  <2>3. Region(c) = [start |-> c.start, num |-> Asked[o]] BY <1>2 DEF Region
  <2>4. c.start \in Usable
    <3>1. c.start \in c.start .. c.start + c.num - 1 BY <1>2
    <3>2. Frames(Region(c)) = c.start .. c.start + c.num - 1 BY DEF Frames, Region
    <3> QED BY <3>1, <3>2, <1>2 DEF Fresh
  <2>5. Pool!Free(Region(c)) BY <1>2, SameFrames DEF Fresh
  <2>6. Pool!Grant(o)
    BY <2>1, <2>2, <2>3, <2>4, <2>5, <1>1, <1>2, <1>3 DEF Pool!Grant, Asked
  <2> QED BY <2>6
<1> QED BY <1>4, <1>5

LEMMA AllocateImplements ==
  ASSUME IInv, NEW o \in Owner, NEW n \in Nat \ {0}, Allocate(o, n)
  PROVE  Pool!Ask(o)
<1>1. PICK c : c = [pc |-> "scan", num |-> n, start |-> range.begin, i |-> 0]
  OBVIOUS
<1>2. /\ call[o].pc = "idle" /\ DOMAIN call = Owner /\ call' = [call EXCEPT ![o] = c]
      /\ refused' = [refused EXCEPT ![o] = FALSE]
      /\ memory_map' = memory_map /\ regions' = regions
  BY <1>1 DEF IInv, TypeOK, Allocate, Enter
<1>3. Wanted(c) = n /\ Asked[o] = 0 BY <1>1, <1>2 DEF Wanted, Asked
<1>4. Asked' = [Asked EXCEPT ![o] = n] BY <1>2, <1>3, AskedStep
<1>5. Asked'[o] = n BY <1>4 DEF Asked
<1>6. Usable' = Usable BY <1>2 DEF Usable, EndOf
<1> QED BY <1>2, <1>3, <1>4, <1>5, <1>6 DEF Pool!Ask, Asked

LEMMA FreeImplements ==
  ASSUME IInv, NEW o \in Owner, Free(o)
  PROVE  Pool!Release(o)
<1>0. PICK r \in regions[o] :
        /\ Enter(o, "free", r.num, r.start)
        /\ regions' = [regions EXCEPT ![o] = @ \ {r}]
  BY DEF Free
<1>1. PICK c : c = [pc |-> "free", num |-> r.num, start |-> r.start, i |-> 0]
  OBVIOUS
<1>2. /\ call[o].pc = "idle" /\ DOMAIN call = Owner /\ call' = [call EXCEPT ![o] = c]
      /\ refused' = refused /\ memory_map' = memory_map
  BY <1>0, <1>1 DEF IInv, TypeOK, Free, Enter
<1>3. Wanted(c) = Wanted(call[o]) BY <1>1, <1>2 DEF Wanted
<1>4. Asked' = Asked BY <1>2, <1>3, AskedSame
<1>5. Usable' = Usable BY <1>2 DEF Usable, EndOf
<1> QED BY <1>0, <1>2, <1>4, <1>5 DEF Pool!Release, Asked

LEMMA ClearImplements ==
  ASSUME IInv, NEW o \in Owner, Clear(o)
  PROVE  UNCHANGED Pool!vars
<1>1. PICK c : c = IF call[o].i + 1 < call[o].num THEN [call[o] EXCEPT !.i = @ + 1]
                   ELSE NoCall
  OBVIOUS
<1>2. /\ call[o].pc = "free" /\ DOMAIN call = Owner /\ call' = [call EXCEPT ![o] = c]
      /\ refused' = refused /\ memory_map' = memory_map /\ regions' = regions
      /\ call[o] \in [pc : {"idle", "scan", "mark", "free"}, num : Nat,
                     start : 0 .. FrameCount, i : Nat]
  BY <1>1 DEF IInv, TypeOK, Clear
<1>3. c.pc \in {"free", "idle"} BY <1>1, <1>2 DEF NoCall
<1>4. Wanted(c) = Wanted(call[o]) BY <1>2, <1>3 DEF Wanted
<1>5. Asked' = Asked BY <1>2, <1>4, AskedSame
<1> QED BY <1>2, <1>5, Stutter

LEMMA NextImplements ==
  ASSUME ~Preemptible, IInv, [Next]_vars
  PROVE  [Pool!Next]_(Pool!vars)
<1>1. CASE MarkDescriptor \/ SetMemoryRange
  BY <1>1, Stutter DEF MarkDescriptor, SetMemoryRange, Asked, Wanted
<1>2. CASE BootAllocate
  <2>1. Boot \in Owner BY DEF Owner
  <2>2. boot.served + 1 \in 1 .. Len(BootRequests)
    BY <1>2, FrameAssumption DEF BootAllocate, IInv, TypeOK
  <2>3. BootRequests[boot.served + 1] \in Nat \ {0} BY <2>2, FrameAssumption
  <2> QED BY <1>2, <2>1, <2>3, AllocateImplements DEF BootAllocate, Pool!Next
<1>3. ASSUME NEW t \in Task, TaskAllocate(t) PROVE Pool!Next
  BY <1>3, AllocateImplements, FrameAssumption DEF TaskAllocate, Owner, Pool!Next
<1>4. ASSUME NEW t \in Task, Free(t) PROVE Pool!Next
  BY <1>4, FreeImplements DEF Owner, Pool!Next
<1>5. ASSUME NEW o \in Owner, Progress(o) PROVE [Pool!Next]_(Pool!vars)
  <2>1. call[o].pc # "idle" BY <1>5 DEF Progress, Scan, Mark, Clear
  <2>2. MapRead BY <2>1 DEF IInv, BootInv, Quiet, NoCall
  <2>3. CASE Scan(o) BY <2>3, <2>2, ScanImplements DEF Pool!Next
  <2>4. CASE Mark(o) BY <2>4, <2>2, MarkImplements DEF Pool!Next
  <2>5. CASE Clear(o) BY <2>5, ClearImplements
  <2> QED BY <2>3, <2>4, <2>5, <1>5 DEF Progress
<1>6. CASE UNCHANGED vars
  BY <1>6, Stutter DEF vars, Asked, Wanted
<1> QED BY <1>1, <1>2, <1>3, <1>4, <1>5, <1>6 DEF Next

(* The scan over the bitmap implements FramePool: what is granted is free  *)
(* and usable, and a request is refused only if no free run is long enough.*)
THEOREM AllocatorImplementsPool ==
  ASSUME ~Preemptible
  PROVE  Spec => ImplementsPool
<1>1. Init => Pool!Init BY DEF Init, Pool!Init, Wanted, NoCall
<1>2. IInv /\ [Next]_vars => [Pool!Next]_(Pool!vars) BY NextImplements
<1> QED BY <1>1, <1>2, Inductive, PTL DEF Spec, ImplementsPool, Pool!Spec
=============================================================================
