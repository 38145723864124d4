---------------------------- MODULE TimersProofs ----------------------------
(***************************************************************************)
(* The invariants of Timers, for any number of terminals, timers and       *)
(* applications, any frequency and any width of a time.                    *)
(***************************************************************************)
EXTENDS Timers, SequenceTheorems, FiniteSetTheorems, WellFoundedInduction, TLAPS

Values == AppValues \cup {ChainValue}
Stamp == [timeout : Nat, value : Values]
Places == {"start", "loop", "shell", "app", "gone"}

(* The copies of all the timers of a heap.                                 *)
Copies(bag) == UNION {{x} \X (1 .. bag[x]) : x \in BagToSet(bag)}

TimerOK(x) ==
  /\ x = Timer(x.timeout, x.value, x.task)
  /\ x.timeout \in Nat
  /\ \/ x.task = Main /\ x.value = kTaskTimerValue
     \/ x.task = Clock /\ x.value = ChainValue
     \/ x.task \in Terminal /\ x.value \in Values

HeapOK(bag) ==
  /\ bag \in [BagToSet(bag) -> Nat \ {0}]
  /\ IsFiniteSet(Copies(bag))
  /\ \A x \in BagToSet(bag) : TimerOK(x)

TypeInv ==
  /\ tick \in Nat
  /\ HeapOK(timers)
  /\ msgs \in [Task -> Seq(Stamp) \cup {Gone}]
  /\ hand \in [Task -> {None} \cup [timeout : Nat, value : Values, due : Nat]]
  /\ hand[Clock] # None => hand[Clock].value = ChainValue
  /\ place \in [Task -> Places]
  /\ place[Clock] \in {"start", "loop"}
  /\ \A t \in Terminal : place[t] # "loop"
  /\ \A t \in Task : msgs[t] = Gone <=> place[t] = "gone"
  /\ drawn \in Nat /\ origin \in Nat
  /\ runs \in [Terminal -> Nat] /\ left \in [Terminal -> Nat] /\ asked \in Nat

(* The timers of t in the heap.                                            *)
Mine(bag, t) == {x \in BagToSet(bag) : x.task = t}

RingInv ==
  \E x \in BagToSet(timers) :
    /\ x.value = kTaskTimerValue
    /\ \A y \in BagToSet(timers) : y.value = kTaskTimerValue => y = x
    /\ timers[x] = 1
    /\ x.timeout <= tick + kTaskTimerPeriod
    /\ handler = Idle => tick < x.timeout

NextSecond == origin + (drawn - 1) * kTimerFreq

Unstarted(t) ==
  hand[t] = None /\ Mine(timers, t) = {} /\ msgs[t] = <<>>

ClockInv ==
  /\ place[Clock] = "start" => Unstarted(Clock) /\ drawn = 0
  /\ place[Clock] = "loop" =>
       \/ /\ hand[Clock] # None /\ hand[Clock].value = ChainValue
          /\ hand[Clock].timeout = NextSecond
          /\ Mine(timers, Clock) = {} /\ msgs[Clock] = <<>>
       \/ /\ hand[Clock] = None
          /\ Mine(timers, Clock) = {Timer(NextSecond, ChainValue, Clock)}
          /\ timers[Timer(NextSecond, ChainValue, Clock)] = 1 /\ msgs[Clock] = <<>>
       \/ /\ hand[Clock] = None
          /\ Mine(timers, Clock) = {}
          /\ msgs[Clock] = <<[timeout |-> NextSecond, value |-> ChainValue]>>

CursorInv(t) ==
  /\ place[t] = "start" => Unstarted(t)
  /\ place[t] = "shell" =>
       /\ hand[t] # None => hand[t].value = ChainValue
       /\ Chains(t) + Pending(t, AppValues) <= 1 + left[t]
  /\ place[t] = "app" => Chains(t) <= 1 + left[t]
  /\ place[t] \in {"shell", "app"} /\ t \notin dropped => Chains(t) >= 1

IInv ==
  /\ TypeInv
  /\ RingInv
  /\ ClockInv
  /\ \A t \in Terminal : CursorInv(t)

-----------------------------------------------------------------------------
(* Heaps.  Added and Taken say what push and pop do.                       *)

Added(b, c, x) ==
  /\ c = [y \in BagToSet(c) |-> c[y]]
  /\ BagToSet(c) = BagToSet(b) \cup {x}
  /\ x \in BagToSet(b) => c[x] = b[x] + 1
  /\ x \notin BagToSet(b) => c[x] = 1
  /\ \A y \in BagToSet(b) \ {x} : c[y] = b[y]

Taken(b, c, x) ==
  /\ x \in BagToSet(b)
  /\ c = [y \in BagToSet(c) |-> c[y]]
  /\ b[x] = 1 => BagToSet(c) = BagToSet(b) \ {x}
  /\ b[x] # 1 => BagToSet(c) = BagToSet(b) /\ c[x] = b[x] - 1
  /\ \A y \in BagToSet(b) \ {x} : c[y] = b[y]

LEMMA PushIs ==
  ASSUME NEW b, b \in [BagToSet(b) -> Nat \ {0}], NEW x, NEW c, c = b (+) SetToBag({x})
  PROVE  Added(b, c, x)
<1>1. /\ DOMAIN c = DOMAIN b \cup {x}
      /\ c = [y \in DOMAIN b \cup {x} |->
               (IF y \in DOMAIN b THEN b[y] ELSE 0) + (IF y \in {x} THEN 1 ELSE 0)]
  BY DEF (+), SetToBag
<1> QED BY <1>1 DEF Added, BagToSet

LEMMA PopIs ==
  ASSUME NEW b, b \in [BagToSet(b) -> Nat \ {0}], NEW x \in BagToSet(b),
         NEW c, c = b (-) SetToBag({x})
  PROVE  Taken(b, c, x)
<1> DEFINE d == [y \in DOMAIN b |-> IF y \in {x} THEN b[y] - 1 ELSE b[y]]
<1>1. c = [y \in {y \in DOMAIN b : d[y] > 0} |-> d[y]]
  BY DEF (-), SetToBag
<1>2. \A y \in DOMAIN b : b[y] \in Nat \ {0} BY DEF BagToSet
<1>3. DOMAIN c = {y \in DOMAIN b : d[y] > 0} /\ \A y \in DOMAIN c : c[y] = d[y] BY <1>1
<1>d. \A y \in DOMAIN b : d[y] = IF y = x THEN b[y] - 1 ELSE b[y] OBVIOUS
<1> HIDE DEF d
<1>4. ASSUME NEW y \in DOMAIN b \ {x} PROVE y \in DOMAIN c /\ c[y] = b[y]
  <2>1. d[y] = b[y] /\ b[y] \in Nat \ {0} BY <1>2, <1>d
  <2>2. d[y] > 0 BY <2>1
  <2> QED BY <1>3, <2>1, <2>2
<1>5. x \in DOMAIN b /\ d[x] = b[x] - 1 /\ b[x] \in Nat \ {0} BY <1>2, <1>d DEF BagToSet
<1>6. CASE b[x] = 1
  <2>0. ~(d[x] > 0) BY <1>5, <1>6
  <2>1. x \notin DOMAIN c BY <1>3, <2>0
  <2>2. DOMAIN c = DOMAIN b \ {x} BY <1>3, <1>4, <2>1
  <2> QED BY <1>1, <1>4, <1>5, <1>6, <2>2 DEF Taken, BagToSet
<1>7. CASE b[x] # 1
  <2>0. d[x] > 0 BY <1>5, <1>7
  <2>1. x \in DOMAIN c /\ c[x] = b[x] - 1 BY <1>3, <1>5, <2>0
  <2>2. DOMAIN c = DOMAIN b BY <1>3, <1>4, <2>1
  <2> QED BY <1>1, <1>4, <1>5, <1>7, <2>1, <2>2 DEF Taken, BagToSet
<1> QED BY <1>6, <1>7

LEMMA CopiesMember ==
  ASSUME NEW b, NEW p
  PROVE  p \in Copies(b) <=> \E x \in BagToSet(b) : \E n \in 1 .. b[x] : p = <<x, n>>
BY DEF Copies

LEMMA HeldMember ==
  ASSUME NEW b, NEW t, NEW V, NEW p
  PROVE  p \in Held(b, t, V) <=>
           \E x \in BagToSet(b) : \E n \in 1 .. b[x] :
             x.task = t /\ x.value \in V /\ p = <<x, n>>
BY DEF Held

LEMMA HeldFinite ==
  ASSUME NEW b, IsFiniteSet(Copies(b)), NEW t, NEW V
  PROVE  /\ IsFiniteSet(Held(b, t, V))
         /\ Cardinality(Held(b, t, V)) \in Nat
<1>1. Held(b, t, V) \in SUBSET Copies(b) BY CopiesMember, HeldMember
<1>2. IsFiniteSet(Held(b, t, V)) BY <1>1, FS_Subset
<1> QED BY <1>2, FS_CardinalityType

(* A push adds one copy, to what the heap holds of the timer's task.       *)
LEMMA AddedHeap ==
  ASSUME NEW b, HeapOK(b), NEW x, TimerOK(x), NEW c, Added(b, c, x)
  PROVE  HeapOK(c)
<1>0. /\ b \in [BagToSet(b) -> Nat \ {0}] /\ IsFiniteSet(Copies(b))
      /\ \A y \in BagToSet(b) : TimerOK(y) /\ b[y] \in Nat \ {0}
  BY DEF HeapOK
<1>1. \A y \in BagToSet(c) : c[y] \in Nat \ {0} /\ TimerOK(y)
  BY <1>0 DEF Added
<1>2. Copies(c) = Copies(b) \cup {<<x, c[x]>>}
  <2>1. ASSUME NEW p, p \in Copies(c) PROVE p \in Copies(b) \cup {<<x, c[x]>>}
    <3>1. PICK y \in BagToSet(c) : \E n \in 1 .. c[y] : p = <<y, n>> BY <2>1, CopiesMember
    <3>2. PICK n \in 1 .. c[y] : p = <<y, n>> BY <3>1
    <3>3. CASE y # x
      <4>1. y \in BagToSet(b) /\ c[y] = b[y] BY <3>3 DEF Added
      <4> QED BY <3>2, <4>1, CopiesMember
    <3>4. CASE y = x /\ n # c[x]
      <4>1. n \in Nat /\ n >= 1 /\ n < c[x] BY <1>1, <3>1, <3>2, <3>4
      <4>2. x \in BagToSet(b) /\ c[x] = b[x] + 1 BY <1>0, <4>1 DEF Added
      <4>3. n \in 1 .. b[x] BY <1>0, <4>1, <4>2
      <4> QED BY <3>2, <3>4, <4>2, <4>3, CopiesMember
    <3> QED BY <3>2, <3>3, <3>4
  <2>2. ASSUME NEW p, p \in Copies(b) PROVE p \in Copies(c)
    <3>1. PICK y \in BagToSet(b) : \E n \in 1 .. b[y] : p = <<y, n>> BY <2>2, CopiesMember
    <3>2. PICK n \in 1 .. b[y] : p = <<y, n>> BY <3>1
    <3>3. y \in BagToSet(c) /\ c[y] \in {b[y], b[y] + 1} BY <3>1 DEF Added
    <3>4. n \in 1 .. c[y] BY <1>0, <3>1, <3>2, <3>3
    <3> QED BY <3>2, <3>3, <3>4, CopiesMember
  <2>3. <<x, c[x]>> \in Copies(c)
    <3>1. x \in BagToSet(c) BY DEF Added
    <3>2. c[x] \in 1 .. c[x] BY <1>1, <3>1
    <3> QED BY <3>1, <3>2, CopiesMember
  <2> QED BY <2>1, <2>2, <2>3
<1>3. IsFiniteSet(Copies(c)) BY <1>0, <1>2, FS_AddElement
<1>4. c \in [BagToSet(c) -> Nat \ {0}] BY <1>1 DEF Added
<1> QED BY <1>1, <1>3, <1>4 DEF HeapOK

LEMMA AddedOther ==
  ASSUME NEW b, HeapOK(b), NEW x, NEW c, Added(b, c, x),
         NEW t, NEW V, ~(x.task = t /\ x.value \in V)
  PROVE  Held(c, t, V) = Held(b, t, V)
<1>1. \A y : y # x => (y \in BagToSet(c) <=> y \in BagToSet(b))
               /\ (y \in BagToSet(b) => c[y] = b[y])
  BY DEF Added
<1>2. ASSUME NEW p PROVE p \in Held(c, t, V) <=> p \in Held(b, t, V)
  <2>1. ASSUME p \in Held(c, t, V) PROVE p \in Held(b, t, V)
    <3>1. PICK y \in BagToSet(c) : \E n \in 1 .. c[y] :
            y.task = t /\ y.value \in V /\ p = <<y, n>> BY <2>1, HeldMember
    <3>2. y # x /\ y \in BagToSet(b) /\ c[y] = b[y] BY <1>1, <3>1
    <3> QED BY <3>1, <3>2, HeldMember
  <2>2. ASSUME p \in Held(b, t, V) PROVE p \in Held(c, t, V)
    <3>1. PICK y \in BagToSet(b) : \E n \in 1 .. b[y] :
            y.task = t /\ y.value \in V /\ p = <<y, n>> BY <2>2, HeldMember
    <3>2. y # x /\ y \in BagToSet(c) /\ c[y] = b[y] BY <1>1, <3>1
    <3> QED BY <3>1, <3>2, HeldMember
  <2> QED BY <2>1, <2>2
<1> QED BY <1>2

LEMMA AddedOne ==
  ASSUME NEW b, HeapOK(b), NEW x, NEW c, Added(b, c, x),
         NEW t, NEW V, x.task = t, x.value \in V
  PROVE  Cardinality(Held(c, t, V)) = Cardinality(Held(b, t, V)) + 1
<1>0. \A y \in BagToSet(b) : b[y] \in Nat \ {0} BY DEF HeapOK
<1>1. \A y : y # x => (y \in BagToSet(c) <=> y \in BagToSet(b))
               /\ (y \in BagToSet(b) => c[y] = b[y])
  BY DEF Added
<1>2. x \in BagToSet(c) /\ c[x] \in Nat \ {0} BY <1>0 DEF Added
<1>3. <<x, c[x]>> \notin Held(b, t, V)
  <2> SUFFICES ASSUME <<x, c[x]>> \in Held(b, t, V) PROVE FALSE OBVIOUS
  <2>1. PICK y \in BagToSet(b) : \E n \in 1 .. b[y] : <<x, c[x]>> = <<y, n>> BY HeldMember
  <2>2. y = x /\ c[x] \in 1 .. b[x] BY <2>1
  <2>3. c[x] = b[x] + 1 BY <2>1, <2>2 DEF Added
  <2> QED BY <1>0, <2>1, <2>2, <2>3
<1>4. Held(c, t, V) = Held(b, t, V) \cup {<<x, c[x]>>}
  <2>1. ASSUME NEW p, p \in Held(c, t, V) PROVE p \in Held(b, t, V) \cup {<<x, c[x]>>}
    <3>1. PICK y \in BagToSet(c) : \E n \in 1 .. c[y] :
            y.task = t /\ y.value \in V /\ p = <<y, n>> BY <2>1, HeldMember
    <3>2. PICK n \in 1 .. c[y] : p = <<y, n>> BY <3>1
    <3>3. CASE y # x
      <4>1. y \in BagToSet(b) /\ c[y] = b[y] BY <1>1, <3>1, <3>3
      <4> QED BY <3>1, <4>1, HeldMember
    <3>4. CASE y = x /\ n # c[x]
      <4>1. n \in Nat /\ n >= 1 /\ n < c[x] BY <1>2, <3>2, <3>4
      <4>2. x \in BagToSet(b) /\ c[x] = b[x] + 1 BY <4>1 DEF Added
      <4>3. n \in 1 .. b[x] BY <1>0, <4>1, <4>2
      <4> QED BY <3>2, <3>4, <4>2, <4>3, HeldMember
    <3> QED BY <3>2, <3>3, <3>4
  <2>2. ASSUME NEW p, p \in Held(b, t, V) PROVE p \in Held(c, t, V)
    <3>1. PICK y \in BagToSet(b) : \E n \in 1 .. b[y] :
            y.task = t /\ y.value \in V /\ p = <<y, n>> BY <2>2, HeldMember
    <3>2. PICK n \in 1 .. b[y] : p = <<y, n>> BY <3>1
    <3>3. y \in BagToSet(c) /\ c[y] \in {b[y], b[y] + 1} BY <3>1 DEF Added
    <3>4. n \in 1 .. c[y] BY <1>0, <3>1, <3>2, <3>3
    <3> QED BY <3>1, <3>2, <3>3, <3>4, HeldMember
  <2>3. <<x, c[x]>> \in Held(c, t, V)
    <3>1. c[x] \in 1 .. c[x] BY <1>2
    <3> QED BY <1>2, <3>1, HeldMember
  <2> QED BY <2>1, <2>2, <2>3
<1>5. IsFiniteSet(Held(b, t, V)) BY HeldFinite DEF HeapOK
<1> QED BY <1>3, <1>4, <1>5, FS_AddElement

(* A pop is the reverse of a push.                                         *)
LEMMA TakenIsAdded ==
  ASSUME NEW b, HeapOK(b), NEW x, NEW c, Taken(b, c, x)
  PROVE  HeapOK(c) /\ Added(c, b, x) /\ TimerOK(x)
<1>0. /\ b \in [BagToSet(b) -> Nat \ {0}] /\ x \in BagToSet(b)
      /\ \A y \in BagToSet(b) : TimerOK(y) /\ b[y] \in Nat \ {0}
  BY DEF HeapOK, Taken
<1>1. Added(c, b, x)
  <2>1. CASE b[x] = 1
    <3>1. BagToSet(c) = BagToSet(b) \ {x} BY <2>1 DEF Taken
    <3>2. BagToSet(b) = BagToSet(c) \cup {x} BY <1>0, <3>1
    <3>3. \A y \in BagToSet(c) \ {x} : b[y] = c[y] BY <3>1 DEF Taken
    <3>4. b = [y \in BagToSet(b) |-> b[y]] BY <1>0
    <3> QED BY <2>1, <3>1, <3>2, <3>3, <3>4 DEF Added
  <2>2. CASE b[x] # 1
    <3>1. BagToSet(c) = BagToSet(b) /\ c[x] = b[x] - 1 BY <2>2 DEF Taken
    <3>2. BagToSet(b) = BagToSet(c) \cup {x} /\ b[x] = c[x] + 1 BY <1>0, <3>1
    <3>3. \A y \in BagToSet(c) \ {x} : b[y] = c[y] BY <3>1 DEF Taken
    <3>4. b = [y \in BagToSet(b) |-> b[y]] BY <1>0
    <3> QED BY <1>0, <3>1, <3>2, <3>3, <3>4 DEF Added
  <2> QED BY <2>1, <2>2
<1>2. \A y \in BagToSet(c) : y \in BagToSet(b) /\ c[y] \in Nat \ {0} /\ c[y] <= b[y]
  <2> SUFFICES ASSUME NEW y \in BagToSet(c)
               PROVE  y \in BagToSet(b) /\ c[y] \in Nat \ {0} /\ c[y] <= b[y]
    OBVIOUS
  <2>1. CASE y # x
    <3>1. y \in BagToSet(b) BY <2>1 DEF Taken
    <3>2. c[y] = b[y] BY <2>1, <3>1 DEF Taken
    <3> QED BY <1>0, <3>1, <3>2
  <2>2. CASE y = x
    <3>1. b[x] # 1 BY <2>2 DEF Taken
    <3>2. c[x] = b[x] - 1 BY <3>1 DEF Taken
    <3> QED BY <1>0, <2>2, <3>1, <3>2
  <2> QED BY <2>1, <2>2
<1>3. Copies(c) \in SUBSET Copies(b)
  <2> SUFFICES ASSUME NEW p, p \in Copies(c) PROVE p \in Copies(b) OBVIOUS
  <2>1. PICK y \in BagToSet(c) : \E n \in 1 .. c[y] : p = <<y, n>> BY CopiesMember
  <2>2. PICK n \in 1 .. c[y] : p = <<y, n>> BY <2>1
  <2>3. n \in 1 .. b[y] BY <1>0, <1>2, <2>1, <2>2
  <2> QED BY <1>2, <2>1, <2>2, <2>3, CopiesMember
<1>4. IsFiniteSet(Copies(c)) BY <1>3, FS_Subset DEF HeapOK
<1>5. c \in [BagToSet(c) -> Nat \ {0}] BY <1>2 DEF Taken
<1> QED BY <1>0, <1>1, <1>2, <1>4, <1>5 DEF HeapOK

-----------------------------------------------------------------------------
(* Queues.                                                                 *)

LEMMA RungMember ==
  ASSUME NEW q \in Seq(Stamp), NEW V, NEW i
  PROVE  i \in Rung(q, V) <=> i \in 1 .. Len(q) /\ q[i].value \in V
BY DEF Rung

LEMMA RungFinite ==
  ASSUME NEW q \in Seq(Stamp), NEW V
  PROVE  IsFiniteSet(Rung(q, V)) /\ Cardinality(Rung(q, V)) \in Nat
<1>1. Len(q) \in Nat /\ IsFiniteSet(1 .. Len(q)) BY FS_Interval
<1>2. Rung(q, V) \in SUBSET (1 .. Len(q)) BY RungMember
<1>3. IsFiniteSet(Rung(q, V)) BY <1>1, <1>2, FS_Subset
<1> QED BY <1>3, FS_CardinalityType

LEMMA RungAppend ==
  ASSUME NEW q \in Seq(Stamp), NEW s \in Stamp, NEW V
  PROVE  /\ s.value \in V =>
              Cardinality(Rung(Append(q, s), V)) = Cardinality(Rung(q, V)) + 1
         /\ s.value \notin V => Cardinality(Rung(Append(q, s), V)) = Cardinality(Rung(q, V))
<1>1. PICK r : r = Append(q, s) OBVIOUS
<1>2. /\ r \in Seq(Stamp) /\ Len(r) = Len(q) + 1 /\ Len(q) \in Nat
      /\ r[Len(q) + 1] = s /\ \A i \in 1 .. Len(q) : r[i] = q[i]
  BY <1>1
<1>3. \A i : i \in Rung(r, V) <=> i \in Rung(q, V) \/ (i = Len(q) + 1 /\ s.value \in V)
  <2> TAKE i
  <2>1. i \in Rung(r, V) <=> i \in 1 .. Len(r) /\ r[i].value \in V BY <1>2, RungMember
  <2>2. i \in Rung(q, V) <=> i \in 1 .. Len(q) /\ q[i].value \in V BY RungMember
  <2> QED BY <1>2, <2>1, <2>2
<1>4. Len(q) + 1 \notin Rung(q, V) BY <1>2, RungMember
<1>5. CASE s.value \in V
  <2>1. Rung(r, V) = Rung(q, V) \cup {Len(q) + 1} BY <1>3, <1>5
  <2> QED BY <1>1, <1>4, <1>5, <2>1, RungFinite, FS_AddElement
<1>6. CASE s.value \notin V
  <2>1. Rung(r, V) = Rung(q, V) BY <1>3, <1>6
  <2> QED BY <1>1, <1>6, <2>1
<1> QED BY <1>5, <1>6

LEMMA RungTail ==
  ASSUME NEW q \in Seq(Stamp), q # <<>>, NEW V
  PROVE  /\ Head(q).value \in V =>
              Cardinality(Rung(q, V)) = Cardinality(Rung(Tail(q), V)) + 1
         /\ Head(q).value \notin V => Cardinality(Rung(q, V)) = Cardinality(Rung(Tail(q), V))
<1>1. PICK r : r = Tail(q) OBVIOUS
<1>2. /\ r \in Seq(Stamp) /\ Len(q) \in Nat \ {0} /\ Len(r) = Len(q) - 1
      /\ Head(q) = q[1] /\ \A i \in 1 .. Len(r) : r[i] = q[i + 1]
  BY <1>1
<1> DEFINE S == Rung(r, V)
           T == Rung(q, V) \ {1}
           f == [i \in S |-> i + 1]
<1>3. \A i \in S : i \in 1 .. Len(r) /\ i + 1 \in T /\ i \in Nat
  <2> TAKE i \in S
  <2>1. i \in 1 .. Len(r) /\ r[i].value \in V BY <1>2, RungMember
  <2>2. i + 1 \in 1 .. Len(q) /\ q[i + 1].value \in V BY <1>2, <2>1
  <2>3. i + 1 \in Rung(q, V) BY <2>2, RungMember
  <2> QED BY <2>1, <2>2, <2>3
<1>4. \A j \in T : j - 1 \in S /\ j \in Nat
  <2> TAKE j \in T
  <2>1. j \in 1 .. Len(q) /\ q[j].value \in V /\ j # 1 BY RungMember
  <2>2. j - 1 \in 1 .. Len(r) /\ r[j - 1] = q[j] BY <1>2, <2>1
  <2> QED BY <1>2, <2>1, <2>2, RungMember
<1>5. ExistsBijection(S, T)
  <2>1. f \in [S -> T] BY <1>3
  <2>2. \A i, j \in S : f[i] = f[j] => i = j BY <1>3
  <2>3. \A j \in T : \E i \in S : f[i] = j
    <3> TAKE j \in T
    <3>1. j - 1 \in S /\ f[j - 1] = j BY <1>4
    <3> QED BY <3>1
  <2>4. f \in Bijection(S, T)
    BY <2>1, <2>2, <2>3 DEF Bijection, Injection, Surjection, IsInjective
  <2> QED BY <2>4 DEF ExistsBijection
<1>6. IsFiniteSet(S) /\ Cardinality(S) \in Nat BY <1>2, RungFinite
<1>7. Cardinality(T) = Cardinality(S) BY <1>5, <1>6, FS_Bijection
<1>8. IsFiniteSet(Rung(q, V)) /\ Cardinality(Rung(q, V)) \in Nat BY RungFinite
<1>9. 1 \in Rung(q, V) <=> Head(q).value \in V BY <1>2, RungMember
<1> HIDE DEF S, T, f
<1>10. CASE Head(q).value \in V
  <2>1. Cardinality(T) = Cardinality(Rung(q, V)) - 1
    BY <1>8, <1>9, <1>10, FS_RemoveElement DEF T
  <2> QED BY <1>1, <1>6, <1>7, <1>8, <1>10, <2>1 DEF S
<1>11. CASE Head(q).value \notin V
  <2>1. Cardinality(T) = Cardinality(Rung(q, V))
    BY <1>8, <1>9, <1>11, FS_RemoveElement DEF T
  <2> QED BY <1>1, <1>6, <1>7, <1>8, <1>11, <2>1 DEF S
<1> QED BY <1>10, <1>11

-----------------------------------------------------------------------------
(* Types.                                                                  *)

LEMMA ValueTypes ==
  /\ ChainValue = 1 /\ kTaskTimerValue = 0
  /\ Values \subseteq Int \ {0} /\ AppValues \subseteq Int
  /\ \A v \in AppValues : v < 0
  /\ kTimerFreq \in Nat \ {0} /\ kTaskTimerPeriod \in Nat \ {0} /\ TickLength \in Nat \ {0}
  /\ kTimerFreq * TickLength = 1000
  /\ BlinkPeriod \in Nat
<1>1. AppValues \subseteq Int /\ \A v \in AppValues : v < 0
  BY ValueAssumption DEF AppValues
<1>2. kTimerFreq \in 1 .. 1000 /\ kTimerFreq * TickLength = 1000
  BY FreqAssumption
<1>3. TickLength \in Nat BY <1>2 DEF TickLength
<1>4. TickLength # 0 BY <1>2
<1>5. BlinkPeriod \in Nat BY <1>2 DEF BlinkPeriod
<1> QED BY <1>1, <1>2, <1>3, <1>4, <1>5, FreqAssumption DEF Values, ChainValue, kTaskTimerValue

LEMMA TaskFacts ==
  /\ Terminal \subseteq Task /\ Clock \in Task /\ Main \notin Task
  /\ Clock \notin Terminal /\ Task = Terminal \cup {Clock}
BY TaskAssumption DEF Task

(* What AddTimer and Expire put into the heap.                             *)
LEMMA NewTimerOK ==
  ASSUME NEW n \in Nat
  PROVE  /\ TimerOK(Timer(n, kTaskTimerValue, Main))
         /\ TimerOK(Timer(n, ChainValue, Clock))
         /\ \A t \in Terminal, v \in Values : TimerOK(Timer(n, v, t))
BY DEF TimerOK, Timer

LEMMA TimerFields ==
  ASSUME NEW n, NEW v, NEW t
  PROVE  /\ Timer(n, v, t).timeout = n /\ Timer(n, v, t).value = v
         /\ Timer(n, v, t).task = t
BY DEF Timer

(* What AddTimer does to the heap.                                         *)
LEMMA AddTimerHeap ==
  ASSUME TypeInv, NEW t \in Task, AddTimer(t)
  PROVE  LET x == Timer(hand[t].timeout, hand[t].value, t)
         IN  TimerOK(x) /\ Added(timers, timers', x) /\ HeapOK(timers')
<1> DEFINE x == Timer(hand[t].timeout, hand[t].value, t)
<1>1. hand[t] \in [timeout : Nat, value : Values, due : Nat]
  BY DEF TypeInv, AddTimer
<1>2. TimerOK(x)
  <2>1. CASE t = Clock BY <1>1, <2>1, NewTimerOK DEF TypeInv, AddTimer
  <2>2. CASE t \in Terminal BY <1>1, <2>2, NewTimerOK
  <2> QED BY <2>1, <2>2, TaskFacts
<1> HIDE DEF x
<1>3. timers' = timers (+) SetToBag({x}) BY DEF AddTimer, x
<1>4. HeapOK(timers) /\ timers \in [BagToSet(timers) -> Nat \ {0}] BY DEF TypeInv, HeapOK
<1>5. Added(timers, timers', x) BY <1>3, <1>4, PushIs
<1>6. PICK c : c = timers' OBVIOUS
<1>7. HeapOK(c) BY <1>2, <1>4, <1>5, <1>6, AddedHeap
<1> QED BY <1>2, <1>5, <1>6, <1>7 DEF x

(* What a pass of Tick does to the heap: it takes x, and puts the task     *)
(* timer back.                                                             *)
LEMMA ExpireRing ==
  ASSUME TypeInv, NEW x \in BagToSet(timers), Expire(x), x.value = kTaskTimerValue
  PROVE  \E c : /\ Taken(timers, c, x) /\ HeapOK(c)
                /\ Added(c, timers', Timer(tick + kTaskTimerPeriod, kTaskTimerValue, Main))
                /\ HeapOK(timers') /\ msgs' = msgs
<1> DEFINE y == Timer(tick + kTaskTimerPeriod, kTaskTimerValue, Main)
<1>1. PICK c : c = timers (-) SetToBag({x}) OBVIOUS
<1>2. timers' = c (+) SetToBag({y}) /\ msgs' = msgs BY <1>1 DEF Expire, Remove
<1>3. HeapOK(timers) /\ timers \in [BagToSet(timers) -> Nat \ {0}] BY DEF TypeInv, HeapOK
<1>4. Taken(timers, c, x) BY <1>1, <1>3, PopIs
<1>5. HeapOK(c) BY <1>3, <1>4, TakenIsAdded
<1>6. PICK d : d = timers' OBVIOUS
<1>7. c \in [BagToSet(c) -> Nat \ {0}] BY <1>5 DEF HeapOK
<1>8. Added(c, d, y) BY <1>2, <1>6, <1>7, PushIs
<1>9. TimerOK(y)
  <2>1. tick + kTaskTimerPeriod \in Nat BY ValueTypes DEF TypeInv
  <2> QED BY <2>1, NewTimerOK
<1>10. HeapOK(d) BY <1>5, <1>8, <1>9, AddedHeap
<1> QED BY <1>2, <1>4, <1>5, <1>6, <1>8, <1>10

LEMMA ExpireOther ==
  ASSUME TypeInv, NEW x \in BagToSet(timers), Expire(x), x.value # kTaskTimerValue
  PROVE  /\ Taken(timers, timers', x) /\ HeapOK(timers') /\ TimerOK(x)
         /\ x.task \in Task /\ [timeout |-> x.timeout, value |-> x.value] \in Stamp
         /\ msgs[x.task] = Gone => msgs' = msgs
         /\ msgs[x.task] # Gone => msgs' = [msgs EXCEPT ![x.task] =
              Append(msgs[x.task], [timeout |-> x.timeout, value |-> x.value])]
<1>1. timers' = timers (-) SetToBag({x}) BY DEF Expire, Remove
<1>3. HeapOK(timers) /\ timers \in [BagToSet(timers) -> Nat \ {0}] BY DEF TypeInv, HeapOK
<1>6. PICK d : d = timers' OBVIOUS
<1>4. Taken(timers, d, x) BY <1>1, <1>3, <1>6, PopIs
<1>5. HeapOK(d) BY <1>3, <1>4, TakenIsAdded
<1>7. TimerOK(x) BY <1>3 DEF HeapOK
<1>8. x.task \in Task /\ x.value \in Values /\ x.timeout \in Nat
  BY <1>7, TaskFacts DEF TimerOK, Values
<1>9. [timeout |-> x.timeout, value |-> x.value] \in Stamp BY <1>8 DEF Stamp
<1> QED BY <1>4, <1>5, <1>6, <1>7, <1>8, <1>9 DEF Expire

(* A task that has ended has no queue.                                     *)
LEMMA QueueIsSeq ==
  ASSUME TypeInv, NEW t \in Task, place[t] # "gone"
  PROVE  msgs[t] \in Seq(Stamp)
BY DEF TypeInv

LEMMA GoneIsNoQueue ==
  Gone \notin Seq(Stamp)
<1>0. Values \subseteq Int BY ValueTypes
<1>1. Stamp \subseteq [timeout : Nat, value : Int] BY <1>0 DEF Stamp
<1>2. ASSUME Gone \in Seq(Stamp) PROVE Gone \in Seq([timeout : Nat, value : Int])
  BY <1>1, <1>2, SeqMonotonic
<1> QED BY <1>2, GoneAssumption

LEMMA NoneIsNoTimer ==
  ASSUME NEW n \in Nat, NEW v \in Values, NEW m \in Nat
  PROVE  [timeout |-> n, value |-> v, due |-> m] # None
<1>1. [timeout |-> n, value |-> v, due |-> m] \in [timeout : Nat, value : Int, due : Nat]
  BY ValueTypes
<1> QED BY <1>1, NoneAssumption

(* The tick that CreateTimer computes.                                     *)
LEMMA ModulusType ==
  ASSUME NEW n \in Nat
  PROVE  n % Modulus \in Nat /\ n % Modulus <= n /\ (n < Modulus => n % Modulus = n)
BY TimeAssumption

(* What a task reads from its queue.                                       *)
LEMMA ReceiveTypes ==
  ASSUME TypeInv, NEW t \in Task, Receive(t)
  PROVE  /\ msgs[t] \in Seq(Stamp) /\ msgs[t] # <<>> /\ Tail(msgs[t]) \in Seq(Stamp)
         /\ Head(msgs[t]) \in Stamp /\ hand[t] = None /\ place[t] # "gone"
         /\ msgs' = [msgs EXCEPT ![t] = Tail(msgs[t])] /\ handler = Idle
         /\ msgs' \in [Task -> Seq(Stamp) \cup {Gone}]
         /\ \A u \in Task : msgs'[u] = Gone <=> msgs[u] = Gone
<1>1. /\ msgs[t] # <<>> /\ place[t] # "gone" /\ hand[t] = None /\ handler = Idle
      /\ msgs' = [msgs EXCEPT ![t] = Tail(msgs[t])]
  BY DEF Receive, Ready
<1>2. msgs[t] \in Seq(Stamp) BY <1>1, QueueIsSeq
<1>3. Tail(msgs[t]) \in Seq(Stamp) /\ Head(msgs[t]) \in Stamp BY <1>1, <1>2
<1>4. Tail(msgs[t]) # Gone /\ msgs[t] # Gone BY <1>2, <1>3, GoneIsNoQueue
<1>5. msgs \in [Task -> Seq(Stamp) \cup {Gone}] BY DEF TypeInv
<1> QED BY <1>1, <1>2, <1>3, <1>4, <1>5

(* What a task is about to pass to AddTimer.                               *)
LEMMA PreparedTypes ==
  ASSUME TypeInv, NEW t \in Task, NEW n \in Nat, NEW v \in Values, NEW m \in Nat,
         Prepared(t, n, v, m), t = Clock => v = ChainValue
  PROVE  /\ hand' = [hand EXCEPT ![t] = [timeout |-> n, value |-> v, due |-> m]]
         /\ hand' \in [Task -> {None} \cup [timeout : Nat, value : Values, due : Nat]]
         /\ hand'[t] = [timeout |-> n, value |-> v, due |-> m] /\ hand'[t] # None
         /\ \A u \in Task \ {t} : hand'[u] = hand[u]
         /\ hand'[Clock] # None => hand'[Clock].value = ChainValue
<1>1. /\ hand' = [hand EXCEPT ![t] = [timeout |-> n, value |-> v, due |-> m]]
      /\ hand \in [Task -> {None} \cup [timeout : Nat, value : Values, due : Nat]]
      /\ hand[Clock] # None => hand[Clock].value = ChainValue
  BY DEF TypeInv, Prepared
<1>2. /\ hand'[t] = [timeout |-> n, value |-> v, due |-> m]
      /\ \A u \in Task \ {t} : hand'[u] = hand[u]
  BY <1>1
<1>3. hand'[t] # None BY <1>2, NoneIsNoTimer
<1>4. hand'[Clock] # None => hand'[Clock].value = ChainValue
  <2>1. CASE t = Clock BY <1>2, <2>1
  <2>2. CASE t # Clock
    <3>1. hand'[Clock] = hand[Clock] BY <1>2, <2>2, TaskFacts
    <3> QED BY <1>1, <3>1
  <2> QED BY <2>1, <2>2
<1> QED BY <1>1, <1>2, <1>3, <1>4

LEMMA ChainTypes ==
  ASSUME TypeInv, NEW t \in Task, NEW n \in Nat, PrepareChain(t, n)
  PROVE  /\ hand' = [hand EXCEPT ![t] =
                       [timeout |-> n, value |-> ChainValue, due |-> n * TickLength]]
         /\ hand' \in [Task -> {None} \cup [timeout : Nat, value : Values, due : Nat]]
         /\ hand'[t] = [timeout |-> n, value |-> ChainValue, due |-> n * TickLength]
         /\ hand'[t] # None
         /\ \A u \in Task \ {t} : hand'[u] = hand[u]
         /\ hand'[Clock] # None => hand'[Clock].value = ChainValue
<1>1. PICK m : m = n * TickLength OBVIOUS
<1>2. m \in Nat
  <2>1. TickLength \in Nat BY ValueTypes
  <2> QED BY <1>1, <2>1
<1>3. ChainValue \in Values BY DEF Values
<1>4. Prepared(t, n, ChainValue, m) BY <1>1 DEF PrepareChain
<1> QED BY <1>1, <1>2, <1>3, <1>4, PreparedTypes

(* CreateTimer's choice.                                                   *)
LEMMA CreateTypes ==
  ASSUME TypeInv, NEW t \in Terminal, NEW value \in Value, NEW ms \in Millisecond,
         NEW relative \in BOOLEAN, NEW phase \in {0, TickLength - 1},
         CreateTimer(t, value, ms, relative, phase)
  PROVE  \E n \in Nat, m \in Nat :
           /\ Prepared(t, n, -value, m)
           /\ n = IF relative THEN ((((ms * kTimerFreq) % Modulus) \div 1000) + tick) % Modulus
                  ELSE ((ms * kTimerFreq) % Modulus) \div 1000
           /\ m = IF relative THEN tick * TickLength + phase + ms ELSE ms
<1>1. ms \in Nat /\ kTimerFreq \in Nat /\ TickLength \in Nat \ {0} /\ tick \in Nat
  BY ValueTypes, TimeAssumption DEF TypeInv
<1>2. PICK p : p = ms * kTimerFreq OBVIOUS
<1>3. p \in Nat BY <1>1, <1>2
<1>4. PICK a : a = p % Modulus OBVIOUS
<1>5. a \in Nat BY <1>3, <1>4, ModulusType
<1>6. PICK d : d = a \div 1000 OBVIOUS
<1>7. d \in Nat BY <1>5, <1>6
<1>8. (d + tick) % Modulus \in Nat
  <2>1. d + tick \in Nat BY <1>1, <1>7
  <2> QED BY <2>1, ModulusType
<1>9. PICK e : e = tick * TickLength OBVIOUS
<1>10. e \in Nat BY <1>1, <1>9
<1>11. e + phase + ms \in Nat BY <1>1, <1>10
<1>12. CASE relative
  <2>1. Prepared(t, (d + tick) % Modulus, -value, e + phase + ms)
    BY <1>2, <1>4, <1>6, <1>9, <1>12 DEF CreateTimer
  <2> QED BY <1>2, <1>4, <1>6, <1>8, <1>9, <1>11, <1>12, <2>1
<1>13. CASE ~relative
  <2>1. Prepared(t, d, -value, ms) BY <1>2, <1>4, <1>6, <1>13 DEF CreateTimer
  <2> QED BY <1>1, <1>2, <1>4, <1>6, <1>7, <1>13, <2>1
<1> QED BY <1>12, <1>13

LEMMA TypeInit == Init => TypeInv
<1> SUFFICES ASSUME Init PROVE TypeInv OBVIOUS
<1> DEFINE x == Timer(kTaskTimerPeriod, kTaskTimerValue, Main)
<1>1. timers = [y \in {x} |-> 1] BY DEF Init, SetToBag
<1>2. TimerOK(x) BY ValueTypes, NewTimerOK
<1>3. Copies(timers) = {<<x, 1>>}
  <2>1. \A p : p \in Copies(timers) <=> p = <<x, 1>>
    BY <1>1, CopiesMember DEF BagToSet
  <2> QED BY <2>1
<1>4. IsFiniteSet(Copies(timers)) BY <1>3, FS_Singleton
<1>5. HeapOK(timers) BY <1>1, <1>2, <1>4 DEF HeapOK, BagToSet
<1>6. msgs = [t \in Task |-> <<>>] /\ <<>> \in Seq(Stamp) BY DEF Init
<1>7. \A t \in Task : msgs[t] # Gone BY <1>6, GoneIsNoQueue
<1>8. hand = [t \in Task |-> None] /\ place = [t \in Task |-> "start"] BY DEF Init
<1>9. Clock \in Task /\ Terminal \subseteq Task BY TaskFacts
<1>10. /\ hand[Clock] = None /\ place[Clock] = "start"
       /\ \A t \in Task : place[t] = "start"
  BY <1>8, <1>9
<1> QED BY <1>5, <1>6, <1>7, <1>8, <1>9, <1>10 DEF Init, TypeInv, Places

LEMMA TypeStep ==
  ASSUME TypeInv, [Next]_vars
  PROVE  TypeInv'
<1>0. /\ tick \in Nat /\ HeapOK(timers)
      /\ msgs \in [Task -> Seq(Stamp) \cup {Gone}]
      /\ hand \in [Task -> {None} \cup [timeout : Nat, value : Values, due : Nat]]
      /\ hand[Clock] # None => hand[Clock].value = ChainValue
      /\ place \in [Task -> Places]
      /\ place[Clock] \in {"start", "loop"}
      /\ \A t \in Terminal : place[t] # "loop"
      /\ \A t \in Task : msgs[t] = Gone <=> place[t] = "gone"
      /\ drawn \in Nat /\ origin \in Nat
      /\ runs \in [Terminal -> Nat] /\ left \in [Terminal -> Nat] /\ asked \in Nat
  BY DEF TypeInv
<1>t. /\ Terminal \subseteq Task /\ Clock \in Task /\ Clock \notin Terminal
      /\ Task = Terminal \cup {Clock}
  BY TaskFacts
<1>1. CASE Tick BY <1>0, <1>1 DEF TypeInv, Tick
<1>2. CASE Return BY <1>0, <1>2 DEF TypeInv, Return
<1>3. ASSUME NEW x \in BagToSet(timers), Expire(x) PROVE TypeInv'
  <2>1. UNCHANGED <<tick, hand, place, asked, runs, drawn, origin, left>>
    BY <1>3 DEF Expire
  <2>2. /\ HeapOK(timers') /\ msgs' \in [Task -> Seq(Stamp) \cup {Gone}]
        /\ \A t \in Task : msgs'[t] = Gone <=> msgs[t] = Gone
    <3>1. CASE x.value = kTaskTimerValue
      BY <1>0, <1>3, <3>1, ExpireRing
    <3>2. CASE x.value # kTaskTimerValue /\ msgs[x.task] = Gone
      BY <1>0, <1>3, <3>2, ExpireOther
    <3>3. CASE x.value # kTaskTimerValue /\ msgs[x.task] # Gone
      <4>1. PICK s : s = [timeout |-> x.timeout, value |-> x.value] OBVIOUS
      <4>2. /\ HeapOK(timers') /\ x.task \in Task /\ s \in Stamp
            /\ msgs' = [msgs EXCEPT ![x.task] = Append(msgs[x.task], s)]
        BY <1>3, <3>3, <4>1, ExpireOther
      <4>3. msgs[x.task] \in Seq(Stamp) BY <1>0, <3>3, <4>2
      <4>4. Append(msgs[x.task], s) \in Seq(Stamp) BY <4>2, <4>3
      <4>5. Append(msgs[x.task], s) # Gone BY <4>4, GoneIsNoQueue
      <4> QED BY <1>0, <3>3, <4>2, <4>4, <4>5
    <3> QED BY <3>1, <3>2, <3>3
  <2> QED BY <1>0, <2>1, <2>2 DEF TypeInv
<1>4. ASSUME NEW t \in Task, AddTimer(t) PROVE TypeInv'
  <2>1. HeapOK(timers') BY <1>4, AddTimerHeap
  <2>2. /\ UNCHANGED <<tick, msgs, place, asked, runs, drawn, origin, left>>
        /\ hand' = [hand EXCEPT ![t] = None]
    BY <1>4 DEF AddTimer
  <2>3. hand' \in [Task -> {None} \cup [timeout : Nat, value : Values, due : Nat]]
    BY <1>0, <2>2
  <2>4. hand'[Clock] # None => hand'[Clock].value = ChainValue
    BY <1>0, <1>t, <2>2
  <2> QED BY <1>0, <2>1, <2>2, <2>3, <2>4 DEF TypeInv
<1>5. CASE StartClock
  <2>1. /\ PrepareChain(Clock, tick) /\ place' = [place EXCEPT ![Clock] = "loop"]
        /\ drawn' = drawn + 1 /\ origin' = tick
        /\ UNCHANGED <<tick, timers, msgs, asked, runs, left>>
        /\ place[Clock] = "start"
    BY <1>5 DEF StartClock
  <2>2. /\ hand' \in [Task -> {None} \cup [timeout : Nat, value : Values, due : Nat]]
        /\ hand'[Clock] # None => hand'[Clock].value = ChainValue
    BY <1>0, <1>t, <2>1, ChainTypes
  <2>3. /\ place' \in [Task -> Places] /\ place'[Clock] \in {"start", "loop"}
        /\ \A t \in Terminal : place'[t] = place[t]
        /\ \A t \in Task : place'[t] = "gone" <=> place[t] = "gone"
    BY <1>0, <1>t, <2>1 DEF Places
  <2> QED BY <1>0, <1>t, <2>1, <2>2, <2>3 DEF TypeInv
<1>6. CASE DrawCurrentTime
  <2>1. /\ Receive(Clock) /\ drawn' = drawn + 1
        /\ PrepareChain(Clock, Head(msgs[Clock]).timeout + kTimerFreq)
        /\ UNCHANGED <<tick, timers, place, asked, runs, origin, left>>
    BY <1>6 DEF DrawCurrentTime
  <2>2. /\ Head(msgs[Clock]) \in Stamp /\ msgs' \in [Task -> Seq(Stamp) \cup {Gone}]
        /\ \A u \in Task : msgs'[u] = Gone <=> msgs[u] = Gone
    BY <1>t, <2>1, ReceiveTypes
  <2>3. PICK n : n = Head(msgs[Clock]).timeout + kTimerFreq OBVIOUS
  <2>4. n \in Nat BY <2>2, <2>3, ValueTypes DEF Stamp
  <2>5. /\ hand' \in [Task -> {None} \cup [timeout : Nat, value : Values, due : Nat]]
        /\ hand'[Clock] # None => hand'[Clock].value = ChainValue
    BY <1>t, <2>1, <2>3, <2>4, ChainTypes
  <2> QED BY <1>0, <2>1, <2>2, <2>5 DEF TypeInv
<1>7. ASSUME NEW t \in Terminal, StartTerminal(t) PROVE TypeInv'
  <2>1. /\ PrepareChain(t, tick + BlinkPeriod) /\ place' = [place EXCEPT ![t] = "shell"]
        /\ UNCHANGED <<tick, timers, msgs, asked, runs, drawn, origin, left>>
        /\ place[t] = "start"
    BY <1>7 DEF StartTerminal
  <2>2. PICK n : n = tick + BlinkPeriod OBVIOUS
  <2>3. n \in Nat BY <1>0, <2>2, ValueTypes
  <2>4. /\ hand' \in [Task -> {None} \cup [timeout : Nat, value : Values, due : Nat]]
        /\ hand'[Clock] # None => hand'[Clock].value = ChainValue
    BY <1>t, <2>1, <2>2, <2>3, ChainTypes
  <2>5. /\ place' \in [Task -> Places] /\ place'[Clock] = place[Clock]
        /\ \A u \in Terminal : place'[u] # "loop"
        /\ \A u \in Task : place'[u] = "gone" <=> place[u] = "gone"
    BY <1>0, <1>t, <2>1 DEF Places
  <2> QED BY <1>0, <1>t, <2>1, <2>4, <2>5 DEF TypeInv
<1>8. ASSUME NEW t \in Terminal, BlinkCursor(t) PROVE TypeInv'
  <2>1. /\ Receive(t) /\ PrepareChain(t, Head(msgs[t]).timeout + BlinkPeriod)
        /\ UNCHANGED <<tick, timers, place, asked, runs, drawn, origin, left>>
    BY <1>8 DEF BlinkCursor
  <2>2. /\ Head(msgs[t]) \in Stamp /\ msgs' \in [Task -> Seq(Stamp) \cup {Gone}]
        /\ \A u \in Task : msgs'[u] = Gone <=> msgs[u] = Gone
    BY <1>t, <2>1, ReceiveTypes
  <2>3. PICK n : n = Head(msgs[t]).timeout + BlinkPeriod OBVIOUS
  <2>4. n \in Nat BY <2>2, <2>3, ValueTypes DEF Stamp
  <2>5. /\ hand' \in [Task -> {None} \cup [timeout : Nat, value : Values, due : Nat]]
        /\ hand'[Clock] # None => hand'[Clock].value = ChainValue
    BY <1>t, <2>1, <2>3, <2>4, ChainTypes
  <2> QED BY <1>0, <2>1, <2>2, <2>5 DEF TypeInv
<1>9. ASSUME NEW t \in Terminal, CloseWindow(t) PROVE TypeInv'
  <2>1. /\ place' = [place EXCEPT ![t] = "gone"] /\ msgs' = [msgs EXCEPT ![t] = Gone]
        /\ UNCHANGED <<tick, timers, hand, asked, runs, drawn, origin, left>>
    BY <1>9 DEF CloseWindow
  <2>2. msgs' \in [Task -> Seq(Stamp) \cup {Gone}] BY <1>0, <1>t, <2>1
  <2>3. /\ place' \in [Task -> Places] /\ place'[Clock] = place[Clock]
        /\ \A u \in Terminal : place'[u] # "loop"
        /\ \A u \in Task : msgs'[u] = Gone <=> place'[u] = "gone"
    BY <1>0, <1>t, <2>1 DEF Places
  <2> QED BY <1>0, <2>1, <2>2, <2>3 DEF TypeInv
<1>10. ASSUME NEW t \in Terminal, ExecuteFile(t) PROVE TypeInv'
  <2>1. /\ place' = [place EXCEPT ![t] = "app"] /\ runs' = [runs EXCEPT ![t] = @ + 1]
        /\ place[t] = "shell"
        /\ UNCHANGED <<tick, timers, msgs, hand, asked, drawn, origin, left>>
    BY <1>10 DEF ExecuteFile
  <2>2. runs' \in [Terminal -> Nat] BY <1>0, <2>1
  <2>3. /\ place' \in [Task -> Places] /\ place'[Clock] = place[Clock]
        /\ \A u \in Terminal : place'[u] # "loop"
        /\ \A u \in Task : place'[u] = "gone" <=> place[u] = "gone"
    BY <1>0, <1>t, <2>1 DEF Places
  <2> QED BY <1>0, <2>1, <2>2, <2>3 DEF TypeInv
<1>11. ASSUME NEW t \in Terminal, Exit(t) PROVE TypeInv'
  <2>1. /\ place' = [place EXCEPT ![t] = "shell"]
        /\ left' = [left EXCEPT ![t] = @ + Pending(t, AppValues)]
        /\ place[t] = "app"
        /\ UNCHANGED <<tick, timers, msgs, hand, asked, runs, drawn, origin>>
    BY <1>11 DEF Exit
  <2>2. Pending(t, AppValues) \in Nat
    <3>1. msgs[t] \in Seq(Stamp) BY <1>t, <2>1, QueueIsSeq
    <3>2. Cardinality(Rung(msgs[t], AppValues)) \in Nat BY <3>1, RungFinite
    <3>3. Cardinality(Held(timers, t, AppValues)) \in Nat BY <1>0, HeldFinite DEF HeapOK
    <3> QED BY <3>2, <3>3 DEF Pending
  <2>3. left' \in [Terminal -> Nat] BY <1>0, <2>1, <2>2
  <2>4. /\ place' \in [Task -> Places] /\ place'[Clock] = place[Clock]
        /\ \A u \in Terminal : place'[u] # "loop"
        /\ \A u \in Task : place'[u] = "gone" <=> place[u] = "gone"
    BY <1>0, <1>t, <2>1 DEF Places
  <2> QED BY <1>0, <2>1, <2>3, <2>4 DEF TypeInv
<1>12. ASSUME NEW t \in Terminal, NEW value \in Value, NEW ms \in Millisecond,
              NEW relative \in BOOLEAN, NEW phase \in {0, TickLength - 1},
              CreateTimer(t, value, ms, relative, phase)
       PROVE  TypeInv'
  <2>1. asked' = asked + 1 /\ UNCHANGED <<tick, timers, msgs, place, runs, drawn, origin, left>>
    BY <1>12 DEF CreateTimer
  <2>2. PICK n \in Nat : \E m \in Nat : Prepared(t, n, -value, m) BY <1>12, CreateTypes
  <2>3. PICK m \in Nat : Prepared(t, n, -value, m) BY <2>2
  <2>4. -value \in Values /\ t # Clock BY <1>t DEF Values, AppValues
  <2>5. /\ hand' \in [Task -> {None} \cup [timeout : Nat, value : Values, due : Nat]]
        /\ hand'[Clock] # None => hand'[Clock].value = ChainValue
    <3>1. PICK v : v = -value OBVIOUS
    <3> QED BY <1>t, <2>3, <2>4, <3>1, PreparedTypes
  <2> QED BY <1>0, <2>1, <2>5 DEF TypeInv
<1>13. ASSUME NEW t \in Terminal, NEW events \in BOOLEAN, Read(t, events) PROVE TypeInv'
  <2>1. /\ Receive(t)
        /\ UNCHANGED <<tick, timers, hand, place, asked, runs, drawn, origin, left>>
    BY <1>13 DEF Read
  <2>2. /\ msgs' \in [Task -> Seq(Stamp) \cup {Gone}]
        /\ \A u \in Task : msgs'[u] = Gone <=> msgs[u] = Gone
    BY <1>t, <2>1, ReceiveTypes
  <2> QED BY <1>0, <2>1, <2>2 DEF TypeInv
<1>14. CASE UNCHANGED vars BY <1>0, <1>14 DEF TypeInv, vars
<1> QED
  BY <1>1, <1>2, <1>3, <1>4, <1>5, <1>6, <1>7, <1>8, <1>9, <1>10, <1>11, <1>12, <1>13, <1>14
  DEF Next

-----------------------------------------------------------------------------
(* The task timer.                                                         *)

(* timers_.top() is due no later than any other timer.                     *)
LEMMA TopIsDue ==
  ASSUME NEW b, HeapOK(b), NEW x \in BagToSet(b)
  PROVE  \E y \in Top(b) : y.timeout <= x.timeout
<1> DEFINE T == {y.timeout : y \in BagToSet(b)}
<1>1. \A y \in BagToSet(b) : y.timeout \in Nat BY DEF HeapOK, TimerOK
<1>2. T \subseteq Nat /\ T # {} BY <1>1
<1> HIDE DEF T
<1>3. PICK n \in T : \A m \in T : ~ (<<m, n>> \in OpToRel(<, Nat))
  BY <1>2, NatLessThanWellFounded, WFMin
<1>4. \A m \in T : ~ (m < n)
  <2> TAKE m \in T
  <2>1. m \in Nat /\ n \in Nat BY <1>2
  <2> QED BY <1>3, <2>1 DEF OpToRel
<1>5. PICK y \in BagToSet(b) : y.timeout = n BY <1>3 DEF T
<1>6. \A z \in BagToSet(b) : y.timeout <= z.timeout
  <2> TAKE z \in BagToSet(b)
  <2>1. z.timeout \in T BY DEF T
  <2> QED BY <1>1, <1>4, <1>5, <2>1
<1> QED BY <1>6 DEF Top

(* Every step but those of Tick leaves the tick and the handler alone, and *)
(* the heap but for AddTimer.                                              *)
LEMMA TasksLeaveTick ==
  ASSUME Next, ~Tick, ~Return, ~ \E x \in BagToSet(timers) : Expire(x)
  PROVE  UNCHANGED <<tick, handler>> /\ (timers' = timers \/ \E t \in Task : AddTimer(t))
BY DEF Next, AddTimer, StartClock, DrawCurrentTime, StartTerminal, BlinkCursor, CloseWindow,
       ExecuteFile, Exit, CreateTimer, Read

LEMMA RunningIsNotIdle ==
  ASSUME NEW b, NEW q
  PROVE  [running |-> TRUE, timers |-> b, msgs |-> q] # Idle
<1>1. [running |-> TRUE, timers |-> b, msgs |-> q].running # Idle.running BY DEF Idle
<1> QED BY <1>1

LEMMA RingStep ==
  ASSUME TypeInv, RingInv, [Next]_vars
  PROVE  RingInv'
<1>1. PICK x \in BagToSet(timers) :
        /\ x.value = kTaskTimerValue
        /\ \A y \in BagToSet(timers) : y.value = kTaskTimerValue => y = x
        /\ timers[x] = 1
        /\ x.timeout <= tick + kTaskTimerPeriod
        /\ handler = Idle => tick < x.timeout
  BY DEF RingInv
<1>0. HeapOK(timers) /\ tick \in Nat BY DEF TypeInv
<1>2. x.timeout \in Nat /\ kTaskTimerPeriod \in Nat \ {0}
  BY <1>0, ValueTypes DEF HeapOK, TimerOK
<1>3. CASE Tick
  <2>1. tick' = tick + 1 /\ timers' = timers /\ handler' # Idle
    BY <1>3, RunningIsNotIdle DEF Tick
  <2> QED BY <1>0, <1>1, <1>2, <2>1 DEF RingInv
<1>4. CASE Return
  <2>1. tick' = tick /\ timers' = timers /\ \A y \in Top(timers) : y.timeout > tick
    BY <1>4 DEF Return
  <2>2. PICK y \in Top(timers) : y.timeout <= x.timeout BY <1>0, TopIsDue
  <2>3. y.timeout \in Nat BY <1>0 DEF Top, HeapOK, TimerOK
  <2>4. tick < x.timeout BY <1>0, <1>2, <2>1, <2>2, <2>3
  <2> QED BY <1>1, <2>1, <2>4 DEF RingInv
<1>5. ASSUME NEW y \in BagToSet(timers), Expire(y) PROVE RingInv'
  <2>1. tick' = tick /\ handler' = handler /\ handler # Idle BY <1>5 DEF Expire
  <2>2. CASE y.value = kTaskTimerValue
    <3> DEFINE z == Timer(tick + kTaskTimerPeriod, kTaskTimerValue, Main)
    <3>1. y = x BY <1>1, <2>2
    <3>2. PICK c : Taken(timers, c, y) /\ Added(c, timers', z) BY <1>5, <2>2, ExpireRing
    <3>3. z.value = kTaskTimerValue /\ z.timeout = tick + kTaskTimerPeriod
      BY TimerFields
    <3> HIDE DEF z
    <3>4. BagToSet(c) = BagToSet(timers) \ {x} BY <1>1, <3>1, <3>2 DEF Taken
    <3>5. \A u \in BagToSet(c) : u.value # kTaskTimerValue BY <1>1, <3>4
    <3>6. z \notin BagToSet(c) BY <3>3, <3>5
    <3>7. BagToSet(timers') = BagToSet(c) \cup {z} /\ timers'[z] = 1
      BY <3>2, <3>6 DEF Added
    <3>8. \A u \in BagToSet(timers') : u.value = kTaskTimerValue => u = z
      BY <3>5, <3>7
    <3>9. z.timeout <= tick + kTaskTimerPeriod BY <1>0, <1>2, <3>3
    <3> QED BY <2>1, <3>3, <3>7, <3>8, <3>9 DEF RingInv
  <2>3. CASE y.value # kTaskTimerValue
    <3>1. Taken(timers, timers', y) BY <1>5, <2>3, ExpireOther
    <3>2. x # y BY <1>1, <2>3
    <3>3. BagToSet(timers') \subseteq BagToSet(timers) BY <3>1 DEF Taken
    <3>4. x \in BagToSet(timers') /\ timers'[x] = 1 BY <1>1, <3>1, <3>2 DEF Taken
    <3> QED BY <1>1, <2>1, <3>3, <3>4 DEF RingInv
  <2> QED BY <2>2, <2>3
<1>6. ASSUME NEW t \in Task, AddTimer(t) PROVE RingInv'
  <2>1. tick' = tick /\ handler' = handler BY <1>6 DEF AddTimer
  <2>2. PICK y : y = Timer(hand[t].timeout, hand[t].value, t) OBVIOUS
  <2>3. Added(timers, timers', y) BY <1>6, <2>2, AddTimerHeap
  <2>4. y.value # kTaskTimerValue
    <3>1. hand[t].value \in Values BY <1>6 DEF TypeInv, AddTimer
    <3> QED BY <2>2, <3>1, TimerFields, ValueTypes
  <2>5. y # x /\ BagToSet(timers') = BagToSet(timers) \cup {y} /\ timers'[x] = timers[x]
    BY <1>1, <2>3, <2>4 DEF Added
  <2> QED BY <1>1, <2>1, <2>4, <2>5 DEF RingInv
<1>7. ASSUME UNCHANGED <<tick, handler, timers>> PROVE RingInv'
  BY <1>1, <1>7 DEF RingInv
<1> QED BY <1>3, <1>4, <1>5, <1>6, <1>7, TasksLeaveTick DEF vars

-----------------------------------------------------------------------------
(* What one task has does not depend on the others.                        *)

OwnStep(t) ==
  \/ t = Clock /\ (StartClock \/ DrawCurrentTime)
  \/ /\ t \in Terminal
     /\ \/ StartTerminal(t) \/ BlinkCursor(t) \/ CloseWindow(t)
        \/ ExecuteFile(t) \/ Exit(t)
        \/ \E value \in Value, ms \in Millisecond, relative \in BOOLEAN,
             phase \in {0, TickLength - 1} : CreateTimer(t, value, ms, relative, phase)
        \/ \E events \in BOOLEAN : Read(t, events)

SameTimers(b, c, t) ==
  /\ Mine(c, t) = Mine(b, t)
  /\ \A y \in Mine(b, t) : c[y] = b[y]
  /\ \A V : Held(c, t, V) = Held(b, t, V)

SameTask(t) ==
  /\ hand'[t] = hand[t] /\ place'[t] = place[t] /\ msgs'[t] = msgs[t]
  /\ t = Clock => UNCHANGED <<drawn, origin>>
  /\ t \in Terminal => left'[t] = left[t] /\ (t \in dropped' <=> t \in dropped)

LEMMA AddedForOther ==
  ASSUME NEW b, HeapOK(b), NEW x, NEW c, Added(b, c, x), NEW t, x.task # t
  PROVE  SameTimers(b, c, t)
<1>1. \A V : Held(c, t, V) = Held(b, t, V) BY AddedOther
<1>2. Mine(c, t) = Mine(b, t) BY DEF Mine, Added
<1>3. \A y \in Mine(b, t) : c[y] = b[y] BY DEF Mine, Added
<1> QED BY <1>1, <1>2, <1>3 DEF SameTimers

LEMMA TakenForOther ==
  ASSUME NEW b, HeapOK(b), NEW x, NEW c, Taken(b, c, x), NEW t, x.task # t
  PROVE  SameTimers(b, c, t)
<1>1. HeapOK(c) /\ Added(c, b, x) BY TakenIsAdded
<1>2. SameTimers(c, b, t) BY <1>1, AddedForOther
<1> QED BY <1>2 DEF SameTimers

LEMMA SameTimersTwice ==
  ASSUME NEW b, NEW c, NEW d, NEW t, SameTimers(b, c, t), SameTimers(c, d, t)
  PROVE  SameTimers(b, d, t)
BY DEF SameTimers

LEMMA ExpireForOther ==
  ASSUME TypeInv, NEW x \in BagToSet(timers), Expire(x), NEW t \in Task, x.task # t
  PROVE  SameTimers(timers, timers', t) /\ SameTask(t)
<1>0. HeapOK(timers) BY DEF TypeInv
<1>1. UNCHANGED <<hand, place, drawn, origin, left, dropped>> BY DEF Expire
<1>2. PICK d : d = timers' OBVIOUS
<1>3. CASE x.value = kTaskTimerValue
  <2>1. PICK y : y = Timer(tick + kTaskTimerPeriod, kTaskTimerValue, Main) OBVIOUS
  <2>2. y.task # t BY <2>1, TimerFields, TaskFacts
  <2>3. PICK c : Taken(timers, c, x) /\ HeapOK(c) /\ Added(c, d, y)
    BY <1>2, <1>3, <2>1, ExpireRing
  <2>4. msgs' = msgs BY <1>3, ExpireRing
  <2>5. SameTimers(timers, c, t) BY <1>0, <2>3, TakenForOther
  <2>6. SameTimers(c, d, t) BY <2>2, <2>3, AddedForOther
  <2>7. SameTimers(timers, d, t) BY <2>5, <2>6, SameTimersTwice
  <2> QED BY <1>1, <1>2, <2>4, <2>7 DEF SameTask
<1>4. CASE x.value # kTaskTimerValue
  <2>1. Taken(timers, d, x) BY <1>2, <1>4, ExpireOther
  <2>2. SameTimers(timers, d, t) BY <1>0, <2>1, TakenForOther
  <2>3. msgs'[t] = msgs[t]
    <3>1. msgs[x.task] = Gone => msgs' = msgs BY <1>4, ExpireOther
    <3>2. msgs[x.task] # Gone => msgs' = [msgs EXCEPT ![x.task] =
              Append(msgs[x.task], [timeout |-> x.timeout, value |-> x.value])]
      BY <1>4, ExpireOther
    <3> QED BY <3>1, <3>2 DEF TypeInv
  <2> QED BY <1>1, <1>2, <2>2, <2>3 DEF SameTask
<1> QED BY <1>3, <1>4

LEMMA AddTimerForOther ==
  ASSUME TypeInv, NEW u \in Task, AddTimer(u), NEW t \in Task, u # t
  PROVE  SameTimers(timers, timers', t) /\ SameTask(t)
<1>0. HeapOK(timers) BY DEF TypeInv
<1>1. /\ UNCHANGED <<msgs, place, drawn, origin, left, dropped>>
      /\ hand' = [hand EXCEPT ![u] = None]
  BY DEF AddTimer
<1>2. PICK d : d = timers' OBVIOUS
<1>3. PICK x : x = Timer(hand[u].timeout, hand[u].value, u) OBVIOUS
<1>4. Added(timers, d, x) BY <1>2, <1>3, AddTimerHeap
<1>5. x.task # t BY <1>3, TimerFields
<1>6. SameTimers(timers, d, t) BY <1>0, <1>4, <1>5, AddedForOther
<1> QED BY <1>1, <1>2, <1>6 DEF SameTask, TypeInv

LEMMA PreparedForOther ==
  ASSUME TypeInv, NEW u \in Task, NEW t \in Task, u # t, NEW n, NEW v, NEW m,
         Prepared(u, n, v, m)
  PROVE  hand'[t] = hand[t]
<1>1. PICK h : h = [timeout |-> n, value |-> v, due |-> m] OBVIOUS
<1>2. hand' = [hand EXCEPT ![u] = h] BY <1>1 DEF Prepared
<1> QED BY <1>2 DEF TypeInv

LEMMA ReceivedForOther ==
  ASSUME TypeInv, NEW u \in Task, Receive(u), NEW t \in Task, u # t
  PROVE  msgs'[t] = msgs[t]
<1>1. msgs' = [msgs EXCEPT ![u] = Tail(msgs[u])] BY ReceiveTypes
<1> QED BY <1>1 DEF TypeInv

LEMMA StepsOfOthers ==
  ASSUME TypeInv, NEW u \in Task, OwnStep(u), NEW t \in Task, u # t
  PROVE  timers' = timers /\ SameTask(t)
<1>0. /\ hand \in [Task -> {None} \cup [timeout : Nat, value : Values, due : Nat]]
      /\ left \in [Terminal -> Nat]
  BY DEF TypeInv
<1>1. CASE StartClock /\ u = Clock
  <2>1. hand'[t] = hand[t] BY <1>1, PreparedForOther DEF StartClock, PrepareChain
  <2>2. place' = [place EXCEPT ![u] = "loop"] /\ UNCHANGED <<timers, msgs, left, dropped>>
    BY <1>1 DEF StartClock
  <2> QED BY <1>1, <2>1, <2>2 DEF SameTask, TypeInv
<1>2. CASE DrawCurrentTime /\ u = Clock
  <2>1. hand'[t] = hand[t] /\ msgs'[t] = msgs[t]
    BY <1>2, PreparedForOther, ReceivedForOther DEF DrawCurrentTime, PrepareChain
  <2>2. UNCHANGED <<timers, place, left, dropped>> BY <1>2 DEF DrawCurrentTime
  <2> QED BY <1>2, <2>1, <2>2 DEF SameTask
<1>3. CASE StartTerminal(u)
  <2>1. hand'[t] = hand[t] BY <1>3, PreparedForOther DEF StartTerminal, PrepareChain
  <2>2. place' = [place EXCEPT ![u] = "shell"]
        /\ UNCHANGED <<timers, msgs, drawn, origin, left, dropped>>
    BY <1>3 DEF StartTerminal
  <2> QED BY <2>1, <2>2 DEF SameTask, TypeInv
<1>8. CASE BlinkCursor(u)
  <2>1. hand'[t] = hand[t] /\ msgs'[t] = msgs[t]
    BY <1>8, PreparedForOther, ReceivedForOther DEF BlinkCursor, PrepareChain
  <2>2. UNCHANGED <<timers, place, drawn, origin, left, dropped>> BY <1>8 DEF BlinkCursor
  <2> QED BY <2>1, <2>2 DEF SameTask
<1>4. CASE CloseWindow(u)
  <2>1. /\ place' = [place EXCEPT ![u] = "gone"] /\ msgs' = [msgs EXCEPT ![u] = Gone]
        /\ UNCHANGED <<timers, hand, drawn, origin, left, dropped>>
    BY <1>4 DEF CloseWindow
  <2> QED BY <2>1 DEF SameTask, TypeInv
<1>9. CASE ExecuteFile(u)
  <2>1. /\ place' = [place EXCEPT ![u] = "app"]
        /\ UNCHANGED <<timers, msgs, hand, drawn, origin, left, dropped>>
    BY <1>9 DEF ExecuteFile
  <2> QED BY <2>1 DEF SameTask, TypeInv
<1>5. CASE Exit(u)
  <2>1. PICK n : n = left[u] + Pending(u, AppValues) OBVIOUS
  <2>2. /\ place' = [place EXCEPT ![u] = "shell"] /\ left' = [left EXCEPT ![u] = n]
        /\ UNCHANGED <<timers, msgs, hand, drawn, origin, dropped>>
    BY <1>5, <2>1 DEF Exit
  <2> QED BY <2>2 DEF SameTask, TypeInv
<1>6. ASSUME u \in Terminal, NEW value \in Value, NEW ms \in Millisecond,
             NEW relative \in BOOLEAN, NEW phase \in {0, TickLength - 1},
             CreateTimer(u, value, ms, relative, phase)
      PROVE  timers' = timers /\ SameTask(t)
  <2>1. hand'[t] = hand[t] BY <1>6, PreparedForOther DEF CreateTimer
  <2>2. UNCHANGED <<timers, msgs, place, drawn, origin, left, dropped>>
    BY <1>6 DEF CreateTimer
  <2> QED BY <2>1, <2>2 DEF SameTask
<1>7. ASSUME u \in Terminal, NEW events \in BOOLEAN, Read(u, events)
      PROVE  timers' = timers /\ SameTask(t)
  <2>1. UNCHANGED <<timers, hand, place, drawn, origin, left>> BY <1>7 DEF Read
  <2>2. msgs'[t] = msgs[t] BY <1>7, ReceivedForOther DEF Read
  <2>3. dropped' \in {dropped \cup {u}, dropped} BY <1>7 DEF Read
  <2>4. t \in dropped' <=> t \in dropped BY <2>3
  <2> QED BY <2>1, <2>2, <2>4 DEF SameTask
<1> QED BY <1>1, <1>2, <1>3, <1>4, <1>5, <1>6, <1>7, <1>8, <1>9 DEF OwnStep

(* A step that changes what t has is one of t's or of its timers.          *)
LEMMA StepOfTask ==
  ASSUME TypeInv, [Next]_vars, NEW t \in Task,
         ~OwnStep(t), ~AddTimer(t), ~ \E x \in BagToSet(timers) : Expire(x) /\ x.task = t
  PROVE  SameTimers(timers, timers', t) /\ SameTask(t)
<1>1. CASE UNCHANGED vars BY <1>1 DEF vars, SameTimers, SameTask
<1>2. CASE Tick \/ Return BY <1>2 DEF Tick, Return, SameTimers, SameTask
<1>3. ASSUME NEW x \in BagToSet(timers), Expire(x)
      PROVE  SameTimers(timers, timers', t) /\ SameTask(t)
  BY <1>3, ExpireForOther
<1>4. ASSUME NEW u \in Task, AddTimer(u) PROVE SameTimers(timers, timers', t) /\ SameTask(t)
  BY <1>4, AddTimerForOther
<1>5. ASSUME NEW u \in Task, OwnStep(u) PROVE SameTimers(timers, timers', t) /\ SameTask(t)
  <2>1. timers' = timers /\ SameTask(t) BY <1>5, StepsOfOthers
  <2> QED BY <2>1 DEF SameTimers
<1>6. Next => \/ Tick \/ Return \/ (\E x \in BagToSet(timers) : Expire(x))
              \/ (\E u \in Task : AddTimer(u)) \/ (\E u \in Task : OwnStep(u))
  BY TaskFacts DEF Next, OwnStep
<1> QED BY <1>1, <1>2, <1>3, <1>4, <1>5, <1>6

-----------------------------------------------------------------------------
(* The clock.                                                              *)

LEMMA OnlyTimerTaken ==
  ASSUME NEW b, HeapOK(b), NEW x, NEW c, Taken(b, c, x), NEW t, Mine(b, t) = {x}, b[x] = 1
  PROVE  Mine(c, t) = {}
<1>1. BagToSet(c) = BagToSet(b) \ {x} BY DEF Taken
<1> QED BY <1>1 DEF Mine

LEMMA ClockStep ==
  ASSUME TypeInv, ClockInv, [Next]_vars
  PROVE  ClockInv'
<1>0. /\ HeapOK(timers) /\ tick \in Nat /\ drawn \in Nat /\ origin \in Nat
      /\ msgs \in [Task -> Seq(Stamp) \cup {Gone}]
      /\ hand \in [Task -> {None} \cup [timeout : Nat, value : Values, due : Nat]]
      /\ place \in [Task -> Places]
      /\ place[Clock] \in {"start", "loop"}
  BY DEF TypeInv
<1>t. Clock \in Task /\ kTimerFreq \in Nat BY TaskFacts, ValueTypes
<1>m. msgs[Clock] # Gone /\ msgs[Clock] \in Seq(Stamp) BY <1>0, <1>t DEF TypeInv
<1>1. CASE SameTimers(timers, timers', Clock) /\ SameTask(Clock)
  <2>1. /\ hand'[Clock] = hand[Clock] /\ place'[Clock] = place[Clock]
        /\ msgs'[Clock] = msgs[Clock] /\ drawn' = drawn /\ origin' = origin
        /\ Mine(timers', Clock) = Mine(timers, Clock)
        /\ \A y \in Mine(timers, Clock) : timers'[y] = timers[y]
    BY <1>1 DEF SameTimers, SameTask
  <2>2. NextSecond' = NextSecond BY <2>1 DEF NextSecond
  <2>3. Unstarted(Clock) => Unstarted(Clock)' BY <2>1 DEF Unstarted
  <2>4. ASSUME Mine(timers, Clock) = {Timer(NextSecond, ChainValue, Clock)},
               timers[Timer(NextSecond, ChainValue, Clock)] = 1
        PROVE  timers'[Timer(NextSecond, ChainValue, Clock)] = 1
    BY <2>1, <2>4
  <2> QED BY <2>1, <2>2, <2>3, <2>4 DEF ClockInv
<1>2. ASSUME NEW x \in BagToSet(timers), Expire(x), x.task = Clock PROVE ClockInv'
  <2>0. x \in Mine(timers, Clock) BY <1>2 DEF Mine
  <2>1. place[Clock] = "loop" BY <1>0, <2>0 DEF ClockInv, Unstarted
  <2>2. /\ hand[Clock] = None /\ msgs[Clock] = <<>>
        /\ x = Timer(NextSecond, ChainValue, Clock)
        /\ Mine(timers, Clock) = {x} /\ timers[x] = 1
    BY <2>0, <2>1 DEF ClockInv
  <2>3. x.timeout = NextSecond /\ x.value = ChainValue /\ x.value # kTaskTimerValue
    BY <2>2, TimerFields, ValueTypes
  <2>4. PICK s : s = [timeout |-> x.timeout, value |-> x.value] OBVIOUS
  <2>5. /\ Taken(timers, timers', x)
        /\ msgs' = [msgs EXCEPT ![Clock] = Append(msgs[Clock], s)]
    BY <1>2, <1>m, <2>3, <2>4, ExpireOther
  <2>6. UNCHANGED <<hand, place, drawn, origin>> BY <1>2 DEF Expire
  <2>7. Mine(timers', Clock) = {}
    <3>1. PICK c : c = timers' OBVIOUS
    <3>2. Mine(c, Clock) = {} BY <1>0, <2>2, <2>5, <3>1, OnlyTimerTaken
    <3> QED BY <3>1, <3>2
  <2>8. msgs'[Clock] = <<[timeout |-> NextSecond, value |-> ChainValue]>>
    BY <1>0, <1>t, <2>2, <2>3, <2>4, <2>5
  <2>9. NextSecond' = NextSecond BY <2>6 DEF NextSecond
  <2> QED BY <2>1, <2>2, <2>6, <2>7, <2>8, <2>9 DEF ClockInv
<1>3. CASE AddTimer(Clock)
  <2>1. /\ hand[Clock] # None /\ hand' = [hand EXCEPT ![Clock] = None]
        /\ UNCHANGED <<msgs, place, drawn, origin>>
    BY <1>3 DEF AddTimer
  <2>2. place[Clock] = "loop" BY <1>0, <2>1 DEF ClockInv, Unstarted
  <2>3. /\ hand[Clock].value = ChainValue /\ hand[Clock].timeout = NextSecond
        /\ Mine(timers, Clock) = {} /\ msgs[Clock] = <<>>
    BY <2>1, <2>2 DEF ClockInv
  <2>4. PICK x : x = Timer(hand[Clock].timeout, hand[Clock].value, Clock) OBVIOUS
  <2>5. PICK c : c = timers' OBVIOUS
  <2>6. Added(timers, c, x) BY <1>3, <1>t, <2>4, <2>5, AddTimerHeap
  <2>7. x.task = Clock BY <2>4, TimerFields
  <2>8. Mine(c, Clock) = {x} /\ c[x] = 1
    <3>1. x \notin BagToSet(timers) BY <2>3, <2>7 DEF Mine
    <3>2. BagToSet(c) = BagToSet(timers) \cup {x} /\ c[x] = 1 BY <2>6, <3>1 DEF Added
    <3> QED BY <2>3, <2>7, <3>2 DEF Mine
  <2>9. hand'[Clock] = None BY <1>0, <1>t, <2>1
  <2>10. NextSecond' = NextSecond BY <2>1 DEF NextSecond
  <2>11. x = Timer(NextSecond, ChainValue, Clock) BY <2>3, <2>4
  <2> QED BY <2>1, <2>2, <2>3, <2>5, <2>8, <2>9, <2>10, <2>11 DEF ClockInv
<1>4. CASE StartClock
  <2>1. /\ place[Clock] = "start" /\ place' = [place EXCEPT ![Clock] = "loop"]
        /\ drawn' = drawn + 1 /\ origin' = tick /\ PrepareChain(Clock, tick)
        /\ UNCHANGED <<timers, msgs>>
    BY <1>4 DEF StartClock
  <2>2. drawn = 0 /\ Mine(timers, Clock) = {} /\ msgs[Clock] = <<>>
    BY <2>1 DEF ClockInv, Unstarted
  <2>3. hand'[Clock] # None /\ hand'[Clock] =
          [timeout |-> tick, value |-> ChainValue, due |-> tick * TickLength]
    BY <1>0, <1>t, <2>1, ChainTypes
  <2>4. NextSecond' = tick BY <1>0, <1>t, <2>1, <2>2 DEF NextSecond
  <2>5. place'[Clock] = "loop" BY <1>0, <1>t, <2>1
  <2> QED BY <2>1, <2>2, <2>3, <2>4, <2>5 DEF ClockInv
<1>5. CASE DrawCurrentTime
  <2>1. /\ place[Clock] = "loop" /\ Receive(Clock) /\ drawn' = drawn + 1
        /\ PrepareChain(Clock, Head(msgs[Clock]).timeout + kTimerFreq)
        /\ UNCHANGED <<timers, place, origin>>
    BY <1>5 DEF DrawCurrentTime
  <2>2. /\ msgs[Clock] # <<>> /\ hand[Clock] = None /\ Head(msgs[Clock]) \in Stamp
        /\ msgs' = [msgs EXCEPT ![Clock] = Tail(msgs[Clock])]
    BY <1>t, <2>1, ReceiveTypes
  <2>3. /\ Mine(timers, Clock) = {}
        /\ msgs[Clock] = <<[timeout |-> NextSecond, value |-> ChainValue]>>
    BY <2>1, <2>2 DEF ClockInv
  <2>4. Head(msgs[Clock]).timeout = NextSecond /\ Tail(msgs[Clock]) = <<>>
    BY <2>3
  <2>5. PICK n : n = NextSecond + kTimerFreq OBVIOUS
  <2>6. n \in Nat BY <1>t, <2>2, <2>4, <2>5 DEF Stamp
  <2>7. hand'[Clock] # None /\ hand'[Clock] =
          [timeout |-> n, value |-> ChainValue, due |-> n * TickLength]
    BY <1>t, <2>1, <2>4, <2>5, <2>6, ChainTypes
  <2>8. NextSecond' = n
    <3>1. NextSecond' = origin' + (drawn' - 1) * kTimerFreq BY DEF NextSecond
    <3>2. n = origin + (drawn - 1) * kTimerFreq + kTimerFreq BY <2>5 DEF NextSecond
    <3>3. drawn' - 1 = drawn /\ origin' = origin BY <1>0, <2>1
    <3>4. drawn * kTimerFreq = (drawn - 1) * kTimerFreq + kTimerFreq BY <1>0, <1>t
    <3>5. (drawn - 1) * kTimerFreq \in Int BY <1>0, <1>t
    <3> QED BY <1>0, <1>t, <3>1, <3>2, <3>3, <3>4, <3>5
  <2>9. msgs'[Clock] = <<>> BY <1>0, <1>t, <2>2, <2>4
  <2> QED BY <2>1, <2>3, <2>7, <2>8, <2>9 DEF ClockInv
<1> QED
  BY <1>t, <1>1, <1>2, <1>3, <1>4, <1>5, StepOfTask, TaskFacts DEF OwnStep

-----------------------------------------------------------------------------
(* The cursors.                                                            *)

LEMMA PendingNat ==
  ASSUME TypeInv, NEW t \in Task, place[t] # "gone", NEW V
  PROVE  Pending(t, V) \in Nat
<1>1. msgs[t] \in Seq(Stamp) BY QueueIsSeq
<1>2. Cardinality(Rung(msgs[t], V)) \in Nat BY <1>1, RungFinite
<1>3. Cardinality(Held(timers, t, V)) \in Nat BY HeldFinite DEF TypeInv, HeapOK
<1> QED BY <1>2, <1>3 DEF Pending

LEMMA PendingNone ==
  ASSUME NEW t, Mine(timers, t) = {}, msgs[t] = <<>>, NEW V
  PROVE  Pending(t, V) = 0
<1>1. Held(timers, t, V) = {} BY HeldMember DEF Mine
<1>2. Rung(msgs[t], V) = {} BY DEF Rung
<1> QED BY <1>1, <1>2, FS_EmptySet DEF Pending

LEMMA PendingSame ==
  ASSUME NEW t, SameTimers(timers, timers', t), msgs'[t] = msgs[t], NEW V
  PROVE  Pending(t, V)' = Pending(t, V)
BY DEF SameTimers, Pending

(* What rings is in the queue instead of the heap.                         *)
LEMMA PendingExpire ==
  ASSUME TypeInv, NEW x \in BagToSet(timers), Expire(x), NEW t \in Terminal, x.task = t,
         place[t] # "gone", NEW V
  PROVE  Pending(t, V)' = Pending(t, V)
<1>0. HeapOK(timers) /\ t \in Task /\ msgs[t] \in Seq(Stamp) /\ msgs[t] # Gone
  BY QueueIsSeq, TaskFacts DEF TypeInv
<1>1. x.value # kTaskTimerValue
  <2>1. TimerOK(x) BY <1>0 DEF HeapOK
  <2> QED BY <2>1, TaskAssumption, ValueTypes DEF TimerOK
<1>2. PICK s : s = [timeout |-> x.timeout, value |-> x.value] OBVIOUS
<1>3. PICK c : c = timers' OBVIOUS
<1>4. /\ Taken(timers, c, x) /\ HeapOK(c) /\ s \in Stamp /\ s.value = x.value
      /\ msgs' = [msgs EXCEPT ![t] = Append(msgs[t], s)]
  BY <1>0, <1>1, <1>2, <1>3, ExpireOther
<1>5. PICK q : q = msgs[t] OBVIOUS
<1>6. msgs'[t] = Append(q, s) BY <1>0, <1>4, <1>5 DEF TypeInv
<1>7. Added(c, timers, x) BY <1>0, <1>4, TakenIsAdded
<1>8. /\ Cardinality(Held(c, t, V)) \in Nat /\ Cardinality(Held(timers, t, V)) \in Nat
      /\ Cardinality(Rung(q, V)) \in Nat
  BY <1>0, <1>4, <1>5, HeldFinite, RungFinite DEF HeapOK
<1>9. Pending(t, V)' = Cardinality(Held(c, t, V)) + Cardinality(Rung(Append(q, s), V))
  BY <1>3, <1>6 DEF Pending
<1>10. Pending(t, V) = Cardinality(Held(timers, t, V)) + Cardinality(Rung(q, V))
  BY <1>5 DEF Pending
<1>11. CASE x.value \in V
  <2>1. Cardinality(Held(timers, t, V)) = Cardinality(Held(c, t, V)) + 1
    BY <1>4, <1>7, <1>11, AddedOne
  <2>2. Cardinality(Rung(Append(q, s), V)) = Cardinality(Rung(q, V)) + 1
    BY <1>0, <1>4, <1>5, <1>11, RungAppend
  <2> QED BY <1>8, <1>9, <1>10, <2>1, <2>2
<1>12. CASE x.value \notin V
  <2>1. Held(timers, t, V) = Held(c, t, V) BY <1>4, <1>7, <1>12, AddedOther
  <2>2. Cardinality(Rung(Append(q, s), V)) = Cardinality(Rung(q, V))
    BY <1>0, <1>4, <1>5, <1>12, RungAppend
  <2> QED BY <1>9, <1>10, <2>1, <2>2
<1> QED BY <1>11, <1>12

LEMMA PendingAdd ==
  ASSUME TypeInv, NEW t \in Task, AddTimer(t), NEW V, place[t] # "gone"
  PROVE  /\ hand[t].value \in V => Pending(t, V)' = Pending(t, V) + 1
         /\ hand[t].value \notin V => Pending(t, V)' = Pending(t, V)
<1>0. HeapOK(timers) /\ msgs' = msgs BY DEF TypeInv, AddTimer
<1>1. PICK x : x = Timer(hand[t].timeout, hand[t].value, t) OBVIOUS
<1>2. PICK c : c = timers' OBVIOUS
<1>3. Added(timers, c, x) BY <1>1, <1>2, AddTimerHeap
<1>4. x.task = t /\ x.value = hand[t].value BY <1>1, TimerFields
<1>5. Pending(t, V)' = Cardinality(Held(c, t, V)) + Cardinality(Rung(msgs[t], V))
  BY <1>0, <1>2 DEF Pending
<1>6. Pending(t, V) = Cardinality(Held(timers, t, V)) + Cardinality(Rung(msgs[t], V))
  BY DEF Pending
<1>7. Cardinality(Held(timers, t, V)) \in Nat /\ Cardinality(Rung(msgs[t], V)) \in Nat
  BY <1>0, HeldFinite, RungFinite, QueueIsSeq DEF HeapOK
<1>8. CASE x.value \in V
  <2>1. Cardinality(Held(c, t, V)) = Cardinality(Held(timers, t, V)) + 1
    BY <1>0, <1>3, <1>4, <1>8, AddedOne
  <2> QED BY <1>4, <1>5, <1>6, <1>7, <1>8, <2>1
<1>9. CASE x.value \notin V
  <2>1. Held(c, t, V) = Held(timers, t, V) BY <1>0, <1>3, <1>9, AddedOther
  <2> QED BY <1>4, <1>5, <1>6, <1>9, <2>1
<1> QED BY <1>8, <1>9

LEMMA PendingReceive ==
  ASSUME TypeInv, NEW t \in Task, Receive(t), timers' = timers, NEW V
  PROVE  /\ Head(msgs[t]).value \in V => Pending(t, V) = Pending(t, V)' + 1
         /\ Head(msgs[t]).value \notin V => Pending(t, V)' = Pending(t, V)
         /\ Pending(t, V)' \in Nat
<1>0. /\ msgs[t] \in Seq(Stamp) /\ msgs[t] # <<>> /\ Tail(msgs[t]) \in Seq(Stamp)
      /\ msgs' = [msgs EXCEPT ![t] = Tail(msgs[t])]
  BY ReceiveTypes
<1>1. msgs'[t] = Tail(msgs[t]) BY <1>0 DEF TypeInv
<1>2. Pending(t, V)' = Cardinality(Held(timers, t, V)) + Cardinality(Rung(Tail(msgs[t]), V))
  BY <1>1 DEF Pending
<1>3. Pending(t, V) = Cardinality(Held(timers, t, V)) + Cardinality(Rung(msgs[t], V))
  BY DEF Pending
<1>4. /\ Cardinality(Held(timers, t, V)) \in Nat /\ Cardinality(Rung(msgs[t], V)) \in Nat
      /\ Cardinality(Rung(Tail(msgs[t]), V)) \in Nat
  BY <1>0, HeldFinite, RungFinite DEF TypeInv, HeapOK
<1>5. /\ Head(msgs[t]).value \in V =>
             Cardinality(Rung(msgs[t], V)) = Cardinality(Rung(Tail(msgs[t]), V)) + 1
      /\ Head(msgs[t]).value \notin V =>
             Cardinality(Rung(msgs[t], V)) = Cardinality(Rung(Tail(msgs[t]), V))
  BY <1>0, RungTail
<1> QED BY <1>2, <1>3, <1>4, <1>5

Hanging(t) == IF hand[t] # None /\ hand[t].value > 0 THEN 1 ELSE 0

LEMMA ChainsAre ==
  ASSUME NEW t
  PROVE  Chains(t) = Pending(t, Nat \ {0}) + Hanging(t)
BY DEF Chains, Hanging

LEMMA CursorStep ==
  ASSUME TypeInv, NEW t \in Terminal, CursorInv(t), [Next]_vars
  PROVE  CursorInv(t)'
<1> DEFINE P == Nat \ {0}
           A == AppValues
<1>0. /\ t \in Task /\ t # Clock /\ left[t] \in Nat /\ left \in [Terminal -> Nat]
      /\ hand \in [Task -> {None} \cup [timeout : Nat, value : Values, due : Nat]]
      /\ place \in [Task -> Places] /\ place[t] # "loop"
  BY TaskFacts DEF TypeInv
<1>v. /\ ChainValue \in P /\ ChainValue \notin A /\ ChainValue > 0
      /\ \A v \in Values : (v \in P <=> v > 0) /\ (v \in A <=> v < 0) /\ v # 0 /\ v \in Int
  <2>1. \A v \in A : v < 0 /\ v \in Int BY ValueTypes
  <2>2. ChainValue = 1 BY ValueTypes
  <2> QED BY <2>1, <2>2 DEF Values
<1>p. place[t] # "gone" => Pending(t, P) \in Nat /\ Pending(t, A) \in Nat
  BY <1>0, PendingNat
<1>c. Chains(t) = Pending(t, P) + Hanging(t) /\ Hanging(t) \in {0, 1}
  BY ChainsAre DEF Hanging
<1>d. Chains(t)' = Pending(t, P)' + Hanging(t)' /\ Hanging(t)' \in {0, 1}
  <2>1. Hanging(t)' \in {0, 1} BY DEF Hanging
  <2>2. Chains(t)' = Pending(t, P)' + Hanging(t)' BY DEF Chains, Hanging
  <2> QED BY <2>1, <2>2
<1>1. CASE SameTimers(timers, timers', t) /\ SameTask(t)
  <2>1. /\ hand'[t] = hand[t] /\ place'[t] = place[t] /\ msgs'[t] = msgs[t]
        /\ left'[t] = left[t] /\ (t \in dropped' <=> t \in dropped)
        /\ Mine(timers', t) = Mine(timers, t)
    BY <1>1 DEF SameTimers, SameTask
  <2>2. Pending(t, P)' = Pending(t, P) /\ Pending(t, A)' = Pending(t, A)
    BY <1>1, <2>1, PendingSame
  <2>3. Hanging(t)' = Hanging(t) BY <2>1 DEF Hanging
  <2>4. Chains(t)' = Chains(t) BY <1>c, <1>d, <2>2, <2>3
  <2>5. Unstarted(t) => Unstarted(t)' BY <2>1 DEF Unstarted
  <2> QED BY <2>1, <2>2, <2>4, <2>5 DEF CursorInv
<1>2. ASSUME NEW x \in BagToSet(timers), Expire(x), x.task = t PROVE CursorInv(t)'
  <2>1. UNCHANGED <<hand, place, left, dropped>> BY <1>2 DEF Expire
  <2>2. place[t] # "start"
    <3>1. x \in Mine(timers, t) BY <1>2 DEF Mine
    <3> QED BY <3>1 DEF CursorInv, Unstarted
  <2>3. CASE place[t] = "gone" BY <2>1, <2>3 DEF CursorInv
  <2>4. CASE place[t] # "gone"
    <3>1. Pending(t, P)' = Pending(t, P) /\ Pending(t, A)' = Pending(t, A)
      BY <1>2, <2>4, PendingExpire
    <3>2. Hanging(t)' = Hanging(t) BY <2>1 DEF Hanging
    <3>3. Chains(t)' = Chains(t) BY <1>c, <1>d, <3>1, <3>2
    <3> QED BY <2>1, <2>2, <3>1, <3>3 DEF CursorInv
  <2> QED BY <2>3, <2>4
<1>3. CASE AddTimer(t)
  <2>1. /\ hand[t] # None /\ hand' = [hand EXCEPT ![t] = None]
        /\ UNCHANGED <<msgs, place, left, dropped>>
    BY <1>3 DEF AddTimer
  <2>2. place[t] # "start" /\ hand'[t] = None
    BY <1>0, <2>1 DEF CursorInv, Unstarted
  <2>3. CASE place[t] = "gone" BY <2>1, <2>3 DEF CursorInv
  <2>4. CASE place[t] # "gone"
    <3>1. PICK v : v = hand[t].value OBVIOUS
    <3>2. v \in Values BY <1>0, <2>1, <3>1
    <3>3. Hanging(t)' = 0 BY <2>2 DEF Hanging
    <3>4. Hanging(t) = IF v > 0 THEN 1 ELSE 0 BY <2>1, <3>1 DEF Hanging
    <3>5. /\ v \in P => Pending(t, P)' = Pending(t, P) + 1
          /\ v \notin P => Pending(t, P)' = Pending(t, P)
          /\ v \notin A => Pending(t, A)' = Pending(t, A)
      BY <1>0, <1>3, <2>4, <3>1, PendingAdd
    <3>6. Chains(t)' = Chains(t)
      BY <1>c, <1>d, <1>p, <1>v, <2>4, <3>2, <3>3, <3>4, <3>5
    <3>7. place[t] = "shell" => v = ChainValue BY <2>1, <3>1 DEF CursorInv
    <3>8. place[t] = "shell" => Pending(t, A)' = Pending(t, A)
      BY <1>v, <3>5, <3>7
    <3> QED BY <2>1, <2>2, <3>6, <3>8 DEF CursorInv
  <2> QED BY <2>3, <2>4
<1>4. CASE StartTerminal(t)
  <2>1. /\ place[t] = "start" /\ place' = [place EXCEPT ![t] = "shell"]
        /\ PrepareChain(t, tick + BlinkPeriod)
        /\ UNCHANGED <<timers, msgs, left, dropped>>
    BY <1>4 DEF StartTerminal
  <2>2. Mine(timers, t) = {} /\ msgs[t] = <<>> BY <2>1 DEF CursorInv, Unstarted
  <2>3. Pending(t, P) = 0 /\ Pending(t, A) = 0 BY <2>2, PendingNone
  <2>4. Pending(t, P)' = Pending(t, P) /\ Pending(t, A)' = Pending(t, A)
    BY <2>1 DEF Pending
  <2>5. PICK n : n = tick + BlinkPeriod OBVIOUS
  <2>6. n \in Nat BY <2>5, ValueTypes DEF TypeInv
  <2>7. hand'[t] # None
        /\ hand'[t] = [timeout |-> n, value |-> ChainValue, due |-> n * TickLength]
    BY <1>0, <2>1, <2>5, <2>6, ChainTypes
  <2>8. hand'[t].value = ChainValue BY <2>7
  <2>9. Hanging(t)' = 1 BY <1>v, <2>7, <2>8 DEF Hanging
  <2>10. place'[t] = "shell" /\ left'[t] = left[t] BY <1>0, <2>1
  <2>11. Chains(t)' = 1 BY <1>d, <2>3, <2>4, <2>9
  <2> QED BY <1>0, <2>3, <2>4, <2>8, <2>10, <2>11 DEF CursorInv
<1>5. CASE BlinkCursor(t)
  <2>1. /\ place[t] = "shell" /\ Receive(t)
        /\ PrepareChain(t, Head(msgs[t]).timeout + BlinkPeriod)
        /\ UNCHANGED <<timers, place, left, dropped>>
    BY <1>5 DEF BlinkCursor
  <2>2. Head(msgs[t]) \in Stamp /\ hand[t] = None BY <1>0, <2>1, ReceiveTypes
  <2>3. PICK v : v = Head(msgs[t]).value OBVIOUS
  <2>4. v \in Values BY <2>2, <2>3 DEF Stamp
  <2>5. /\ v \in P => Pending(t, P) = Pending(t, P)' + 1
        /\ v \notin P => Pending(t, P)' = Pending(t, P)
        /\ v \in A => Pending(t, A) = Pending(t, A)' + 1
        /\ v \notin A => Pending(t, A)' = Pending(t, A)
        /\ Pending(t, P)' \in Nat /\ Pending(t, A)' \in Nat
    BY <1>0, <2>1, <2>3, PendingReceive
  <2>6. PICK n : n = Head(msgs[t]).timeout + BlinkPeriod OBVIOUS
  <2>7. n \in Nat BY <2>2, <2>6, ValueTypes DEF Stamp
  <2>8. hand'[t] # None
        /\ hand'[t] = [timeout |-> n, value |-> ChainValue, due |-> n * TickLength]
    BY <1>0, <2>1, <2>6, <2>7, ChainTypes
  <2>9. hand'[t].value = ChainValue BY <2>8
  <2>10. Hanging(t)' = 1 /\ Hanging(t) = 0 BY <1>v, <2>2, <2>8, <2>9 DEF Hanging
  <2>11. Chains(t) + Pending(t, A) <= 1 + left[t] BY <2>1 DEF CursorInv
  <2>12. Chains(t)' + Pending(t, A)' <= 1 + left[t] /\ Chains(t)' >= 1
    BY <1>0, <1>c, <1>d, <1>p, <1>v, <2>1, <2>4, <2>5, <2>10, <2>11
  <2> QED BY <2>1, <2>9, <2>12 DEF CursorInv
<1>6. CASE CloseWindow(t)
  <2>1. place'[t] = "gone" BY <1>0, <1>6 DEF CloseWindow
  <2> QED BY <2>1 DEF CursorInv
<1>7. CASE ExecuteFile(t)
  <2>1. /\ place[t] = "shell" /\ place' = [place EXCEPT ![t] = "app"]
        /\ UNCHANGED <<timers, msgs, hand, left, dropped>>
    BY <1>7 DEF ExecuteFile
  <2>2. place'[t] = "app" BY <1>0, <2>1
  <2>3. Chains(t)' = Chains(t) BY <2>1 DEF Chains, Pending
  <2>4. Chains(t) <= 1 + left[t] BY <1>0, <1>c, <1>p, <2>1 DEF CursorInv
  <2> QED BY <2>1, <2>2, <2>3, <2>4 DEF CursorInv
<1>8. CASE Exit(t)
  <2>1. /\ place[t] = "app" /\ place' = [place EXCEPT ![t] = "shell"] /\ hand[t] = None
        /\ left' = [left EXCEPT ![t] = left[t] + Pending(t, A)]
        /\ UNCHANGED <<timers, msgs, hand, dropped>>
    BY <1>8 DEF Exit, Ready
  <2>2. place'[t] = "shell" /\ left'[t] = left[t] + Pending(t, A) /\ hand'[t] = None
    BY <1>0, <2>1
  <2>3. Chains(t)' = Chains(t) /\ Pending(t, A)' = Pending(t, A)
    BY <2>1 DEF Chains, Pending
  <2>4. Chains(t) <= 1 + left[t] /\ (t \notin dropped => Chains(t) >= 1)
    BY <2>1 DEF CursorInv
  <2>5. Chains(t) + Pending(t, A) <= 1 + (left[t] + Pending(t, A))
    BY <1>0, <1>c, <1>p, <2>1, <2>4
  <2> QED BY <2>1, <2>2, <2>3, <2>4, <2>5 DEF CursorInv
<1>9. ASSUME NEW value \in Value, NEW ms \in Millisecond, NEW relative \in BOOLEAN,
             NEW phase \in {0, TickLength - 1}, CreateTimer(t, value, ms, relative, phase)
      PROVE  CursorInv(t)'
  <2>1. /\ place[t] = "app" /\ hand[t] = None
        /\ UNCHANGED <<timers, msgs, place, left, dropped>>
    BY <1>9 DEF CreateTimer, Ready
  <2>2. PICK n \in Nat : \E m \in Nat : Prepared(t, n, -value, m) BY <1>9, CreateTypes
  <2>3. PICK m \in Nat : Prepared(t, n, -value, m) BY <2>2
  <2>4. PICK v : v = -value OBVIOUS
  <2>5. v \in Values /\ v \in A BY <2>4 DEF Values, AppValues
  <2>6. hand'[t] = [timeout |-> n, value |-> v, due |-> m]
    BY <1>0, <2>3, <2>4, <2>5, PreparedTypes
  <2>7. hand'[t].value = v BY <2>6
  <2>8. Hanging(t)' = 0 /\ Hanging(t) = 0 BY <1>v, <2>1, <2>5, <2>7 DEF Hanging
  <2>9. Pending(t, P)' = Pending(t, P) BY <2>1 DEF Pending
  <2>10. Chains(t)' = Chains(t) BY <1>c, <1>d, <2>8, <2>9
  <2> QED BY <2>1, <2>10 DEF CursorInv
<1>10. ASSUME NEW events \in BOOLEAN, Read(t, events) PROVE CursorInv(t)'
  <2>1. /\ place[t] = "app" /\ Receive(t)
        /\ dropped' = IF Head(msgs[t]).value > 0 THEN dropped \cup {t} ELSE dropped
        /\ UNCHANGED <<timers, hand, place, left>>
    BY <1>10 DEF Read
  <2>2. Head(msgs[t]) \in Stamp BY <1>0, <2>1, ReceiveTypes
  <2>3. PICK v : v = Head(msgs[t]).value OBVIOUS
  <2>4. v \in Values BY <2>2, <2>3 DEF Stamp
  <2>5. /\ v \in P => Pending(t, P) = Pending(t, P)' + 1
        /\ v \notin P => Pending(t, P)' = Pending(t, P)
        /\ Pending(t, P)' \in Nat
    BY <1>0, <2>1, <2>3, PendingReceive
  <2>6. Hanging(t)' = Hanging(t) BY <2>1 DEF Hanging
  <2>7. Chains(t) <= 1 + left[t] /\ (t \notin dropped => Chains(t) >= 1)
    BY <2>1 DEF CursorInv
  <2>8. Chains(t)' <= 1 + left[t]
    BY <1>0, <1>c, <1>d, <1>p, <2>1, <2>5, <2>6, <2>7
  <2>9. t \notin dropped' => Chains(t)' = Chains(t) /\ t \notin dropped
    <3>1. t \notin dropped' => ~(v > 0) /\ t \notin dropped BY <2>1, <2>3
    <3>2. ~(v > 0) => Chains(t)' = Chains(t) BY <1>c, <1>d, <1>v, <2>4, <2>5, <2>6
    <3> QED BY <3>1, <3>2
  <2> QED BY <2>1, <2>7, <2>8, <2>9 DEF CursorInv
<1> QED
  BY <1>0, <1>1, <1>2, <1>3, <1>4, <1>5, <1>6, <1>7, <1>8, <1>9, <1>10, StepOfTask DEF OwnStep
-----------------------------------------------------------------------------
LEMMA Initially == Init => IInv
<1> SUFFICES ASSUME Init PROVE IInv OBVIOUS
<1> DEFINE x == Timer(kTaskTimerPeriod, kTaskTimerValue, Main)
<1>1. TypeInv BY TypeInit
<1>2. BagToSet(timers) = {x} /\ timers[x] = 1 BY DEF Init, SetToBag, BagToSet
<1>3. /\ x.value = kTaskTimerValue /\ x.timeout = kTaskTimerPeriod /\ x.task = Main
      /\ kTaskTimerPeriod \in Nat \ {0}
  BY TimerFields, ValueTypes
<1> HIDE DEF x
<1>4. RingInv
  <2>1. tick = 0 BY DEF Init
  <2>2. x.timeout <= tick + kTaskTimerPeriod /\ tick < x.timeout BY <1>3, <2>1
  <2> QED BY <1>2, <1>3, <2>2 DEF RingInv
<1>5. \A t \in Task : Unstarted(t) /\ place[t] = "start"
  <2> TAKE t \in Task
  <2>1. Mine(timers, t) = {} BY <1>2, <1>3, TaskFacts DEF Mine
  <2> QED BY <2>1 DEF Unstarted, Init
<1>6. ClockInv BY <1>5, TaskFacts DEF ClockInv, Init
<1>7. \A t \in Terminal : CursorInv(t) BY <1>5, TaskFacts DEF CursorInv
<1> QED BY <1>1, <1>4, <1>6, <1>7 DEF IInv

LEMMA Inductive == IInv /\ [Next]_vars => IInv'
<1> SUFFICES ASSUME IInv, [Next]_vars PROVE IInv' OBVIOUS
<1>0. TypeInv /\ RingInv /\ ClockInv /\ \A t \in Terminal : CursorInv(t) BY DEF IInv
<1>1. TypeInv' BY <1>0, TypeStep
<1>2. RingInv' BY <1>0, RingStep
<1>3. ClockInv' BY <1>0, ClockStep
<1>4. ASSUME NEW t \in Terminal PROVE CursorInv(t)' BY <1>0, CursorStep
<1> QED BY <1>1, <1>2, <1>3, <1>4 DEF IInv

LEMMA Invariant == Spec => []IInv
BY Initially, Inductive, PTL DEF Spec

(* There is always one task timer, at most a period ahead, and the clock's *)
(* timer is in one place, however late each drawing was and whatever the   *)
(* others do: the seconds neither break, nor double, nor drift.            *)
THEOREM TimeGoesOn == Spec => []PeriodsKept
<1>1. IInv => PeriodsKept
  <2> SUFFICES ASSUME IInv PROVE PeriodsKept OBVIOUS
  <2> DEFINE ring == {x \in BagToSet(timers) : x.value = kTaskTimerValue}
  <2>1. \E x \in ring : /\ ring = {x} /\ timers[x] = 1
                        /\ x.timeout <= tick + kTaskTimerPeriod
                        /\ handler = Idle => tick < x.timeout
    BY DEF IInv, RingInv
  <2>2. ASSUME place[Clock] = "loop"
        PROVE  \/ /\ hand[Clock] # None /\ hand[Clock].timeout = NextSecond
                  /\ Pending(Clock, Int) = 0
               \/ /\ hand[Clock] = None /\ Pending(Clock, Int) = 1
                  /\ \/ Timer(NextSecond, ChainValue, Clock) \in BagToSet(timers)
                     \/ msgs[Clock] # <<>> /\ Head(msgs[Clock]).timeout = NextSecond
    <3> DEFINE x == Timer(NextSecond, ChainValue, Clock)
    <3>0. ChainValue \in Int /\ x.task = Clock /\ x.value = ChainValue
      BY TimerFields, ValueTypes
    <3>1. CASE hand[Clock] # None
      <4>1. hand[Clock].timeout = NextSecond /\ Mine(timers, Clock) = {} /\ msgs[Clock] = <<>>
        BY <2>2, <3>1 DEF IInv, ClockInv
      <4> QED BY <3>1, <4>1, PendingNone
    <3>2. CASE Mine(timers, Clock) = {x} /\ timers[x] = 1 /\ msgs[Clock] = <<>> /\ hand[Clock] = None
      <4> HIDE DEF x
      <4>1. \A p : p \in Held(timers, Clock, Int) <=> p = <<x, 1>>
        <5>1. x \in BagToSet(timers) /\ \A y \in BagToSet(timers) : y.task = Clock => y = x
          BY <3>2 DEF Mine
        <5>2. 1 .. 1 = {1} OBVIOUS
        <5> QED BY <3>0, <3>2, <5>1, <5>2, HeldMember
      <4>2. Held(timers, Clock, Int) = {<<x, 1>>} BY <4>1
      <4>3. Rung(msgs[Clock], Int) = {} BY <3>2 DEF Rung
      <4>4. Pending(Clock, Int) = 1
        <5>1. Cardinality(Held(timers, Clock, Int)) = 1 BY <4>2, FS_Singleton
        <5>2. Cardinality(Rung(msgs[Clock], Int)) = 0 BY <4>3, FS_EmptySet
        <5> QED BY <5>1, <5>2 DEF Pending
      <4>5. x \in BagToSet(timers) BY <3>2 DEF Mine
      <4> QED BY <3>2, <4>4, <4>5 DEF x
    <3>3. CASE /\ hand[Clock] = None /\ Mine(timers, Clock) = {}
               /\ msgs[Clock] = <<[timeout |-> NextSecond, value |-> ChainValue]>>
      <4>1. Held(timers, Clock, Int) = {} BY <3>3, HeldMember DEF Mine
      <4>2. PICK q : q = msgs[Clock] OBVIOUS
      <4>3. Len(q) = 1 /\ DOMAIN q = {1} /\ q[1].value = ChainValue /\ Head(q).timeout = NextSecond
            /\ q # <<>>
        BY <3>3, <4>2
      <4>4. Rung(q, Int) = {1} BY <3>0, <4>3 DEF Rung
      <4>5. Pending(Clock, Int) = 1
        <5>1. Cardinality(Held(timers, Clock, Int)) = 0 BY <4>1, FS_EmptySet
        <5>2. Cardinality(Rung(msgs[Clock], Int)) = 1 BY <4>2, <4>4, FS_Singleton
        <5> QED BY <5>1, <5>2 DEF Pending
      <4> QED BY <3>3, <4>2, <4>3, <4>5
    <3> QED BY <2>2, <3>1, <3>2, <3>3 DEF IInv, ClockInv
  <2> HIDE DEF ring
  <2> QED BY <2>1, <2>2 DEF PeriodsKept, NextSecond, ring
<1> QED BY <1>1, Invariant, PTL

(* For any number of terminals, programs and timers: the cursor does not   *)
(* stop unless a program has thrown its timer away, and there are no more  *)
(* chains of blinks than applications have left timers behind.             *)
THEOREM CursorsGoOn == Spec => []CursorBlinks
<1>1. IInv => CursorBlinks
  <2> SUFFICES ASSUME IInv, NEW t \in Terminal, place[t] \in {"shell", "app"}
               PROVE  /\ Chains(t) <= 1 + left[t]
                      /\ t \notin dropped => Chains(t) >= 1
    BY DEF CursorBlinks
  <2>1. CursorInv(t) /\ TypeInv BY DEF IInv
  <2>2. CASE place[t] = "app" BY <2>1, <2>2 DEF CursorInv
  <2>3. CASE place[t] = "shell"
    <3>1. Chains(t) + Pending(t, AppValues) <= 1 + left[t] BY <2>1, <2>3 DEF CursorInv
    <3>2. /\ Pending(t, AppValues) \in Nat /\ Pending(t, Nat \ {0}) \in Nat
          /\ left[t] \in Nat
      BY <2>1, <2>3, PendingNat, TaskFacts DEF TypeInv
    <3>3. Chains(t) \in Nat
      <4>1. Hanging(t) \in {0, 1} BY DEF Hanging
      <4> QED BY <3>2, <4>1, ChainsAre
    <3>4. Chains(t) <= 1 + left[t] BY <3>1, <3>2, <3>3
    <3> QED BY <2>1, <2>3, <3>4 DEF CursorInv
  <2> QED BY <2>2, <2>3
<1> QED BY <1>1, Invariant, PTL
(***************************************************************************)
(* The promise of Alarms.  While Tick runs nothing has happened yet to the *)
(* alarms; SinceTick says what has happened to the heap c and the queue q  *)
(* of t since they were b and p: everything that is new in the queue has   *)
(* come out of the heap, in order, due at tick n or before.                *)

Count(b, x) == IF x \in BagToSet(b) THEN b[x] ELSE 0

Late(p, q, s) == {i \in Len(p) + 1 .. Len(q) : q[i] = s}

TimerOf(s, t) == Timer(s.timeout, s.value, t)

SinceTick(b, c, p, q, t, n) ==
  /\ p \in Seq(Stamp) /\ q \in Seq(Stamp)
  /\ Len(p) <= Len(q)
  /\ \A i \in 1 .. Len(p) : q[i] = p[i]
  /\ \A i, j \in Len(p) + 1 .. Len(q) : i < j => q[i].timeout <= q[j].timeout
  /\ \A i \in Len(p) + 1 .. Len(q) :
       q[i].timeout <= n /\ \A y \in BagToSet(c) : q[i].timeout <= y.timeout
  /\ \A s \in Stamp :
       Count(c, TimerOf(s, t)) + Cardinality(Late(p, q, s)) = Count(b, TimerOf(s, t))

FurtherKept(b, c, n) ==
  \A x : x.value # kTaskTimerValue /\ x.timeout > n => Count(b, x) = Count(c, x)

TickInv ==
  handler # Idle =>
    /\ HeapOK(handler.timers)
    /\ handler.msgs \in [Task -> Seq(Stamp) \cup {Gone}]
    /\ \A t \in Task : msgs[t] = Gone <=> handler.msgs[t] = Gone
    /\ \A t \in Task : msgs[t] # Gone =>
         SinceTick(handler.timers, timers, handler.msgs[t], msgs[t], t, tick)
    /\ FurtherKept(handler.timers, timers, tick)

HandInv ==
  \A t \in Task : hand[t] # None =>
    msgs[t] # Gone /\ Promise!InTime(hand[t].due, hand[t].timeout)

LEMMA CountType ==
  ASSUME NEW b, HeapOK(b), NEW x
  PROVE  Count(b, x) \in Nat /\ (Count(b, x) # 0 <=> x \in BagToSet(b))
BY DEF HeapOK, Count

LEMMA CountAdded ==
  ASSUME NEW b, HeapOK(b), NEW x, NEW c, Added(b, c, x)
  PROVE  Count(c, x) = Count(b, x) + 1 /\ \A y : y # x => Count(c, y) = Count(b, y)
<1>1. \A y \in BagToSet(b) : b[y] \in Nat BY DEF HeapOK
<1>2. Count(c, x) = Count(b, x) + 1 BY <1>1 DEF Added, Count
<1>3. ASSUME NEW y, y # x PROVE Count(c, y) = Count(b, y) BY <1>3 DEF Added, Count
<1> QED BY <1>2, <1>3

LEMMA CountTaken ==
  ASSUME NEW b, HeapOK(b), NEW x, NEW c, Taken(b, c, x)
  PROVE  /\ Count(c, x) + 1 = Count(b, x) /\ \A y : y # x => Count(c, y) = Count(b, y)
         /\ BagToSet(c) \subseteq BagToSet(b)
<1>1. \A y \in BagToSet(b) : b[y] \in Nat BY DEF HeapOK
<1>2. x \in BagToSet(b) /\ (b[x] = 1 => BagToSet(c) = BagToSet(b) \ {x})
      /\ (b[x] # 1 => BagToSet(c) = BagToSet(b) /\ c[x] = b[x] - 1)
      /\ \A y \in BagToSet(b) \ {x} : c[y] = b[y]
  BY DEF Taken
<1>3. Count(c, x) + 1 = Count(b, x) BY <1>1, <1>2 DEF Count
<1>4. ASSUME NEW y, y # x PROVE Count(c, y) = Count(b, y) BY <1>2, <1>4 DEF Count
<1> QED BY <1>2, <1>3, <1>4

LEMMA LateFinite ==
  ASSUME NEW p \in Seq(Stamp), NEW q \in Seq(Stamp), NEW s
  PROVE  IsFiniteSet(Late(p, q, s)) /\ Cardinality(Late(p, q, s)) \in Nat
<1>1. Len(p) + 1 \in Int /\ Len(q) \in Int OBVIOUS
<1>2. IsFiniteSet(Len(p) + 1 .. Len(q)) BY <1>1, FS_Interval
<1>3. Late(p, q, s) \in SUBSET (Len(p) + 1 .. Len(q)) BY DEF Late
<1>4. IsFiniteSet(Late(p, q, s)) BY <1>2, <1>3, FS_Subset
<1> QED BY <1>4, FS_CardinalityType

Longer(p, q, r, s, e) ==
  /\ s = e => Cardinality(Late(p, r, s)) = Cardinality(Late(p, q, s)) + 1
  /\ s # e => Cardinality(Late(p, r, s)) = Cardinality(Late(p, q, s))

LEMMA LateAppend ==
  ASSUME NEW p \in Seq(Stamp), NEW q \in Seq(Stamp), Len(p) <= Len(q), NEW e \in Stamp,
         NEW r, r = Append(q, e), NEW s
  PROVE  Longer(p, q, r, s, e)
<1>1. /\ Len(r) = Len(q) + 1 /\ r[Len(q) + 1] = e
      /\ \A i \in 1 .. Len(q) : r[i] = q[i]
      /\ Len(p) \in Nat /\ Len(q) \in Nat
  OBVIOUS
<1>2. CASE s = e
  <2>1. Late(p, r, s) = Late(p, q, s) \cup {Len(q) + 1} BY <1>1, <1>2 DEF Late
  <2>2. Len(q) + 1 \notin Late(p, q, s) BY <1>1 DEF Late
  <2>3. IsFiniteSet(Late(p, q, s)) BY LateFinite
  <2> QED BY <1>2, <2>1, <2>2, <2>3, FS_AddElement DEF Longer
<1>3. CASE s # e
  <2>1. Late(p, r, s) = Late(p, q, s) BY <1>1, <1>3 DEF Late
  <2>2. Cardinality(Late(p, q, s)) \in Nat BY LateFinite
  <2> QED BY <1>3, <2>1, <2>2 DEF Longer
<1> QED BY <1>2, <1>3

LEMMA StampFields ==
  ASSUME NEW s \in Stamp
  PROVE  s.timeout \in Nat /\ s.value \in Values /\ s.value # kTaskTimerValue
         /\ s = [timeout |-> s.timeout, value |-> s.value]
BY ValueTypes DEF Stamp

LEMMA SinceNow ==
  ASSUME NEW b, HeapOK(b), NEW q \in Seq(Stamp), NEW t, NEW n
  PROVE  SinceTick(b, b, q, q, t, n)
<1>1. Len(q) \in Nat OBVIOUS
<1>2. ASSUME NEW s \in Stamp
      PROVE  Count(b, TimerOf(s, t)) + Cardinality(Late(q, q, s)) = Count(b, TimerOf(s, t))
  <2>1. Late(q, q, s) = {} BY <1>1 DEF Late
  <2>2. Cardinality(Late(q, q, s)) = 0 BY <2>1, FS_EmptySet
  <2>3. Count(b, TimerOf(s, t)) \in Nat BY CountType
  <2> QED BY <2>2, <2>3
<1> QED BY <1>1, <1>2 DEF SinceTick

LEMMA SinceKept ==
  ASSUME NEW b, NEW c, NEW p, NEW q, NEW t, NEW n \in Nat, SinceTick(b, c, p, q, t, n), NEW d,
         \A y \in BagToSet(d) : y \in BagToSet(c) \/ (y.timeout \in Nat /\ y.timeout >= n),
         \A s \in Stamp : Count(d, TimerOf(s, t)) = Count(c, TimerOf(s, t))
  PROVE  SinceTick(b, d, p, q, t, n)
<1>1. p \in Seq(Stamp) /\ q \in Seq(Stamp) /\ Len(p) <= Len(q) BY DEF SinceTick
<1>2. ASSUME NEW i \in Len(p) + 1 .. Len(q), NEW y \in BagToSet(d)
      PROVE  q[i].timeout <= y.timeout
  <2>1. i \in 1 .. Len(q) BY <1>1
  <2>2. q[i] \in Stamp BY <1>1, <2>1
  <2>3. q[i].timeout \in Nat /\ q[i].timeout <= n BY <2>2, StampFields DEF SinceTick
  <2> QED BY <2>3 DEF SinceTick
<1> QED BY <1>2 DEF SinceTick

LEMMA SinceExpired ==
  ASSUME NEW b, NEW c, HeapOK(c), NEW p, NEW q, NEW t, NEW n \in Nat, SinceTick(b, c, p, q, t, n),
         NEW x \in Top(c), TimerOK(x), x.task = t, x.timeout <= n,
         NEW e \in Stamp, e.timeout = x.timeout, e.value = x.value,
         NEW d, Taken(c, d, x), HeapOK(b), HeapOK(d)
  PROVE  SinceTick(b, d, p, Append(q, e), t, n)
<1>1. p \in Seq(Stamp) /\ q \in Seq(Stamp) /\ Len(p) <= Len(q)
      /\ Len(p) \in Nat /\ Len(q) \in Nat
  BY DEF SinceTick
<1>2. PICK r : r = Append(q, e) OBVIOUS
<1>3. /\ r \in Seq(Stamp) /\ Len(r) = Len(q) + 1 /\ r[Len(q) + 1] = e
      /\ \A i \in 1 .. Len(q) : r[i] = q[i]
  BY <1>1, <1>2
<1>4. /\ x \in BagToSet(c) /\ \A y \in BagToSet(c) : x.timeout <= y.timeout
      /\ e.timeout = x.timeout /\ x = TimerOf(e, t) /\ x.timeout \in Nat
  BY DEF Top, TimerOK, TimerOf, Timer
<1>5. BagToSet(d) \subseteq BagToSet(c) /\ Count(d, x) + 1 = Count(c, x)
      /\ \A y : y # x => Count(d, y) = Count(c, y)
  BY CountTaken
<1>6. \A i \in 1 .. Len(p) : r[i] = p[i] BY <1>1, <1>3 DEF SinceTick
<1>7. \A i, j \in Len(p) + 1 .. Len(r) : i < j => r[i].timeout <= r[j].timeout
  <2> SUFFICES ASSUME NEW i \in Len(p) + 1 .. Len(r), NEW j \in Len(p) + 1 .. Len(r), i < j
               PROVE  r[i].timeout <= r[j].timeout
    OBVIOUS
  <2>1. i \in Len(p) + 1 .. Len(q) /\ r[i] = q[i] BY <1>1, <1>3
  <2>2. CASE j = Len(q) + 1
    <3>1. q[i].timeout <= x.timeout BY <1>4, <2>1 DEF SinceTick
    <3> QED BY <1>3, <1>4, <2>1, <2>2, <3>1
  <2>3. CASE j # Len(q) + 1
    <3>1. j \in Len(p) + 1 .. Len(q) /\ r[j] = q[j] BY <1>1, <1>3, <2>3
    <3> QED BY <2>1, <3>1 DEF SinceTick
  <2> QED BY <2>2, <2>3
<1>8. \A i \in Len(p) + 1 .. Len(r) :
        r[i].timeout <= n /\ \A y \in BagToSet(d) : r[i].timeout <= y.timeout
  <2> TAKE i \in Len(p) + 1 .. Len(r)
  <2>1. CASE i = Len(q) + 1 BY <1>3, <1>4, <1>5, <2>1
  <2>2. CASE i # Len(q) + 1
    <3>1. i \in Len(p) + 1 .. Len(q) /\ r[i] = q[i] BY <1>1, <1>3, <2>2
    <3> QED BY <1>5, <3>1 DEF SinceTick
  <2> QED BY <2>1, <2>2
<1>9. ASSUME NEW s \in Stamp
      PROVE  Count(d, TimerOf(s, t)) + Cardinality(Late(p, r, s)) = Count(b, TimerOf(s, t))
  <2>1. Count(c, TimerOf(s, t)) + Cardinality(Late(p, q, s)) = Count(b, TimerOf(s, t))
    BY DEF SinceTick
  <2>2. /\ s = e => Cardinality(Late(p, r, s)) = Cardinality(Late(p, q, s)) + 1
        /\ s # e => Cardinality(Late(p, r, s)) = Cardinality(Late(p, q, s))
    <3>1. Longer(p, q, r, s, e) BY <1>1, <1>2, LateAppend
    <3> QED BY <3>1 DEF Longer
  <2>3. /\ Count(c, TimerOf(s, t)) \in Nat /\ Count(d, TimerOf(s, t)) \in Nat
        /\ Cardinality(Late(p, q, s)) \in Nat
    BY <1>1, CountType, LateFinite
  <2>4. TimerOf(s, t) = x <=> s = e BY <1>4, StampFields DEF TimerOf, Timer
  <2> QED BY <1>5, <2>1, <2>2, <2>3, <2>4
<1> QED BY <1>1, <1>2, <1>3, <1>6, <1>7, <1>8, <1>9 DEF SinceTick

-----------------------------------------------------------------------------
(* What tasks do, they do when Tick does not run.                          *)
LEMMA TasksNeedIdle ==
  ASSUME Next, ~Tick, ~Return, ~ \E x \in BagToSet(timers) : Expire(x)
  PROVE  handler = Idle /\ handler' = Idle
<1>1. CASE \E t \in Task : AddTimer(t) BY <1>1 DEF AddTimer
<1>2. CASE StartClock \/ DrawCurrentTime
  BY <1>2 DEF StartClock, DrawCurrentTime, Receive, Ready
<1>3. ASSUME NEW t \in Terminal, StartTerminal(t) \/ BlinkCursor(t) \/ CloseWindow(t)
      PROVE  handler = Idle /\ handler' = Idle
  BY <1>3 DEF StartTerminal, BlinkCursor, CloseWindow, Receive, Ready
<1>4. ASSUME NEW t \in Terminal, ExecuteFile(t) \/ Exit(t)
      PROVE  handler = Idle /\ handler' = Idle
  BY <1>4 DEF ExecuteFile, Exit, Receive, Ready
<1>5. ASSUME NEW t \in Terminal, NEW value \in Value, NEW ms \in Millisecond,
             NEW relative \in BOOLEAN, NEW phase \in {0, TickLength - 1},
             CreateTimer(t, value, ms, relative, phase)
      PROVE  handler = Idle /\ handler' = Idle
  BY <1>5 DEF CreateTimer, Ready
<1>6. ASSUME NEW t \in Terminal, NEW events \in BOOLEAN, Read(t, events)
      PROVE  handler = Idle /\ handler' = Idle
  BY <1>6 DEF Read, Receive, Ready
<1> QED BY <1>1, <1>2, <1>3, <1>4, <1>5, <1>6 DEF Next

(* What a pass of the loop leaves of the heap, seen from another timer.    *)
LEMMA ExpireCounts ==
  ASSUME TypeInv, NEW x \in BagToSet(timers), Expire(x)
  PROVE  /\ \A y : y # x /\ y.value # kTaskTimerValue => Count(timers', y) = Count(timers, y)
         /\ \A y \in BagToSet(timers') : y \in BagToSet(timers) \/ (y.timeout \in Nat /\ y.timeout >= tick)
         /\ x.timeout <= tick /\ x \in Top(timers) /\ handler # Idle
         /\ UNCHANGED <<tick, handler>>
<1>0. /\ x.timeout <= tick /\ x \in Top(timers) /\ handler # Idle
      /\ UNCHANGED <<tick, handler>>
  BY DEF Expire
<1>1. HeapOK(timers) /\ tick \in Nat BY DEF TypeInv
<1>2. CASE x.value = kTaskTimerValue
  <2> DEFINE z == Timer(tick + kTaskTimerPeriod, kTaskTimerValue, Main)
  <2>1. PICK c : /\ Taken(timers, c, x) /\ HeapOK(c) /\ Added(c, timers', z)
                 /\ HeapOK(timers')
    BY <1>2, ExpireRing
  <2>2. PICK d : d = timers' OBVIOUS
  <2>3. z.value = kTaskTimerValue /\ z.timeout \in Nat /\ z.timeout >= tick
    BY <1>1, ValueTypes, TimerFields
  <2> HIDE DEF z
  <2>4. /\ \A y : y # x => Count(c, y) = Count(timers, y)
        /\ BagToSet(c) \subseteq BagToSet(timers)
    BY <1>1, <2>1, CountTaken
  <2>5. \A y : y # z => Count(d, y) = Count(c, y) BY <2>1, <2>2, CountAdded
  <2>6. BagToSet(d) = BagToSet(c) \cup {z} BY <2>1, <2>2 DEF Added
  <2>7. \A y \in BagToSet(d) : y \in BagToSet(timers) \/ (y.timeout \in Nat /\ y.timeout >= tick)
    BY <2>3, <2>4, <2>6
  <2>8. \A y : y # x /\ y.value # kTaskTimerValue => Count(d, y) = Count(timers, y)
    BY <2>3, <2>4, <2>5
  <2> QED BY <1>0, <2>2, <2>7, <2>8
<1>3. CASE x.value # kTaskTimerValue
  <2>1. Taken(timers, timers', x) BY <1>3, ExpireOther
  <2>2. PICK d : d = timers' OBVIOUS
  <2>3. /\ \A y : y # x => Count(d, y) = Count(timers, y)
        /\ BagToSet(d) \subseteq BagToSet(timers)
    BY <1>1, <2>1, <2>2, CountTaken
  <2> QED BY <1>0, <2>2, <2>3
<1> QED BY <1>2, <1>3

LEMMA ExpireSince ==
  ASSUME TypeInv, NEW x \in BagToSet(timers), Expire(x), NEW b, HeapOK(b), NEW p, NEW t \in Task,
         msgs[t] # Gone, SinceTick(b, timers, p, msgs[t], t, tick)
  PROVE  msgs'[t] # Gone /\ SinceTick(b, timers', p, msgs'[t], t, tick)
<1>1. HeapOK(timers) /\ tick \in Nat /\ msgs \in [Task -> Seq(Stamp) \cup {Gone}]
  BY DEF TypeInv
<1>2. PICK d : d = timers' OBVIOUS
<1>3. /\ \A y : y # x /\ y.value # kTaskTimerValue => Count(d, y) = Count(timers, y)
      /\ \A y \in BagToSet(d) : y \in BagToSet(timers) \/ (y.timeout \in Nat /\ y.timeout >= tick)
      /\ x.timeout <= tick /\ x \in Top(timers)
  BY <1>2, ExpireCounts
<1>4. PICK q : q = msgs[t] OBVIOUS
<1>5. q \in Seq(Stamp) BY <1>1, <1>4
<1>6. ASSUME msgs'[t] = q, \A s \in Stamp : TimerOf(s, t) # x
      PROVE  msgs'[t] # Gone /\ SinceTick(b, timers', p, msgs'[t], t, tick)
  <2>1. \A s \in Stamp : Count(d, TimerOf(s, t)) = Count(timers, TimerOf(s, t))
    <3> TAKE s \in Stamp
    <3>1. TimerOf(s, t).value # kTaskTimerValue BY StampFields, TimerFields DEF TimerOf
    <3> QED BY <1>3, <1>6, <3>1
  <2>2. SinceTick(b, timers, p, q, t, tick) BY <1>4
  <2>3. SinceTick(b, d, p, q, t, tick) BY <1>1, <1>3, <2>1, <2>2, SinceKept
  <2> QED BY <1>2, <1>4, <1>6, <2>3
<1>7. CASE x.value = kTaskTimerValue
  <2>1. msgs' = msgs BY <1>7 DEF Expire
  <2>2. \A s \in Stamp : TimerOf(s, t) # x BY <1>7, StampFields, TimerFields DEF TimerOf
  <2> QED BY <1>4, <1>6, <2>1, <2>2
<1>8. CASE x.value # kTaskTimerValue
  <2>1. /\ Taken(timers, d, x) /\ HeapOK(d) /\ TimerOK(x)
        /\ x.task \in Task /\ [timeout |-> x.timeout, value |-> x.value] \in Stamp
        /\ msgs[x.task] = Gone => msgs' = msgs
        /\ msgs[x.task] # Gone => msgs' = [msgs EXCEPT ![x.task] =
              Append(msgs[x.task], [timeout |-> x.timeout, value |-> x.value])]
    BY <1>2, <1>8, ExpireOther
  <2>2. CASE x.task = t
    <3>1. PICK e : e = [timeout |-> x.timeout, value |-> x.value] OBVIOUS
    <3>2. e \in Stamp BY <2>1, <3>1
    <3>3. msgs'[t] = Append(q, e) BY <1>1, <1>4, <2>1, <2>2, <3>1
    <3>4. SinceTick(b, timers, p, q, t, tick) BY <1>4
    <3>0. e.timeout = x.timeout /\ e.value = x.value BY <3>1
    <3>5. SinceTick(b, d, p, Append(q, e), t, tick)
      BY <1>1, <1>3, <2>1, <2>2, <3>0, <3>2, <3>4, SinceExpired
    <3>6. Append(q, e) # Gone
      <4>1. Append(q, e) \in Seq(Stamp) BY <1>5, <3>2
      <4> QED BY <4>1, GoneIsNoQueue
    <3> QED BY <1>2, <3>3, <3>5, <3>6
  <2>3. CASE x.task # t
    <3>1. msgs'[t] = q BY <1>1, <1>4, <2>1, <2>3
    <3>2. \A s \in Stamp : TimerOf(s, t) # x BY <2>3, TimerFields DEF TimerOf
    <3> QED BY <1>6, <3>1, <3>2
  <2> QED BY <2>2, <2>3
<1> QED BY <1>7, <1>8

LEMMA TickStep ==
  ASSUME TypeInv, TickInv, [Next]_vars
  PROVE  TickInv'
<1>0. /\ HeapOK(timers) /\ tick \in Nat /\ msgs \in [Task -> Seq(Stamp) \cup {Gone}]
  BY DEF TypeInv
<1>1. CASE Tick
  <2>1. /\ handler' = [running |-> TRUE, timers |-> timers, msgs |-> msgs]
        /\ timers' = timers /\ msgs' = msgs
    BY <1>1 DEF Tick
  <2>2. handler'.timers = timers /\ handler'.msgs = msgs BY <2>1
  <2>3. PICK n : n = tick' OBVIOUS
  <2>4. ASSUME NEW t \in Task, msgs[t] # Gone
        PROVE  SinceTick(timers, timers, msgs[t], msgs[t], t, n)
    <3>1. msgs[t] \in Seq(Stamp) BY <1>0, <2>4
    <3> QED BY <1>0, <3>1, SinceNow
  <2>5. FurtherKept(timers, timers, n) BY DEF FurtherKept
  <2> QED BY <1>0, <2>1, <2>2, <2>3, <2>4, <2>5 DEF TickInv
<1>2. CASE \E x \in BagToSet(timers) : Expire(x)
  <2>1. PICK x \in BagToSet(timers) : Expire(x) BY <1>2
  <2>2. PICK d : d = timers' OBVIOUS
  <2>3. /\ \A y : y # x /\ y.value # kTaskTimerValue => Count(d, y) = Count(timers, y)
        /\ x.timeout <= tick /\ handler # Idle /\ UNCHANGED <<tick, handler>>
    BY <2>1, <2>2, ExpireCounts
  <2>4. PICK b : b = handler.timers OBVIOUS
  <2>5. /\ HeapOK(b) /\ handler.msgs \in [Task -> Seq(Stamp) \cup {Gone}]
        /\ \A t \in Task : msgs[t] = Gone <=> handler.msgs[t] = Gone
        /\ FurtherKept(b, timers, tick)
    BY <2>3, <2>4 DEF TickInv
  <2>6. ASSUME NEW t \in Task, msgs[t] # Gone
        PROVE  msgs'[t] # Gone /\ SinceTick(b, timers', handler.msgs[t], msgs'[t], t, tick)
    <3>1. SinceTick(b, timers, handler.msgs[t], msgs[t], t, tick) BY <2>3, <2>4, <2>6 DEF TickInv
    <3> QED BY <2>1, <2>5, <2>6, <3>1, ExpireSince
  <2>7. ASSUME NEW t \in Task, msgs[t] = Gone PROVE msgs'[t] = Gone
    <3>1. CASE x.value = kTaskTimerValue BY <2>1, <2>7, <3>1 DEF Expire
    <3>2. CASE x.value # kTaskTimerValue
      <4>1. /\ x.task \in Task
            /\ msgs[x.task] = Gone => msgs' = msgs
            /\ msgs[x.task] # Gone => msgs' = [msgs EXCEPT ![x.task] =
                 Append(msgs[x.task], [timeout |-> x.timeout, value |-> x.value])]
        BY <2>1, <3>2, ExpireOther
      <4> QED BY <1>0, <2>7, <4>1
    <3> QED BY <3>1, <3>2
  <2>8. FurtherKept(b, d, tick)
    <3> SUFFICES ASSUME NEW y, y.value # kTaskTimerValue, y.timeout > tick
                 PROVE  Count(b, y) = Count(d, y)
      BY DEF FurtherKept
    <3>1. x.timeout \in Nat BY <1>0 DEF HeapOK, TimerOK
    <3>2. y # x BY <1>0, <2>3, <3>1
    <3> QED BY <2>3, <2>5, <3>2 DEF FurtherKept
  <2> QED BY <2>2, <2>3, <2>4, <2>5, <2>6, <2>7, <2>8 DEF TickInv
<1>3. CASE Return BY <1>3 DEF Return, TickInv
<1>4. CASE UNCHANGED vars BY <1>4 DEF vars, TickInv
<1>5. CASE Next /\ ~Tick /\ ~Return /\ ~ \E x \in BagToSet(timers) : Expire(x)
  <2>1. handler' = Idle BY <1>5, TasksNeedIdle
  <2> QED BY <2>1 DEF TickInv
<1> QED BY <1>1, <1>2, <1>3, <1>4, <1>5
-----------------------------------------------------------------------------
(* A time that is computed is in time.                                     *)
LEMMA MulCancel ==
  ASSUME NEW f \in Nat \ {0}, NEW u \in Int, NEW v \in Int, f * u < f * v
  PROVE  u < v
<1>1. SUFFICES ASSUME u >= v PROVE FALSE OBVIOUS
<1>2. PICK k \in Nat : u = v + k
  <2>1. u - v \in Nat /\ u = v + (u - v) BY <1>1
  <2> QED BY <2>1
<1>3. f * u = f * v + f * k BY <1>2
<1>4. f * k \in Nat OBVIOUS
<1>5. f * u \in Int /\ f * v \in Int OBVIOUS
<1> QED BY <1>3, <1>4, <1>5

LEMMA MulSwap ==
  ASSUME NEW f \in Nat, NEW u \in Nat, NEW v \in Nat, NEW e, e = u * v, f * v = 1000
  PROVE  f * e = 1000 * u
<1>1. f * (u * v) = u * (f * v) OBVIOUS
<1> QED BY <1>1

LEMMA ChainInTime ==
  ASSUME NEW n \in Nat
  PROVE  Promise!InTime(n * TickLength, n)
<1>1. TickLength \in Nat \ {0} BY ValueTypes
<1>2. PICK m : m = n * TickLength OBVIOUS
<1>3. m \in Nat BY <1>1, <1>2
<1>4. m - 2 * TickLength < m BY <1>1, <1>3
<1> QED BY <1>2, <1>3, <1>4 DEF Promise!InTime

(* d is the tick of ms milliseconds, unless the product p overflows.       *)
LEMMA TickOf ==
  ASSUME NEW ms \in Nat, NEW p, p = ms * kTimerFreq, NEW a, a = p % Modulus,
         NEW d, d = a \div 1000
  PROVE  /\ d \in Nat /\ d * TickLength <= ms
         /\ ms < Modulus \div kTimerFreq => ms < d * TickLength + TickLength
<1>1. /\ kTimerFreq \in Nat \ {0} /\ TickLength \in Nat \ {0} /\ kTimerFreq * TickLength = 1000
      /\ Modulus \in Nat \ {0}
  BY ValueTypes, TimeAssumption
<1>2. p \in Nat BY <1>1
<1>3. a \in Nat /\ a <= p /\ (p < Modulus => a = p) BY <1>2, ModulusType
<1>4. d \in Nat /\ 1000 * d <= a /\ a < 1000 * d + 1000 BY <1>3
<1>5. PICK e : e = d * TickLength OBVIOUS
<1>6. e \in Nat /\ kTimerFreq * e = 1000 * d
  <2>1. e \in Nat BY <1>1, <1>4, <1>5
  <2>2. kTimerFreq * e = 1000 * d BY <1>1, <1>4, <1>5, MulSwap
  <2> QED BY <2>1, <2>2
<1>7. kTimerFreq * ms = p BY <1>1
<1>8. e <= ms
  <2> SUFFICES ASSUME ms < e PROVE FALSE BY <1>6
  <2>1. kTimerFreq * (ms + 1) = p + kTimerFreq BY <1>1, <1>7
  <2>2. PICK k \in Nat : e = ms + 1 + k
    <3>1. e - ms - 1 \in Nat /\ e = ms + 1 + (e - ms - 1) BY <1>6
    <3> QED BY <3>1
  <2>3. kTimerFreq * e = p + kTimerFreq + kTimerFreq * k BY <1>1, <1>7, <2>2
  <2>4. kTimerFreq * k \in Nat BY <1>1
  <2> QED BY <1>1, <1>2, <1>3, <1>4, <1>6, <2>3, <2>4
<1>9. ASSUME ms < Modulus \div kTimerFreq PROVE ms < e + TickLength
  <2>1. PICK h : h = Modulus \div kTimerFreq OBVIOUS
  <2>2. h \in Nat /\ kTimerFreq * h <= Modulus BY <1>1, <2>1
  <2>3. PICK k \in Nat : h = ms + 1 + k
    <3>1. h - ms - 1 \in Nat /\ h = ms + 1 + (h - ms - 1) BY <1>9, <2>1, <2>2
    <3> QED BY <3>1
  <2>4. kTimerFreq * h = p + kTimerFreq + kTimerFreq * k BY <1>1, <1>7, <2>3
  <2>5. kTimerFreq * k \in Nat BY <1>1
  <2>6. p < Modulus BY <1>1, <1>2, <2>2, <2>4, <2>5
  <2>7. p < 1000 * d + 1000 BY <1>3, <1>4, <2>6
  <2>8. kTimerFreq * (e + TickLength) = 1000 * d + 1000 BY <1>1, <1>6
  <2>9. kTimerFreq * ms < kTimerFreq * (e + TickLength) BY <1>7, <2>7, <2>8
  <2> QED BY <1>1, <1>6, <2>9, MulCancel
<1> QED BY <1>4, <1>5, <1>8, <1>9

(* A time that is added to the tick.                                       *)
LEMMA TickAfter ==
  ASSUME NEW k \in Nat, NEW ms \in Nat, NEW d \in Nat, d * TickLength <= ms,
         ms < Modulus \div kTimerFreq => ms < d * TickLength + TickLength,
         NEW phase \in {0, TickLength - 1},
         NEW n, n = (d + k) % Modulus
  PROVE  Promise!InTime(k * TickLength + phase + ms, n)
<1>1. /\ kTimerFreq \in Nat \ {0} /\ TickLength \in Nat \ {0} /\ Modulus \in Nat \ {0}
  BY ValueTypes, TimeAssumption
<1>2. PICK m : m = k * TickLength OBVIOUS
<1>3. PICK e : e = d * TickLength OBVIOUS
<1>4. PICK h : h = Modulus \div kTimerFreq OBVIOUS
<1>5. m \in Nat /\ e \in Nat /\ h \in Nat /\ h <= Modulus BY <1>1, <1>2, <1>3, <1>4
<1>6. k <= m /\ d <= e BY <1>1, <1>2, <1>3
<1>7. phase \in 0 .. TickLength - 1 BY <1>1
<1>8. n \in Nat /\ n <= d + k /\ (d + k < Modulus => n = d + k) BY ModulusType
<1>9. n * TickLength <= (d + k) * TickLength
  <2>1. PICK j \in Nat : d + k = n + j
    <3>1. d + k - n \in Nat /\ d + k = n + (d + k - n) BY <1>8
    <3> QED BY <3>1
  <2>2. (n + j) * TickLength = n * TickLength + j * TickLength BY <1>1, <1>8
  <2>3. j * TickLength \in Nat /\ n * TickLength \in Nat BY <1>1, <1>8
  <2> QED BY <2>1, <2>2, <2>3
<1>10. (d + k) * TickLength = e + m BY <1>1, <1>2, <1>3
<1>11. n * TickLength \in Nat BY <1>1, <1>8
<1>12. n * TickLength <= m + phase + ms BY <1>3, <1>5, <1>7, <1>9, <1>10, <1>11
<1>13. ASSUME m + phase + ms < h
       PROVE  m + phase + ms - 2 * TickLength < n * TickLength
  <2>0. e <= ms BY <1>3
  <2>3. d + k <= m + phase + ms BY <1>5, <1>6, <1>7, <2>0
  <2>4. d + k < Modulus BY <1>1, <1>5, <1>7, <1>13, <2>3
  <2>1. n = d + k BY <1>8, <2>4
  <2>2. ms < e + TickLength BY <1>3, <1>4, <1>5, <1>7, <1>13
  <2> QED BY <1>1, <1>5, <1>7, <1>10, <2>1, <2>2
<1>14. PICK w : w = k * TickLength + phase + ms OBVIOUS
<1>15. w = m + phase + ms BY <1>2, <1>14
<1>16. PICK g : g = n * TickLength OBVIOUS
<1>17. g <= w BY <1>12, <1>15, <1>16
<1>18. ASSUME w < h PROVE w - 2 * TickLength < g
  <2>1. m + phase + ms < h BY <1>15, <1>18
  <2>2. m + phase + ms - 2 * TickLength < n * TickLength BY <1>13, <2>1
  <2> QED BY <1>1, <1>5, <1>7, <1>8, <1>11, <1>15, <1>16, <2>2
<1>19. Promise!InTime(w, n) BY <1>4, <1>16, <1>17, <1>18 DEF Promise!InTime
<1> QED BY <1>14, <1>19

LEMMA CreateInTime ==
  ASSUME TypeInv, NEW t \in Terminal, NEW value \in Value, NEW ms \in Millisecond,
         NEW relative \in BOOLEAN, NEW phase \in {0, TickLength - 1},
         CreateTimer(t, value, ms, relative, phase)
  PROVE  \E n \in Nat, m \in Nat : Prepared(t, n, -value, m) /\ Promise!InTime(m, n)
<1>1. PICK n \in Nat, m \in Nat :
           /\ Prepared(t, n, -value, m)
           /\ n = IF relative THEN ((((ms * kTimerFreq) % Modulus) \div 1000) + tick) % Modulus
                  ELSE ((ms * kTimerFreq) % Modulus) \div 1000
           /\ m = IF relative THEN tick * TickLength + phase + ms ELSE ms
  BY CreateTypes
<1>2. ms \in Nat /\ tick \in Nat /\ TickLength \in Nat \ {0} BY TimeAssumption, ValueTypes DEF TypeInv
<1>3. PICK p : p = ms * kTimerFreq OBVIOUS
<1>4. PICK a : a = p % Modulus OBVIOUS
<1>5. PICK d : d = a \div 1000 OBVIOUS
<1>6. /\ d \in Nat /\ d * TickLength <= ms
      /\ ms < Modulus \div kTimerFreq => ms < d * TickLength + TickLength
  BY <1>2, <1>3, <1>4, <1>5, TickOf
<1>7. CASE relative
  <2>1. n = (d + tick) % Modulus /\ m = tick * TickLength + phase + ms
    BY <1>1, <1>3, <1>4, <1>5, <1>7
  <2>2. Promise!InTime(tick * TickLength + phase + ms, n) BY <1>2, <1>6, <2>1, TickAfter
  <2> QED BY <1>1, <2>1, <2>2
<1>8. CASE ~relative
  <2>1. n = d /\ m = ms BY <1>1, <1>3, <1>4, <1>5, <1>8
  <2>2. PICK e : e = d * TickLength OBVIOUS
  <2>3. e \in Nat BY <1>2, <1>6, <2>2
  <2>4. ms < Modulus \div kTimerFreq => ms - 2 * TickLength < e BY <1>2, <1>6, <2>2, <2>3
  <2>5. Promise!InTime(ms, d) BY <1>6, <2>2, <2>4 DEF Promise!InTime
  <2> QED BY <1>1, <2>1, <2>5
<1> QED BY <1>7, <1>8

LEMMA HandStep ==
  ASSUME TypeInv, HandInv, [Next]_vars
  PROVE  HandInv'
<1>0. /\ msgs \in [Task -> Seq(Stamp) \cup {Gone}] /\ tick \in Nat
      /\ hand \in [Task -> {None} \cup [timeout : Nat, value : Values, due : Nat]]
      /\ Terminal \subseteq Task /\ Clock \in Task /\ BlinkPeriod \in Nat /\ kTimerFreq \in Nat
      /\ \A t \in Task : msgs[t] = Gone <=> place[t] = "gone"
  BY TaskFacts, ValueTypes DEF TypeInv
<1>a. ASSUME hand' = hand, \A t \in Task : msgs'[t] = Gone => msgs[t] = Gone PROVE HandInv'
  BY <1>a DEF HandInv
<1>b. ASSUME NEW t \in Task, \A u \in Task \ {t} : hand'[u] = hand[u],
             \A u \in Task : msgs'[u] = Gone <=> msgs[u] = Gone, msgs[t] # Gone,
             Promise!InTime(hand'[t].due, hand'[t].timeout)
      PROVE  HandInv'
  <2> SUFFICES ASSUME NEW u \in Task, hand'[u] # None
               PROVE  msgs'[u] # Gone /\ Promise!InTime(hand'[u].due, hand'[u].timeout)
    BY DEF HandInv
  <2>1. CASE u = t BY <1>b, <2>1
  <2>2. CASE u # t BY <1>b, <2>2 DEF HandInv
  <2> QED BY <2>1, <2>2
<1>c. ASSUME NEW t \in Task, NEW n \in Nat, PrepareChain(t, n), msgs[t] # Gone,
             \A u \in Task : msgs'[u] = Gone <=> msgs[u] = Gone
      PROVE  HandInv'
  <2>1. PICK h : h = hand'[t] OBVIOUS
  <2>2. /\ h = [timeout |-> n, value |-> ChainValue, due |-> n * TickLength]
        /\ \A u \in Task \ {t} : hand'[u] = hand[u]
    BY <1>c, <2>1, ChainTypes
  <2>3. Promise!InTime(h.due, h.timeout)
    <3>1. h.due = n * TickLength /\ h.timeout = n BY <2>2
    <3> QED BY <1>c, <3>1, ChainInTime
  <2> QED BY <1>b, <1>c, <2>1, <2>2, <2>3
<1>1. CASE Tick BY <1>1, <1>a DEF Tick
<1>2. CASE Return BY <1>2, <1>a DEF Return
<1>3. CASE \E x \in BagToSet(timers) : Expire(x)
  <2>1. PICK x \in BagToSet(timers) : Expire(x) BY <1>3
  <2>2. hand' = hand BY <2>1 DEF Expire
  <2>3. CASE msgs' = msgs BY <1>a, <2>2, <2>3
  <2>4. CASE msgs' # msgs
    <3>1. x.value # kTaskTimerValue BY <2>1, <2>4 DEF Expire
    <3>2. PICK e : e = [timeout |-> x.timeout, value |-> x.value] OBVIOUS
    <3>3. /\ x.task \in Task /\ e \in Stamp /\ msgs[x.task] # Gone
          /\ msgs' = [msgs EXCEPT ![x.task] = Append(msgs[x.task], e)]
      BY <2>1, <2>4, <3>1, <3>2, ExpireOther
    <3>4. msgs[x.task] \in Seq(Stamp) BY <1>0, <3>3
    <3>5. Append(msgs[x.task], e) \in Seq(Stamp) BY <3>3, <3>4
    <3>6. Append(msgs[x.task], e) # Gone BY <3>5, GoneIsNoQueue
    <3>7. \A t \in Task : msgs'[t] = Gone => msgs[t] = Gone BY <1>0, <3>3, <3>6
    <3> QED BY <1>a, <2>2, <3>7
  <2> QED BY <2>3, <2>4
<1>4. CASE \E t \in Task : AddTimer(t)
  <2>1. PICK t \in Task : AddTimer(t) BY <1>4
  <2>2. hand' = [hand EXCEPT ![t] = None] /\ msgs' = msgs BY <2>1 DEF AddTimer
  <2> QED BY <1>0, <2>2 DEF HandInv
<1>5. CASE StartClock
  <2>1. PrepareChain(Clock, tick) /\ msgs' = msgs /\ msgs[Clock] # Gone
    BY <1>0, <1>5 DEF StartClock, Ready
  <2> QED BY <1>0, <1>c, <2>1
<1>6. CASE DrawCurrentTime
  <2>1. Receive(Clock) BY <1>6 DEF DrawCurrentTime
  <2>2. /\ Head(msgs[Clock]) \in Stamp /\ place[Clock] # "gone"
        /\ \A u \in Task : msgs'[u] = Gone <=> msgs[u] = Gone
    BY <1>0, <2>1, ReceiveTypes
  <2>3. PICK n : n = Head(msgs[Clock]).timeout + kTimerFreq OBVIOUS
  <2>4. n \in Nat /\ PrepareChain(Clock, n)
    <3>1. Head(msgs[Clock]).timeout \in Nat BY <2>2, StampFields
    <3> QED BY <1>0, <1>6, <2>3, <3>1 DEF DrawCurrentTime
  <2> QED BY <1>0, <1>c, <2>2, <2>4
<1>7. ASSUME NEW t \in Terminal, StartTerminal(t) PROVE HandInv'
  <2>1. PrepareChain(t, tick + BlinkPeriod) /\ msgs' = msgs /\ msgs[t] # Gone
    BY <1>0, <1>7 DEF StartTerminal, Ready
  <2>2. tick + BlinkPeriod \in Nat BY <1>0
  <2> QED BY <1>0, <1>c, <2>1, <2>2
<1>8. ASSUME NEW t \in Terminal, BlinkCursor(t) PROVE HandInv'
  <2>1. Receive(t) BY <1>8 DEF BlinkCursor
  <2>2. /\ Head(msgs[t]) \in Stamp /\ place[t] # "gone"
        /\ \A u \in Task : msgs'[u] = Gone <=> msgs[u] = Gone
    BY <1>0, <2>1, ReceiveTypes
  <2>3. PICK n : n = Head(msgs[t]).timeout + BlinkPeriod OBVIOUS
  <2>4. n \in Nat /\ PrepareChain(t, n)
    <3>1. Head(msgs[t]).timeout \in Nat BY <2>2, StampFields
    <3> QED BY <1>0, <1>8, <2>3, <3>1 DEF BlinkCursor
  <2> QED BY <1>0, <1>c, <2>2, <2>4
<1>9. ASSUME NEW t \in Terminal, CloseWindow(t) PROVE HandInv'
  <2>1. hand' = hand /\ msgs' = [msgs EXCEPT ![t] = Gone] /\ hand[t] = None
    BY <1>9 DEF CloseWindow, Ready
  <2> QED BY <1>0, <2>1 DEF HandInv
<1>10. ASSUME NEW t \in Terminal, ExecuteFile(t) \/ Exit(t) PROVE HandInv'
  BY <1>a, <1>10 DEF ExecuteFile, Exit
<1>11. ASSUME NEW t \in Terminal, NEW value \in Value, NEW ms \in Millisecond,
              NEW relative \in BOOLEAN, NEW phase \in {0, TickLength - 1},
              CreateTimer(t, value, ms, relative, phase)
       PROVE  HandInv'
  <2>1. PICK n \in Nat, m \in Nat : Prepared(t, n, -value, m) /\ Promise!InTime(m, n)
    BY <1>11, CreateInTime
  <2>2. -value \in Values BY DEF Values, AppValues
  <2>3. t # Clock /\ t \in Task BY TaskFacts
  <2>4. PICK h : h = hand'[t] OBVIOUS
  <2>5. /\ h = [timeout |-> n, value |-> -value, due |-> m]
        /\ \A u \in Task \ {t} : hand'[u] = hand[u]
    BY <2>1, <2>2, <2>3, <2>4, PreparedTypes
  <2>6. h.due = m /\ h.timeout = n BY <2>5
  <2>7. msgs' = msgs /\ msgs[t] # Gone BY <1>0, <1>11 DEF CreateTimer, Ready
  <2> QED BY <1>b, <2>1, <2>3, <2>4, <2>5, <2>6, <2>7
<1>12. ASSUME NEW t \in Terminal, NEW events, Read(t, events) PROVE HandInv'
  <2>1. Receive(t) /\ hand' = hand BY <1>12 DEF Read
  <2>2. \A u \in Task : msgs'[u] = Gone <=> msgs[u] = Gone BY <1>0, <2>1, ReceiveTypes
  <2> QED BY <1>a, <2>1, <2>2
<1>13. CASE UNCHANGED vars BY <1>13 DEF vars, HandInv
<1> QED BY <1>1, <1>2, <1>3, <1>4, <1>5, <1>6, <1>7, <1>8, <1>9, <1>10, <1>11, <1>12, <1>13 DEF Next

-----------------------------------------------------------------------------
(* Alarms are timers but for the sign of their value.                      *)
Own(b) == {x \in BagToSet(b) : x.value # kTaskTimerValue}

AlarmOf(x) == Alarm(x.timeout, x.value, x.task)

Alarms == [at : Nat, task : Terminal \cup {Clock}, value : Nat, app : BOOLEAN]

IsAlarms(A, b) ==
  /\ A = [a \in BagToSet(A) |-> A[a]]
  /\ \A a \in BagToSet(A) : \E x \in Own(b) : a = AlarmOf(x)
  /\ \A x \in Own(b) : AlarmOf(x) \in BagToSet(A) /\ A[AlarmOf(x)] = b[x]

LEMMA OwnTimer ==
  ASSUME NEW x, TimerOK(x), x.value # kTaskTimerValue
  PROVE  /\ x.value \in Values /\ x.value \in Int /\ x.timeout \in Nat /\ x.task \in Task
         /\ [timeout |-> x.timeout, value |-> x.value] \in Stamp
         /\ x = TimerOf([timeout |-> x.timeout, value |-> x.value], x.task)
<1>1. /\ x = Timer(x.timeout, x.value, x.task) /\ x.timeout \in Nat
      /\ \/ x.task = Clock /\ x.value = ChainValue
         \/ x.task \in Terminal /\ x.value \in Values
  BY DEF TimerOK
<1>2. x.value \in Values /\ x.task \in Task BY <1>1, TaskFacts DEF Values
<1>3. Values \subseteq Int BY ValueTypes
<1>4. x.value \in Int BY <1>2, <1>3
<1> QED BY <1>1, <1>2, <1>4 DEF Stamp, TimerOf

LEMMA AlarmFields ==
  ASSUME NEW n \in Nat, NEW v \in Int, NEW t \in Task
  PROVE  /\ Alarm(n, v, t).at = n /\ Alarm(n, v, t).task = t
         /\ Alarm(n, v, t).app = (v < 0) /\ Alarm(n, v, t) \in Alarms
         /\ v < 0 => Alarm(n, v, t).value = -v
         /\ ~(v < 0) => Alarm(n, v, t).value = v
BY DEF Alarm, Alarms, Task

LEMMA AlarmsDiffer ==
  ASSUME NEW n \in Nat, NEW v \in Int, NEW t \in Task, NEW m \in Nat, NEW w \in Int, NEW u \in Task,
         Alarm(n, v, t) = Alarm(m, w, u)
  PROVE  n = m /\ v = w /\ t = u
<1>1. PICK a : a = Alarm(n, v, t) OBVIOUS
<1>2. /\ a.at = n /\ a.task = t /\ a.app = (v < 0)
      /\ v < 0 => a.value = -v
      /\ ~(v < 0) => a.value = v
  BY <1>1, AlarmFields
<1>3. /\ a.at = m /\ a.task = u /\ a.app = (w < 0)
      /\ w < 0 => a.value = -w
      /\ ~(w < 0) => a.value = w
  BY <1>1, AlarmFields
<1>4. v < 0 <=> w < 0 BY <1>2, <1>3
<1>5. v = w
  <2>1. CASE v < 0
    <3>1. -v = -w BY <1>2, <1>3, <1>4, <2>1
    <3> QED BY <3>1
  <2>2. CASE ~(v < 0) BY <1>2, <1>3, <1>4, <2>2
  <2> QED BY <2>1, <2>2
<1> QED BY <1>2, <1>3, <1>5

LEMMA AlarmInjective ==
  ASSUME NEW x, NEW y, TimerOK(x), TimerOK(y), x.value # kTaskTimerValue, y.value # kTaskTimerValue,
         AlarmOf(x) = AlarmOf(y)
  PROVE  x = y
<1>1. /\ x.value \in Int /\ x.timeout \in Nat /\ x.task \in Task
      /\ y.value \in Int /\ y.timeout \in Nat /\ y.task \in Task
  BY OwnTimer
<1>2. Alarm(x.timeout, x.value, x.task) = Alarm(y.timeout, y.value, y.task) BY DEF AlarmOf
<1>3. x.timeout = y.timeout /\ x.value = y.value /\ x.task = y.task
  BY <1>1, <1>2, AlarmsDiffer
<1> QED BY <1>3 DEF TimerOK

LEMMA AlarmBagIs ==
  ASSUME NEW b, HeapOK(b)
  PROVE  IsAlarms(AlarmBag(b), b)
<1>1. AlarmBag(b) = [a \in {AlarmOf(x) : x \in Own(b)} |-> b[CHOOSE x \in Own(b) : AlarmOf(x) = a]]
  BY DEF AlarmBag, Own, AlarmOf
<1>2. PICK A : A = AlarmBag(b) OBVIOUS
<1>3. /\ BagToSet(A) = {AlarmOf(x) : x \in Own(b)}
      /\ A = [a \in BagToSet(A) |-> A[a]]
      /\ \A a \in BagToSet(A) : A[a] = b[CHOOSE x \in Own(b) : AlarmOf(x) = a]
  BY <1>1, <1>2 DEF BagToSet
<1>4. ASSUME NEW x \in Own(b) PROVE AlarmOf(x) \in BagToSet(A) /\ A[AlarmOf(x)] = b[x]
  <2>1. AlarmOf(x) \in BagToSet(A) BY <1>3
  <2>2. PICK y : y = CHOOSE z \in Own(b) : AlarmOf(z) = AlarmOf(x) OBVIOUS
  <2>3. y \in Own(b) /\ AlarmOf(y) = AlarmOf(x) BY <2>2
  <2>4. y = x BY <2>3, AlarmInjective DEF Own, HeapOK
  <2>5. A[AlarmOf(x)] = b[y] BY <1>3, <2>1, <2>2
  <2> QED BY <2>1, <2>4, <2>5
<1>5. \A a \in BagToSet(A) : \E x \in Own(b) : a = AlarmOf(x) BY <1>3
<1> QED BY <1>2, <1>3, <1>4, <1>5 DEF IsAlarms

LEMMA AlarmsAdded ==
  ASSUME NEW b, HeapOK(b), NEW x, TimerOK(x), x.value # kTaskTimerValue, NEW c, Added(b, c, x),
         NEW A, IsAlarms(A, b), NEW C, IsAlarms(C, c),
         NEW z, z = AlarmOf(x)
  PROVE  C = A (+) SetToBag({z}) /\ z \in BagToSet(C)
<1>1. Own(c) = Own(b) \cup {x} /\ x \in Own(c) BY DEF Own, Added
<1>2. \A y \in Own(b) : TimerOK(y) /\ y.value # kTaskTimerValue /\ b[y] \in Nat \ {0}
  BY DEF Own, HeapOK
<1>3. \A y \in Own(b) : AlarmOf(y) = z => y = x BY <1>2, AlarmInjective
<1>4. PICK E : E = A (+) SetToBag({z}) OBVIOUS
<1>5. A \in [BagToSet(A) -> Nat \ {0}]
  <2>1. ASSUME NEW a \in BagToSet(A) PROVE A[a] \in Nat \ {0}
    <3>1. PICK y \in Own(b) : a = AlarmOf(y) BY DEF IsAlarms
    <3>2. A[a] = b[y] BY <3>1 DEF IsAlarms
    <3> QED BY <1>2, <3>2
  <2> QED BY <2>1 DEF IsAlarms
<1>6. Added(A, E, z) BY <1>4, <1>5, PushIs
<1>7. ASSUME NEW a PROVE a \in BagToSet(C) <=> a \in BagToSet(E)
  <2>1. a \in BagToSet(C) <=> \E y \in Own(c) : a = AlarmOf(y) BY DEF IsAlarms
  <2>2. a \in BagToSet(A) <=> \E y \in Own(b) : a = AlarmOf(y) BY DEF IsAlarms
  <2>3. a \in BagToSet(E) <=> a \in BagToSet(A) \/ a = z BY <1>6 DEF Added
  <2> QED BY <1>1, <2>1, <2>2, <2>3
<1>8. ASSUME NEW a \in BagToSet(C) PROVE C[a] = E[a]
  <2>1. PICK y \in Own(c) : a = AlarmOf(y) BY DEF IsAlarms
  <2>2. C[a] = c[y] BY <2>1 DEF IsAlarms
  <2>3. CASE y # x
    <3>1. y \in Own(b) /\ a # z BY <1>1, <1>3, <2>1, <2>3
    <3>2. c[y] = b[y] BY <2>3, <3>1 DEF Added, Own
    <3>3. a \in BagToSet(A) /\ A[a] = b[y] BY <2>1, <3>1 DEF IsAlarms
    <3>4. E[a] = A[a] BY <1>6, <3>1, <3>3 DEF Added
    <3> QED BY <2>2, <3>2, <3>3, <3>4
  <2>4. CASE y = x /\ x \in Own(b)
    <3>1. c[x] = b[x] + 1 BY <2>4 DEF Added, Own
    <3>2. z \in BagToSet(A) /\ A[z] = b[x] BY <2>4 DEF IsAlarms
    <3>3. E[z] = A[z] + 1 BY <1>6, <3>2 DEF Added
    <3> QED BY <2>1, <2>2, <2>4, <3>1, <3>2, <3>3
  <2>5. CASE y = x /\ x \notin Own(b)
    <3>1. c[x] = 1 BY <2>5 DEF Added, Own
    <3>2. z \notin BagToSet(A)
      <4> SUFFICES ASSUME z \in BagToSet(A) PROVE FALSE OBVIOUS
      <4>1. PICK w \in Own(b) : z = AlarmOf(w) BY DEF IsAlarms
      <4> QED BY <1>3, <2>5, <4>1
    <3>3. E[z] = 1 BY <1>6, <3>2 DEF Added
    <3> QED BY <2>1, <2>2, <2>5, <3>1, <3>3
  <2> QED BY <2>3, <2>4, <2>5
<1>9. BagToSet(C) = BagToSet(E) BY <1>7
<1>10. C = [a \in BagToSet(C) |-> C[a]] /\ E = [a \in BagToSet(E) |-> E[a]]
  BY <1>6 DEF IsAlarms, Added
<1>11. C = E BY <1>8, <1>9, <1>10
<1>12. z \in BagToSet(C) BY <1>1 DEF IsAlarms
<1> QED BY <1>4, <1>11, <1>12

LeftOver(A, C, n) == C = [a \in {a \in BagToSet(A) : a.at > n} |-> A[a]]

LEMMA AlarmsAdvance ==
  ASSUME NEW b, HeapOK(b), NEW c, HeapOK(c), NEW n, FurtherKept(b, c, n),
         \A x \in BagToSet(c) : x.timeout > n,
         NEW A, IsAlarms(A, b), NEW C, IsAlarms(C, c)
  PROVE  LeftOver(A, C, n)
<1>1. ASSUME NEW x, x \in Own(b) \/ x \in Own(c) PROVE AlarmOf(x).at = x.timeout
  <2>1. TimerOK(x) /\ x.value # kTaskTimerValue BY <1>1 DEF Own, HeapOK
  <2>2. x.value \in Int /\ x.timeout \in Nat /\ x.task \in Task BY <2>1, OwnTimer
  <2> QED BY <2>2, AlarmFields DEF AlarmOf
<1>2. ASSUME NEW x \in Own(c) PROVE x \in Own(b) /\ b[x] = c[x] /\ x.timeout > n
  <2>1. x \in BagToSet(c) /\ x.value # kTaskTimerValue /\ x.timeout > n BY DEF Own
  <2>2. Count(b, x) = Count(c, x) BY <2>1 DEF FurtherKept
  <2>3. c[x] \in Nat \ {0} BY <2>1 DEF HeapOK
  <2>4. x \in BagToSet(b) /\ b[x] = c[x] BY <2>1, <2>2, <2>3 DEF Count
  <2> QED BY <2>1, <2>4 DEF Own
<1>3. ASSUME NEW x \in Own(b), x.timeout > n PROVE x \in Own(c)
  <2>1. x \in BagToSet(b) /\ x.value # kTaskTimerValue BY DEF Own
  <2>2. Count(b, x) = Count(c, x) BY <1>3, <2>1 DEF FurtherKept
  <2>3. b[x] \in Nat \ {0} BY <2>1 DEF HeapOK
  <2>4. x \in BagToSet(c) BY <2>1, <2>2, <2>3 DEF Count
  <2> QED BY <2>1, <2>4 DEF Own
<1> DEFINE S == {a \in BagToSet(A) : a.at > n}
<1>4. ASSUME NEW a PROVE a \in BagToSet(C) <=> a \in S
  <2>1. a \in BagToSet(C) <=> \E y \in Own(c) : a = AlarmOf(y) BY DEF IsAlarms
  <2>2. a \in BagToSet(A) <=> \E y \in Own(b) : a = AlarmOf(y) BY DEF IsAlarms
  <2>3. ASSUME a \in BagToSet(C) PROVE a \in S
    <3>1. PICK y \in Own(c) : a = AlarmOf(y) BY <2>1, <2>3
    <3> QED BY <1>1, <1>2, <2>2, <3>1
  <2>4. ASSUME a \in S PROVE a \in BagToSet(C)
    <3>1. PICK y \in Own(b) : a = AlarmOf(y) BY <2>2, <2>4
    <3>2. y \in Own(c) BY <1>1, <1>3, <2>4, <3>1
    <3> QED BY <2>1, <3>1, <3>2
  <2> QED BY <2>3, <2>4
<1>5. ASSUME NEW a \in BagToSet(C) PROVE C[a] = A[a]
  <2>1. PICK y \in Own(c) : a = AlarmOf(y) BY DEF IsAlarms
  <2>2. C[a] = c[y] BY <2>1 DEF IsAlarms
  <2>3. y \in Own(b) /\ b[y] = c[y] BY <1>2
  <2>4. A[a] = b[y] BY <2>1, <2>3 DEF IsAlarms
  <2> QED BY <2>2, <2>3, <2>4
<1>6. BagToSet(C) = S BY <1>4
<1>7. C = [a \in BagToSet(C) |-> C[a]] BY DEF IsAlarms
<1> HIDE DEF S
<1>8. C = [a \in S |-> A[a]] BY <1>5, <1>6, <1>7
<1> QED BY <1>8 DEF S, LeftOver

(* Queues.                                                                 *)
LEMMA QueueOf ==
  ASSUME NEW t \in Task, NEW q \in Seq(Stamp), NEW Q, Q = AlarmQueue(t, q)
  PROVE  /\ Q \in Seq(Alarms) /\ Len(Q) = Len(q) /\ Q # Gone
         /\ \A i \in 1 .. Len(q) : Q[i] = AlarmOf(TimerOf(q[i], t)) /\ Q[i].task = t
                                   /\ Q[i].at = q[i].timeout
<1>1. q # Gone BY GoneIsNoQueue
<1>2. Q = [i \in 1 .. Len(q) |-> Alarm(q[i].timeout, q[i].value, t)] BY <1>1 DEF AlarmQueue
<1>3. ASSUME NEW i \in 1 .. Len(q)
      PROVE  /\ Q[i] = Alarm(q[i].timeout, q[i].value, t) /\ Q[i] \in Alarms
             /\ Q[i].task = t /\ Q[i].at = q[i].timeout
             /\ Q[i] = AlarmOf(TimerOf(q[i], t))
  <2>1. q[i] \in Stamp OBVIOUS
  <2>2. q[i].timeout \in Nat /\ q[i].value \in Int
    <3>1. Values \subseteq Int BY ValueTypes
    <3> QED BY <2>1, <3>1, StampFields
  <2>3. Q[i] = Alarm(q[i].timeout, q[i].value, t) BY <1>2
  <2>4. Q[i] = AlarmOf(TimerOf(q[i], t)) BY <2>3, TimerFields DEF AlarmOf, TimerOf
  <2>5. PICK n, v : n = q[i].timeout /\ v = q[i].value OBVIOUS
  <2>6. /\ Alarm(n, v, t) \in Alarms /\ Alarm(n, v, t).task = t /\ Alarm(n, v, t).at = n
    BY <2>2, <2>5, AlarmFields
  <2> QED BY <2>3, <2>4, <2>5, <2>6
<1>4. Q \in Seq(Alarms) /\ Len(Q) = Len(q) BY <1>2, <1>3
<1>5. Q # Gone BY <1>4, GoneAssumption DEF Alarms
<1> QED BY <1>3, <1>4, <1>5

LEMMA QueueTail ==
  ASSUME NEW t \in Task, NEW q \in Seq(Stamp), q # <<>>, NEW Q, Q = AlarmQueue(t, q)
  PROVE  /\ AlarmQueue(t, Tail(q)) = Tail(Q) /\ Q # <<>>
         /\ Head(Q) = Alarm(Head(q).timeout, Head(q).value, t)
<1>1. /\ Q \in Seq(Alarms) /\ Len(Q) = Len(q)
      /\ \A i \in 1 .. Len(q) : Q[i] = AlarmOf(TimerOf(q[i], t))
  BY QueueOf
<1>2. PICK r : r = Tail(q) OBVIOUS
<1>3. r \in Seq(Stamp) /\ Len(r) = Len(q) - 1 /\ Len(q) \in Nat \ {0}
      /\ \A i \in 1 .. Len(r) : r[i] = q[i + 1]
  BY <1>2
<1>4. PICK R : R = AlarmQueue(t, r) OBVIOUS
<1>5. /\ R \in Seq(Alarms) /\ Len(R) = Len(r)
      /\ \A i \in 1 .. Len(r) : R[i] = AlarmOf(TimerOf(r[i], t))
  BY <1>3, <1>4, QueueOf
<1>6. PICK T : T = Tail(Q) OBVIOUS
<1>7. Q # <<>> /\ T \in Seq(Alarms) /\ Len(T) = Len(Q) - 1 /\ \A i \in 1 .. Len(T) : T[i] = Q[i + 1]
  BY <1>1, <1>3, <1>6
<1>8. \A i \in 1 .. Len(R) : R[i] = T[i]
  <2> TAKE i \in 1 .. Len(R)
  <2>1. i \in 1 .. Len(r) /\ i \in 1 .. Len(T) /\ i + 1 \in 1 .. Len(q) BY <1>1, <1>3, <1>5, <1>7
  <2> QED BY <1>1, <1>3, <1>5, <1>7, <2>1
<1>9. R = T BY <1>1, <1>3, <1>5, <1>7, <1>8, SeqEqual
<1>10. Head(Q) = Alarm(Head(q).timeout, Head(q).value, t)
  <2>1. Head(Q) = Q[1] /\ Head(q) = q[1] /\ 1 \in 1 .. Len(q) BY <1>1, <1>3, <1>7
  <2> QED BY <1>1, <2>1, TimerFields DEF AlarmOf, TimerOf
<1> QED BY <1>2, <1>4, <1>6, <1>7, <1>9, <1>10

(* What Tick adds to the queue of t is what Alarms lets ring at tick n.    *)
RungFrom(A, P, Q, t, n) ==
  LET added == SubSeq(Q, Len(P) + 1, Len(Q))
  IN  /\ Len(Q) >= Len(P) /\ SubSeq(Q, 1, Len(P)) = P
      /\ \A i, j \in DOMAIN added : i < j => added[i].at <= added[j].at
      /\ \A i \in DOMAIN added : added[i] \in BagToSet(A)
      /\ \A a \in BagToSet(A) :
           Cardinality({i \in DOMAIN added : added[i] = a})
             = IF a.task = t /\ a.at <= n THEN A[a] ELSE 0

LEMMA LateShift ==
  ASSUME NEW p \in Seq(Stamp), NEW q \in Seq(Stamp), Len(p) <= Len(q), NEW s,
         NEW S, S = {i \in 1 .. Len(q) - Len(p) : q[Len(p) + i] = s}
  PROVE  Cardinality(S) = Cardinality(Late(p, q, s))
<1>1. Len(p) \in Nat /\ Len(q) \in Nat /\ Len(q) - Len(p) \in Nat OBVIOUS
<1>2. PICK k : k = Len(p) OBVIOUS
<1> DEFINE T == Late(p, q, s)
           f == [i \in S |-> k + i]
<1>3. \A i \in S : i \in Nat /\ k + i \in T BY <1>1, <1>2 DEF Late
<1>4. \A j \in T : j \in Int /\ j - k \in S BY <1>1, <1>2 DEF Late
<1> HIDE DEF T
<1>5. ExistsBijection(S, T)
  <2>1. f \in [S -> T] BY <1>3
  <2>2. \A i, j \in S : f[i] = f[j] => i = j BY <1>1, <1>2, <1>3
  <2>3. \A j \in T : \E i \in S : f[i] = j
    <3> TAKE j \in T
    <3>1. j - k \in S /\ f[j - k] = j BY <1>1, <1>2, <1>4
    <3> QED BY <3>1
  <2>4. f \in Bijection(S, T)
    BY <2>1, <2>2, <2>3 DEF Bijection, Injection, Surjection, IsInjective
  <2> QED BY <2>4 DEF ExistsBijection
<1>6. IsFiniteSet(S)
  <2>1. IsFiniteSet(1 .. Len(q) - Len(p)) BY <1>1, FS_Interval
  <2>2. S \in SUBSET (1 .. Len(q) - Len(p)) OBVIOUS
  <2> QED BY <2>1, <2>2, FS_Subset
<1>7. Cardinality(T) = Cardinality(S) BY <1>5, <1>6, FS_Bijection
<1> QED BY <1>7 DEF T

LEMMA TickRings ==
  ASSUME NEW t \in Task, NEW b, HeapOK(b), NEW c, HeapOK(c), NEW p, NEW q, NEW n \in Nat,
         SinceTick(b, c, p, q, t, n), FurtherKept(b, c, n),
         \A x \in BagToSet(c) : x.timeout > n,
         NEW A, IsAlarms(A, b),
         NEW P, P = AlarmQueue(t, p), NEW Q, Q = AlarmQueue(t, q)
  PROVE  RungFrom(A, P, Q, t, n)
<1>1. p \in Seq(Stamp) /\ q \in Seq(Stamp) /\ Len(p) <= Len(q)
      /\ Len(p) \in Nat /\ Len(q) \in Nat
  BY DEF SinceTick
<1>2. /\ P \in Seq(Alarms) /\ Len(P) = Len(p)
      /\ \A i \in 1 .. Len(p) : P[i] = AlarmOf(TimerOf(p[i], t))
  BY <1>1, QueueOf
<1>3. /\ Q \in Seq(Alarms) /\ Len(Q) = Len(q)
      /\ \A i \in 1 .. Len(q) : Q[i] = AlarmOf(TimerOf(q[i], t)) /\ Q[i].task = t
                                /\ Q[i].at = q[i].timeout
  BY <1>1, QueueOf
<1>4. Len(Q) >= Len(P) /\ SubSeq(Q, 1, Len(P)) = P
  <2>1. PICK R : R = SubSeq(Q, 1, Len(P)) OBVIOUS
  <2>2. R \in Seq(Alarms) /\ Len(R) = Len(P) /\ \A i \in 1 .. Len(P) : R[i] = Q[i]
    BY <1>1, <1>2, <1>3, <2>1
  <2>3. \A i \in 1 .. Len(P) : R[i] = P[i]
    <3> TAKE i \in 1 .. Len(P)
    <3>1. i \in 1 .. Len(p) /\ i \in 1 .. Len(q) BY <1>1, <1>2
    <3>2. q[i] = p[i] BY <3>1 DEF SinceTick
    <3> QED BY <1>2, <1>3, <2>2, <3>1, <3>2
  <2>4. R = P BY <1>2, <2>2, <2>3, SeqEqual
  <2> QED BY <1>1, <1>2, <1>3, <2>1, <2>4
<1>5. PICK k : k = Len(q) - Len(p) OBVIOUS
<1>6. PICK added : added = SubSeq(Q, Len(P) + 1, Len(Q)) OBVIOUS
<1>7. /\ k \in Nat /\ DOMAIN added = 1 .. k
      /\ \A i \in 1 .. k : added[i] = Q[Len(p) + i]
  BY <1>1, <1>2, <1>3, <1>5, <1>6
<1>8. ASSUME NEW i \in 1 .. k
      PROVE  /\ Len(p) + i \in Len(p) + 1 .. Len(q) /\ Len(p) + i \in 1 .. Len(q)
             /\ q[Len(p) + i] \in Stamp
             /\ added[i] = AlarmOf(TimerOf(q[Len(p) + i], t))
             /\ added[i].at = q[Len(p) + i].timeout /\ added[i].task = t
  <2>1. Len(p) + i \in Len(p) + 1 .. Len(q) /\ Len(p) + i \in 1 .. Len(q) BY <1>1, <1>5, <1>7
  <2>2. q[Len(p) + i] \in Stamp
    <3>1. PICK j : j = Len(p) + i OBVIOUS
    <3> QED BY <1>1, <2>1, <3>1
  <2>3. added[i] = Q[Len(p) + i] BY <1>7
  <2> QED BY <1>3, <2>1, <2>2, <2>3
<1>9. ASSUME NEW i \in DOMAIN added, NEW j \in DOMAIN added, i < j
      PROVE  added[i].at <= added[j].at
  <2>1. i \in 1 .. k /\ j \in 1 .. k BY <1>7
  <2>2. Len(p) + i < Len(p) + j BY <1>1, <1>9, <2>1
  <2> QED BY <1>8, <2>1, <2>2 DEF SinceTick
<1>10. ASSUME NEW s \in Stamp, NEW x, x = TimerOf(s, t)
       PROVE  /\ Count(c, x) + Cardinality(Late(p, q, s)) = Count(b, x)
              /\ Cardinality(Late(p, q, s)) \in Nat /\ Count(c, x) \in Nat /\ Count(b, x) \in Nat
  BY <1>1, <1>10, CountType, LateFinite DEF SinceTick
<1>11. ASSUME NEW i \in DOMAIN added PROVE added[i] \in BagToSet(A)
  <2>1. i \in 1 .. k BY <1>7
  <2>2. PICK s : s = q[Len(p) + i] OBVIOUS
  <2>3. s \in Stamp /\ added[i] = AlarmOf(TimerOf(s, t)) BY <1>8, <2>1, <2>2
  <2>4. PICK x : x = TimerOf(s, t) OBVIOUS
  <2>5. Len(p) + i \in Late(p, q, s) BY <1>8, <2>1, <2>2 DEF Late
  <2>6. Cardinality(Late(p, q, s)) # 0
    <3>1. IsFiniteSet(Late(p, q, s)) BY <1>1, LateFinite
    <3> QED BY <2>5, <3>1, FS_EmptySet
  <2>7. Count(b, x) # 0 BY <1>10, <2>3, <2>4, <2>6
  <2>8. x \in BagToSet(b) BY <2>7, CountType
  <2>9. x.value # kTaskTimerValue BY <2>3, <2>4, StampFields, TimerFields DEF TimerOf
  <2>10. x \in Own(b) BY <2>8, <2>9 DEF Own
  <2> QED BY <2>3, <2>4, <2>10 DEF IsAlarms
<1>12. ASSUME NEW a \in BagToSet(A)
       PROVE  Cardinality({i \in DOMAIN added : added[i] = a})
                = IF a.task = t /\ a.at <= n THEN A[a] ELSE 0
  <2> DEFINE S == {i \in DOMAIN added : added[i] = a}
  <2>1. PICK x \in Own(b) : a = AlarmOf(x) BY DEF IsAlarms
  <2>2. /\ TimerOK(x) /\ x.value # kTaskTimerValue /\ A[a] = b[x] /\ x \in BagToSet(b)
        /\ b[x] \in Nat
    BY <2>1 DEF Own, HeapOK, IsAlarms
  <2>3. PICK s : s = [timeout |-> x.timeout, value |-> x.value] OBVIOUS
  <2>4. /\ s \in Stamp /\ x = TimerOf(s, x.task) /\ x.timeout \in Nat /\ x.task \in Task
        /\ x.value \in Int
    BY <2>2, <2>3, OwnTimer
  <2>5. a.task = x.task /\ a.at = x.timeout
    BY <2>1, <2>4, AlarmFields DEF AlarmOf
  <2>6. CASE x.task # t
    <3>1. S = {} BY <1>7, <1>8, <2>5, <2>6
    <3>2. Cardinality(S) = 0 BY <3>1, FS_EmptySet
    <3> QED BY <2>5, <2>6, <3>2
  <2>7. CASE x.task = t
    <3>1. ASSUME NEW i \in 1 .. k PROVE added[i] = a <=> q[Len(p) + i] = s
      <4>1. PICK r : r = q[Len(p) + i] OBVIOUS
      <4>2. r \in Stamp /\ added[i] = AlarmOf(TimerOf(r, t)) BY <1>8, <4>1
      <4>3. ASSUME added[i] = a PROVE r = s
        <5>1. PICK n1, v1 : n1 = r.timeout /\ v1 = r.value OBVIOUS
        <5>2. n1 \in Nat /\ v1 \in Int
          <6>1. Values \subseteq Int BY ValueTypes
          <6> QED BY <4>2, <5>1, <6>1, StampFields
        <5>3. Alarm(n1, v1, t) = Alarm(x.timeout, x.value, t)
          <6>1. added[i] = Alarm(n1, v1, t) BY <4>2, <5>1, TimerFields DEF AlarmOf, TimerOf
          <6> QED BY <2>1, <2>7, <4>3, <6>1 DEF AlarmOf
        <5>4. n1 = x.timeout /\ v1 = x.value BY <2>4, <5>2, <5>3, AlarmsDiffer
        <5>5. r.timeout = s.timeout /\ r.value = s.value BY <2>3, <5>1, <5>4
        <5> QED BY <2>4, <4>2, <5>5, StampFields
      <4>4. ASSUME r = s PROVE added[i] = a BY <2>1, <2>4, <2>7, <4>2, <4>4
      <4> QED BY <4>1, <4>3, <4>4
    <3>2. S = {i \in 1 .. Len(q) - Len(p) : q[Len(p) + i] = s} BY <1>5, <1>7, <3>1
    <3>3. Cardinality(S) = Cardinality(Late(p, q, s)) BY <1>1, <3>2, LateShift
    <3>4. /\ Count(c, x) + Cardinality(Late(p, q, s)) = Count(b, x)
          /\ Cardinality(Late(p, q, s)) \in Nat /\ Count(c, x) \in Nat
      BY <1>10, <2>4, <2>7
    <3>5. Count(b, x) = A[a] BY <2>2 DEF Count
    <3>6. CASE x.timeout <= n
      <4>1. x \notin BagToSet(c) BY <2>4, <3>6
      <4>2. Count(c, x) = 0 BY <4>1 DEF Count
      <4> QED BY <2>2, <2>5, <2>7, <3>3, <3>4, <3>5, <3>6, <4>2
    <3>7. CASE ~(x.timeout <= n)
      <4>1. x.timeout > n BY <2>4, <3>7
      <4>2. Count(b, x) = Count(c, x) BY <2>2, <4>1 DEF FurtherKept
      <4> QED BY <2>5, <3>3, <3>4, <3>7, <4>2
    <3> QED BY <3>6, <3>7
  <2> QED BY <2>6, <2>7
<1> QED BY <1>4, <1>6, <1>9, <1>11, <1>12 DEF RungFrom
-----------------------------------------------------------------------------
(* The refinement, step by step.                                           *)
LEMMA RequestType ==
  ASSUME NEW n \in Nat, NEW v \in Values, NEW m \in Nat, NEW h,
         h = [timeout |-> n, value |-> v, due |-> m]
  PROVE  /\ RequestOf(h) \in [due : Nat, value : Nat, app : BOOLEAN] /\ RequestOf(h) # None
         /\ RequestOf(h).due = m
         /\ RequestOf(h).app = (v < 0)
         /\ RequestOf(h).value = IF v < 0 THEN -v ELSE v
<1>1. v \in Int
  <2>1. Values \subseteq Int BY ValueTypes
  <2> QED BY <2>1
<1>2. h # None BY NoneIsNoTimer
<1>3. h.due = m /\ h.value = v BY DEF RequestOf
<1>4. RequestOf(h) = [due |-> m, app |-> v < 0, value |-> IF v < 0 THEN -v ELSE v]
  BY <1>2, <1>3 DEF RequestOf
<1>5. (IF v < 0 THEN -v ELSE v) \in Nat BY <1>1
<1>6. PICK w : w = IF v < 0 THEN -v ELSE v OBVIOUS
<1>7. PICK r : r = RequestOf(h) OBVIOUS
<1>8. r = [due |-> m, app |-> v < 0, value |-> w] /\ w \in Nat BY <1>4, <1>5, <1>6, <1>7
<1>9. (v < 0) \in BOOLEAN OBVIOUS
<1>10. r \in [due : Nat, value : Nat, app : BOOLEAN] BY <1>8, <1>9
<1>11. r # None BY <1>10, NoneAssumption
<1> QED BY <1>6, <1>7, <1>8, <1>10, <1>11

(* Steps of tasks leave what they do not name.                             *)
LEMMA IdleIs ==
  ASSUME handler = Idle
  PROVE  /\ Now = tick /\ Unrung = AlarmBag(timers)
         /\ Queues = [t \in Task |-> AlarmQueue(t, msgs[t])]
BY DEF Now, Unrung, Queues

LEMMA IdleNextIs ==
  ASSUME handler' = Idle
  PROVE  /\ Now' = tick' /\ Unrung' = AlarmBag(timers)'
         /\ Queues' = [t \in Task |-> AlarmQueue(t, msgs'[t])]
BY DEF Now, Unrung, Queues, AlarmQueue, Alarm

LEMMA NewRequestIs ==
  ASSUME TypeInv, NEW t \in Task, hand[t] = None, NEW n \in Nat, NEW v \in Values, NEW m \in Nat,
         hand'[t] = [timeout |-> n, value |-> v, due |-> m],
         \A u \in Task \ {t} : hand'[u] = hand[u]
  PROVE  Promise!NewRequest(t)
<1>1. PICK h : h = hand'[t] OBVIOUS
<1>2. RequestOf(h) \in [due : Nat, value : Nat, app : BOOLEAN] BY <1>1, RequestType
<1>3. Requests[t] = None BY DEF Requests, RequestOf
<1>4. PICK A : A = Requests' OBVIOUS
<1>5. A = [u \in Task |-> RequestOf(hand'[u])] BY <1>4 DEF Requests, RequestOf
<1>6. A[t] = RequestOf(h) BY <1>1, <1>5
<1>7. \A u \in Task \ {t} : A[u] = Requests[u] BY <1>5 DEF Requests
<1>8. A = [Requests EXCEPT ![t] = A[t]]
  <2>1. Requests = [u \in Task |-> Requests[u]] BY DEF Requests
  <2> QED BY <1>5, <1>7, <2>1
<1>9. /\ Requests[t] = None /\ Requests'[t] \in [due : Nat, value : Nat, app : BOOLEAN]
      /\ Requests' = [Requests EXCEPT ![t] = Requests'[t]]
  BY <1>2, <1>3, <1>4, <1>6, <1>8
<1> QED BY <1>9 DEF Promise!NewRequest, Promise!Request

LEMMA AskStep ==
  ASSUME TypeInv, NEW t \in Task, handler = Idle, handler' = Idle, msgs[t] # Gone,
         Promise!NewRequest(t), UNCHANGED <<tick, timers, msgs, got>>
  PROVE  Promise!Ask(t)
<1>1. msgs[t] \in Seq(Stamp) BY DEF TypeInv
<1>2. Queues[t] # Gone BY <1>1, IdleIs, QueueOf
<1>3. UNCHANGED <<Now, Unrung, Queues, got>> BY DEF Now, Unrung, Queues
<1> QED BY <1>2, <1>3 DEF Promise!Ask

LEMMA TakeStep ==
  ASSUME TypeInv, NEW t \in Task, Receive(t), handler' = Idle,
         UNCHANGED <<tick, timers>>,
         hand' = hand \/ Promise!NewRequest(t),
         got' = got \/ (Head(msgs[t]).value < 0 /\ got' = -Head(msgs[t]).value)
  PROVE  Promise!Take(t)
<1>1. /\ msgs[t] \in Seq(Stamp) /\ msgs[t] # <<>> /\ Tail(msgs[t]) \in Seq(Stamp)
      /\ Head(msgs[t]) \in Stamp /\ handler = Idle
      /\ msgs' = [msgs EXCEPT ![t] = Tail(msgs[t])]
      /\ msgs \in [Task -> Seq(Stamp) \cup {Gone}]
  BY ReceiveTypes DEF TypeInv
<1>2. PICK q : q = msgs[t] OBVIOUS
<1>3. PICK Q : Q = AlarmQueue(t, q) OBVIOUS
<1>4. /\ AlarmQueue(t, Tail(q)) = Tail(Q) /\ Q # <<>> /\ Q # Gone
      /\ Head(Q) = Alarm(Head(q).timeout, Head(q).value, t)
  BY <1>1, <1>2, <1>3, QueueTail, QueueOf
<1>5. Queues[t] = Q BY <1>1, <1>2, <1>3, IdleIs
<1>6. Queues' = [Queues EXCEPT ![t] = Tail(Queues[t])]
  <2>1. PICK m : m = msgs' OBVIOUS
  <2>2. Queues' = [u \in Task |-> AlarmQueue(u, m[u])] BY <2>1, IdleNextIs
  <2>3. \A u \in Task : m[u] = IF u = t THEN Tail(q) ELSE msgs[u] BY <1>1, <1>2, <2>1
  <2>4. \A u \in Task : u # t => AlarmQueue(u, m[u]) = AlarmQueue(u, msgs[u]) BY <2>3
  <2>5. AlarmQueue(t, m[t]) = Tail(Q) BY <1>4, <2>3
  <2>6. Queues = [u \in Task |-> AlarmQueue(u, msgs[u])] BY <1>1, IdleIs
  <2> QED BY <1>5, <2>2, <2>4, <2>5, <2>6
<1>7. got' \in {got} \cup (IF Head(Queues[t]).app THEN {Head(Queues[t]).value} ELSE {})
  <2>1. PICK n, v : n = Head(q).timeout /\ v = Head(q).value OBVIOUS
  <2>2. n \in Nat /\ v \in Int
    <3>1. Values \subseteq Int BY ValueTypes
    <3> QED BY <1>1, <1>2, <2>1, <3>1, StampFields
  <2>3. PICK a : a = Head(Q) OBVIOUS
  <2>4. a.app = (v < 0) /\ (v < 0 => a.value = -v) BY <1>4, <2>1, <2>2, <2>3, AlarmFields
  <2>5. got' = got \/ (v < 0 /\ got' = -v) BY <1>2, <2>1
  <2> QED BY <1>5, <2>3, <2>4, <2>5
<1>8. UNCHANGED <<Now, Unrung>> BY <1>1 DEF Now, Unrung
<1>9. hand' = hand => UNCHANGED Requests BY DEF Requests, RequestOf
<1>10. Queues[t] \notin {Gone, <<>>} BY <1>4, <1>5
<1>11. UNCHANGED Requests \/ Promise!NewRequest(t) BY <1>9
<1> QED BY <1>6, <1>7, <1>8, <1>10, <1>11
     DEF Promise!Take

LEMMA SetStep ==
  ASSUME TypeInv, HandInv, NEW t \in Task, AddTimer(t)
  PROVE  \E a \in BagToSet(Unrung') : Promise!Set(t, a.at)
<1> DEFINE x == Timer(hand[t].timeout, hand[t].value, t)
<1>1. TimerOK(x) /\ Added(timers, timers', x) /\ HeapOK(timers') /\ HeapOK(timers)
  BY AddTimerHeap DEF TypeInv
<1>2. /\ hand[t] # None /\ hand' = [hand EXCEPT ![t] = None] /\ handler = Idle /\ handler' = Idle
      /\ UNCHANGED <<tick, msgs, got>>
      /\ hand \in [Task -> {None} \cup [timeout : Nat, value : Values, due : Nat]]
  BY DEF AddTimer, TypeInv
<1>3. PICK h : h = hand[t] OBVIOUS
<1>4. PICK n \in Nat, v \in Values, m \in Nat : h = [timeout |-> n, value |-> v, due |-> m]
  <2>1. h \in [timeout : Nat, value : Values, due : Nat] BY <1>2, <1>3
  <2> QED BY <2>1
<1>5. v \in Int /\ v # kTaskTimerValue
  <2>1. Values \subseteq Int \ {0} /\ kTaskTimerValue = 0 BY ValueTypes
  <2> QED BY <2>1
<1>6. h.timeout = n /\ h.value = v /\ h.due = m BY <1>4
<1>7. x = Timer(n, v, t) BY <1>3, <1>6
<1>8. x.timeout = n /\ x.value = v /\ x.task = t BY <1>7, TimerFields
<1> HIDE DEF x
<1>9. PICK d : d = timers' OBVIOUS
<1>10. PICK A : A = AlarmBag(timers) OBVIOUS
<1>11. PICK C : C = AlarmBag(d) OBVIOUS
<1>12. IsAlarms(A, timers) /\ IsAlarms(C, d) BY <1>1, <1>9, <1>10, <1>11, AlarmBagIs
<1>13. PICK z : z = AlarmOf(x) OBVIOUS
<1>14. C = A (+) SetToBag({z}) /\ z \in BagToSet(C)
  BY <1>1, <1>5, <1>8, <1>9, <1>12, <1>13, AlarmsAdded
<1>15. z = Alarm(n, v, t) BY <1>8, <1>13 DEF AlarmOf
<1>16. Unrung = A /\ Unrung' = C
  BY <1>2, <1>9, <1>10, <1>11 DEF Unrung, AlarmBag, Alarm
<1>17. Requests[t] = RequestOf(h) BY <1>3 DEF Requests
<1>18. /\ RequestOf(h) # None /\ RequestOf(h).due = m
       /\ RequestOf(h).app = (v < 0)
       /\ RequestOf(h).value = IF v < 0 THEN -v ELSE v
  BY <1>4, RequestType
<1>19. z = [at |-> n, task |-> t, value |-> RequestOf(h).value, app |-> RequestOf(h).app] /\ z.at = n
  BY <1>15, <1>18 DEF Alarm
<1>20. Requests' = [Requests EXCEPT ![t] = None]
  <2>1. PICK g : g = hand' OBVIOUS
  <2>2. Requests' = [u \in Task |-> RequestOf(g[u])] BY <2>1 DEF Requests, RequestOf
  <2>3. \A u \in Task : g[u] = IF u = t THEN None ELSE hand[u] BY <1>2, <2>1
  <2>4. RequestOf(None) = None BY DEF RequestOf
  <2>5. \A u \in Task : RequestOf(g[u]) = IF u = t THEN None ELSE RequestOf(hand[u]) BY <2>3, <2>4
  <2> QED BY <2>2, <2>5 DEF Requests
<1>21. msgs[t] # Gone /\ Promise!InTime(m, n) BY <1>2, <1>3, <1>6 DEF HandInv
<1>22. Queues[t] # Gone
  <2>1. msgs[t] \in Seq(Stamp) BY <1>21 DEF TypeInv
  <2>2. PICK Q : Q = AlarmQueue(t, msgs[t]) OBVIOUS
  <2>3. Q # Gone BY <2>1, <2>2, QueueOf
  <2> QED BY <1>2, <2>2, <2>3, IdleIs
<1>23. UNCHANGED <<Now, Queues, got>> BY <1>2 DEF Now, Queues
<1>24. Requests[t] # None /\ Promise!InTime(Requests[t].due, n) BY <1>17, <1>18, <1>21
<1>25. Unrung' = Unrung (+) SetToBag({[at |-> n, task |-> t, value |-> Requests[t].value,
                                            app |-> Requests[t].app]})
  BY <1>14, <1>16, <1>17, <1>19
<1>26. Promise!Set(t, n)
  <2>1. Unrung' = [e \in DOMAIN Unrung' |-> Unrung'[e]] BY <1>12, <1>16 DEF IsAlarms, BagToSet
  <2> QED BY <1>20, <1>22, <1>23, <1>24, <1>25, <2>1
    DEF Promise!Set, Promise!(+), Promise!SetToBag, (+), SetToBag
<1>27. z \in BagToSet(Unrung') /\ Promise!Set(t, z.at) BY <1>14, <1>16, <1>19, <1>26
<1> QED BY <1>27

LEMMA EndStep ==
  ASSUME TypeInv, NEW t \in Terminal, CloseWindow(t)
  PROVE  Promise!End(t)
<1>1. /\ handler = Idle /\ handler' = Idle /\ msgs' = [msgs EXCEPT ![t] = Gone] /\ t \in Task
      /\ UNCHANGED <<tick, timers, hand, got>> /\ msgs[t] # Gone
      /\ msgs \in [Task -> Seq(Stamp) \cup {Gone}]
  BY TaskFacts DEF CloseWindow, Ready, TypeInv
<1>2. Queues[t] # Gone
  <2>1. msgs[t] \in Seq(Stamp) BY <1>1
  <2>2. PICK Q : Q = AlarmQueue(t, msgs[t]) OBVIOUS
  <2>3. Q # Gone BY <1>1, <2>1, <2>2, QueueOf
  <2> QED BY <1>1, <2>2, <2>3, IdleIs
<1>3. Queues' = [Queues EXCEPT ![t] = Gone]
  <2>1. PICK m : m = msgs' OBVIOUS
  <2>2. Queues' = [u \in Task |-> AlarmQueue(u, m[u])] BY <1>1, <2>1, IdleNextIs
  <2>3. \A u \in Task : m[u] = IF u = t THEN Gone ELSE msgs[u] BY <1>1, <2>1
  <2>4. \A u \in Task : u # t => AlarmQueue(u, m[u]) = AlarmQueue(u, msgs[u]) BY <2>3
  <2>5. AlarmQueue(t, m[t]) = Gone BY <1>1, <2>3 DEF AlarmQueue
  <2>6. Queues = [u \in Task |-> AlarmQueue(u, msgs[u])] BY <1>1, IdleIs
  <2> QED BY <2>2, <2>4, <2>5, <2>6
<1>4. UNCHANGED <<Now, Requests, Unrung, got>> BY <1>1 DEF Now, Requests, Unrung, RequestOf
<1> QED BY <1>2, <1>3, <1>4 DEF Promise!End

LEMMA SameCardinality ==
  ASSUME NEW S
  PROVE  Promise!Cardinality(S) = Cardinality(S)
BY DEF Promise!Cardinality, Cardinality

LEMMA AdvanceStep ==
  ASSUME TypeInv, TickInv, Return
  PROVE  Promise!Advance
<1>1. /\ handler # Idle /\ handler' = Idle /\ UNCHANGED <<tick, timers, msgs, hand, got>>
      /\ \A x \in Top(timers) : x.timeout > tick
      /\ tick \in Nat /\ HeapOK(timers) /\ msgs \in [Task -> Seq(Stamp) \cup {Gone}]
  BY DEF Return, TypeInv
<1>2. PICK b : b = handler.timers OBVIOUS
<1>3. /\ HeapOK(b) /\ FurtherKept(b, timers, tick)
      /\ \A t \in Task : msgs[t] = Gone <=> handler.msgs[t] = Gone
      /\ \A t \in Task : msgs[t] # Gone =>
           SinceTick(b, timers, handler.msgs[t], msgs[t], t, tick)
  BY <1>1, <1>2 DEF TickInv
<1>4. \A x \in BagToSet(timers) : x.timeout > tick
  <2> TAKE x \in BagToSet(timers)
  <2>1. PICK y \in Top(timers) : y.timeout <= x.timeout BY <1>1, TopIsDue
  <2>2. y.timeout > tick /\ y.timeout \in Nat /\ x.timeout \in Nat
    BY <1>1 DEF Top, HeapOK, TimerOK
  <2> QED BY <1>1, <2>1, <2>2
<1>5. PICK A : A = AlarmBag(b) OBVIOUS
<1>6. PICK C : C = AlarmBag(timers) OBVIOUS
<1>7. IsAlarms(A, b) /\ IsAlarms(C, timers) BY <1>1, <1>3, <1>5, <1>6, AlarmBagIs
<1>8. LeftOver(A, C, tick)
  BY <1>1, <1>3, <1>4, <1>7, AlarmsAdvance
<1>9. /\ Now = tick - 1 /\ Now' = tick /\ Unrung = A /\ Unrung' = C
      /\ Queues = [t \in Task |-> AlarmQueue(t, handler.msgs[t])]
      /\ Queues' = [t \in Task |-> AlarmQueue(t, msgs[t])]
      /\ UNCHANGED Requests
  BY <1>1, <1>2, <1>5, <1>6 DEF Now, Unrung, Queues, Requests, AlarmBag, AlarmQueue, Alarm, RequestOf
<1>10. Now' = Now + 1 /\ Now + 1 = tick BY <1>1, <1>9
<1>11. ASSUME NEW t \in Task
       PROVE  IF Queues[t] = Gone THEN Queues'[t] = Gone
              ELSE Queues'[t] # Gone /\ RungFrom(Unrung, Queues[t], Queues'[t], t, Now + 1)
  <2>1. PICK p : p = handler.msgs[t] OBVIOUS
  <2>2. PICK q : q = msgs[t] OBVIOUS
  <2>3. PICK P : P = AlarmQueue(t, p) OBVIOUS
  <2>4. PICK Q : Q = AlarmQueue(t, q) OBVIOUS
  <2>5. Queues[t] = P /\ Queues'[t] = Q BY <1>9, <2>1, <2>2, <2>3, <2>4
  <2>6. CASE q = Gone
    <3>1. p = Gone BY <1>3, <2>1, <2>2, <2>6
    <3> QED BY <2>3, <2>4, <2>5, <2>6, <3>1 DEF AlarmQueue
  <2>7. CASE q # Gone
    <3>1. SinceTick(b, timers, p, q, t, tick) BY <1>3, <2>1, <2>2, <2>7
    <3>2. RungFrom(A, P, Q, t, tick)
      BY <1>1, <1>3, <1>4, <1>7, <2>3, <2>4, <3>1, TickRings
    <3>3. p \in Seq(Stamp) /\ q \in Seq(Stamp) BY <3>1 DEF SinceTick
    <3>4. P # Gone /\ Q # Gone BY <2>3, <2>4, <3>3, QueueOf
    <3> QED BY <1>9, <1>10, <2>5, <3>2, <3>4
  <2> QED BY <2>6, <2>7
<1>12. ASSUME NEW t \in Task, RungFrom(Unrung, Queues[t], Queues'[t], t, Now + 1)
       PROVE  Promise!Ring(t, Queues'[t])
  BY <1>12, SameCardinality DEF RungFrom, Promise!Ring, Promise!Copies, Promise!BagToSet, BagToSet
<1>13. \A t \in Task : IF Queues[t] = Gone THEN Queues'[t] = Gone
                       ELSE Queues'[t] # Gone /\ Promise!Ring(t, Queues'[t])
  BY <1>11, <1>12
<1>14. Unrung' = [a \in {a \in BagToSet(Unrung) : a.at > Now'} |-> Unrung[a]]
  BY <1>8, <1>9 DEF LeftOver
<1>15. UNCHANGED <<Requests, got>> BY <1>1, <1>9
<1> QED BY <1>10, <1>13, <1>14, <1>15
     DEF Promise!Advance, Promise!BagToSet, BagToSet

LEMMA AlarmsInit == Init => Promise!Init
<1> SUFFICES ASSUME Init PROVE Promise!Init OBVIOUS
<1>1. /\ handler = Idle /\ tick = 0 /\ got = None
      /\ msgs = [t \in Task |-> <<>>] /\ hand = [t \in Task |-> None]
      /\ timers = SetToBag({Timer(kTaskTimerPeriod, kTaskTimerValue, Main)})
  BY DEF Init
<1>2. Own(timers) = {}
  <2>1. \A x \in BagToSet(timers) : x = Timer(kTaskTimerPeriod, kTaskTimerValue, Main)
    BY <1>1 DEF SetToBag, BagToSet
  <2> QED BY <2>1, TimerFields DEF Own
<1>3. PICK A : A = AlarmBag(timers) OBVIOUS
<1>4. IsAlarms(A, timers)
  <2>1. HeapOK(timers) BY TypeInit DEF TypeInv
  <2> QED BY <1>3, <2>1, AlarmBagIs
<1>5. BagToSet(A) = {} /\ A = [a \in BagToSet(A) |-> A[a]] BY <1>2, <1>4 DEF IsAlarms
<1>6. A = [a \in {} |-> 1] BY <1>5
<1>7. Unrung = A /\ Now = 0 BY <1>1, <1>3, IdleIs
<1>8. Requests = [t \in Task |-> None] BY <1>1 DEF Requests, RequestOf
<1>9. Queues = [t \in Task |-> <<>>]
  <2>1. ASSUME NEW t \in Task PROVE AlarmQueue(t, msgs[t]) = <<>>
    <3>1. msgs[t] = <<>> /\ <<>> \in Seq(Stamp) BY <1>1
    <3>2. PICK q : q = <<>> OBVIOUS
    <3>3. q \in Seq(Stamp) /\ Len(q) = 0 BY <3>2
    <3>4. PICK Q : Q = AlarmQueue(t, q) OBVIOUS
    <3>5. Q \in Seq(Alarms) /\ Len(Q) = 0 BY <3>3, <3>4, QueueOf
    <3>6. Q = <<>> BY <3>5
    <3> QED BY <3>1, <3>2, <3>4, <3>6
  <2> QED BY <1>1, <2>1, IdleIs
<1> QED BY <1>1, <1>6, <1>7, <1>8, <1>9
     DEF Promise!Init, Promise!EmptyBag, Promise!SetToBag

(* Every step of Timers is a step of Alarms or none: Tick rings everything *)
(* it does when it returns.                                                *)
LEMMA AlarmsStep ==
  ASSUME TypeInv, TickInv, HandInv, [Next]_vars
  PROVE  [Promise!Next]_(Promise!vars)
<1>0. /\ msgs \in [Task -> Seq(Stamp) \cup {Gone}] /\ tick \in Nat
      /\ Terminal \subseteq Task /\ Clock \in Task /\ BlinkPeriod \in Nat /\ kTimerFreq \in Nat
      /\ \A t \in Task : msgs[t] = Gone <=> place[t] = "gone"
      /\ ChainValue \in Values /\ TickLength \in Nat
  BY TaskFacts, ValueTypes DEF TypeInv, Values
<1>s. ASSUME UNCHANGED <<Now, Requests, Unrung, Queues, got>> PROVE [Promise!Next]_(Promise!vars)
  BY <1>s DEF Promise!vars
<1>q. ASSUME NEW t \in Task, Promise!Ask(t) \/ Promise!Take(t) \/ Promise!End(t)
      PROVE  [Promise!Next]_(Promise!vars)
  BY <1>q DEF Promise!Next
<1>c. ASSUME NEW t \in Task, NEW n \in Nat, PrepareChain(t, n), hand[t] = None
      PROVE  Promise!NewRequest(t)
  <2>1. PICK m : m = n * TickLength OBVIOUS
  <2>2. m \in Nat BY <1>0, <2>1
  <2>3. /\ hand'[t] = [timeout |-> n, value |-> ChainValue, due |-> m]
        /\ \A u \in Task \ {t} : hand'[u] = hand[u]
    BY <1>c, <2>1, ChainTypes
  <2> QED BY <1>0, <1>c, <2>2, <2>3, NewRequestIs
<1>r. ASSUME NEW t \in Task, Receive(t)
      PROVE  /\ Head(msgs[t]) \in Stamp /\ handler = Idle /\ hand[t] = None
             /\ Head(msgs[t]).timeout \in Nat
  <2>1. Head(msgs[t]) \in Stamp /\ handler = Idle /\ hand[t] = None BY <1>r, ReceiveTypes
  <2>2. Head(msgs[t]).timeout \in Nat BY <2>1, StampFields
  <2> QED BY <2>1, <2>2
<1>1. CASE Tick
  <2>1. /\ handler = Idle /\ tick' = tick + 1
        /\ handler' = [running |-> TRUE, timers |-> timers, msgs |-> msgs]
        /\ UNCHANGED <<timers, msgs, hand, got>>
    BY <1>1 DEF Tick
  <2>2. handler' # Idle BY <2>1, RunningIsNotIdle
  <2>3. handler'.timers = timers /\ handler'.msgs = msgs BY <2>1
  <2>4. Now' = Now BY <1>0, <2>1, <2>2 DEF Now
  <2>5. Unrung' = Unrung BY <2>1, <2>2, <2>3 DEF Unrung, AlarmBag, Alarm
  <2>6. Queues' = Queues BY <2>1, <2>2, <2>3 DEF Queues, AlarmQueue, Alarm
  <2>7. Requests' = Requests BY <2>1 DEF Requests, RequestOf
  <2> QED BY <1>s, <2>1, <2>4, <2>5, <2>6, <2>7
<1>2. CASE Return BY <1>2, AdvanceStep DEF Promise!Next
<1>3. CASE \E x \in BagToSet(timers) : Expire(x)
  <2>1. handler # Idle /\ UNCHANGED <<tick, handler, hand, got>> BY <1>3 DEF Expire
  <2>2. Now' = Now BY <2>1 DEF Now
  <2>3. Unrung' = Unrung BY <2>1 DEF Unrung, AlarmBag, Alarm
  <2>4. Queues' = Queues BY <2>1 DEF Queues, AlarmQueue, Alarm
  <2>5. Requests' = Requests BY <2>1 DEF Requests, RequestOf
  <2> QED BY <1>s, <2>1, <2>2, <2>3, <2>4, <2>5
<1>4. CASE \E t \in Task : AddTimer(t)
  <2>1. PICK t \in Task : AddTimer(t) BY <1>4
  <2>2. \E a \in BagToSet(Unrung') : Promise!Set(t, a.at) BY <2>1, SetStep
  <2> QED BY <2>2 DEF Promise!Next, Promise!BagToSet, BagToSet
<1>5. CASE StartClock
  <2>1. /\ PrepareChain(Clock, tick) /\ msgs[Clock] # Gone /\ hand[Clock] = None
        /\ handler = Idle /\ handler' = Idle /\ UNCHANGED <<tick, timers, msgs, got>>
    BY <1>0, <1>5 DEF StartClock, Ready
  <2>2. Promise!NewRequest(Clock) BY <1>0, <1>c, <2>1
  <2>3. Promise!Ask(Clock) BY <1>0, <2>1, <2>2, AskStep
  <2> QED BY <1>0, <1>q, <2>3
<1>6. CASE DrawCurrentTime
  <2>1. Receive(Clock) /\ UNCHANGED <<tick, timers, handler, got>> BY <1>6 DEF DrawCurrentTime
  <2>2. PICK n : n = Head(msgs[Clock]).timeout + kTimerFreq OBVIOUS
  <2>3. n \in Nat /\ PrepareChain(Clock, n) /\ hand[Clock] = None /\ handler = Idle
    BY <1>0, <1>6, <1>r, <2>1, <2>2 DEF DrawCurrentTime
  <2>4. Promise!NewRequest(Clock) BY <1>0, <1>c, <2>3
  <2>5. Promise!Take(Clock) BY <1>0, <2>1, <2>3, <2>4, TakeStep
  <2> QED BY <1>0, <1>q, <2>5
<1>7. ASSUME NEW t \in Terminal, StartTerminal(t) PROVE [Promise!Next]_(Promise!vars)
  <2>1. /\ PrepareChain(t, tick + BlinkPeriod) /\ msgs[t] # Gone /\ hand[t] = None /\ t \in Task
        /\ handler = Idle /\ handler' = Idle /\ UNCHANGED <<tick, timers, msgs, got>>
    BY <1>0, <1>7 DEF StartTerminal, Ready
  <2>2. PICK n : n = tick + BlinkPeriod OBVIOUS
  <2>3. n \in Nat BY <1>0, <2>2
  <2>4. Promise!NewRequest(t) BY <1>c, <2>1, <2>2, <2>3
  <2>5. Promise!Ask(t) BY <2>1, <2>4, AskStep
  <2> QED BY <1>q, <2>1, <2>5
<1>8. ASSUME NEW t \in Terminal, BlinkCursor(t) PROVE [Promise!Next]_(Promise!vars)
  <2>1. Receive(t) /\ UNCHANGED <<tick, timers, handler, got>> /\ t \in Task
    BY <1>0, <1>8 DEF BlinkCursor
  <2>2. PICK n : n = Head(msgs[t]).timeout + BlinkPeriod OBVIOUS
  <2>3. n \in Nat /\ PrepareChain(t, n) /\ hand[t] = None /\ handler = Idle
    BY <1>0, <1>8, <1>r, <2>1, <2>2 DEF BlinkCursor
  <2>4. Promise!NewRequest(t) BY <1>c, <2>1, <2>3
  <2>5. Promise!Take(t) BY <2>1, <2>3, <2>4, TakeStep
  <2> QED BY <1>q, <2>1, <2>5
<1>9. ASSUME NEW t \in Terminal, CloseWindow(t) PROVE [Promise!Next]_(Promise!vars)
  <2>1. Promise!End(t) /\ t \in Task BY <1>0, <1>9, EndStep
  <2> QED BY <1>q, <2>1
<1>10. ASSUME NEW t \in Terminal, ExecuteFile(t) \/ Exit(t) PROVE [Promise!Next]_(Promise!vars)
  <2>1. UNCHANGED <<tick, timers, handler, msgs, hand, got>> BY <1>10 DEF ExecuteFile, Exit
  <2> QED BY <1>s, <2>1 DEF Now, Requests, Unrung, Queues, RequestOf, AlarmBag, AlarmQueue, Alarm
<1>11. ASSUME NEW t \in Terminal, NEW value \in Value, NEW ms \in Millisecond,
              NEW relative \in BOOLEAN, NEW phase \in {0, TickLength - 1},
              CreateTimer(t, value, ms, relative, phase)
       PROVE  [Promise!Next]_(Promise!vars)
  <2>1. PICK n \in Nat, m \in Nat : Prepared(t, n, -value, m) /\ Promise!InTime(m, n)
    BY <1>11, CreateInTime
  <2>2. PICK v : v = -value OBVIOUS
  <2>3. v \in Values BY <2>2 DEF Values, AppValues
  <2>4. t # Clock /\ t \in Task BY TaskFacts
  <2>5. /\ hand'[t] = [timeout |-> n, value |-> v, due |-> m]
        /\ \A u \in Task \ {t} : hand'[u] = hand[u]
    BY <2>1, <2>2, <2>3, <2>4, PreparedTypes
  <2>6. /\ msgs[t] # Gone /\ hand[t] = None
        /\ handler = Idle /\ handler' = Idle /\ UNCHANGED <<tick, timers, msgs, got>>
    BY <1>0, <1>11, <2>4 DEF CreateTimer, Ready
  <2>7. Promise!NewRequest(t) BY <2>3, <2>4, <2>5, <2>6, NewRequestIs
  <2>8. Promise!Ask(t) BY <2>4, <2>6, <2>7, AskStep
  <2> QED BY <1>q, <2>4, <2>8
<1>12. ASSUME NEW t \in Terminal, NEW events \in BOOLEAN, Read(t, events)
       PROVE  [Promise!Next]_(Promise!vars)
  <2>1. /\ Receive(t) /\ UNCHANGED <<tick, timers, handler, hand>> /\ t \in Task
        /\ got' = IF events /\ Head(msgs[t]).value < 0 THEN -Head(msgs[t]).value ELSE got
    BY <1>0, <1>12 DEF Read
  <2>2. handler' = Idle BY <1>r, <2>1
  <2>3. got' = got \/ (Head(msgs[t]).value < 0 /\ got' = -Head(msgs[t]).value) BY <2>1
  <2>4. Promise!Take(t) BY <2>1, <2>2, <2>3, TakeStep
  <2> QED BY <1>q, <2>1, <2>4
<1>13. CASE UNCHANGED vars
  <2>1. UNCHANGED <<tick, timers, handler, msgs, hand, got>> BY <1>13 DEF vars
  <2> QED BY <1>s, <2>1 DEF Now, Requests, Unrung, Queues, RequestOf, AlarmBag, AlarmQueue, Alarm
<1> QED BY <1>1, <1>2, <1>3, <1>4, <1>5, <1>6, <1>7, <1>8, <1>9, <1>10, <1>11, <1>12, <1>13 DEF Next

(* For any number of tasks and timers, any frequency and any width of a    *)
(* time, whatever interrupts whom: every timer rings once, for its task,   *)
(* at the first tick that is due, in the order of the times; CreateTimer   *)
(* is early by less than two ticks and never late, unless its product      *)
(* overflows; and an application gets values that applications gave.       *)
THEOREM TimersAreAlarms == Spec => ImplementsAlarms
<1>1. Init => HandInv /\ TickInv
  <2>1. Init => HandInv
    <3> SUFFICES ASSUME Init, NEW t \in Task PROVE hand[t] = None BY DEF HandInv
    <3> QED BY DEF Init
  <2>2. Init => TickInv BY DEF Init, TickInv
  <2> QED BY <2>1, <2>2
<1>2. TypeInv /\ HandInv /\ TickInv /\ [Next]_vars => (HandInv /\ TickInv)'
  BY HandStep, TickStep
<1>3. TypeInv /\ HandInv /\ TickInv /\ [Next]_vars => [Promise!Next]_(Promise!vars)
  BY AlarmsStep
<1>4. Init => TypeInv BY TypeInit
<1>5. TypeInv /\ [Next]_vars => TypeInv' BY TypeStep
<1> QED BY <1>1, <1>2, <1>3, <1>4, <1>5, AlarmsInit, PTL DEF Spec, ImplementsAlarms, Promise!Spec
=============================================================================
