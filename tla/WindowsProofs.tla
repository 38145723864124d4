--------------------------- MODULE WindowsProofs ---------------------------
(***************************************************************************)
(* Proofs about Windows, for any number of terminals, lines, layers and    *)
(* messages.                                                               *)
(*                                                                         *)
(* 1. Whoever makes, shows, activates or closes windows, in whatever order, *)
(* the active layer exists and is on top of all but the mouse.  What has   *)
(* to be known for this is which layers a handler may still name: a        *)
(* request to close a window waits in a queue, and a terminal shows its    *)
(* window some time after it has made it.  A window made and not yet shown *)
(* (Hidden) can be closed by nobody.                                       *)
(*                                                                         *)
(* 2. Windows have owners.  LineInv says which tasks have a right side and *)
(* that one without a window owns none; MapInv gives the reason for which  *)
(* each layer is in layer_task_map; CloseInv keeps a request to close a    *)
(* window away from the queues of other terminals.                         *)
(*                                                                         *)
(* 3. Terminals know whether their window is the active one.               *)
(***************************************************************************)
EXTENDS Windows, TLAPS

Message(S) == [type : {"active"}, on : BOOLEAN] \cup [type : {"close"}, layer : S]

Hidden == {own[t] : t \in {u \in Task : place[u] \in {"made", "mapped"}}}

Places == {"none", "new", "made", "mapped", "shell", "created", "line", "app", "wait", "closing",
           "finish", "gone"}

(* The windows that a message or a program may name.                       *)
Shown == draggable \ Hidden

Distinct(s) == \A i, j \in 1 .. Len(s) : s[i] = s[j] => i = j

StackOK(s) ==
  /\ s \in Seq(Nat) /\ Distinct(s)
  /\ Len(s) >= 3
  /\ s[1] = Background /\ s[2] = ConsoleLayer /\ s[Len(s)] = mouse_layer

LayersInv ==
  /\ latest_id \in Nat /\ latest_id >= mouse_layer
  /\ layers \subseteq 1 .. latest_id
  /\ draggable \subseteq mouse_layer + 1 .. latest_id

StackInv ==
  /\ StackOK(stack)
  /\ ToSet(stack) \subseteq layers \ Hidden
  /\ active # None => active \in draggable /\ stack[Len(stack) - 1] = active

OwnInv ==
  /\ place \in [Task -> Places]
  /\ own \in [Task -> draggable \cup {None}]
  /\ \A t, u \in Task : own[t] = own[u] /\ own[t] # None => t = u
  /\ Hidden \subseteq layers \cap draggable
  /\ windows \in [Task -> SUBSET Shown]

MsgInv ==
  /\ msgs \in [Terminal -> Seq(Message(Shown))]
  /\ \A t \in Terminal :
       place[t] = "closing" => msgs[t] # <<>> /\ Head(msgs[t]).type = "close"

IInv == LayersInv /\ StackInv /\ OwnInv /\ MsgInv
-----------------------------------------------------------------------------
(* The stack.                                                              *)

LEMMA CatIs ==
  ASSUME NEW s \in Seq(Nat), NEW r \in Seq(Nat)
  PROVE  /\ s \o r \in Seq(Nat) /\ Len(s \o r) = Len(s) + Len(r)
         /\ \A j \in 1 .. Len(s) : (s \o r)[j] = s[j]
         /\ \A j \in 1 .. Len(r) : (s \o r)[Len(s) + j] = r[j]
OBVIOUS

LEMMA RemoveAtIs ==
  ASSUME NEW s \in Seq(Nat), NEW k \in 1 .. Len(s)
  PROVE  /\ RemoveAt(s, k) \in Seq(Nat)
         /\ Len(RemoveAt(s, k)) = Len(s) - 1
         /\ \A j \in 1 .. k - 1 : RemoveAt(s, k)[j] = s[j]
         /\ \A j \in k .. Len(s) - 1 : RemoveAt(s, k)[j] = s[j + 1]
<1> DEFINE front == SubSeq(s, 1, k - 1)
           back  == SubSeq(s, k + 1, Len(s))
<1>1. front \in Seq(Nat) /\ Len(front) = k - 1 /\ \A j \in 1 .. k - 1 : front[j] = s[j]
  OBVIOUS
<1>2. /\ back \in Seq(Nat) /\ Len(back) = Len(s) - k
      /\ \A j \in 1 .. Len(s) - k : back[j] = s[k + j]
  OBVIOUS
<1>3. RemoveAt(s, k) = front \o back
  BY DEF RemoveAt
<1>4. Len(s) \in Nat /\ k \in Nat /\ k >= 1 /\ k <= Len(s)
  OBVIOUS
<1> HIDE DEF front, back
<1> USE <1>1, <1>2
<1>5. /\ front \o back \in Seq(Nat) /\ Len(front \o back) = Len(s) - 1
      /\ \A j \in 1 .. k - 1 : (front \o back)[j] = s[j]
  <2> DEFINE cat == front \o back
  <2>1. /\ cat \in Seq(Nat) /\ Len(cat) = Len(front) + Len(back)
        /\ \A j \in 1 .. Len(front) : cat[j] = front[j]
    BY CatIs
  <2> HIDE DEF cat
  <2>2. /\ cat \in Seq(Nat) /\ Len(cat) = Len(s) - 1
        /\ \A j \in 1 .. k - 1 : cat[j] = s[j]
    BY <2>1, <1>4
  <2> QED
    BY <2>2 DEF cat
<1>6. ASSUME NEW j \in k .. Len(s) - 1
      PROVE  (front \o back)[j] = s[j + 1]
  <2>1. j - k + 1 \in 1 .. Len(back) /\ (k - 1) + (j - k + 1) = j /\ k + (j - k + 1) = j + 1
    BY <1>4
  <2>2. (front \o back)[Len(front) + (j - k + 1)] = back[j - k + 1]
    BY <2>1, CatIs
  <2> QED
    BY <2>1, <2>2
<1> QED
  BY <1>3, <1>5, <1>6

(* r is s with x in place k.                                               *)
Inserted(s, k, x, r) ==
  /\ r \in Seq(Nat) /\ Len(r) = Len(s) + 1
  /\ \A j \in 1 .. k - 1 : r[j] = s[j]
  /\ r[k] = x
  /\ \A j \in k + 1 .. Len(s) + 1 : r[j] = s[j - 1]

LEMMA InsertAtIs ==
  ASSUME NEW s \in Seq(Nat), NEW k \in 1 .. Len(s) + 1, NEW x \in Nat
  PROVE  Inserted(s, k, x, InsertAt(s, k, x))
<1> DEFINE front == SubSeq(s, 1, k - 1)
           back  == SubSeq(s, k, Len(s))
           mid   == front \o <<x>>
<1>1. front \in Seq(Nat) /\ Len(front) = k - 1 /\ \A j \in 1 .. k - 1 : front[j] = s[j]
  OBVIOUS
<1>2. /\ back \in Seq(Nat) /\ Len(back) = Len(s) - k + 1
      /\ \A j \in 1 .. Len(s) - k + 1 : back[j] = s[k + j - 1]
  OBVIOUS
<1>3. InsertAt(s, k, x) = mid \o back
  BY DEF InsertAt
<1>4. Len(s) \in Nat /\ k \in Nat
  OBVIOUS
<1>5. <<x>> \in Seq(Nat) /\ Len(<<x>>) = 1 /\ <<x>>[1] = x
  OBVIOUS
<1> HIDE DEF front, back
<1>6. /\ mid \in Seq(Nat) /\ Len(mid) = k
      /\ \A j \in 1 .. k - 1 : mid[j] = s[j]
      /\ mid[k] = x
  <2>1. /\ mid \in Seq(Nat) /\ Len(mid) = k
        /\ \A j \in 1 .. k - 1 : mid[j] = s[j]
    BY <1>1, <1>4, <1>5, CatIs
  <2>2. 1 \in 1 .. Len(<<x>>) /\ Len(front) + 1 = k
    BY <1>1, <1>4, <1>5
  <2>3. mid[Len(front) + 1] = <<x>>[1]
    BY <2>2, <1>1, <1>5, CatIs
  <2> QED
    BY <2>1, <2>2, <2>3, <1>5
<1> HIDE DEF mid
<1>7. /\ mid \o back \in Seq(Nat) /\ Len(mid \o back) = Len(s) + 1
      /\ \A j \in 1 .. k : (mid \o back)[j] = mid[j]
  BY <1>2, <1>4, <1>6, CatIs
<1>8. ASSUME NEW j \in k + 1 .. Len(s) + 1
      PROVE  (mid \o back)[j] = s[j - 1]
  <2>1. j - k \in 1 .. Len(back) /\ k + (j - k) = j /\ k + (j - k) - 1 = j - 1
    BY <1>2, <1>4
  <2>2. (mid \o back)[Len(mid) + (j - k)] = back[j - k]
    BY <2>1, <1>2, <1>6, CatIs
  <2> QED
    BY <2>1, <2>2, <1>2, <1>6
<1> QED
  BY <1>3, <1>4, <1>6, <1>7, <1>8, SMTT(30) DEF Inserted

LEMMA SeqEqual ==
  ASSUME NEW s \in Seq(Nat), NEW r \in Seq(Nat), Len(s) = Len(r),
         \A j \in 1 .. Len(s) : s[j] = r[j]
  PROVE  s = r
OBVIOUS

LEMMA PositionIs ==
  ASSUME NEW s \in Seq(Nat), Distinct(s), NEW k \in 1 .. Len(s)
  PROVE  Position(s, s[k]) = k
BY DEF Position, Distinct

LEMMA HideOther ==
  ASSUME NEW s, NEW id, id \notin ToSet(s)
  PROVE  Hide(s, id) = s
BY DEF Hide

LEMMA HideAt ==
  ASSUME NEW s \in Seq(Nat), Distinct(s), NEW k \in 1 .. Len(s)
  PROVE  Hide(s, s[k]) = RemoveAt(s, k)
BY PositionIs DEF Hide, ToSet

(* Without a window, the others are in the order they were in.             *)
LEMMA HideIs ==
  ASSUME NEW s, StackOK(s), NEW id \in Nat, id > mouse_layer
  PROVE  /\ StackOK(Hide(s, id))
         /\ ToSet(Hide(s, id)) \subseteq ToSet(s) \ {id}
<1>1. CASE id \notin ToSet(s)
  BY <1>1, HideOther
<1>2. CASE id \in ToSet(s)
  <2>1. PICK k \in 1 .. Len(s) : s[k] = id
    BY <1>2 DEF ToSet, StackOK
  <2> DEFINE r == RemoveAt(s, k)
  <2>2. Hide(s, id) = r
    BY <2>1, HideAt DEF StackOK
  <2>3. /\ r \in Seq(Nat) /\ Len(r) = Len(s) - 1
        /\ \A j \in 1 .. k - 1 : r[j] = s[j]
        /\ \A j \in k .. Len(s) - 1 : r[j] = s[j + 1]
    BY RemoveAtIs DEF StackOK
  <2> HIDE DEF r
  <2>4. k > 2 /\ k < Len(s) /\ k \in Nat /\ Len(s) \in Nat
    BY <2>1 DEF StackOK, Background, ConsoleLayer, mouse_layer
  <2>5. ASSUME NEW j \in 1 .. Len(r)
        PROVE  \E i \in 1 .. Len(s) : r[j] = s[i] /\ i # k /\ (j < k <=> i < k) /\ i \in {j, j + 1}
               /\ (j < k => i = j) /\ (j >= k => i = j + 1)
    <3>1. CASE j < k
      BY <3>1, <2>3, <2>4
    <3>2. CASE j >= k
      BY <3>2, <2>3, <2>4
    <3> QED
      BY <3>1, <3>2, <2>4
  <2>6. Distinct(r)
    <3> SUFFICES ASSUME NEW i \in 1 .. Len(r), NEW j \in 1 .. Len(r), r[i] = r[j]
                 PROVE  i = j
      BY DEF Distinct
    <3>1. PICK m \in 1 .. Len(s) : r[i] = s[m] /\ (i < k => m = i) /\ (i >= k => m = i + 1)
      BY <2>5
    <3>2. PICK n \in 1 .. Len(s) : r[j] = s[n] /\ (j < k => n = j) /\ (j >= k => n = j + 1)
      BY <2>5
    <3>3. m = n
      BY <3>1, <3>2 DEF StackOK, Distinct
    <3> QED
      BY <3>1, <3>2, <3>3, <2>3, <2>4
  <2>7. Len(r) >= 3 /\ r[1] = Background /\ r[2] = ConsoleLayer /\ r[Len(r)] = mouse_layer
    <3>1. /\ 1 \in 1 .. k - 1 /\ 2 \in 1 .. k - 1 /\ Len(s) >= 4
          /\ Len(s) - 1 \in k .. Len(s) - 1 /\ Len(s) - 1 + 1 = Len(s)
      BY <2>4
    <3>2. r[1] = s[1] /\ r[2] = s[2] /\ r[Len(s) - 1] = s[Len(s)]
      BY <2>3, <3>1
    <3> QED
      BY <2>3, <3>1, <3>2 DEF StackOK
  <2>8. ASSUME NEW j \in 1 .. Len(r)
        PROVE  r[j] \in ToSet(s) \ {id}
    <3>1. PICK i \in 1 .. Len(s) : r[j] = s[i] /\ i # k
      BY <2>5
    <3> QED
      BY <3>1, <2>1 DEF StackOK, Distinct, ToSet
  <2>9. StackOK(r)
    BY <2>3, <2>6, <2>7 DEF StackOK
  <2>10. ToSet(r) \subseteq ToSet(s) \ {id}
    BY <2>3, <2>8 DEF ToSet
  <2> QED
    BY <2>2, <2>9, <2>10
<1> QED
  BY <1>1, <1>2

(* A layer put anywhere above the console and below the mouse.             *)
LEMMA InsertedIs ==
  ASSUME NEW s, StackOK(s), NEW id \in Nat, id \notin ToSet(s), NEW k \in 3 .. Len(s)
  PROVE  /\ StackOK(InsertAt(s, k, id))
         /\ ToSet(InsertAt(s, k, id)) \subseteq ToSet(s) \cup {id}
         /\ Inserted(s, k, id, InsertAt(s, k, id))
<1> DEFINE r == InsertAt(s, k, id)
<1>2. s \in Seq(Nat) /\ Len(s) \in Nat /\ k \in Nat /\ k >= 3 /\ k <= Len(s)
  BY DEF StackOK
<1>1. /\ r \in Seq(Nat) /\ Len(r) = Len(s) + 1
      /\ \A j \in 1 .. k - 1 : r[j] = s[j]
      /\ r[k] = id
      /\ \A j \in k + 1 .. Len(s) + 1 : r[j] = s[j - 1]
  <2>1. k \in 1 .. Len(s) + 1
    BY <1>2
  <2> QED
    <3>1. Inserted(s, k, id, r)
      BY <1>2, <2>1, InsertAtIs, Zenon
    <3> HIDE DEF r
    <3> QED
      BY <3>1 DEF Inserted
<1> HIDE DEF r
<1>3. \A j \in 1 .. Len(s) : s[j] # id
  BY DEF ToSet, StackOK
<1>4. ASSUME NEW j \in 1 .. Len(r), j # k
      PROVE  \E i \in 1 .. Len(s) : r[j] = s[i] /\ (j < k => i = j) /\ (j > k => i = j - 1)
  <2>1. CASE j < k
    BY <2>1, <1>1, <1>2
  <2>2. CASE j > k
    BY <2>2, <1>1, <1>2
  <2> QED
    BY <2>1, <2>2, <1>1, <1>2, <1>4
<1>5. Distinct(r)
  <2> SUFFICES ASSUME NEW i \in 1 .. Len(r), NEW j \in 1 .. Len(r), r[i] = r[j], i # j
               PROVE  FALSE
    BY DEF Distinct
  <2>1. i # k /\ j # k
    BY <1>1, <1>3, <1>4
  <2>2. PICK m \in 1 .. Len(s) : r[i] = s[m] /\ (i < k => m = i) /\ (i > k => m = i - 1)
    BY <1>4, <2>1
  <2>3. PICK n \in 1 .. Len(s) : r[j] = s[n] /\ (j < k => n = j) /\ (j > k => n = j - 1)
    BY <1>4, <2>1
  <2>4. m = n
    BY <2>2, <2>3 DEF StackOK, Distinct
  <2> QED
    BY <2>1, <2>2, <2>3, <2>4, <1>1, <1>2, SMTT(30)
<1>6. Len(r) >= 3 /\ r[1] = Background /\ r[2] = ConsoleLayer /\ r[Len(r)] = mouse_layer
  <2>1. 1 \in 1 .. k - 1 /\ 2 \in 1 .. k - 1 /\ Len(s) + 1 \in k + 1 .. Len(s) + 1
    BY <1>2
  <2>2. r[1] = s[1] /\ r[2] = s[2]
    BY <1>1, <2>1
  <2>3. PICK n \in Nat : n = Len(s) + 1
    BY <1>2
  <2>4. r[n] = s[n - 1] /\ n - 1 = Len(s)
    BY <1>1, <1>2, <2>1, <2>3
  <2> QED
    BY <1>1, <1>2, <2>2, <2>3, <2>4 DEF StackOK
<1>7. ToSet(r) \subseteq ToSet(s) \cup {id}
  <2> SUFFICES ASSUME NEW j \in 1 .. Len(r)
               PROVE  r[j] \in ToSet(s) \cup {id}
    BY <1>1 DEF ToSet
  <2>1. CASE j = k
    BY <2>1, <1>1
  <2>2. CASE j # k
    <3>1. PICK i \in 1 .. Len(s) : r[j] = s[i]
      BY <2>2, <1>4
    <3> QED
      BY <3>1, <1>2 DEF ToSet
  <2> QED
    BY <2>1, <2>2
<1> QED
  BY <1>1, <1>5, <1>6, <1>7 DEF StackOK, Inserted, r

(* Hiding a layer at the bottom gives the stack that it was put under.     *)
LEMMA HideLowest ==
  ASSUME NEW s, StackOK(s), NEW id \in Nat, id \notin ToSet(s)
  PROVE  /\ Hide(InsertAt(s, 1, id), id) = s
         /\ Height(InsertAt(s, 1, id), mouse_layer) = Len(s)
<1> DEFINE r == InsertAt(s, 1, id)
<1>1. s \in Seq(Nat) /\ Len(s) \in Nat /\ Len(s) >= 3 /\ 1 \in 1 .. Len(s) + 1
  BY DEF StackOK
<1>2. Inserted(s, 1, id, r)
  BY <1>1, InsertAtIs
<1> HIDE DEF r
<1>3. r \in Seq(Nat) /\ Len(r) = Len(s) + 1 /\ r[1] = id
  BY <1>2 DEF Inserted
<1>4. \A j \in 2 .. Len(s) + 1 : r[j] = s[j - 1]
  BY <1>2 DEF Inserted
<1>5. \A j \in 1 .. Len(s) : s[j] # id
  BY <1>1 DEF ToSet
<1>6. Distinct(r)
  <2> SUFFICES ASSUME NEW i \in 1 .. Len(r), NEW j \in 1 .. Len(r), r[i] = r[j], i # j
               PROVE  FALSE
    BY DEF Distinct
  <2>1. ASSUME NEW m \in 1 .. Len(r), m # 1
        PROVE  r[m] = s[m - 1] /\ m - 1 \in 1 .. Len(s)
    <3>1. PICK n \in Nat : n = Len(s) /\ Len(r) = n + 1
      BY <1>1, <1>3
    <3>2. m \in 1 .. n + 1 /\ m # 1
      BY <2>1, <3>1
    <3>3. m \in 2 .. n + 1 /\ m - 1 \in 1 .. n
      BY <3>1, <3>2
    <3> QED
      BY <1>4, <3>1, <3>3
  <2>2. i # 1 /\ j # 1
    BY <2>1, <1>3, <1>5
  <2>3. s[i - 1] = s[j - 1] /\ i - 1 \in 1 .. Len(s) /\ j - 1 \in 1 .. Len(s)
    BY <2>1, <2>2
  <2>4. i - 1 = j - 1
    BY <2>3 DEF StackOK, Distinct
  <2> QED
    BY <2>4, <1>1, <1>3
<1>7. Hide(r, id) = s
  <2>1. 1 \in 1 .. Len(r)
    BY <1>1, <1>3
  <2>2. Hide(r, r[1]) = RemoveAt(r, 1)
    BY <2>1, <1>3, <1>6, HideAt
  <2> DEFINE q == RemoveAt(r, 1)
  <2>3. /\ q \in Seq(Nat) /\ Len(q) = Len(r) - 1
        /\ \A j \in 1 .. Len(r) - 1 : q[j] = r[j + 1]
    BY <2>1, <1>3, RemoveAtIs
  <2> HIDE DEF q
  <2>4. Len(q) = Len(s)
    BY <2>3, <1>1, <1>3
  <2>5. ASSUME NEW j \in 1 .. Len(q)
        PROVE  q[j] = s[j]
    <3>1. j + 1 \in 2 .. Len(s) + 1 /\ j + 1 - 1 = j /\ j \in 1 .. Len(r) - 1
      BY <2>4, <1>1, <1>3
    <3>2. r[j + 1] = s[j + 1 - 1]
      BY <3>1, <1>4
    <3> QED
      BY <3>1, <3>2, <2>3
  <2>6. q = s
    BY <2>3, <2>4, <2>5, <1>1, SeqEqual
  <2> QED
    BY <2>2, <2>6, <1>3 DEF q
<1>8. Height(r, mouse_layer) = Len(s)
  <2>1. PICK n \in Nat : n = Len(s) + 1
    BY <1>1
  <2>2. n \in 2 .. Len(s) + 1 /\ n \in 1 .. Len(r) /\ n - 1 = Len(s)
    BY <2>1, <1>1, <1>3
  <2>3. r[n] = s[n - 1]
    BY <2>2, <1>4
  <2>4. r[n] = mouse_layer
    BY <2>2, <2>3 DEF StackOK
  <2>5. Position(r, r[n]) = n
    BY <2>2, <1>3, <1>6, PositionIs
  <2> QED
    BY <2>2, <2>4, <2>5 DEF Height
<1> QED
  BY <1>7, <1>8 DEF r

(* An activated layer is moved below the mouse, above all others.          *)
LEMMA RaisedIs ==
  ASSUME NEW s, StackOK(s), NEW id \in Nat, id > mouse_layer
  PROVE  /\ StackOK(Raised(s, id))
         /\ ToSet(Raised(s, id)) \subseteq ToSet(s) \cup {id}
         /\ Raised(s, id)[Len(Raised(s, id)) - 1] = id
<1> DEFINE rest == Hide(s, id)
<1>1. /\ StackOK(rest) /\ ToSet(rest) \subseteq ToSet(s) /\ id \notin ToSet(rest)
  BY HideIs
<1>2. PICK n \in Nat : n = Len(rest) /\ n >= 3
  BY <1>1 DEF StackOK
<1>3. UpDown(s, id, 0) = InsertAt(rest, 1, id)
  <2>1. Lower(0, Len(rest)) + 1 = 1 /\ ~(0 < 0)
    BY <1>2 DEF Lower
  <2> QED
    BY <2>1 DEF UpDown
<1> HIDE DEF rest
<1> DEFINE lowest == InsertAt(rest, 1, id)
<1>4. Hide(lowest, id) = rest /\ Height(lowest, mouse_layer) = n
  BY <1>1, <1>2, HideLowest
<1>5. Raised(s, id) = UpDown(lowest, id, n - 1)
  BY <1>3, <1>4 DEF Raised
<1> HIDE DEF lowest
<1>6. Raised(s, id) = InsertAt(rest, n, id)
  <2>1. Lower(n - 1, n) + 1 = n /\ ~(n - 1 < 0)
    BY <1>2 DEF Lower
  <2> QED
    BY <1>2, <1>4, <1>5, <2>1 DEF UpDown
<1>7. n \in 3 .. Len(rest)
  BY <1>2
<1> DEFINE r == InsertAt(rest, n, id)
<1>8. /\ StackOK(r) /\ ToSet(r) \subseteq ToSet(rest) \cup {id}
      /\ Inserted(rest, n, id, r)
  BY <1>1, <1>7, InsertedIs
<1> HIDE DEF r
<1>9. r[n] = id /\ Len(r) = n + 1 /\ n + 1 - 1 = n
  BY <1>2, <1>8 DEF Inserted
<1> QED
  BY <1>1, <1>6, <1>8, <1>9 DEF r
-----------------------------------------------------------------------------
(* Messages.                                                               *)

LEMMA MessageMore ==
  ASSUME NEW S, NEW T, S \subseteq T, NEW q \in [Terminal -> Seq(Message(S))]
  PROVE  q \in [Terminal -> Seq(Message(T))]
<1>1. Message(S) \subseteq Message(T)
  BY DEF Message
<1>2. ASSUME NEW L, NEW M, L \subseteq M, NEW s \in Seq(L)
      PROVE  s \in Seq(M)
  BY <1>2
<1> QED
  BY <1>1, <1>2

(* Nothing is taken from a queue: what was its head still is.              *)
Longer(q, r) == \A t \in Terminal : q[t] # <<>> => r[t] # <<>> /\ Head(r[t]) = Head(q[t])

LEMMA AppendIs ==
  ASSUME NEW L, NEW s \in Seq(L), NEW x \in L
  PROVE  /\ Append(s, x) \in Seq(L) /\ Append(s, x) # <<>>
         /\ s # <<>> => Head(Append(s, x)) = Head(s)
<1>1. /\ Append(s, x) \in Seq(L) /\ Len(Append(s, x)) = Len(s) + 1
      /\ \A j \in 1 .. Len(s) : Append(s, x)[j] = s[j]
  OBVIOUS
<1>2. Append(s, x) # <<>>
  <2>1. Len(s) \in Nat /\ Len(Append(s, x)) # 0
    BY <1>1
  <2> QED
    BY <2>1
<1>3. ASSUME s # <<>>
      PROVE  Head(Append(s, x)) = Head(s)
  <2>1. 1 \in 1 .. Len(s)
    BY <1>3
  <2>2. Append(s, x)[1] = s[1]
    BY <1>1, <2>1
  <2>3. Head(s) = s[1]
    BY <1>3
  <2>4. Head(Append(s, x)) = Append(s, x)[1]
    BY <1>1, <1>2
  <2> QED
    BY <2>2, <2>3, <2>4
<1> QED
  BY <1>1, <1>2, <1>3

LEMMA SentIs ==
  ASSUME NEW S, NEW q \in [Terminal -> Seq(Message(S))], NEW id, NEW m \in Message(S)
  PROVE  Sent(q, id, m) \in [Terminal -> Seq(Message(S))] /\ Longer(q, Sent(q, id, m))
<1>1. CASE id \in DOMAIN task_map \ {None} /\ task_map[id] \in Terminal /\ place[task_map[id]] # "gone"
  <2> DEFINE u == task_map[id]
             r == [q EXCEPT ![u] = Append(@, m)]
  <2>1. Sent(q, id, m) = r
    BY <1>1 DEF Sent
  <2>2. q[u] \in Seq(Message(S)) /\ u \in Terminal
    BY <1>1
  <2>3. r \in [Terminal -> Seq(Message(S))]
    BY <2>2, AppendIs
  <2>4. Longer(q, r)
    BY <2>2, AppendIs DEF Longer
  <2> QED
    BY <2>1, <2>3, <2>4
<1>2. CASE ~(id \in DOMAIN task_map \ {None} /\ task_map[id] \in Terminal /\ place[task_map[id]] # "gone")
  BY <1>2 DEF Sent, Longer
<1> QED
  BY <1>1, <1>2

LEMMA NotifiedIs ==
  ASSUME NEW S, msgs \in [Terminal -> Seq(Message(S))], NEW id
  PROVE  Notified(id) \in [Terminal -> Seq(Message(S))] /\ Longer(msgs, Notified(id))
<1>1. IsActive(TRUE) \in Message(S) /\ IsActive(FALSE) \in Message(S)
  BY DEF IsActive, Message
<1> DEFINE r == Sent(msgs, active, IsActive(FALSE))
           z == Sent(r, id, IsActive(TRUE))
<1>2. r \in [Terminal -> Seq(Message(S))] /\ Longer(msgs, r)
  BY <1>1, SentIs
<1>3. z \in [Terminal -> Seq(Message(S))] /\ Longer(r, z)
  BY <1>1, <1>2, SentIs
<1>4. Notified(id) \in {msgs, z}
  BY DEF Notified
<1> HIDE DEF r, z
<1>5. Longer(msgs, z) /\ Longer(msgs, msgs)
  BY <1>2, <1>3 DEF Longer
<1> QED
  BY <1>2, <1>3, <1>4, <1>5
-----------------------------------------------------------------------------
(* What activating and closing do to the stack and the queues.             *)

(* The window activated is one that may be named from now on.              *)
LEMMA Raising ==
  ASSUME IInv, NEW id \in Shown' \cup {None}, id # None => id \in layers',
         active' = id, stack' = IF id \notin {None, active} THEN Raised(stack, id) ELSE stack,
         layers \subseteq layers', draggable \subseteq draggable',
         Hidden' \cap layers \subseteq Hidden,
         draggable' \subseteq mouse_layer + 1 .. latest_id', latest_id' \in Nat
  PROVE  StackInv'
<1>1. ToSet(stack) \subseteq layers' \ Hidden' /\ StackOK(stack)
  BY DEF IInv, StackInv
<1>2. CASE id \notin {None, active}
  <2>1. id \in Nat /\ id > mouse_layer /\ id \in draggable' /\ id \in layers' \ Hidden'
    BY <1>2 DEF Shown, mouse_layer
  <2>2. /\ StackOK(stack')
        /\ ToSet(stack') \subseteq ToSet(stack) \cup {id}
        /\ stack'[Len(stack') - 1] = id
    BY <1>1, <1>2, <2>1, RaisedIs
  <2> QED
    BY <1>1, <2>1, <2>2 DEF StackInv
<1>3. CASE id \in {None, active}
  <2>1. stack' = stack
    BY <1>3
  <2>2. id # None => id \in draggable' /\ stack[Len(stack) - 1] = id
    BY <1>3 DEF IInv, StackInv
  <2> QED
    BY <1>1, <2>1, <2>2 DEF StackInv
<1> QED
  BY <1>2, <1>3

LEMMA Activating ==
  ASSUME IInv, NEW id \in Shown' \cup {None}, Activate(id), id # None => id \in layers',
         layers \subseteq layers', draggable \subseteq draggable',
         Shown \subseteq Shown', Hidden' \cap layers \subseteq Hidden,
         draggable' \subseteq mouse_layer + 1 .. latest_id', latest_id' \in Nat
  PROVE  StackInv' /\ msgs' \in [Terminal -> Seq(Message(Shown'))] /\ Longer(msgs, msgs')
<1>1. /\ msgs' = Notified(id) /\ active' = id
      /\ stack' = IF id \notin {None, active} THEN Raised(stack, id) ELSE stack
  BY DEF Activate
<1>2. msgs \in [Terminal -> Seq(Message(Shown'))]
  BY MessageMore DEF IInv, MsgInv
<1>3. msgs' \in [Terminal -> Seq(Message(Shown'))] /\ Longer(msgs, msgs')
  BY <1>1, <1>2, NotifiedIs
<1>4. StackInv'
  BY <1>1, Raising
<1> QED
  BY <1>3, <1>4

(* A layer is closed that nobody is about to show.                         *)
LEMMA Closing ==
  ASSUME IInv, NEW id, CloseLayer(id), id \in layers => id \in Shown,
         Hidden' = Hidden, UNCHANGED <<latest_id, draggable>>
  PROVE  /\ LayersInv' /\ StackInv'
         /\ layers' \subseteq layers /\ layers \ {id} \subseteq layers'
         /\ Shown' = Shown
         /\ msgs' \in [Terminal -> Seq(Message(Shown'))] /\ Longer(msgs, msgs')
<1>1. Shown' = Shown
  BY DEF Shown
<1>2. msgs \in [Terminal -> Seq(Message(Shown))]
  BY DEF IInv, MsgInv
<1>3. StackOK(stack) /\ ToSet(stack) \subseteq layers \ Hidden
  BY DEF IInv, StackInv
<1>4. CASE id \notin layers
  <2>1. UNCHANGED <<layers, stack, active, msgs>>
    BY <1>4 DEF CloseLayer
  <2>2. Longer(msgs, msgs)
    BY DEF Longer
  <2> QED
    BY <1>1, <1>2, <2>1, <2>2 DEF IInv, StackInv, LayersInv
<1>5. CASE id \in layers
  <2>1. id \in Nat /\ id > mouse_layer
    BY <1>5 DEF IInv, LayersInv, Shown, mouse_layer
  <2>2. /\ active' = None /\ msgs' = Notified(None)
        /\ stack' = Hide(stack, id) /\ layers' = layers \ {id}
    BY <1>5 DEF CloseLayer
  <2>3. StackOK(stack') /\ ToSet(stack') \subseteq ToSet(stack) \ {id}
    BY <1>3, <2>1, <2>2, HideIs
  <2>4. StackInv'
    BY <1>3, <2>2, <2>3 DEF StackInv
  <2>5. LayersInv'
    BY <2>2 DEF IInv, LayersInv
  <2> QED
    BY <1>1, <1>2, <2>2, <2>4, <2>5, NotifiedIs
<1> QED
  BY <1>4, <1>5
-----------------------------------------------------------------------------
(* The steps.                                                              *)

(* Most steps of a terminal neither make a window nor show one.            *)
LEMMA SameHidden ==
  ASSUME IInv, own' = own, NEW t \in Task, NEW x \in Places,
         place' = [place EXCEPT ![t] = x],
         x \in {"made", "mapped"} <=> place[t] \in {"made", "mapped"}
  PROVE  /\ Hidden' = Hidden /\ place' \in [Task -> Places]
         /\ \A u \in Task : u # t => place'[u] = place[u]
         /\ place'[t] = x
<1>1. /\ place' \in [Task -> Places]
      /\ \A u \in Task : u # t => place'[u] = place[u]
      /\ place'[t] = x
  BY DEF IInv, OwnInv
<1>2. \A u \in Task : place'[u] \in {"made", "mapped"} <=> place[u] \in {"made", "mapped"}
  BY <1>1
<1> QED
  BY <1>1, <1>2 DEF Hidden

(* Steps that leave the layers and the windows alone.                      *)
LEMMA Stays ==
  ASSUME IInv, Hidden' = Hidden, place' \in [Task -> Places],
         UNCHANGED <<latest_id, layers, draggable, stack, active, own, windows>>
  PROVE  LayersInv' /\ StackInv' /\ OwnInv' /\ Shown' = Shown
<1>1. Shown' = Shown
  BY DEF Shown
<1> QED
  BY <1>1 DEF IInv, LayersInv, StackInv, OwnInv

LEMMA InitOK ==
  Init => IInv
<1> SUFFICES ASSUME Init
             PROVE  IInv
  OBVIOUS
<1>1. Hidden = {} /\ Shown = {}
  BY DEF Init, Hidden, Shown
<1>2. LayersInv
  BY DEF Init, LayersInv, Background, ConsoleLayer, mouse_layer
<1>3. StackInv
  <2>1. stack \in Seq(Nat) /\ Len(stack) = 3 /\ stack[1] = 1 /\ stack[2] = 2 /\ stack[3] = 3
    BY DEF Init, Background, ConsoleLayer, mouse_layer
  <2>2. StackOK(stack)
    BY <2>1 DEF StackOK, Distinct, Background, ConsoleLayer, mouse_layer
  <2>3. ToSet(stack) \subseteq layers
    BY <2>1 DEF Init, ToSet, Background, ConsoleLayer, mouse_layer
  <2> QED
    BY <1>1, <2>2, <2>3 DEF StackInv, Init
<1>4. OwnInv
  <2>1. place \in [Task -> Places] /\ own \in [Task -> {None}]
    BY DEF Init, Places
  <2>2. windows \in [Task -> SUBSET Shown]
    BY DEF Init
  <2>3. \A t \in Task : own[t] = None
    BY <2>1
  <2> QED
    BY <1>1, <2>1, <2>2, <2>3 DEF OwnInv, Init
<1>5. MsgInv
  <2>1. <<>> \in Seq(Message(Shown))
    OBVIOUS
  <2> QED
    BY <2>1 DEF MsgInv, Init, Task
<1> QED
  BY <1>2, <1>3, <1>4, <1>5 DEF IInv

LEMMA PressOK ==
  ASSUME IInv, NEW id \in layers, NEW region \in {"TitleBar", "CloseButton", "Other"},
         Press(id, region)
  PROVE  IInv'
<1>1. /\ UNCHANGED <<latest_id, layers, draggable, place, own, windows>>
      /\ id \in ToSet(stack)
  BY DEF Press
<1>2. Hidden' = Hidden /\ Shown' = Shown
  BY <1>1 DEF Hidden, Shown
<1>3. LayersInv' /\ OwnInv'
  BY <1>1, <1>2 DEF IInv, LayersInv, OwnInv
<1>4. msgs \in [Terminal -> Seq(Message(Shown))]
  BY DEF IInv, MsgInv
<1>5. ASSUME id \in draggable
      PROVE  StackInv' /\ msgs' \in [Terminal -> Seq(Message(Shown))] /\ Longer(msgs, msgs')
  <2>1. id \in Shown /\ id # None
    BY <1>1, <1>5 DEF IInv, StackInv, LayersInv, Shown, None, mouse_layer
  <2>2. /\ active' = id
        /\ stack' = IF id \notin {None, active} THEN Raised(stack, id) ELSE stack
    BY <1>5, <2>1 DEF Press
  <2>3. StackInv'
    BY <1>1, <1>2, <2>1, <2>2, Raising DEF IInv, LayersInv
  <2> DEFINE q == Notified(id)
             r == Sent(q, id, Close(id))
  <2>4. q \in [Terminal -> Seq(Message(Shown))] /\ Longer(msgs, q)
    BY <1>4, NotifiedIs
  <2>5. Close(id) \in Message(Shown)
    BY <2>1 DEF Close, Message
  <2>6. r \in [Terminal -> Seq(Message(Shown))] /\ Longer(q, r)
    BY <2>4, <2>5, SentIs
  <2>7. msgs' \in {q, r}
    BY <1>5 DEF Press
  <2> HIDE DEF q, r
  <2>8. Longer(msgs, r)
    BY <2>4, <2>6 DEF Longer
  <2> QED
    BY <2>3, <2>4, <2>6, <2>7, <2>8
<1>6. ASSUME id \notin draggable
      PROVE  StackInv' /\ msgs' \in [Terminal -> Seq(Message(Shown))] /\ Longer(msgs, msgs')
  <2>1. Activate(None)
    BY <1>6 DEF Press
  <2> QED
    BY <1>1, <1>2, <2>1, Activating DEF IInv, LayersInv
<1>7. MsgInv'
  BY <1>1, <1>2, <1>5, <1>6 DEF IInv, MsgInv, Longer
<1> QED
  BY <1>3, <1>5, <1>6, <1>7 DEF IInv

LEMMA ReleaseOK ==
  ASSUME IInv, Release
  PROVE  IInv'
<1>1. UNCHANGED <<latest_id, layers, draggable, stack, active, own, windows, place, msgs>>
  BY DEF Release
<1>2. Hidden' = Hidden
  BY <1>1 DEF Hidden
<1>3. LayersInv' /\ StackInv' /\ OwnInv' /\ Shown' = Shown
  BY <1>1, <1>2, Stays DEF IInv, OwnInv
<1> QED
  BY <1>1, <1>3 DEF IInv, MsgInv

(* The steps that change nothing but what a task executes, the map of      *)
(* windows to tasks, the right sides of lines, and the bounds.             *)
Moves(t) ==
  \/ NewTerminal(t) \/ MapWindow(t)
  \/ MapRight(t) \/ OtherCommand(t) \/ EndPipe(t) \/ ExecuteFile(t)
  \/ t \notin Terminal /\ (ExitCommand(t) \/ Finish(t))

LEMMA MovesAre ==
  ASSUME NEW t, Moves(t)
  PROVE  /\ UNCHANGED <<latest_id, layers, draggable, stack, active, own, windows, msgs,
                        window_isactive, missed, disowned>>
         /\ place[t] \notin {"closing", "gone", "app"}
         /\ \E x \in {"new", "mapped", "line", "shell", "wait", "finish", "gone", "app"} :
              /\ place' = [place EXCEPT ![t] = x]
              /\ x \in {"made", "mapped"} <=> place[t] \in {"made", "mapped"}
              /\ x = "shell" => t \in Terminal
<1>1. CASE NewTerminal(t)
  BY <1>1 DEF NewTerminal
<1>2. CASE MapWindow(t)
  BY <1>2 DEF MapWindow
<1>3. CASE MapRight(t)
  BY <1>3 DEF MapRight
<1>4. CASE OtherCommand(t)
  <2>1. place[t] = "line" /\ place' = [place EXCEPT ![t] = AfterCommand(t)]
    BY <1>4 DEF OtherCommand
  <2>2. AfterCommand(t) \in {"wait", "shell", "finish"} /\ (AfterCommand(t) = "shell" => t \in Terminal)
    BY DEF AfterCommand
  <2> QED
    BY <1>4, <2>1, <2>2 DEF OtherCommand
<1>5. CASE EndPipe(t)
  BY <1>5 DEF EndPipe
<1>6. CASE ExecuteFile(t)
  BY <1>6 DEF ExecuteFile, AtLine
<1>7. CASE t \notin Terminal /\ ExitCommand(t)
  BY <1>7 DEF ExitCommand
<1>8. CASE t \notin Terminal /\ Finish(t)
  BY <1>8 DEF Finish
<1> QED
  BY <1>1, <1>2, <1>3, <1>4, <1>5, <1>6, <1>7, <1>8 DEF Moves

LEMMA MovesOK ==
  ASSUME IInv, NEW t \in Task, Moves(t)
  PROVE  IInv'
<1>1. PICK x \in {"new", "mapped", "line", "shell", "wait", "finish", "gone", "app"} :
        /\ place' = [place EXCEPT ![t] = x]
        /\ x \in {"made", "mapped"} <=> place[t] \in {"made", "mapped"}
  BY MovesAre
<1>2. UNCHANGED <<latest_id, layers, draggable, stack, active, own, windows, msgs>>
  BY MovesAre
<1>3. /\ Hidden' = Hidden /\ place' \in [Task -> Places]
      /\ \A u \in Task : u # t => place'[u] = place[u]
      /\ place'[t] = x
  <2>1. own' = own /\ x \in Places
    BY <1>2 DEF Places
  <2> QED
    BY <1>1, <2>1, SameHidden
<1>4. LayersInv' /\ StackInv' /\ OwnInv' /\ Shown' = Shown
  BY <1>2, <1>3, Stays
<1>5. MsgInv'
  BY <1>1, <1>2, <1>3, <1>4 DEF IInv, MsgInv, Task
<1> QED
  BY <1>4, <1>5 DEF IInv

(* The steps with which a line starts another task.                        *)
Starts(t, s) == CreateRight(t, s) \/ StartCommand(t, s)

LEMMA StartsAre ==
  ASSUME IInv, NEW t \in Task, NEW s \in Windowless, Starts(t, s)
  PROVE  /\ UNCHANGED <<latest_id, layers, draggable, stack, active, own, windows, msgs, task_map,
                        window_isactive, missed, disowned>>
         /\ s \in Task /\ s # t /\ place[s] = "none" /\ place'[s] = "line"
         /\ place[t] \in {"line", "shell"} /\ place'[t] \in {"created", "wait", "shell", "finish"}
         /\ place'[t] = "shell" => t \in Terminal
         /\ \A u \in Task : u # t /\ u # s => place'[u] = place[u]
         /\ Hidden' = Hidden /\ place' \in [Task -> Places]
<1>1. UNCHANGED <<latest_id, layers, draggable, stack, active, own, windows, msgs, task_map,
                  window_isactive, missed, disowned>>
  BY DEF Starts, CreateRight, StartCommand
<1>2. s \in Task /\ place[s] = "none" /\ place[t] \in {"line", "shell"}
  BY DEF Starts, CreateRight, StartCommand, AtLine, Task
<1>3. PICK x \in {"created", "wait", "shell", "finish"} :
        place' = [place EXCEPT ![t] = x, ![s] = "line"] /\ (x = "shell" => t \in Terminal)
  BY DEF Starts, CreateRight, StartCommand, AfterCommand
<1>4. /\ s # t /\ place'[t] = x /\ place'[s] = "line" /\ place' \in [Task -> Places]
      /\ \A u \in Task : u # t /\ u # s => place'[u] = place[u]
  BY <1>2, <1>3 DEF IInv, OwnInv, Places
<1>5. \A u \in Task : place'[u] \in {"made", "mapped"} <=> place[u] \in {"made", "mapped"}
  BY <1>2, <1>4
<1>6. Hidden' = Hidden
  BY <1>1, <1>5 DEF Hidden
<1> QED
  BY <1>1, <1>2, <1>3, <1>4, <1>6

LEMMA StartsOK ==
  ASSUME IInv, NEW t \in Task, NEW s \in Windowless, Starts(t, s)
  PROVE  IInv'
<1>1. LayersInv' /\ StackInv' /\ OwnInv' /\ Shown' = Shown
  BY StartsAre, Stays
<1>2. MsgInv'
  BY <1>1, StartsAre DEF IInv, MsgInv, Task
<1> QED
  BY <1>1, <1>2 DEF IInv

(* The clock's layer goes between the console and whatever is above it.    *)
LEMMA ShowClockOK ==
  ASSUME IInv, ShowClock
  PROVE  IInv'
<1>1. PICK id \in 1 .. MaxLayer : NewLayer(id) /\ stack' = UpDown(stack, id, 2)
  BY DEF ShowClock
<1>2. UNCHANGED <<draggable, active, own, windows, place, msgs>>
  BY DEF ShowClock
<1>3. Hidden' = Hidden /\ Shown' = Shown
  BY <1>2 DEF Hidden, Shown
<1>4. /\ latest_id' = id /\ id = latest_id + 1 /\ layers' = layers \cup {id}
      /\ latest_id \in Nat /\ id \notin layers /\ id \notin draggable /\ id \in Nat
  BY <1>1 DEF NewLayer, IInv, LayersInv
<1>5. LayersInv'
  BY <1>2, <1>4 DEF IInv, LayersInv, mouse_layer
<1>6. OwnInv' /\ MsgInv'
  BY <1>2, <1>3, <1>4 DEF IInv, OwnInv, MsgInv
<1>7. StackInv'
  <2>1. StackOK(stack) /\ ToSet(stack) \subseteq layers /\ id \notin ToSet(stack)
    BY <1>4 DEF IInv, StackInv
  <2>2. PICK n \in Nat : n = Len(stack) /\ n >= 3
    BY <2>1 DEF StackOK
  <2>3. stack' = InsertAt(stack, 3, id)
    <3>1. Hide(stack, id) = stack
      BY <2>1, HideOther
    <3>2. Lower(2, Len(stack)) + 1 = 3 /\ ~(2 < 0)
      BY <2>2 DEF Lower
    <3> QED
      BY <1>1, <3>1, <3>2 DEF UpDown
  <2>4. /\ StackOK(stack') /\ ToSet(stack') \subseteq ToSet(stack) \cup {id}
        /\ Inserted(stack, 3, id, stack')
    <3>1. 3 \in 3 .. Len(stack)
      BY <2>2
    <3> QED
      BY <1>4, <2>1, <2>3, <3>1, InsertedIs
  <2>5. id \notin Hidden
    BY <1>4 DEF IInv, OwnInv
  <2>6. ASSUME active # None
        PROVE  active \in draggable /\ stack'[Len(stack') - 1] = active
    <3>1. active \in draggable /\ stack[n - 1] = active
      BY <2>2, <2>6 DEF IInv, StackInv
    <3>2. n # 3
      <4>1. active > ConsoleLayer /\ stack[2] = ConsoleLayer
        BY <2>1, <3>1 DEF StackOK, ConsoleLayer, mouse_layer, IInv, LayersInv
      <4> QED
        BY <3>1, <4>1 DEF ConsoleLayer
    <3>3. n \in 3 + 1 .. Len(stack) + 1 /\ Len(stack') - 1 = n
      BY <2>2, <2>4, <3>2 DEF Inserted
    <3>4. stack'[n] = stack[n - 1]
      BY <2>4, <3>3 DEF Inserted
    <3> QED
      BY <3>1, <3>3, <3>4
  <2>7. ToSet(stack') \subseteq layers' \ Hidden'
    BY <1>3, <1>4, <2>4, <2>5 DEF IInv, StackInv
  <2> QED
    BY <1>2, <2>4, <2>6, <2>7 DEF StackInv
<1> QED
  BY <1>5, <1>6, <1>7 DEF IInv

LEMMA MakeWindowOK ==
  ASSUME IInv, NEW t \in Task, MakeWindow(t)
  PROVE  IInv'
<1>1. PICK id \in 1 .. MaxLayer :
        NewLayer(id) /\ draggable' = draggable \cup {id} /\ own' = [own EXCEPT ![t] = id]
  BY DEF MakeWindow
<1>2. /\ place[t] = "new" /\ place' = [place EXCEPT ![t] = "made"]
      /\ UNCHANGED <<stack, active, windows, msgs>>
  BY DEF MakeWindow
<1>3. /\ latest_id' = id /\ id = latest_id + 1 /\ layers' = layers \cup {id}
      /\ latest_id \in Nat /\ id \notin layers /\ id \notin draggable /\ id # None
      /\ id > mouse_layer
  BY <1>1 DEF NewLayer, IInv, LayersInv, None, mouse_layer
<1>4. /\ place' \in [Task -> Places] /\ place'[t] = "made"
      /\ own' \in [Task -> draggable' \cup {None}] /\ own'[t] = id
      /\ \A u \in Task : u # t => own'[u] = own[u] /\ place'[u] = place[u]
  BY <1>1, <1>2 DEF IInv, OwnInv, Places
<1>5. Hidden' = Hidden \cup {id}
  BY <1>2, <1>4 DEF Hidden
<1>6. Shown' = Shown
  BY <1>1, <1>3, <1>5 DEF Shown
<1>7. LayersInv'
  BY <1>1, <1>3 DEF IInv, LayersInv, mouse_layer
<1>8. StackInv'
  BY <1>1, <1>2, <1>3, <1>5 DEF IInv, StackInv
<1>9. OwnInv'
  <2>1. \A u \in Task : own[u] # id
    BY <1>3 DEF IInv, OwnInv
  <2>2. \A u, v \in Task : own'[u] = own'[v] /\ own'[u] # None => u = v
    BY <1>4, <2>1 DEF IInv, OwnInv
  <2>3. Hidden' \subseteq layers' \cap draggable'
    BY <1>1, <1>3, <1>5 DEF IInv, OwnInv
  <2> QED
    BY <1>2, <1>4, <1>6, <2>2, <2>3 DEF IInv, OwnInv
<1>10. MsgInv'
  BY <1>2, <1>4, <1>6 DEF IInv, MsgInv, Task
<1> QED
  BY <1>7, <1>8, <1>9, <1>10 DEF IInv

LEMMA ShowWindowOK ==
  ASSUME IInv, NEW t \in Task, ShowWindow(t)
  PROVE  IInv'
<1>1. /\ place[t] = "mapped" /\ place' = [place EXCEPT ![t] = "shell"]
      /\ UNCHANGED <<latest_id, layers, draggable, own, windows>>
      /\ Activate(own[t])
  BY DEF ShowWindow
<1>2. /\ place' \in [Task -> Places] /\ place'[t] = "shell"
      /\ \A u \in Task : u # t => place'[u] = place[u]
  BY <1>1 DEF IInv, OwnInv, Places
<1>3. own[t] \in Hidden /\ own[t] \in layers \cap draggable /\ own[t] # None
  BY <1>1 DEF IInv, OwnInv, LayersInv, Hidden, None, mouse_layer
<1>4. Hidden' = Hidden \ {own[t]}
  <2>1. \A u \in Task : u # t => own[u] # own[t]
    BY <1>3 DEF IInv, OwnInv
  <2> QED
    BY <1>1, <1>2, <2>1 DEF Hidden
<1>5. Shown \subseteq Shown' /\ own[t] \in Shown'
  BY <1>1, <1>3, <1>4 DEF Shown
<1>6. LayersInv'
  BY <1>1 DEF IInv, LayersInv
<1>7. StackInv' /\ msgs' \in [Terminal -> Seq(Message(Shown'))] /\ Longer(msgs, msgs')
  BY <1>1, <1>3, <1>4, <1>5, Activating DEF IInv, LayersInv
<1>8. OwnInv'
  BY <1>1, <1>2, <1>4, <1>5 DEF IInv, OwnInv
<1>9. MsgInv'
  BY <1>1, <1>2, <1>7 DEF IInv, MsgInv, Longer, Task
<1> QED
  BY <1>6, <1>7, <1>8, <1>9 DEF IInv

LEMMA OpenWindowOK ==
  ASSUME IInv, NEW t \in Task, OpenWindow(t)
  PROVE  IInv'
<1>1. PICK id \in 1 .. MaxLayer :
        /\ NewLayer(id) /\ draggable' = draggable \cup {id} /\ Activate(id)
        /\ windows' = [windows EXCEPT ![t] = @ \cup {id}]
  BY DEF OpenWindow
<1>2. UNCHANGED <<place, own>>
  BY DEF OpenWindow
<1>3. /\ latest_id' = id /\ id = latest_id + 1 /\ layers' = layers \cup {id}
      /\ latest_id \in Nat /\ id \notin layers /\ id # None /\ id > mouse_layer
  BY <1>1 DEF NewLayer, IInv, LayersInv, None, mouse_layer
<1>4. Hidden' = Hidden /\ id \notin Hidden
  BY <1>2, <1>3 DEF Hidden, IInv, OwnInv
<1>5. Shown' = Shown \cup {id}
  BY <1>1, <1>4 DEF Shown
<1>6. LayersInv'
  BY <1>1, <1>3 DEF IInv, LayersInv, mouse_layer
<1>7. StackInv' /\ msgs' \in [Terminal -> Seq(Message(Shown'))] /\ Longer(msgs, msgs')
  <2>1. /\ id \in Shown' \cup {None} /\ id \in layers' /\ layers \subseteq layers'
        /\ draggable \subseteq draggable' /\ Shown \subseteq Shown'
        /\ Hidden' \cap layers \subseteq Hidden
    BY <1>1, <1>3, <1>4, <1>5
  <2>2. draggable' \subseteq mouse_layer + 1 .. latest_id' /\ latest_id' \in Nat
    BY <1>6 DEF LayersInv
  <2> QED
    BY <1>1, <2>1, <2>2, Activating
<1>8. OwnInv'
  <2>1. windows' \in [Task -> SUBSET Shown']
    BY <1>1, <1>5 DEF IInv, OwnInv
  <2> QED
    BY <1>1, <1>2, <1>3, <1>4, <2>1 DEF IInv, OwnInv
<1>9. MsgInv'
  BY <1>2, <1>7 DEF IInv, MsgInv, Longer
<1> QED
  BY <1>6, <1>7, <1>8, <1>9 DEF IInv

LEMMA CloseWindowOK ==
  ASSUME IInv, NEW t \in Task, NEW id \in windows[t], CloseWindow(t, id)
  PROVE  IInv'
<1>1. /\ UNCHANGED <<latest_id, draggable, place, own>> /\ CloseLayer(id)
      /\ windows' = [windows EXCEPT ![t] = @ \ {id}]
  BY DEF CloseWindow
<1>2. Hidden' = Hidden /\ id \in Shown
  BY <1>1 DEF Hidden, IInv, OwnInv
<1>3. /\ LayersInv' /\ StackInv' /\ layers \ {id} \subseteq layers' /\ Shown' = Shown
      /\ msgs' \in [Terminal -> Seq(Message(Shown'))] /\ Longer(msgs, msgs')
  BY <1>1, <1>2, Closing
<1>4. OwnInv'
  <2>1. windows' \in [Task -> SUBSET Shown]
    BY <1>1 DEF IInv, OwnInv
  <2>2. Hidden \subseteq layers'
    BY <1>2, <1>3 DEF IInv, OwnInv, Shown
  <2> QED
    BY <1>1, <1>2, <1>3, <2>1, <2>2 DEF IInv, OwnInv
<1>5. MsgInv'
  BY <1>1, <1>3 DEF IInv, MsgInv, Longer
<1> QED
  BY <1>3, <1>4, <1>5 DEF IInv

(* CloseWindowAndFinish and ExitCommand close a layer that is not hidden:  *)
(* the one a message names, or the terminal's own.                         *)
LEMMA EndingOK ==
  ASSUME IInv, NEW t \in Terminal, CloseWindowAndFinish(t) \/ ExitCommand(t)
  PROVE  IInv'
<1>1. /\ UNCHANGED <<latest_id, draggable, own, windows>>
      /\ place' = [place EXCEPT ![t] = "finish"] /\ place[t] \in {"closing", "shell", "line"}
      /\ t \in Task
  BY DEF CloseWindowAndFinish, ExitCommand, Task
<1>2. PICK id : CloseLayer(id) /\ (id \in layers => id \in Shown)
  <2>1. CASE CloseWindowAndFinish(t)
    <3>1. msgs[t] \in Seq(Message(Shown)) /\ msgs[t] # <<>> /\ Head(msgs[t]).type = "close"
      BY <2>1 DEF IInv, MsgInv, CloseWindowAndFinish
    <3>2. Head(msgs[t]) \in Message(Shown)
      BY <3>1
    <3>3. Head(msgs[t]).layer \in Shown
      BY <3>1, <3>2 DEF Message
    <3> QED
      BY <2>1, <3>3 DEF CloseWindowAndFinish
  <2>2. CASE ExitCommand(t)
    <3>1. CloseLayer(own[t]) /\ place[t] \in {"shell", "line"}
      BY <2>2 DEF ExitCommand
    <3>2. ASSUME own[t] \in layers
          PROVE  own[t] \in Shown
      <4>1. own[t] \in draggable /\ own[t] # None
        BY <1>1, <3>2 DEF IInv, OwnInv, LayersInv, None
      <4>2. own[t] \notin Hidden
        BY <1>1, <3>1, <4>1 DEF IInv, OwnInv, Hidden
      <4> QED
        BY <4>1, <4>2 DEF Shown
    <3> QED
      BY <3>1, <3>2
  <2> QED
    BY <2>1, <2>2
<1>3. /\ Hidden' = Hidden /\ place' \in [Task -> Places] /\ place'[t] = "finish"
      /\ \A u \in Task : u # t => place'[u] = place[u]
  <2>1. own' = own /\ "finish" \in Places
    BY <1>1 DEF Places
  <2>2. "finish" \in {"made", "mapped"} <=> place[t] \in {"made", "mapped"}
    BY <1>1
  <2> QED
    BY <1>1, <2>1, <2>2, SameHidden
<1>4. /\ LayersInv' /\ StackInv' /\ layers \ {id} \subseteq layers' /\ Shown' = Shown
      /\ layers' \subseteq layers
      /\ msgs' \in [Terminal -> Seq(Message(Shown'))] /\ Longer(msgs, msgs')
  BY <1>1, <1>2, <1>3, Closing
<1>5. OwnInv'
  <2>1. Hidden \subseteq layers'
    BY <1>2, <1>4 DEF IInv, OwnInv, Shown
  <2> QED
    BY <1>1, <1>3, <1>4, <2>1 DEF IInv, OwnInv
<1>6. MsgInv'
  BY <1>3, <1>4 DEF IInv, MsgInv, Longer, Task
<1> QED
  BY <1>4, <1>5, <1>6 DEF IInv

(* The steps of a terminal and its program that take messages.             *)
LEMMA TakesOK ==
  ASSUME IInv, NEW t \in Terminal,
         NoteActive(t) \/ TakeClose(t) \/ Finish(t) \/ ReadEvent(t)
  PROVE  IInv'
<1>1. UNCHANGED <<latest_id, layers, draggable, stack, active, own, windows>> /\ t \in Task
  BY DEF NoteActive, TakeClose, Finish, ReadEvent, Task
<1>2. msgs \in [Terminal -> Seq(Message(Shown))] /\ msgs[t] \in Seq(Message(Shown))
  BY DEF IInv, MsgInv
<1>3. ASSUME msgs[t] # <<>>
      PROVE  Head(msgs[t]) \in Message(Shown) /\ Tail(msgs[t]) \in Seq(Message(Shown))
  BY <1>2, <1>3
<1>4. PICK q \in Seq(Message(Shown)) :
        /\ msgs' = [msgs EXCEPT ![t] = q]
        /\ TakeClose(t) => q = <<Head(msgs[t])>>
  <2>1. <<>> \in Seq(Message(Shown))
    OBVIOUS
  <2>2. CASE NoteActive(t) \/ ReadEvent(t)
    <3>1. msgs[t] # <<>> /\ msgs' = [msgs EXCEPT ![t] = Tail(@)] /\ ~TakeClose(t)
      BY <2>2 DEF NoteActive, ReadEvent, TakeClose
    <3> QED
      BY <1>3, <3>1
  <2>3. CASE TakeClose(t)
    <3>1. msgs[t] # <<>> /\ msgs' = [msgs EXCEPT ![t] = <<Head(@)>>]
      BY <2>3 DEF TakeClose
    <3>2. <<Head(msgs[t])>> \in Seq(Message(Shown))
      BY <1>3, <3>1
    <3> QED
      BY <3>1, <3>2
  <2>4. CASE Finish(t)
    <3>1. msgs' = [msgs EXCEPT ![t] = <<>>] /\ ~TakeClose(t)
      BY <2>4 DEF Finish, TakeClose
    <3> QED
      BY <2>1, <3>1
  <2> QED
    BY <2>2, <2>3, <2>4
<1>5. /\ Hidden' = Hidden /\ place' \in [Task -> Places]
      /\ \A u \in Task : u # t => place'[u] = place[u]
      /\ place'[t] = "closing" => TakeClose(t)
  <2>1. CASE NoteActive(t) \/ ReadEvent(t)
    <3>1. place' = place /\ place[t] \in {"shell", "app"}
      BY <2>1 DEF NoteActive, ReadEvent
    <3> QED
      BY <1>1, <3>1 DEF Hidden, IInv, OwnInv
  <2>2. CASE TakeClose(t)
    <3>1. place' = [place EXCEPT ![t] = "closing"] /\ place[t] = "shell" /\ own' = own
      BY <1>1, <2>2 DEF TakeClose
    <3> QED
      BY <1>1, <2>2, <3>1, SameHidden DEF Places
  <2>3. CASE Finish(t)
    <3>1. place' = [place EXCEPT ![t] = "gone"] /\ place[t] = "finish" /\ own' = own
      BY <1>1, <2>3 DEF Finish
    <3> QED
      BY <1>1, <3>1, SameHidden DEF Places
  <2> QED
    BY <2>1, <2>2, <2>3
<1>6. LayersInv' /\ StackInv' /\ OwnInv' /\ Shown' = Shown
  BY <1>1, <1>5, Stays
<1>7. MsgInv'
  <2>1. msgs' \in [Terminal -> Seq(Message(Shown'))]
    BY <1>2, <1>4, <1>6
  <2>2. ASSUME NEW u \in Terminal, place'[u] = "closing"
        PROVE  msgs'[u] # <<>> /\ Head(msgs'[u]).type = "close"
    <3>1. CASE u = t
      <4>1. TakeClose(t) /\ msgs'[t] = <<Head(msgs[t])>>
        BY <1>2, <1>4, <1>5, <2>2, <3>1
      <4>2. Head(msgs[t]).type = "close"
        BY <4>1 DEF TakeClose
      <4> QED
        BY <3>1, <4>1, <4>2
    <3>2. CASE u # t
      <4>1. place[u] = "closing" /\ msgs'[u] = msgs[u]
        BY <1>2, <1>4, <1>5, <2>2, <3>2 DEF Task
      <4> QED
        BY <4>1 DEF IInv, MsgInv
    <3> QED
      BY <3>1, <3>2
  <2> QED
    BY <2>1, <2>2 DEF MsgInv
<1> QED
  BY <1>6, <1>7 DEF IInv

LEMMA ExitOK ==
  ASSUME IInv, NEW t \in Task, Exit(t)
  PROVE  IInv'
<1>1. /\ UNCHANGED <<latest_id, layers, draggable, stack, active, own, msgs>>
      /\ place[t] = "app" /\ place' = [place EXCEPT ![t] = AfterCommand(t)]
      /\ windows' = [windows EXCEPT ![t] = {}]
  BY DEF Exit
<1>2. /\ Hidden' = Hidden /\ place' \in [Task -> Places] /\ place'[t] # "closing"
      /\ \A u \in Task : u # t => place'[u] = place[u]
  <2>1. AfterCommand(t) \in {"wait", "shell", "finish"}
    BY DEF AfterCommand
  <2> QED
    BY <1>1, <2>1, SameHidden DEF Places
<1>3. Shown' = Shown
  BY <1>1, <1>2 DEF Shown
<1>4. LayersInv' /\ StackInv' /\ MsgInv'
  BY <1>1, <1>2, <1>3 DEF IInv, LayersInv, StackInv, MsgInv, Task
<1>5. OwnInv'
  BY <1>1, <1>2, <1>3 DEF IInv, OwnInv
<1> QED
  BY <1>4, <1>5 DEF IInv
-----------------------------------------------------------------------------
(* The steps, as the lemmas take them.                                     *)
LEMMA Steps ==
  ASSUME Next
  PROVE  \/ \E id \in layers, region \in {"TitleBar", "CloseButton", "Other"} : Press(id, region)
         \/ Release \/ ShowClock
         \/ \E t \in Task : Moves(t) \/ OpenWindow(t) \/ Exit(t)
         \/ \E t \in Task : \E id \in windows[t] : CloseWindow(t, id)
         \/ \E t \in Task : \E s \in Windowless : Starts(t, s)
         \/ \E t \in Terminal : MakeWindow(t) \/ ShowWindow(t)
         \/ \E t \in Terminal :
              \/ CloseWindowAndFinish(t) \/ ExitCommand(t)
              \/ NoteActive(t) \/ TakeClose(t) \/ Finish(t) \/ ReadEvent(t)
<1>1. ASSUME NEW t \in Terminal, NewTerminal(t) \/ MapWindow(t)
      PROVE  t \in Task /\ Moves(t)
  BY <1>1 DEF Task, Moves
<1>2. ASSUME NEW t \in Task, MapRight(t) \/ OtherCommand(t) \/ EndPipe(t) \/ ExecuteFile(t)
      PROVE  Moves(t)
  BY <1>2 DEF Moves
<1>3. ASSUME NEW t \in Task, ExitCommand(t) \/ Finish(t)
      PROVE  Moves(t) \/ (t \in Terminal /\ (ExitCommand(t) \/ Finish(t)))
  BY <1>3 DEF Moves
<1>4. ASSUME NEW t \in Task, NEW s \in Windowless, CreateRight(t, s) \/ StartCommand(t, s)
      PROVE  Starts(t, s)
  BY <1>4 DEF Starts
<1> QED
  BY <1>1, <1>2, <1>3, <1>4, Zenon DEF Next

LEMMA Inductive ==
  ASSUME IInv, [Next]_vars
  PROVE  IInv'
<1>1. CASE UNCHANGED vars
  <2>1. UNCHANGED <<latest_id, layers, draggable, stack, active, own, windows, place, msgs>>
    BY <1>1 DEF vars
  <2>2. Hidden' = Hidden
    BY <2>1 DEF Hidden
  <2>3. LayersInv' /\ StackInv' /\ OwnInv' /\ Shown' = Shown
    BY <2>1, <2>2, Stays DEF IInv, OwnInv
  <2> QED
    BY <2>1, <2>3 DEF IInv, MsgInv
<1>2. CASE \E id \in layers, region \in {"TitleBar", "CloseButton", "Other"} : Press(id, region)
  BY <1>2, PressOK
<1>3. CASE Release \/ ShowClock
  BY <1>3, ReleaseOK, ShowClockOK
<1>4. ASSUME NEW t \in Task, Moves(t) \/ OpenWindow(t) \/ Exit(t)
      PROVE  IInv'
  BY <1>4, MovesOK, OpenWindowOK, ExitOK
<1>5. ASSUME NEW t \in Task, NEW id \in windows[t], CloseWindow(t, id)
      PROVE  IInv'
  BY <1>5, CloseWindowOK
<1>6. ASSUME NEW t \in Task, NEW s \in Windowless, Starts(t, s)
      PROVE  IInv'
  BY <1>6, StartsOK
<1>7. ASSUME NEW t \in Terminal, MakeWindow(t) \/ ShowWindow(t)
      PROVE  IInv'
  BY <1>7, MakeWindowOK, ShowWindowOK DEF Task
<1>8. ASSUME NEW t \in Terminal,
             \/ CloseWindowAndFinish(t) \/ ExitCommand(t)
             \/ NoteActive(t) \/ TakeClose(t) \/ Finish(t) \/ ReadEvent(t)
      PROVE  IInv'
  BY <1>8, EndingOK, TakesOK
<1> QED
  BY <1>1, <1>2, <1>3, <1>4, <1>5, <1>6, <1>7, <1>8, Steps

LEMMA Invariant ==
  Spec => []IInv
<1>1. IInv /\ [Next]_vars => IInv'
  BY Inductive
<1> QED
  BY <1>1, InitOK, PTL DEF Spec

(* However many terminals, programs and layers there are, and whatever is  *)
(* pressed, opened, activated or closed: the active layer exists and lies  *)
(* below the mouse and above everything else, and the desktop and the      *)
(* console stay at the bottom.                                             *)
THEOREM ActiveStaysOnTop ==
  Spec => []ActiveOnTop
<1>1. IInv => ActiveOnTop
  BY DEF IInv, StackInv, StackOK, Distinct, ActiveOnTop
<1> QED
  BY <1>1, Invariant, PTL
-----------------------------------------------------------------------------
(* Whose windows are.  A window in the map is there for a reason (Cares);  *)
(* the reasons end with what the task executes, unless it is counted as    *)
(* one that left a window behind.  A request to close a window is in the   *)
(* queue of the terminal that has it, or of one that opened it.            *)

(* A line has a right side from when it has created it until it has waited *)
(* for it, and no window before it makes one.                              *)
LineInv ==
  /\ right \in [Task -> Windowless \cup {None}]
  /\ \A s \in Windowless : own[s] = None
  /\ \A t \in Task :
       /\ place[t] \in {"none", "new", "made", "mapped", "shell", "closing"} => right[t] = None
       /\ place[t] \in {"created", "wait"} => right[t] # None
       /\ place[t] \in {"none", "new"} => own[t] = None

(* The layers that a request in the queue of u may name.                   *)
Closable(u) == {l \in Shown : \A t \in Task : own[t] = l => t = u}

(* A terminal has its window.                                              *)
Owning == {"mapped", "shell", "created", "line", "app", "wait", "closing"}

(* Why layer l is in the map: it is the window of a terminal, or the       *)
(* program of its task has opened it.                                      *)
Cares(t, l) ==
  /\ \A u \in Task : own[u] = l => u = t
  /\ \/ l = own[t] /\ place[t] \in Owning
     \/ task_map[l] = t /\ (t \in disowned \/ (l \in windows[t] /\ place[t] = "app"))

Mapped == DOMAIN task_map \ {None}

HasWindow(t) == own[t] \in Mapped /\ task_map[own[t]] = Deputy(t)

MapInv ==
  /\ Mapped \subseteq layers
  /\ \A l \in Mapped : \E t \in Task : Cares(t, l)
  /\ \A t \in Terminal : place[t] \in Owning => HasWindow(t)

CloseInv ==
  /\ \A t, u \in Task : own[u] \notin windows[t]
  /\ \A u \in Terminal : msgs[u] \in Seq(Message(Closable(u)))
  /\ \A t \in Terminal :
       place[t] = "closing" => Head(msgs[t]).layer = own[t] \/ t \in disowned

OwnersInv == IInv /\ LineInv /\ MapInv /\ CloseInv

(* Right sides.                                                            *)
LEMMA LineStep ==
  ASSUME IInv, IInv', LineInv, [Next]_vars
  PROVE  LineInv'
<1>1. ASSUME UNCHANGED <<right, place, own>>
      PROVE  LineInv'
  BY <1>1 DEF LineInv
<1>2. ASSUME NEW t \in Task, NEW x, NEW r \in Windowless \cup {None},
             place' = [place EXCEPT ![t] = x], right' = [right EXCEPT ![t] = r],
             own' = own, x \in {"none", "new"} => own[t] = None,
             x \in {"none", "new", "made", "mapped", "shell", "closing"} => r = None,
             x \in {"created", "wait"} => r # None
      PROVE  LineInv'
  <2>1. /\ place'[t] = x /\ \A u \in Task : u # t => place'[u] = place[u]
        /\ right'[t] = r /\ right' \in [Task -> Windowless \cup {None}]
        /\ \A u \in Task : u # t => right'[u] = right[u]
    BY <1>2 DEF IInv, OwnInv, LineInv
  <2> QED
    BY <1>2, <2>1 DEF LineInv
<1>3. ASSUME NEW t \in Task, NEW x, place' = [place EXCEPT ![t] = x], UNCHANGED right,
             own' = own, x \in {"none", "new"} => own[t] = None,
             x \in {"none", "new", "made", "mapped", "shell", "closing"} => right[t] = None,
             x \in {"created", "wait"} => right[t] # None
      PROVE  LineInv'
  <2>1. right' = [right EXCEPT ![t] = right[t]] /\ right[t] \in Windowless \cup {None}
    BY <1>3 DEF LineInv
  <2> QED
    BY <1>2, <1>3, <2>1
<1>4. \A t \in Terminal : t \in Task
  BY DEF Task
<1>5. CASE \E id \in layers, region \in {"TitleBar", "CloseButton", "Other"} : Press(id, region)
  BY <1>1, <1>5 DEF Press
<1>6. CASE Release \/ ShowClock \/ UNCHANGED vars
  BY <1>1, <1>6 DEF Release, ShowClock, vars
<1>7. ASSUME NEW t \in Task, Moves(t)
      PROVE  LineInv'
  <2>1. CASE NewTerminal(t)
    BY <1>3, <2>1 DEF NewTerminal, LineInv
  <2>2. CASE MapWindow(t)
    BY <1>3, <2>2 DEF MapWindow, LineInv
  <2>3. CASE MapRight(t)
    BY <1>3, <2>3 DEF MapRight
  <2>4. CASE OtherCommand(t)
    <3>1. /\ place' = [place EXCEPT ![t] = AfterCommand(t)] /\ UNCHANGED <<own, right>>
      BY <2>4 DEF OtherCommand
    <3>2. /\ AfterCommand(t) = "wait" <=> right[t] # None
          /\ AfterCommand(t) \in {"wait", "shell", "finish"}
      BY DEF AfterCommand
    <3> HIDE DEF AfterCommand
    <3> QED
      BY <1>3, <3>1, <3>2
  <2>5. CASE EndPipe(t)
    <3>1. PICK x \in {"shell", "finish"} :
            place' = [place EXCEPT ![t] = x] /\ right' = [right EXCEPT ![t] = None] /\ own' = own
      BY <2>5 DEF EndPipe
    <3> QED
      BY <1>2, <3>1
  <2>6. CASE ExecuteFile(t)
    BY <1>3, <2>6 DEF ExecuteFile
  <2>7. CASE ExitCommand(t)
    BY <1>3, <2>7 DEF ExitCommand
  <2>8. CASE Finish(t)
    BY <1>3, <2>8 DEF Finish
  <2> QED
    BY <1>7, <2>1, <2>2, <2>3, <2>4, <2>5, <2>6, <2>7, <2>8 DEF Moves
<1>8. ASSUME NEW t \in Task, OpenWindow(t) \/ Exit(t)
      PROVE  LineInv'
  <2>1. CASE OpenWindow(t)
    BY <1>1, <2>1 DEF OpenWindow
  <2>2. CASE Exit(t)
    <3>1. place' = [place EXCEPT ![t] = AfterCommand(t)] /\ UNCHANGED <<own, right>>
      BY <2>2 DEF Exit
    <3>2. /\ AfterCommand(t) = "wait" <=> right[t] # None
          /\ AfterCommand(t) \in {"wait", "shell", "finish"}
      BY DEF AfterCommand
    <3> HIDE DEF AfterCommand
    <3> QED
      BY <1>3, <3>1, <3>2
  <2> QED
    BY <1>8, <2>1, <2>2
<1>9. ASSUME NEW t \in Task, NEW id \in windows[t], CloseWindow(t, id)
      PROVE  LineInv'
  BY <1>1, <1>9 DEF CloseWindow
<1>10. ASSUME NEW t \in Task, NEW s \in Windowless, Starts(t, s)
       PROVE  LineInv'
  <2>1. /\ own' = own /\ s \in Task /\ s # t /\ place'[s] = "line"
        /\ \A u \in Task : u # t /\ u # s => place'[u] = place[u]
    BY <1>10, StartsAre
  <2>2. right[t] \in Windowless \cup {None} /\ s # None
    BY <2>1, TaskAssumption DEF LineInv
  <2>3. PICK r \in Windowless \cup {None} :
          /\ right' = [right EXCEPT ![t] = r]
          /\ place'[t] = "shell" => r = None
          /\ place'[t] \in {"created", "wait"} => r # None
          /\ place'[t] \in {"created", "wait", "shell", "finish"}
    <3>1. CASE CreateRight(t, s)
      <4>1. place' = [place EXCEPT ![t] = "created", ![s] = "line"] /\ right' = [right EXCEPT ![t] = s]
        BY <3>1 DEF CreateRight
      <4>2. place'[t] = "created"
        BY <2>1, <4>1 DEF IInv, OwnInv
      <4> QED
        BY <2>2, <4>1, <4>2
    <3>2. CASE StartCommand(t, s)
      <4>1. place' = [place EXCEPT ![t] = AfterCommand(t), ![s] = "line"] /\ right' = right
        BY <3>2 DEF StartCommand
      <4>2. place'[t] = AfterCommand(t)
        BY <2>1, <4>1 DEF IInv, OwnInv
      <4>3. right' = [right EXCEPT ![t] = right[t]]
        BY <4>1 DEF LineInv
      <4>4. /\ AfterCommand(t) = "wait" <=> right[t] # None
            /\ AfterCommand(t) \in {"wait", "shell", "finish"}
        BY DEF AfterCommand
      <4> QED
        BY <2>2, <4>2, <4>3, <4>4
    <3> QED
      BY <1>10, <3>1, <3>2 DEF Starts
  <2>4. /\ right'[t] = r /\ right' \in [Task -> Windowless \cup {None}]
        /\ \A u \in Task : u # t => right'[u] = right[u]
    BY <2>3 DEF LineInv
  <2> QED
    BY <2>1, <2>3, <2>4 DEF LineInv
<1>11. ASSUME NEW t \in Terminal, MakeWindow(t) \/ ShowWindow(t)
       PROVE  LineInv'
  <2>1. CASE MakeWindow(t)
    <3>1. /\ place' = [place EXCEPT ![t] = "made"] /\ place[t] = "new" /\ right' = right
          /\ \E id \in 1 .. MaxLayer : own' = [own EXCEPT ![t] = id]
      BY <2>1 DEF MakeWindow
    <3>2. /\ \A u \in Task : u # t => own'[u] = own[u] /\ place'[u] = place[u]
          /\ place'[t] = "made" /\ t \notin Windowless
      BY <1>4, <3>1, TaskAssumption DEF IInv, OwnInv
    <3>3. right[t] = None
      BY <1>4, <3>1 DEF LineInv
    <3> QED
      BY <3>1, <3>2, <3>3 DEF LineInv, Task
  <2>2. CASE ShowWindow(t)
    BY <1>3, <1>4, <2>2 DEF ShowWindow, LineInv
  <2> QED
    BY <1>11, <2>1, <2>2
<1>12. ASSUME NEW t \in Terminal,
              \/ CloseWindowAndFinish(t) \/ ExitCommand(t)
              \/ NoteActive(t) \/ TakeClose(t) \/ Finish(t) \/ ReadEvent(t)
       PROVE  LineInv'
  <2>1. CASE NoteActive(t) \/ ReadEvent(t)
    BY <1>1, <2>1 DEF NoteActive, ReadEvent
  <2>2. CASE CloseWindowAndFinish(t) \/ ExitCommand(t)
    BY <1>3, <1>4, <2>2 DEF CloseWindowAndFinish, ExitCommand
  <2>3. CASE TakeClose(t)
    BY <1>3, <1>4, <2>3 DEF TakeClose, LineInv
  <2>4. CASE Finish(t)
    BY <1>3, <1>4, <2>4 DEF Finish
  <2> QED
    BY <1>12, <2>1, <2>2, <2>3, <2>4
<1> QED
  BY <1>5, <1>6, <1>7, <1>8, <1>9, <1>10, <1>11, <1>12, Steps

(* The window of a terminal belongs to it or to a task without a window.   *)
LEMMA DeputyIs ==
  ASSUME LineInv, NEW t \in Task
  PROVE  /\ Deputy(t) = t \/ (Deputy(t) = right[t] /\ Deputy(t) \in Windowless)
         /\ place[t] \in {"none", "new", "made", "mapped", "shell", "closing"} => Deputy(t) = t
BY DEF LineInv, Deputy

(* The queues.                                                             *)
LEMMA SentFor ==
  ASSUME NEW C, NEW q \in [Terminal -> Seq(Message(Shown))],
         \A u \in Terminal : q[u] \in Seq(Message(C[u])),
         NEW id, NEW m,
         id \in DOMAIN task_map \ {None} /\ task_map[id] \in Terminal => m \in Message(C[task_map[id]])
  PROVE  \A u \in Terminal : Sent(q, id, m)[u] \in Seq(Message(C[u]))
<1>1. CASE id \in DOMAIN task_map \ {None} /\ task_map[id] \in Terminal /\ place[task_map[id]] # "gone"
  <2> DEFINE v == task_map[id]
  <2>1. Sent(q, id, m) = [q EXCEPT ![v] = Append(@, m)]
    BY <1>1 DEF Sent
  <2>2. v \in Terminal /\ q[v] \in Seq(Message(C[v])) /\ m \in Message(C[v])
    BY <1>1
  <2> HIDE DEF v
  <2>3. Append(q[v], m) \in Seq(Message(C[v]))
    BY <2>2, AppendIs
  <2> QED
    BY <2>1, <2>2, <2>3
<1>2. CASE ~(id \in DOMAIN task_map \ {None} /\ task_map[id] \in Terminal /\ place[task_map[id]] # "gone")
  BY <1>2 DEF Sent
<1> QED
  BY <1>1, <1>2

LEMMA NotifiedFor ==
  ASSUME NEW C, msgs \in [Terminal -> Seq(Message(Shown))],
         \A u \in Terminal : msgs[u] \in Seq(Message(C[u])), NEW id
  PROVE  \A u \in Terminal : Notified(id)[u] \in Seq(Message(C[u]))
<1>1. \A S : IsActive(TRUE) \in Message(S) /\ IsActive(FALSE) \in Message(S)
  BY DEF IsActive, Message
<1> DEFINE r == Sent(msgs, active, IsActive(FALSE))
           z == Sent(r, id, IsActive(TRUE))
<1>2. r \in [Terminal -> Seq(Message(Shown))] /\ \A u \in Terminal : r[u] \in Seq(Message(C[u]))
  BY <1>1, SentIs, SentFor
<1> HIDE DEF r
<1>3. \A u \in Terminal : z[u] \in Seq(Message(C[u]))
  BY <1>1, <1>2, SentFor
<1>4. Notified(id) \in {msgs, z}
  BY DEF Notified, r
<1> QED
  BY <1>3, <1>4

LEMMA SeqMore ==
  ASSUME NEW S, NEW T, S \subseteq T, NEW s \in Seq(Message(S))
  PROVE  s \in Seq(Message(T))
<1>1. Message(S) \subseteq Message(T)
  BY DEF Message
<1>2. PICK L : L = Message(S)
  OBVIOUS
<1>3. PICK M : M = Message(T)
  OBVIOUS
<1>4. s \in Seq(L) /\ L \subseteq M
  BY <1>1, <1>2, <1>3
<1>5. s \in Seq(M)
  BY <1>4
<1> QED
  BY <1>3, <1>5

(* More windows may be named.                                              *)
LEMMA ClosableMore ==
  ASSUME CloseInv, Shown \subseteq Shown',
         \A u, v \in Task : own'[v] # own[v] => own'[v] \notin Shown
  PROVE  \A u \in Terminal : msgs[u] \in Seq(Message(Closable(u)'))
<1>1. \A u : Closable(u) \subseteq Closable(u)'
  BY DEF Closable
<1> QED
  BY <1>1, SeqMore DEF CloseInv

(* The window of a terminal is there for its sake.                         *)
LEMMA OwnCares ==
  ASSUME MapInv, NEW t \in Task, own[t] \in Mapped
  PROVE  Cares(t, own[t])
BY DEF MapInv, Cares

(* A step of task t, which changes what the map says of its own window or  *)
(* takes entries away that are no other's window.                          *)
LEMMA MapStep ==
  ASSUME IInv, LineInv, MapInv, NEW t \in Task, own' = own, disowned \subseteq disowned',
         \A u \in Task \ {t} :
           /\ place'[u] = place[u] \/ (u \in Windowless /\ place[u] = "none")
           /\ windows'[u] = windows[u] /\ right'[u] = right[u],
         Mapped' \subseteq layers',
         \A l \in Mapped' : l # own[t] => l \in Mapped /\ task_map'[l] = task_map[l],
         \A u \in Terminal \ {t} : own[u] \in Mapped => own[u] \in Mapped',
         \A l \in Mapped' : l # own[t] /\ Cares(t, l) => Cares(t, l)',
         own[t] \in Mapped' => Cares(t, own[t])',
         t \in Terminal /\ place'[t] \in Owning => HasWindow(t)'
  PROVE  MapInv'
<1>1. ASSUME NEW l \in Mapped'
      PROVE  \E u \in Task : Cares(u, l)'
  <2>1. CASE l = own[t]
    BY <2>1, <1>1
  <2>2. CASE l # own[t]
    <3>1. l \in Mapped /\ task_map'[l] = task_map[l] /\ l # None
      BY <2>2, <1>1 DEF Mapped
    <3>2. PICK u \in Task : Cares(u, l)
      BY <3>1 DEF MapInv
    <3>3. CASE u = t
      BY <2>2, <3>2, <3>3, <1>1
    <3>4. CASE u # t
      <4>1. l = own[u] \/ place[u] = "app" => place'[u] = place[u]
        BY <3>1, <3>4 DEF LineInv
      <4>2. Cares(u, l)'
        BY <3>1, <3>2, <3>4, <4>1 DEF Cares
      <4> QED
        BY <4>2
    <3> QED
      BY <3>3, <3>4
  <2> QED
    BY <2>1, <2>2
<1>2. ASSUME NEW u \in Terminal, place'[u] \in Owning
      PROVE  HasWindow(u)'
  <2>1. CASE u = t
    BY <2>1, <1>2
  <2>2. CASE u # t
    <3>1. u \in Task /\ u \notin Windowless
      BY TaskAssumption DEF Task
    <3>2. place'[u] = place[u] /\ right'[u] = right[u]
      BY <2>2, <3>1
    <3>3. own[u] \in Mapped /\ task_map[own[u]] = Deputy(u)
      BY <1>2, <3>2 DEF MapInv, HasWindow
    <3>4. own[u] # own[t]
      <4>1. own[u] # None
        BY <3>3 DEF Mapped
      <4> QED
        BY <2>2, <3>1, <4>1 DEF IInv, OwnInv
    <3>5. own[u] \in Mapped' /\ task_map'[own[u]] = task_map[own[u]]
      BY <2>2, <3>3, <3>4
    <3>6. Deputy(u)' = Deputy(u)
      BY <3>2 DEF Deputy
    <3> QED
      BY <3>3, <3>5, <3>6 DEF HasWindow
  <2> QED
    BY <2>1, <2>2
<1> QED
  BY <1>1, <1>2 DEF MapInv

(* Steps that leave the map, and whose the windows are, alone.             *)
LEMMA SameMap ==
  ASSUME MapInv, UNCHANGED <<task_map, own, place, right, windows, disowned>>, layers \subseteq layers'
  PROVE  MapInv'
<1>1. \A t \in Task, l \in Mapped : Cares(t, l)' <=> Cares(t, l)
  BY DEF Cares
<1>2. Mapped' = Mapped /\ \A t \in Terminal : HasWindow(t)' <=> HasWindow(t)
  BY DEF Mapped, HasWindow, Deputy
<1> QED
  BY <1>1, <1>2 DEF MapInv

(* Requests stay where they may be.                                        *)
LEMMA CloseStep ==
  ASSUME IInv, CloseInv, own' = own, Shown' = Shown,
         \A u \in Task : windows'[u] \subseteq windows[u],
         \A u \in Terminal : msgs'[u] \in Seq(Message(Closable(u))),
         Longer(msgs, msgs'), disowned \subseteq disowned',
         \A u \in Terminal : place'[u] = "closing" => place[u] = "closing"
  PROVE  CloseInv'
<1>1. \A u : Closable(u)' = Closable(u)
  BY DEF Closable
<1>2. \A u \in Terminal : msgs'[u] \in Seq(Message(Closable(u)'))
  BY <1>1
<1>3. ASSUME NEW u \in Terminal, place'[u] = "closing"
      PROVE  Head(msgs'[u]).layer = own'[u] \/ u \in disowned'
  <2>1. place[u] = "closing" /\ msgs[u] # <<>>
    BY <1>3 DEF IInv, MsgInv
  <2>2. Head(msgs'[u]) = Head(msgs[u])
    BY <2>1 DEF Longer
  <2> QED
    BY <2>1, <2>2 DEF CloseInv
<1> QED
  BY <1>2, <1>3 DEF CloseInv

LEMMA OwnersInit ==
  ASSUME Init
  PROVE  LineInv /\ MapInv /\ CloseInv
<1>1. /\ DOMAIN task_map = {} /\ \A t \in Task : place[t] = "none" /\ windows[t] = {}
      /\ \A t \in Task : own[t] = None /\ right[t] = None
      /\ right \in [Task -> Windowless \cup {None}]
      /\ \A t \in Terminal : msgs[t] = <<>> /\ t \in Task
      /\ \A s \in Windowless : s \in Task
  BY DEF Init, Task
<1>2. \A S : <<>> \in Seq(Message(S))
  OBVIOUS
<1>3. LineInv
  BY <1>1 DEF LineInv
<1>4. MapInv
  BY <1>1 DEF MapInv, Mapped, Owning
<1> QED
  BY <1>1, <1>2, <1>3, <1>4 DEF CloseInv

LEMMA PressOwners ==
  ASSUME OwnersInv, IInv', NEW id \in layers, NEW region \in {"TitleBar", "CloseButton", "Other"},
         Press(id, region)
  PROVE  MapInv' /\ CloseInv'
<1>1. /\ UNCHANGED <<layers, task_map, own, place, right, windows, draggable, disowned>>
      /\ id \in ToSet(stack)
  BY DEF Press
<1>2. MapInv'
  BY <1>1, SameMap DEF OwnersInv
<1>3. Shown' = Shown /\ msgs \in [Terminal -> Seq(Message(Shown))]
  BY <1>1 DEF Shown, Hidden, OwnersInv, IInv, MsgInv
<1> DEFINE C == [u \in Terminal |-> Closable(u)]
<1>4. \A u \in Terminal : msgs[u] \in Seq(Message(C[u]))
  BY DEF OwnersInv, CloseInv
<1>5. \A u \in Terminal : Notified(id)[u] \in Seq(Message(C[u]))
  BY <1>3, <1>4, NotifiedFor
<1>6. Longer(msgs, Notified(id)) /\ Notified(id) \in [Terminal -> Seq(Message(Shown))]
  BY <1>3, NotifiedIs
<1>7. CASE id \in draggable
  <2>1. id \in Shown
    BY <1>1, <1>7 DEF OwnersInv, IInv, StackInv, Shown
  <2>2. Close(id) \in Message(Shown)
    BY <2>1 DEF Close, Message
  <2>3. ASSUME id \in DOMAIN task_map \ {None}, task_map[id] \in Terminal
        PROVE  Close(id) \in Message(C[task_map[id]])
    <3>1. PICK u \in Task : Cares(u, id)
      BY <2>3 DEF OwnersInv, MapInv, Mapped
    <3>2. task_map[id] = u /\ u \in Terminal /\ \A v \in Task : own[v] = id => v = u
      <4>1. CASE task_map[id] = u
        BY <2>3, <3>1, <4>1 DEF Cares
      <4>2. CASE id = own[u] /\ place[u] \in Owning
        <5>1. u \in Terminal
          BY <2>3, <4>2 DEF OwnersInv, LineInv, Task
        <5>2. task_map[id] = Deputy(u)
          BY <4>2, <5>1 DEF OwnersInv, MapInv, HasWindow
        <5>3. task_map[id] = u
          BY <2>3, <5>2, DeputyIs, TaskAssumption DEF OwnersInv
        <5> QED
          BY <3>1, <5>1, <5>3 DEF Cares
      <4> QED
        BY <3>1, <4>1, <4>2 DEF Cares
    <3>3. id \in Closable(u)
      BY <2>1, <3>2 DEF Closable
    <3> QED
      BY <3>2, <3>3 DEF Close, Message
  <2> DEFINE r == Sent(Notified(id), id, Close(id))
  <2>4. \A u \in Terminal : r[u] \in Seq(Message(C[u]))
    <3> HIDE DEF C
    <3> QED
      BY <1>5, <1>6, <2>3, SentFor
  <2>5. Longer(Notified(id), r)
    BY <1>6, <2>2, SentIs
  <2>6. msgs' \in {Notified(id), r}
    BY <1>7 DEF Press
  <2> HIDE DEF r
  <2>7. Longer(msgs, r)
    BY <1>6, <2>5 DEF Longer
  <2>8. Longer(msgs, msgs') /\ \A u \in Terminal : msgs'[u] \in Seq(Message(C[u]))
    BY <1>5, <1>6, <2>4, <2>6, <2>7
  <2> QED
    BY <1>1, <1>2, <1>3, <2>8, CloseStep DEF OwnersInv
<1>8. CASE id \notin draggable
  <2>1. msgs' = Notified(None)
    BY <1>8 DEF Press, Activate
  <2>2. /\ \A u \in Terminal : Notified(None)[u] \in Seq(Message(C[u]))
        /\ Longer(msgs, Notified(None))
    BY <1>3, <1>4, NotifiedFor, NotifiedIs
  <2> QED
    BY <1>1, <1>2, <1>3, <2>1, <2>2, CloseStep DEF OwnersInv
<1> QED
  BY <1>7, <1>8

LEMMA QuietOwners ==
  ASSUME OwnersInv, Release \/ ShowClock
  PROVE  MapInv' /\ CloseInv'
<1>1. /\ UNCHANGED <<task_map, own, place, right, windows, draggable, disowned, msgs>>
      /\ layers \subseteq layers'
  BY DEF Release, ShowClock, NewLayer
<1>2. Shown' = Shown /\ Longer(msgs, msgs)
  BY <1>1 DEF Shown, Hidden, Longer
<1> QED
  BY <1>1, <1>2, SameMap, CloseStep DEF OwnersInv, CloseInv

LEMMA MakeWindowOwners ==
  ASSUME OwnersInv, NEW t \in Terminal, MakeWindow(t)
  PROVE  MapInv' /\ CloseInv'
<1>1. PICK id : /\ NewLayer(id) /\ own' = [own EXCEPT ![t] = id]
                /\ draggable' = draggable \cup {id}
  BY DEF MakeWindow
<1>2. /\ place[t] = "new" /\ place' = [place EXCEPT ![t] = "made"]
      /\ UNCHANGED <<task_map, right, windows, disowned, msgs>> /\ t \in Task
  BY DEF MakeWindow, Task
<1>3. /\ layers' = layers \cup {id} /\ id \notin layers /\ id \notin draggable /\ id # None
  BY <1>1 DEF NewLayer, OwnersInv, IInv, LayersInv, None, mouse_layer
<1>4. /\ place'[t] = "made" /\ own'[t] = id
      /\ \A u \in Task \ {t} : own'[u] = own[u] /\ place'[u] = place[u]
  BY <1>1, <1>2 DEF OwnersInv, IInv, OwnInv
<1>5. MapInv'
  <2>1. ASSUME NEW l \in Mapped, NEW u \in Task, Cares(u, l)
        PROVE  Cares(u, l)'
    <3>1. l # id
      BY <1>3 DEF OwnersInv, MapInv
    <3>2. \A v \in Task : own'[v] = l => v = u
      BY <1>4, <2>1, <3>1 DEF Cares
    <3>3. CASE u = t
      <4>1. place[t] \notin Owning /\ place[t] # "app"
        BY <1>2 DEF Owning
      <4> QED
        BY <1>2, <2>1, <3>2, <3>3, <4>1 DEF Cares
    <3>4. CASE u # t
      BY <1>2, <1>4, <2>1, <3>2, <3>4 DEF Cares
    <3> QED
      BY <3>3, <3>4
  <2>2. Mapped' = Mapped
    BY <1>2 DEF Mapped
  <2>3. \A l \in Mapped' : \E u \in Task : Cares(u, l)'
    BY <2>1, <2>2 DEF OwnersInv, MapInv
  <2>4. ASSUME NEW u \in Terminal, place'[u] \in Owning
        PROVE  HasWindow(u)'
    <3>1. u # t /\ u \in Task
      BY <1>4, <2>4 DEF Owning, Task
    <3>2. HasWindow(u) /\ own'[u] = own[u] /\ Deputy(u)' = Deputy(u)
      BY <1>2, <1>4, <2>4, <3>1 DEF OwnersInv, MapInv, Deputy
    <3> QED
      BY <1>2, <2>2, <3>2 DEF HasWindow
  <2> QED
    BY <1>3, <2>2, <2>3, <2>4 DEF OwnersInv, MapInv
<1>6. CloseInv'
  <2>1. Shown \subseteq Shown'
    <3>1. Hidden' \subseteq Hidden \cup {id}
      BY <1>2, <1>4 DEF Hidden
    <3> QED
      BY <1>1, <1>3, <3>1 DEF Shown
  <2>2. \A u \in Terminal : msgs[u] \in Seq(Message(Closable(u)'))
    <3>1. \A u, v \in Task : own'[v] # own[v] => own'[v] \notin Shown
      BY <1>3, <1>4 DEF Shown
    <3> QED
      BY <2>1, <3>1, ClosableMore DEF OwnersInv
  <2>3. \A u, v \in Task : own'[v] \notin windows[u]
    <3>1. \A u \in Task : id \notin windows[u]
      BY <1>3 DEF OwnersInv, IInv, OwnInv, Shown
    <3> QED
      BY <1>4, <3>1 DEF OwnersInv, CloseInv
  <2>4. ASSUME NEW u \in Terminal, place'[u] = "closing"
        PROVE  Head(msgs[u]).layer = own'[u] \/ u \in disowned
    BY <1>4, <2>4 DEF OwnersInv, CloseInv, Task
  <2> QED
    BY <1>2, <2>2, <2>3, <2>4 DEF CloseInv
<1> QED
  BY <1>5, <1>6

LEMMA OpenWindowOwners ==
  ASSUME OwnersInv, IInv', NEW t \in Task, OpenWindow(t)
  PROVE  MapInv' /\ CloseInv'
<1>1. PICK id : /\ NewLayer(id) /\ draggable' = draggable \cup {id} /\ Activate(id)
                /\ task_map' = Map(id, t)
                /\ windows' = [windows EXCEPT ![t] = @ \cup {id}]
  BY DEF OpenWindow
<1>2. place[t] = "app" /\ UNCHANGED <<place, own, right, disowned>>
  BY DEF OpenWindow
<1>3. /\ layers' = layers \cup {id} /\ id \notin layers /\ id \notin draggable /\ id # None
      /\ \A u \in Task : own[u] # id
  BY <1>1 DEF NewLayer, OwnersInv, IInv, LayersInv, OwnInv, None, mouse_layer
<1>4. /\ Mapped' = Mapped \cup {id} /\ task_map'[id] = t
      /\ \A l \in Mapped : l # id /\ task_map'[l] = task_map[l]
  BY <1>1, <1>3 DEF Map, OwnersInv, MapInv, Mapped
<1>5. windows'[t] = windows[t] \cup {id} /\ \A u \in Task \ {t} : windows'[u] = windows[u]
  BY <1>1 DEF OwnersInv, IInv, OwnInv
<1>6. MapInv'
  <2>1. ASSUME NEW l \in Mapped, NEW u \in Task, Cares(u, l)
        PROVE  Cares(u, l)'
    BY <1>2, <1>4, <1>5, <2>1 DEF Cares
  <2>2. Cares(t, id)'
    BY <1>2, <1>3, <1>4, <1>5 DEF Cares
  <2>3. \A l \in Mapped' : \E u \in Task : Cares(u, l)'
    BY <1>4, <2>1, <2>2 DEF OwnersInv, MapInv
  <2>4. Mapped' \subseteq layers'
    BY <1>3, <1>4 DEF OwnersInv, MapInv
  <2>5. ASSUME NEW u \in Terminal, place'[u] \in Owning
        PROVE  HasWindow(u)'
    <3>1. HasWindow(u) /\ Deputy(u)' = Deputy(u)
      BY <1>2, <2>5 DEF OwnersInv, MapInv, Deputy
    <3> QED
      BY <1>2, <1>4, <3>1 DEF HasWindow
  <2> QED
    BY <2>3, <2>4, <2>5 DEF MapInv
<1>7. CloseInv'
  <2>1. Shown \subseteq Shown'
    BY <1>1, <1>2 DEF Shown, Hidden
  <2> DEFINE C == [u \in Terminal |-> Closable(u)']
  <2>2. \A u \in Terminal : msgs[u] \in Seq(Message(C[u]))
    <3>1. \A u \in Terminal : msgs[u] \in Seq(Message(Closable(u)'))
      BY <1>2, <2>1, ClosableMore DEF OwnersInv
    <3> QED
      BY <3>1
  <2>3. msgs \in [Terminal -> Seq(Message(Shown))] /\ msgs' = Notified(id)
    BY <1>1 DEF OwnersInv, IInv, MsgInv, Activate
  <2> HIDE DEF C
  <2>4. (\A u \in Terminal : msgs'[u] \in Seq(Message(C[u]))) /\ Longer(msgs, msgs')
    BY <2>2, <2>3, NotifiedFor, NotifiedIs
  <2>5. \A u \in Terminal : msgs'[u] \in Seq(Message(Closable(u)'))
    BY <2>4 DEF C
  <2>6. \A u, v \in Task : own'[v] \notin windows'[u]
    BY <1>2, <1>3, <1>5 DEF OwnersInv, CloseInv
  <2>7. ASSUME NEW u \in Terminal, place'[u] = "closing"
        PROVE  Head(msgs'[u]).layer = own'[u] \/ u \in disowned'
    <3>1. place[u] = "closing" /\ msgs[u] # <<>>
      BY <1>2, <2>7 DEF OwnersInv, IInv, MsgInv
    <3>2. Head(msgs'[u]) = Head(msgs[u])
      BY <2>4, <3>1 DEF Longer
    <3> QED
      BY <1>2, <3>1, <3>2 DEF OwnersInv, CloseInv
  <2> QED
    BY <2>5, <2>6, <2>7 DEF CloseInv
<1> QED
  BY <1>6, <1>7

(* No other terminal has the window of t.                                  *)
LEMMA OwnAlone ==
  ASSUME IInv, NEW t \in Task, own[t] \in layers
  PROVE  \A u \in Task : own[u] = own[t] => u = t
<1>1. own[t] # None
  BY DEF IInv, LayersInv, None
<1> QED
  BY <1>1 DEF IInv, OwnInv

(* Most steps send nothing.                                                *)
LEMMA SameQueues ==
  ASSUME CloseInv, UNCHANGED <<own, msgs, disowned>>, Shown' = Shown,
         \A u \in Task : windows'[u] \subseteq windows[u],
         \A u \in Terminal : place'[u] = "closing" => place[u] = "closing"
  PROVE  CloseInv'
<1>1. \A u : Closable(u)' = Closable(u)
  BY DEF Closable
<1>2. \A u \in Terminal : msgs'[u] \in Seq(Message(Closable(u)'))
  BY <1>1 DEF CloseInv
<1> QED
  BY <1>2 DEF CloseInv

(* A step that leaves the map alone.                                       *)
LEMMA SameEntries ==
  ASSUME IInv, LineInv, MapInv, NEW t \in Task, UNCHANGED <<own, task_map, layers>>,
         disowned \subseteq disowned',
         \A u \in Task \ {t} :
           /\ place'[u] = place[u] \/ (u \in Windowless /\ place[u] = "none")
           /\ windows'[u] = windows[u] /\ right'[u] = right[u],
         \A l \in Mapped : Cares(t, l) => Cares(t, l)',
         t \in Terminal /\ place'[t] \in Owning => place[t] \in Owning /\ Deputy(t)' = Deputy(t)
  PROVE  MapInv'
<1>1. Mapped' = Mapped /\ Mapped \subseteq layers
  BY DEF Mapped, MapInv
<1>2. own[t] \in Mapped' => Cares(t, own[t])'
  <2>1. own[t] \in Mapped => Cares(t, own[t])
    BY OwnCares
  <2> QED
    BY <1>1, <2>1
<1>3. t \in Terminal /\ place'[t] \in Owning => HasWindow(t)'
  BY <1>1 DEF MapInv, HasWindow
<1> QED
  BY <1>1, <1>2, <1>3, MapStep

(* A step that gives the window of a terminal to itself or to the right    *)
(* side of its line.                                                       *)
LEMMA NewEntry ==
  ASSUME IInv, LineInv, MapInv, NEW t \in Task, NEW w, task_map' = Map(own[t], w),
         UNCHANGED <<own, layers, disowned, windows>>, own[t] \in layers \cup {None},
         \A u \in Task \ {t} : place'[u] = place[u] /\ right'[u] = right[u],
         own[t] # None => place'[t] \in Owning,
         own[t] # None => w = Deputy(t)',
         t \in Terminal => own[t] # None,
         place[t] # "app"
  PROVE  MapInv'
<1>1. /\ Mapped' = Mapped \cup ({own[t]} \ {None}) /\ task_map'[own[t]] = w
      /\ \A l \in Mapped : l # own[t] => task_map'[l] = task_map[l]
  BY DEF Map, Mapped
<1>2. own[t] # None => \A u \in Task : own[u] = own[t] => u = t
  BY DEF IInv, OwnInv
<1>3. own[t] \in Mapped' => Cares(t, own[t])'
  <2>1. ASSUME own[t] \in Mapped'
        PROVE  Cares(t, own[t])'
    <3>1. own[t] # None
      BY <2>1 DEF Mapped
    <3> QED
      BY <1>2, <3>1 DEF Cares
  <2> QED
    BY <2>1
<1>4. ASSUME NEW l \in Mapped', l # own[t], Cares(t, l)
      PROVE  Cares(t, l)'
  <2>1. task_map'[l] = task_map[l]
    BY <1>1, <1>4
  <2> QED
    BY <1>4, <2>1 DEF Cares
<1>5. t \in Terminal /\ place'[t] \in Owning => HasWindow(t)'
  BY <1>1 DEF HasWindow
<1>6. Mapped' \subseteq layers'
  BY <1>1 DEF MapInv
<1>7. /\ \A l \in Mapped' : l # own[t] => l \in Mapped /\ task_map'[l] = task_map[l]
      /\ \A u \in Terminal \ {t} : own[u] \in Mapped => own[u] \in Mapped'
  BY <1>1
<1> QED
  BY <1>3, <1>4, <1>5, <1>6, <1>7, MapStep

LEMMA MovesOwners ==
  ASSUME OwnersInv, LineInv', NEW t \in Task, Moves(t)
  PROVE  MapInv' /\ CloseInv'
<1>1. PICK x \in {"new", "mapped", "line", "shell", "wait", "finish", "gone", "app"} :
        /\ place' = [place EXCEPT ![t] = x]
        /\ x \in {"made", "mapped"} <=> place[t] \in {"made", "mapped"}
        /\ x = "shell" => t \in Terminal
  BY MovesAre
<1>2. UNCHANGED <<layers, draggable, own, windows, msgs, disowned>> /\ place[t] # "app"
  BY MovesAre
<1>3. /\ Hidden' = Hidden
      /\ \A u \in Task : u # t => place'[u] = place[u]
      /\ place'[t] = x
  <2>1. own' = own /\ x \in Places
    BY <1>2 DEF Places
  <2> QED
    BY <1>1, <2>1, SameHidden DEF OwnersInv
<1>4. CloseInv'
  <2>1. Shown' = Shown
    BY <1>2, <1>3 DEF Shown
  <2>2. \A u \in Task : place'[u] = "closing" => place[u] = "closing"
    BY <1>3
  <2> QED
    BY <1>2, <2>1, <2>2, SameQueues DEF OwnersInv, Task
<1>5. MapInv /\ IInv /\ LineInv
  BY DEF OwnersInv
<1>6. \A u \in Task : u # t => right'[u] = right[u]
  BY <1>5 DEF Moves, NewTerminal, MapWindow, MapRight, OtherCommand, EndPipe, ExecuteFile,
              ExitCommand, Finish, LineInv
<1>7. own[t] = None \/ t \in Terminal
  BY <1>5 DEF LineInv, Task
<1>8. CASE \/ NewTerminal(t) \/ OtherCommand(t) \/ ExecuteFile(t)
           \/ t \notin Terminal /\ (ExitCommand(t) \/ Finish(t))
  <2>1. task_map' = task_map /\ right' = right
    BY <1>8 DEF NewTerminal, OtherCommand, ExecuteFile, ExitCommand, Finish
  <2>2. /\ place[t] \in {"none", "line", "shell"} \/ t \notin Terminal
        /\ place[t] = "none" => x \notin Owning
        /\ t \in Terminal /\ place[t] # "none" => x \in Owning
        /\ t \in Terminal => x # "finish" /\ x # "gone"
    <3>1. CASE NewTerminal(t)
      <4>1. place[t] = "none" /\ place' = [place EXCEPT ![t] = "new"]
        BY <3>1 DEF NewTerminal
      <4> QED
        BY <4>1, <1>3, <1>5 DEF IInv, OwnInv, Owning
    <3>2. CASE OtherCommand(t)
      <4>1. place[t] = "line" /\ place' = [place EXCEPT ![t] = AfterCommand(t)]
        BY <3>2 DEF OtherCommand
      <4>2. t \in Terminal => AfterCommand(t) \in {"wait", "shell"}
        BY DEF AfterCommand
      <4> QED
        BY <4>1, <4>2, <1>3, <1>5 DEF IInv, OwnInv, Owning
    <3>3. CASE ExecuteFile(t)
      <4>1. place[t] \in {"line", "shell"} /\ place' = [place EXCEPT ![t] = "app"]
        BY <3>3 DEF ExecuteFile, AtLine
      <4> QED
        BY <4>1, <1>3, <1>5 DEF IInv, OwnInv, Owning
    <3>4. CASE t \notin Terminal /\ (ExitCommand(t) \/ Finish(t))
      BY <3>4 DEF ExitCommand, Finish
    <3> QED
      BY <1>8, <3>1, <3>2, <3>3, <3>4
  <2>3. ASSUME NEW l \in Mapped, Cares(t, l)
        PROVE  Cares(t, l)'
    <3>1. l # None
      BY DEF Mapped
    <3>2. l = own[t] /\ place[t] \in Owning => place'[t] \in Owning
      BY <1>3, <1>7, <2>2, <3>1 DEF Owning
    <3> QED
      BY <1>2, <2>1, <2>3, <3>2 DEF Cares
  <2>4. ASSUME t \in Terminal, place'[t] \in Owning
        PROVE  place[t] \in Owning /\ Deputy(t)' = Deputy(t)
    <3>1. place[t] \in {"line", "shell"} /\ x \notin {"created"} /\ place[t] \in Owning
      BY <1>3, <2>2, <2>4 DEF Owning
    <3> QED
      BY <1>3, <2>1, <3>1 DEF Deputy
  <2>5. /\ \A u \in Task \ {t} :
             /\ place'[u] = place[u] \/ (u \in Windowless /\ place[u] = "none")
             /\ windows'[u] = windows[u] /\ right'[u] = right[u]
        /\ disowned \subseteq disowned'
    BY <1>2, <1>3, <1>6
  <2>6. MapInv'
    BY <1>2, <1>5, <2>1, <2>3, <2>4, <2>5, SameEntries
  <2> QED
    BY <1>4, <2>6
<1>9. CASE MapWindow(t) \/ MapRight(t) \/ EndPipe(t)
  <2>1. PICK w :
          /\ task_map' = Map(own[t], w) /\ w = Deputy(t)'
          /\ place[t] \in {"made", "created", "wait"}
          /\ t \in Terminal => x \in Owning
    <3>1. CASE MapWindow(t)
      <4>1. /\ task_map' = Map(own[t], t) /\ place[t] = "made" /\ right' = right
            /\ place' = [place EXCEPT ![t] = "mapped"]
        BY <3>1 DEF MapWindow
      <4>2. place'[t] = "mapped"
        BY <4>1, <1>5 DEF IInv, OwnInv
      <4>3. right[t] = None /\ Deputy(t)' = t
        BY <4>1, <1>5 DEF LineInv, Deputy
      <4> QED
        BY <4>1, <4>2, <4>3, <1>3 DEF Owning
    <3>2. CASE MapRight(t)
      <4>1. /\ task_map' = Map(own[t], right[t]) /\ place[t] = "created" /\ right' = right
            /\ place' = [place EXCEPT ![t] = "line"]
        BY <3>2 DEF MapRight
      <4>2. place'[t] = "line" /\ right[t] # None
        BY <4>1, <1>5 DEF IInv, OwnInv, LineInv
      <4>3. Deputy(t)' = right[t]
        BY <4>1, <4>2 DEF Deputy
      <4> QED
        BY <4>1, <4>2, <4>3, <1>3 DEF Owning
    <3>3. CASE EndPipe(t)
      <4>1. /\ task_map' = Map(own[t], t) /\ place[t] = "wait"
            /\ right' = [right EXCEPT ![t] = None]
            /\ t \in Terminal => place' = [place EXCEPT ![t] = "shell"]
        BY <3>3 DEF EndPipe
      <4>2. right'[t] = None /\ (t \in Terminal => place'[t] = "shell")
        BY <4>1, <1>5 DEF IInv, OwnInv, LineInv
      <4>3. Deputy(t)' = t
        BY <4>2 DEF Deputy
      <4> QED
        BY <4>1, <4>2, <4>3, <1>3 DEF Owning
    <3> QED
      BY <1>9, <3>1, <3>2, <3>3
  <2>2. own[t] \in layers \cup {None} /\ (t \in Terminal => own[t] # None)
    <3>1. CASE place[t] = "made"
      <4>1. own[t] \in layers
        BY <1>5, <3>1 DEF IInv, OwnInv, Hidden
      <4>2. own[t] # None
        BY <1>5, <4>1 DEF IInv, LayersInv, None
      <4> QED
        BY <4>1, <4>2
    <3>2. CASE place[t] \in {"created", "wait"} /\ t \in Terminal
      BY <1>5, <3>2 DEF MapInv, HasWindow, Mapped, Owning
    <3>3. CASE t \notin Terminal
      BY <1>7, <3>3
    <3> QED
      BY <2>1, <3>1, <3>2, <3>3
  <2>3. /\ \A u \in Task \ {t} : place'[u] = place[u] /\ right'[u] = right[u]
        /\ own[t] # None => place'[t] \in Owning
    BY <1>3, <1>6, <1>7, <2>1
  <2>4. MapInv'
    BY <1>2, <1>5, <2>1, <2>2, <2>3, NewEntry
  <2> QED
    BY <1>4, <2>4
<1> QED
  BY <1>8, <1>9 DEF Moves

LEMMA StartsOwners ==
  ASSUME OwnersInv, NEW t \in Task, NEW s \in Windowless, Starts(t, s)
  PROVE  MapInv' /\ CloseInv'
<1>1. /\ UNCHANGED <<layers, draggable, own, windows, msgs, task_map, disowned>>
      /\ s \in Task /\ s # t /\ place[s] = "none" /\ place'[s] = "line"
      /\ place[t] \in {"line", "shell"} /\ place'[t] \in {"created", "wait", "shell", "finish"}
      /\ \A u \in Task : u # t /\ u # s => place'[u] = place[u]
      /\ Hidden' = Hidden
  BY StartsAre DEF OwnersInv
<1>2. MapInv /\ IInv /\ LineInv
  BY DEF OwnersInv
<1>3. CloseInv'
  <2>1. Shown' = Shown
    BY <1>1 DEF Shown
  <2>2. \A u \in Task : place'[u] = "closing" => place[u] = "closing"
    BY <1>1
  <2> QED
    BY <1>1, <2>1, <2>2, SameQueues DEF OwnersInv, Task
<1>4. /\ \A u \in Task : u # t => right'[u] = right[u]
      /\ Deputy(t)' = Deputy(t)
      /\ t \in Terminal => place'[t] # "finish"
  <2>1. CASE CreateRight(t, s)
    <3>1. /\ right[t] = None /\ right' = [right EXCEPT ![t] = s]
          /\ place' = [place EXCEPT ![t] = "created", ![s] = "line"]
      BY <2>1 DEF CreateRight
    <3>2. place'[t] = "created"
      BY <1>1, <1>2, <3>1 DEF IInv, OwnInv
    <3> QED
      BY <1>2, <3>1, <3>2 DEF Deputy, LineInv
  <2>2. CASE StartCommand(t, s)
    <3>1. /\ right' = right /\ place' = [place EXCEPT ![t] = AfterCommand(t), ![s] = "line"]
      BY <2>2 DEF StartCommand
    <3>2. place'[t] = AfterCommand(t)
      BY <1>1, <1>2, <3>1 DEF IInv, OwnInv
    <3>3. AfterCommand(t) # "created" /\ (t \in Terminal => AfterCommand(t) # "finish")
      BY DEF AfterCommand
    <3> QED
      BY <1>1, <3>1, <3>2, <3>3 DEF Deputy
  <2> QED
    BY <2>1, <2>2 DEF Starts
<1>5. own[t] = None \/ t \in Terminal
  BY <1>2 DEF LineInv, Task
<1>6. ASSUME NEW l \in Mapped, Cares(t, l)
      PROVE  Cares(t, l)'
  <2>1. l # None
    BY DEF Mapped
  <2>2. l = own[t] => place'[t] \in Owning
    BY <1>1, <1>4, <1>5, <2>1 DEF Owning
  <2> QED
    BY <1>1, <1>6, <2>2 DEF Cares
<1>7. place[t] \in Owning
  BY <1>1 DEF Owning
<1>8. /\ \A u \in Task \ {t} :
           /\ place'[u] = place[u] \/ (u \in Windowless /\ place[u] = "none")
           /\ windows'[u] = windows[u] /\ right'[u] = right[u]
      /\ disowned \subseteq disowned'
  BY <1>1, <1>4
<1>9. MapInv'
  BY <1>1, <1>2, <1>4, <1>6, <1>7, <1>8, SameEntries
<1> QED
  BY <1>3, <1>9

LEMMA ShowWindowOwners ==
  ASSUME OwnersInv, NEW t \in Terminal, ShowWindow(t)
  PROVE  MapInv' /\ CloseInv'
<1>1. /\ place[t] = "mapped" /\ place' = [place EXCEPT ![t] = "shell"]
      /\ UNCHANGED <<layers, draggable, own, right, windows, disowned, task_map>> /\ t \in Task
      /\ msgs' = Notified(own[t])
  BY DEF ShowWindow, Activate, Task
<1>2. IInv /\ LineInv /\ MapInv /\ CloseInv
  BY DEF OwnersInv
<1>3. place'[t] = "shell" /\ \A u \in Task \ {t} : place'[u] = place[u]
  BY <1>1, <1>2 DEF IInv, OwnInv
<1>4. MapInv'
  <2>1. ASSUME NEW l \in Mapped, Cares(t, l)
        PROVE  Cares(t, l)'
    BY <1>1, <1>3, <2>1 DEF Cares, Owning
  <2>2. place[t] \in Owning /\ Deputy(t)' = Deputy(t)
    BY <1>1, <1>3 DEF Deputy, Owning
  <2>3. /\ \A u \in Task \ {t} :
             /\ place'[u] = place[u] \/ (u \in Windowless /\ place[u] = "none")
             /\ windows'[u] = windows[u] /\ right'[u] = right[u]
        /\ disowned \subseteq disowned'
    BY <1>1, <1>3
  <2> QED
    BY <1>1, <1>2, <2>1, <2>2, <2>3, SameEntries
<1>5. CloseInv'
  <2>1. Shown \subseteq Shown'
    BY <1>1, <1>3 DEF Shown, Hidden
  <2> DEFINE C == [u \in Terminal |-> Closable(u)']
  <2>2. \A u \in Terminal : msgs[u] \in Seq(Message(C[u]))
    <3>1. \A u \in Terminal : msgs[u] \in Seq(Message(Closable(u)'))
      BY <1>1, <1>2, <2>1, ClosableMore
    <3> QED
      BY <3>1
  <2>3. msgs \in [Terminal -> Seq(Message(Shown))]
    BY <1>2 DEF IInv, MsgInv
  <2> HIDE DEF C
  <2>4. (\A u \in Terminal : msgs'[u] \in Seq(Message(C[u]))) /\ Longer(msgs, msgs')
    BY <1>1, <2>2, <2>3, NotifiedFor, NotifiedIs
  <2>5. \A u \in Terminal : msgs'[u] \in Seq(Message(Closable(u)'))
    BY <2>4 DEF C
  <2>6. ASSUME NEW u \in Terminal, place'[u] = "closing"
        PROVE  Head(msgs'[u]).layer = own'[u] \/ u \in disowned'
    <3>1. place[u] = "closing" /\ msgs[u] # <<>>
      BY <1>2, <1>3, <2>6 DEF IInv, MsgInv, Task
    <3>2. Head(msgs'[u]) = Head(msgs[u])
      BY <2>4, <3>1 DEF Longer
    <3> QED
      BY <1>1, <1>2, <3>1, <3>2 DEF CloseInv
  <2> QED
    BY <1>1, <1>2, <2>5, <2>6 DEF CloseInv
<1> QED
  BY <1>4, <1>5

LEMMA TailFor ==
  ASSUME NEW S, NEW s \in Seq(Message(S)), s # <<>>
  PROVE  /\ Head(s) \in Message(S) /\ Tail(s) \in Seq(Message(S))
         /\ <<Head(s)>> \in Seq(Message(S))
<1>1. PICK M : M = Message(S)
  OBVIOUS
<1>2. s \in Seq(M)
  BY <1>1
<1>3. Head(s) \in M /\ Tail(s) \in Seq(M) /\ <<Head(s)>> \in Seq(M)
  BY <1>2
<1> QED
  BY <1>1, <1>3

(* The steps that take messages.                                           *)
LEMMA TakesOwners ==
  ASSUME OwnersInv, IInv', NEW t \in Terminal,
         NoteActive(t) \/ TakeClose(t) \/ Finish(t) \/ ReadEvent(t)
  PROVE  MapInv' /\ CloseInv'
<1>1. UNCHANGED <<layers, draggable, own, right, windows, task_map>> /\ t \in Task
  BY DEF NoteActive, TakeClose, Finish, ReadEvent, Task
<1>2. IInv /\ LineInv /\ MapInv /\ CloseInv
  BY DEF OwnersInv
<1>3. msgs \in [Terminal -> Seq(Message(Shown))] /\ place \in [Task -> Places]
  BY <1>2 DEF IInv, MsgInv, OwnInv
<1>4. msgs[t] \in Seq(Message(Closable(t)))
  BY <1>2 DEF CloseInv
<1>5. PICK q \in Seq(Message(Closable(t))) :
        /\ msgs' = [msgs EXCEPT ![t] = q]
        /\ TakeClose(t) => msgs[t] # <<>> /\ q = <<Head(msgs[t])>>
  <2>1. CASE NoteActive(t) \/ ReadEvent(t)
    <3>1. msgs[t] # <<>> /\ msgs' = [msgs EXCEPT ![t] = Tail(@)] /\ ~TakeClose(t)
      BY <2>1 DEF NoteActive, ReadEvent, TakeClose
    <3> QED
      BY <1>4, <3>1, TailFor
  <2>2. CASE TakeClose(t)
    <3>1. msgs[t] # <<>> /\ msgs' = [msgs EXCEPT ![t] = <<Head(@)>>]
      BY <2>2 DEF TakeClose
    <3> QED
      BY <1>4, <3>1, TailFor
  <2>3. CASE Finish(t)
    <3>1. msgs' = [msgs EXCEPT ![t] = <<>>] /\ ~TakeClose(t)
      BY <2>3 DEF Finish, TakeClose
    <3>2. <<>> \in Seq(Message(Closable(t)))
      OBVIOUS
    <3> QED
      BY <3>1, <3>2
  <2> QED
    BY <2>1, <2>2, <2>3
<1>6. PICK x \in Places :
        /\ place' = [place EXCEPT ![t] = x]
        /\ x \in {"made", "mapped"} <=> place[t] \in {"made", "mapped"}
        /\ \/ x = place[t] /\ x \in {"shell", "app"} /\ disowned' = disowned
           \/ /\ x = "closing" /\ place[t] = "shell" /\ TakeClose(t)
              /\ disowned' = IF Head(msgs[t]).layer = own[t] THEN disowned ELSE disowned \cup {t}
           \/ x = "gone" /\ place[t] = "finish" /\ disowned' = disowned
  <2>1. CASE NoteActive(t) \/ ReadEvent(t)
    <3>1. place' = place /\ place[t] \in {"shell", "app"} /\ disowned' = disowned
      BY <2>1 DEF NoteActive, ReadEvent
    <3>2. place' = [place EXCEPT ![t] = place[t]] /\ place[t] \in Places
      BY <1>1, <1>3, <3>1
    <3> QED
      BY <3>1, <3>2
  <2>2. CASE TakeClose(t)
    BY <2>2 DEF TakeClose, Places
  <2>3. CASE Finish(t)
    BY <2>3 DEF Finish, Places
  <2> QED
    BY <2>1, <2>2, <2>3
<1>7. /\ Hidden' = Hidden /\ place'[t] = x
      /\ \A u \in Task \ {t} : place'[u] = place[u]
  BY <1>1, <1>2, <1>6, SameHidden
<1>8. Shown' = Shown
  BY <1>1, <1>7 DEF Shown
<1>9. disowned \subseteq disowned'
  BY <1>6
<1>10. MapInv'
  <2>1. ASSUME NEW l \in Mapped, Cares(t, l)
        PROVE  Cares(t, l)'
    <3>1. CASE x = place[t]
      BY <1>1, <1>7, <1>9, <2>1, <3>1 DEF Cares
    <3>2. CASE x = "closing" /\ place[t] = "shell"
      BY <1>1, <1>7, <1>9, <2>1, <3>2 DEF Cares, Owning
    <3>3. CASE x = "gone" /\ place[t] = "finish"
      BY <1>1, <1>7, <1>9, <2>1, <3>3 DEF Cares, Owning
    <3> QED
      BY <1>6, <3>1, <3>2, <3>3
  <2>2. place'[t] \in Owning => place[t] \in Owning /\ Deputy(t)' = Deputy(t)
    BY <1>1, <1>6, <1>7 DEF Owning, Deputy
  <2>3. \A u \in Task \ {t} :
          /\ place'[u] = place[u] \/ (u \in Windowless /\ place[u] = "none")
          /\ windows'[u] = windows[u] /\ right'[u] = right[u]
    BY <1>1, <1>7
  <2> QED
    BY <1>1, <1>2, <1>9, <2>1, <2>2, <2>3, SameEntries
<1>11. CloseInv'
  <2>1. \A u : Closable(u)' = Closable(u)
    BY <1>1, <1>8 DEF Closable
  <2>2. ASSUME NEW u \in Terminal
        PROVE  msgs'[u] \in Seq(Message(Closable(u)'))
    <3>1. CASE u = t
      BY <1>3, <1>5, <2>1, <3>1
    <3>2. CASE u # t
      <4>1. msgs'[u] = msgs[u]
        BY <1>3, <1>5, <3>2
      <4> QED
        BY <1>2, <2>1, <4>1 DEF CloseInv
    <3> QED
      BY <3>1, <3>2
  <2>3. ASSUME NEW u \in Terminal, place'[u] = "closing"
        PROVE  Head(msgs'[u]).layer = own'[u] \/ u \in disowned'
    <3>1. CASE u = t
      <4>1. TakeClose(t)
        BY <1>6, <1>7, <2>3, <3>1
      <4>2. disowned' = IF Head(msgs[t]).layer = own[t] THEN disowned ELSE disowned \cup {t}
        BY <4>1 DEF TakeClose
      <4>3. msgs'[t] = <<Head(msgs[t])>>
        BY <1>3, <1>5, <4>1
      <4>4. Head(msgs'[t]) = Head(msgs[t])
        BY <4>3
      <4> QED
        BY <1>1, <3>1, <4>2, <4>4
    <3>2. CASE u # t
      <4>1. place[u] = "closing" /\ msgs'[u] = msgs[u]
        BY <1>3, <1>5, <1>7, <2>3, <3>2 DEF Task
      <4> QED
        BY <1>1, <1>2, <1>9, <4>1 DEF CloseInv
    <3> QED
      BY <3>1, <3>2
  <2>4. \A u, v \in Task : own'[v] \notin windows'[u]
    BY <1>1, <1>2 DEF CloseInv
  <2> QED
    BY <2>2, <2>3, <2>4 DEF CloseInv
<1> QED
  BY <1>10, <1>11

LEMMA Unmapping ==
  ASSUME MapInv, NEW id, CloseLayer(id)
  PROVE  /\ Mapped' = Mapped \ {id}
         /\ \A l \in Mapped' : task_map'[l] = task_map[l]
         /\ Mapped' \subseteq layers'
         /\ msgs' \in {msgs, Notified(None)}
BY DEF CloseLayer, Unmap, MapInv, Mapped

(* Closing a layer that no other terminal has.                             *)
LEMMA ClosingOwners ==
  ASSUME OwnersInv, NEW id, CloseLayer(id), own' = own, Shown' = Shown,
         \A u \in Task : windows'[u] \subseteq windows[u],
         disowned' = disowned,
         \A u \in Terminal : place'[u] = "closing" => place[u] = "closing"
  PROVE  CloseInv'
<1>1. IInv /\ CloseInv /\ MapInv /\ msgs \in [Terminal -> Seq(Message(Shown))]
  BY DEF OwnersInv, IInv, MsgInv
<1> DEFINE C == [u \in Terminal |-> Closable(u)]
<1>2. \A u \in Terminal : msgs[u] \in Seq(Message(C[u]))
  BY <1>1 DEF CloseInv
<1>3. \A u \in Terminal : Notified(None)[u] \in Seq(Message(C[u]))
  BY <1>1, <1>2, NotifiedFor
<1>4. Longer(msgs, Notified(None)) /\ Longer(msgs, msgs)
  BY <1>1, NotifiedIs DEF Longer
<1>5. msgs' \in {msgs, Notified(None)}
  BY <1>1, Unmapping
<1>6. Longer(msgs, msgs') /\ \A u \in Terminal : msgs'[u] \in Seq(Message(Closable(u)))
  BY <1>2, <1>3, <1>4, <1>5
<1> QED
  BY <1>1, <1>6, CloseStep

LEMMA CloseWindowOwners ==
  ASSUME OwnersInv, NEW t \in Task, NEW id \in windows[t], CloseWindow(t, id)
  PROVE  MapInv' /\ CloseInv'
<1>1. /\ UNCHANGED <<draggable, place, own, right, disowned>> /\ CloseLayer(id) /\ place[t] = "app"
      /\ windows' = [windows EXCEPT ![t] = @ \ {id}]
  BY DEF CloseWindow
<1>2. IInv /\ LineInv /\ MapInv /\ CloseInv /\ \A u \in Task : own[u] # id
  BY DEF OwnersInv, CloseInv
<1>3. Shown' = Shown
  BY <1>1 DEF Shown, Hidden
<1>4. windows'[t] = windows[t] \ {id} /\ \A u \in Task \ {t} : windows'[u] = windows[u]
  BY <1>1, <1>2 DEF IInv, OwnInv
<1>5. CloseInv'
  <2>1. \A u \in Task : windows'[u] \subseteq windows[u]
    BY <1>4
  <2> QED
    BY <1>1, <1>3, <2>1, ClosingOwners DEF Task
<1>6. MapInv'
  <2>1. /\ Mapped' = Mapped \ {id}
        /\ \A l \in Mapped' : task_map'[l] = task_map[l]
        /\ Mapped' \subseteq layers'
    BY <1>1, <1>2, Unmapping
  <2>2. ASSUME NEW l \in Mapped', Cares(t, l)
        PROVE  Cares(t, l)'
    BY <1>1, <1>4, <2>1, <2>2 DEF Cares
  <2>3. own[t] \in Mapped' => Cares(t, own[t])'
    <3>1. own[t] \in Mapped => Cares(t, own[t])
      BY <1>2, OwnCares
    <3> QED
      BY <1>1, <2>1, <2>2, <3>1
  <2>4. t \in Terminal /\ place'[t] \in Owning => HasWindow(t)'
    <3>1. Deputy(t)' = Deputy(t) /\ own'[t] = own[t] /\ place'[t] = place[t]
      BY <1>1 DEF Deputy
    <3> QED
      BY <1>2, <2>1, <3>1 DEF MapInv, HasWindow
  <2>5. /\ \A u \in Task \ {t} :
             /\ place'[u] = place[u] \/ (u \in Windowless /\ place[u] = "none")
             /\ windows'[u] = windows[u] /\ right'[u] = right[u]
        /\ \A u \in Terminal \ {t} : own[u] \in Mapped => own[u] \in Mapped'
        /\ \A l \in Mapped' : l # own[t] => l \in Mapped /\ task_map'[l] = task_map[l]
        /\ disowned \subseteq disowned' /\ own' = own
    BY <1>1, <1>2, <1>4, <2>1 DEF Task
  <2> QED
    BY <1>2, <2>1, <2>2, <2>3, <2>4, <2>5, MapStep
<1> QED
  BY <1>5, <1>6

LEMMA EndingOwners ==
  ASSUME OwnersInv, NEW t \in Terminal, CloseWindowAndFinish(t) \/ ExitCommand(t)
  PROVE  MapInv' /\ CloseInv'
<1>1. /\ UNCHANGED <<draggable, own, right, windows, disowned>> /\ t \in Task
      /\ place' = [place EXCEPT ![t] = "finish"] /\ place[t] \in {"closing", "shell", "line"}
  BY DEF CloseWindowAndFinish, ExitCommand, Task
<1>2. IInv /\ LineInv /\ MapInv /\ CloseInv
  BY DEF OwnersInv
<1>3. PICK id : /\ CloseLayer(id)
                /\ \A u \in Task \ {t} : own[u] # id
                /\ id = own[t] \/ (t \in disowned /\ place[t] = "closing")
  <2>1. CASE CloseWindowAndFinish(t)
    <3>1. /\ msgs[t] \in Seq(Message(Closable(t))) /\ msgs[t] # <<>>
          /\ Head(msgs[t]).type = "close" /\ CloseLayer(Head(msgs[t]).layer)
          /\ Head(msgs[t]).layer = own[t] \/ t \in disowned
      BY <1>2, <2>1 DEF IInv, MsgInv, CloseInv, CloseWindowAndFinish
    <3>2. Head(msgs[t]) \in Message(Closable(t))
      BY <3>1, TailFor
    <3>3. Head(msgs[t]).layer \in Closable(t)
      BY <3>1, <3>2 DEF Message
    <3>4. \A u \in Task \ {t} : own[u] # Head(msgs[t]).layer
      BY <3>3 DEF Closable
    <3> QED
      BY <2>1, <3>1, <3>4 DEF CloseWindowAndFinish
  <2>2. CASE ExitCommand(t)
    <3>1. CloseLayer(own[t]) /\ place[t] \in {"shell", "line"}
      BY <2>2 DEF ExitCommand
    <3>2. own[t] \in layers
      BY <1>2, <3>1 DEF MapInv, HasWindow, Owning
    <3>3. \A u \in Task \ {t} : own[u] # own[t]
      BY <1>1, <1>2, <3>2, OwnAlone
    <3> QED
      BY <3>1, <3>3
  <2> QED
    BY <2>1, <2>2
<1>4. /\ Hidden' = Hidden /\ place'[t] = "finish"
      /\ \A u \in Task : u # t => place'[u] = place[u]
  BY <1>1, <1>2, SameHidden DEF Places
<1>5. CloseInv'
  <2>1. Shown' = Shown
    BY <1>1, <1>4 DEF Shown
  <2>2. \A u \in Task : place'[u] = "closing" => place[u] = "closing"
    BY <1>4
  <2> QED
    BY <1>1, <1>3, <2>1, <2>2, ClosingOwners DEF Task
<1>6. MapInv'
  <2>1. /\ Mapped' = Mapped \ {id}
        /\ \A l \in Mapped' : task_map'[l] = task_map[l]
        /\ Mapped' \subseteq layers'
    BY <1>2, <1>3, Unmapping
  <2>2. ASSUME NEW l \in Mapped', l # own[t], Cares(t, l)
        PROVE  Cares(t, l)'
    BY <1>1, <1>4, <2>1, <2>2 DEF Cares
  <2>3. ASSUME own[t] \in Mapped'
        PROVE  Cares(t, own[t])'
    <3>1. t \in disowned /\ place[t] = "closing" /\ own[t] \in Mapped
      BY <1>3, <2>1, <2>3
    <3>2. task_map[own[t]] = t
      BY <1>1, <1>2, <3>1, DeputyIs DEF MapInv, HasWindow, Owning
    <3>3. Cares(t, own[t])
      BY <1>1, <1>2, <3>1, OwnCares
    <3> QED
      BY <1>1, <2>1, <2>3, <3>1, <3>2, <3>3 DEF Cares
  <2>4. place'[t] \notin Owning
    BY <1>4 DEF Owning
  <2>5. /\ \A u \in Task \ {t} :
             /\ place'[u] = place[u] \/ (u \in Windowless /\ place[u] = "none")
             /\ windows'[u] = windows[u] /\ right'[u] = right[u]
        /\ \A u \in Terminal \ {t} : own[u] \in Mapped => own[u] \in Mapped'
        /\ \A l \in Mapped' : l # own[t] => l \in Mapped /\ task_map'[l] = task_map[l]
        /\ disowned \subseteq disowned' /\ own' = own
    BY <1>1, <1>3, <1>4, <2>1 DEF Task
  <2> QED
    BY <1>1, <1>2, <2>1, <2>2, <2>3, <2>4, <2>5, MapStep
<1> QED
  BY <1>5, <1>6

LEMMA ExitOwners ==
  ASSUME OwnersInv, NEW t \in Task, Exit(t)
  PROVE  MapInv' /\ CloseInv'
<1>1. /\ UNCHANGED <<layers, draggable, own, right, msgs, task_map>>
      /\ place[t] = "app" /\ place' = [place EXCEPT ![t] = AfterCommand(t)]
      /\ windows' = [windows EXCEPT ![t] = {}]
      /\ disowned' = IF windows[t] = {} THEN disowned ELSE disowned \cup {t}
  BY DEF Exit
<1>2. IInv /\ LineInv /\ MapInv /\ CloseInv
  BY DEF OwnersInv
<1>3. /\ Hidden' = Hidden /\ place'[t] \in {"wait", "shell", "finish"}
      /\ \A u \in Task : u # t => place'[u] = place[u]
      /\ t \in Terminal => place'[t] # "finish"
  <2>1. /\ AfterCommand(t) \in {"wait", "shell", "finish"}
        /\ t \in Terminal => AfterCommand(t) # "finish"
    BY DEF AfterCommand
  <2>2. place'[t] = AfterCommand(t)
    BY <1>1, <1>2 DEF IInv, OwnInv
  <2> QED
    BY <1>1, <1>2, <2>1, <2>2, SameHidden DEF Places
<1>4. windows'[t] = {} /\ \A u \in Task \ {t} : windows'[u] = windows[u]
  BY <1>1, <1>2 DEF IInv, OwnInv
<1>5. disowned \subseteq disowned' /\ (windows[t] # {} => t \in disowned')
  BY <1>1
<1>6. CloseInv'
  <2>1. Shown' = Shown
    BY <1>1, <1>3 DEF Shown
  <2>2. \A u \in Task : windows'[u] \subseteq windows[u]
    BY <1>4
  <2>3. Longer(msgs, msgs') /\ \A u \in Terminal : msgs'[u] \in Seq(Message(Closable(u)))
    BY <1>1, <1>2 DEF Longer, CloseInv
  <2>4. \A u \in Task : place'[u] = "closing" => place[u] = "closing"
    BY <1>3
  <2> QED
    BY <1>1, <1>2, <1>5, <2>1, <2>2, <2>3, <2>4, CloseStep DEF Task
<1>7. MapInv'
  <2>1. ASSUME NEW l \in Mapped, Cares(t, l)
        PROVE  Cares(t, l)'
    <3>1. l # None /\ (own[t] = None \/ t \in Terminal)
      BY <1>2 DEF Mapped, LineInv, Task
    <3>2. l = own[t] => place'[t] \in Owning
      BY <1>3, <3>1 DEF Owning
    <3> QED
      BY <1>1, <1>5, <2>1, <3>2 DEF Cares
  <2>2. place[t] \in Owning /\ Deputy(t)' = Deputy(t)
    BY <1>1, <1>3 DEF Owning, Deputy
  <2>3. \A u \in Task \ {t} :
          /\ place'[u] = place[u] \/ (u \in Windowless /\ place[u] = "none")
          /\ windows'[u] = windows[u] /\ right'[u] = right[u]
    BY <1>1, <1>3, <1>4
  <2> QED
    BY <1>1, <1>2, <1>5, <2>1, <2>2, <2>3, SameEntries
<1> QED
  BY <1>6, <1>7

LEMMA OwnersInductive ==
  ASSUME OwnersInv, [Next]_vars
  PROVE  OwnersInv'
<1>1. IInv' /\ LineInv'
  BY Inductive, LineStep DEF OwnersInv
<1>2. CASE UNCHANGED vars
  <2>1. UNCHANGED <<layers, draggable, own, right, windows, place, msgs, task_map, disowned>>
    BY <1>2 DEF vars
  <2>2. Shown' = Shown
    BY <2>1 DEF Shown, Hidden
  <2>3. MapInv'
    BY <2>1, SameMap DEF OwnersInv
  <2>4. CloseInv'
    BY <2>1, <2>2, SameQueues DEF OwnersInv
  <2> QED
    BY <1>1, <2>3, <2>4 DEF OwnersInv
<1>3. CASE \E id \in layers, region \in {"TitleBar", "CloseButton", "Other"} : Press(id, region)
  BY <1>1, <1>3, PressOwners DEF OwnersInv
<1>4. CASE Release \/ ShowClock
  BY <1>1, <1>4, QuietOwners DEF OwnersInv
<1>5. ASSUME NEW t \in Task, Moves(t) \/ OpenWindow(t) \/ Exit(t)
      PROVE  MapInv' /\ CloseInv'
  BY <1>1, <1>5, MovesOwners, OpenWindowOwners, ExitOwners
<1>6. ASSUME NEW t \in Task, NEW id \in windows[t], CloseWindow(t, id)
      PROVE  MapInv' /\ CloseInv'
  BY <1>6, CloseWindowOwners
<1>7. ASSUME NEW t \in Task, NEW s \in Windowless, Starts(t, s)
      PROVE  MapInv' /\ CloseInv'
  BY <1>7, StartsOwners
<1>8. ASSUME NEW t \in Terminal, MakeWindow(t) \/ ShowWindow(t)
      PROVE  MapInv' /\ CloseInv'
  BY <1>8, MakeWindowOwners, ShowWindowOwners
<1>9. ASSUME NEW t \in Terminal,
             \/ CloseWindowAndFinish(t) \/ ExitCommand(t)
             \/ NoteActive(t) \/ TakeClose(t) \/ Finish(t) \/ ReadEvent(t)
      PROVE  MapInv' /\ CloseInv'
  BY <1>1, <1>9, EndingOwners, TakesOwners
<1> QED
  BY <1>1, <1>2, <1>3, <1>4, <1>5, <1>6, <1>7, <1>8, <1>9, Steps DEF OwnersInv

LEMMA OwnersInvariant ==
  Spec => []OwnersInv
<1>1. Init => OwnersInv
  BY InitOK, OwnersInit DEF OwnersInv
<1>2. OwnersInv /\ [Next]_vars => OwnersInv'
  BY OwnersInductive
<1> QED
  BY <1>1, <1>2, PTL DEF Spec

(* However many terminals, lines and programs there are, whichever windows *)
(* they open and close and whichever of them is clicked: a window in the   *)
(* map exists and its task runs, unless it was left behind or is on its    *)
(* way back from a pipe; and a terminal has its window as long as it runs, *)
(* which its pipes take and give back, and no pipe nested in them.         *)
THEOREM WindowsKeepOwners ==
  Spec => []WindowsHaveOwners
<1>1. ASSUME OwnersInv
      PROVE  WindowsHaveOwners
  <2>1. IInv /\ LineInv /\ MapInv
    BY <1>1 DEF OwnersInv
  <2>2. ASSUME NEW l \in Mapped
        PROVE  /\ l \in layers
               /\ \/ task_map[l] \in disowned
                  \/ \E t \in Task : task_map[l] = t /\ Runs(t)
                  \/ \E t \in Terminal : Runs(t) /\ own[t] = l /\ task_map[l] = right[t]
    <3>1. PICK t \in Task : Cares(t, l)
      BY <2>1 DEF MapInv
    <3>2. l \in layers /\ l # None
      BY <2>1 DEF MapInv, Mapped
    <3>3. CASE task_map[l] = t /\ (t \in disowned \/ (l \in windows[t] /\ place[t] = "app"))
      BY <3>2, <3>3 DEF Runs
    <3>4. CASE l = own[t] /\ place[t] \in Owning
      <4>1. t \in Terminal /\ Runs(t)
        BY <2>1, <3>2, <3>4 DEF LineInv, Task, Runs, Owning
      <4>2. task_map[l] = Deputy(t)
        BY <2>1, <3>4, <4>1 DEF MapInv, HasWindow
      <4>3. Deputy(t) \in {t, right[t]}
        BY DEF Deputy
      <4> QED
        BY <3>2, <3>4, <4>1, <4>2, <4>3
    <3> QED
      BY <3>1, <3>3, <3>4 DEF Cares
  <2>3. ASSUME NEW t \in Terminal, place[t] \in {"shell", "created", "line", "app", "wait"}
        PROVE  own[t] \in DOMAIN task_map /\ task_map[own[t]] = Deputy(t)
    BY <2>1, <2>3 DEF MapInv, HasWindow, Mapped, Owning
  <2> QED
    BY <2>2, <2>3 DEF WindowsHaveOwners, Mapped
<1>2. OwnersInv => WindowsHaveOwners
  BY <1>1
<1> QED
  BY <1>2, OwnersInvariant, PTL

-----------------------------------------------------------------------------
(* What a terminal knows.  The messages in its queue end with the news     *)
(* whether the active layer is its window or one of its program; while a   *)
(* pipe of it runs, the news about its window go to the right side instead. *)

Mine(t) == {l \in Mapped : task_map[l] = t \/ l = own[t]}

Knowing(t) ==
  /\ LastActive(t) => active \in Mine(t)
  /\ active = own[t] /\ own[t] \in Mine(t) => LastActive(t)

Ending == {"closing", "finish", "gone"}

KnowInv ==
  /\ window_isactive \in [Terminal -> BOOLEAN]
  /\ \A t \in Terminal \ missed : place[t] \notin Ending => Knowing(t)

(* The last news of a queue.                                               *)
LEMMA LastAppended ==
  ASSUME NEW S, NEW q \in Seq(Message(S)), NEW b \in BOOLEAN, NEW w
  PROVE  LastOn(Append(q, IsActive(b)), w) <=> b
<1> DEFINE r == Append(q, IsActive(b))
           told == {i \in DOMAIN r : r[i].type = "active"}
<1>1. PICK n \in Nat : n = Len(q)
  OBVIOUS
<1>2. DOMAIN r = 1 .. n + 1 /\ r[n + 1] = IsActive(b)
  BY <1>1
<1> HIDE DEF r
<1>3. r[n + 1].type = "active" /\ r[n + 1].on = b
  BY <1>2 DEF IsActive
<1>4. n + 1 \in told /\ told \subseteq 1 .. n + 1
  BY <1>2, <1>3
<1>5. LastOn(r, w) <=> \E i \in told : (\A j \in told : j <= i) /\ r[i].on
  BY <1>4 DEF LastOn
<1> HIDE DEF told
<1>6. \A i \in told : (\A j \in told : j <= i) <=> i = n + 1
  BY <1>4
<1>7. LastOn(r, w) <=> r[n + 1].on
  BY <1>4, <1>5, <1>6
<1> QED
  BY <1>3, <1>7 DEF r

LEMMA LastKept ==
  ASSUME NEW S, NEW q \in Seq(Message(S)), NEW l \in S, NEW w
  PROVE  LastOn(Append(q, Close(l)), w) <=> LastOn(q, w)
<1> DEFINE r == Append(q, Close(l))
           told == {i \in DOMAIN r : r[i].type = "active"}
<1>1. PICK n \in Nat : n = Len(q)
  OBVIOUS
<1>2. /\ DOMAIN q = 1 .. n /\ DOMAIN r = 1 .. n + 1 /\ r[n + 1] = Close(l)
      /\ \A i \in 1 .. n : r[i] = q[i]
  BY <1>1
<1> HIDE DEF r
<1>3. r[n + 1].type # "active"
  BY <1>2 DEF Close
<1>4. told = {i \in DOMAIN q : q[i].type = "active"} /\ \A i \in told : r[i] = q[i]
  BY <1>2, <1>3
<1>5. LastOn(r, w) = IF told = {} THEN w
                     ELSE \E i \in told : (\A j \in told : j <= i) /\ r[i].on
  BY DEF LastOn
<1>6. LastOn(q, w) = IF told = {} THEN w
                     ELSE \E i \in told : (\A j \in told : j <= i) /\ q[i].on
  BY <1>4 DEF LastOn
<1> HIDE DEF told
<1> QED
  BY <1>4, <1>5, <1>6 DEF r

LEMMA LastTail ==
  ASSUME NEW S, NEW q \in Seq(Message(S)), q # <<>>, NEW w
  PROVE  /\ Head(q).type = "active" => (LastOn(Tail(q), Head(q).on) <=> LastOn(q, w))
         /\ Head(q).type = "close" => (LastOn(Tail(q), w) <=> LastOn(q, w))
<1> DEFINE r == Tail(q)
           told == {i \in DOMAIN q : q[i].type = "active"}
           left == {i \in DOMAIN r : r[i].type = "active"}
<1>1. PICK n \in Nat : n = Len(q) /\ n >= 1
  OBVIOUS
<1>2. /\ DOMAIN q = 1 .. n /\ DOMAIN r = 1 .. n - 1 /\ Head(q) = q[1]
      /\ \A i \in 1 .. n - 1 : r[i] = q[i + 1]
  BY <1>1
<1> HIDE DEF r
<1>3. /\ told \subseteq 1 .. n /\ left \subseteq 1 .. n - 1
      /\ \A i \in left : i + 1 \in told /\ r[i] = q[i + 1]
      /\ \A i \in told : i # 1 => i - 1 \in left
      /\ 1 \in told <=> q[1].type = "active"
  <2>1. ASSUME NEW i \in left
        PROVE  i + 1 \in told /\ r[i] = q[i + 1]
    <3>1. i \in 1 .. n - 1 /\ i + 1 \in 1 .. n
      BY <1>2
    <3> QED
      BY <1>2, <3>1
  <2>2. ASSUME NEW i \in told, i # 1
        PROVE  i - 1 \in left
    <3>1. i - 1 \in 1 .. n - 1 /\ i - 1 + 1 = i
      BY <1>2, <2>2
    <3> QED
      BY <1>2, <3>1
  <2>3. 1 \in 1 .. n
    BY <1>1
  <2> QED
    BY <1>2, <2>1, <2>2, <2>3
<1>4. \A x : LastOn(r, x) = IF left = {} THEN x
                            ELSE \E i \in left : (\A j \in left : j <= i) /\ r[i].on
  BY DEF LastOn
<1>5. LastOn(q, w) = IF told = {} THEN w
                     ELSE \E i \in told : (\A j \in told : j <= i) /\ q[i].on
  BY DEF LastOn
<1> HIDE DEF told, left
<1>6. ASSUME left # {}
      PROVE  /\ told # {}
             /\ (\E i \in left : (\A j \in left : j <= i) /\ r[i].on) <=>
                  \E i \in told : (\A j \in told : j <= i) /\ q[i].on
  <2>1. ASSUME NEW i \in left, \A j \in left : j <= i, r[i].on
        PROVE  \E k \in told : (\A j \in told : j <= k) /\ q[k].on
    <3>1. i + 1 \in told /\ q[i + 1].on
      BY <1>3, <2>1
    <3>2. \A j \in told : j <= i + 1
      BY <1>1, <1>3, <2>1
    <3> QED
      BY <3>1, <3>2
  <2>2. ASSUME NEW k \in told, \A j \in told : j <= k, q[k].on
        PROVE  \E i \in left : (\A j \in left : j <= i) /\ r[i].on
    <3>1. PICK x \in left : TRUE
      BY <1>6
    <3>2. k # 1
      BY <1>3, <2>2, <3>1
    <3>3. k - 1 \in left /\ r[k - 1] = q[k - 1 + 1] /\ k - 1 + 1 = k
      BY <1>1, <1>3, <3>2
    <3>4. \A j \in left : j <= k - 1
      BY <1>1, <1>3, <2>2
    <3> QED
      BY <2>2, <3>3, <3>4
  <2> QED
    BY <1>3, <1>6, <2>1, <2>2
<1>7. ASSUME left = {}
      PROVE  /\ 1 \notin told => told = {}
             /\ 1 \in told => told = {1}
  BY <1>3, <1>7
<1>8. ASSUME Head(q).type = "active"
      PROVE  LastOn(r, Head(q).on) <=> LastOn(q, w)
  <2>1. CASE left = {}
    <3>1. told = {1}
      BY <1>2, <1>3, <1>7, <1>8, <2>1
    <3>2. LastOn(q, w) <=> q[1].on
      BY <1>5, <3>1
    <3> QED
      BY <1>2, <1>4, <2>1, <3>2
  <2>2. CASE left # {}
    BY <1>4, <1>5, <1>6, <2>2
  <2> QED
    BY <2>1, <2>2
<1>9. ASSUME Head(q).type = "close"
      PROVE  LastOn(r, w) <=> LastOn(q, w)
  <2>1. CASE left = {}
    <3>1. told = {}
      BY <1>2, <1>3, <1>7, <1>9, <2>1
    <3> QED
      BY <1>4, <1>5, <2>1, <3>1
  <2>2. CASE left # {}
    BY <1>4, <1>5, <1>6, <2>2
  <2> QED
    BY <2>1, <2>2
<1> QED
  BY <1>8, <1>9 DEF r

(* Messages about layer l go to t.                                         *)
To(t, l) == l \in Mapped /\ task_map[l] = t

SentOnly(q, id, m, t) ==
  /\ To(t, id) => Sent(q, id, m)[t] = Append(q[t], m)
  /\ ~To(t, id) => Sent(q, id, m)[t] = q[t]

LEMMA SentTo ==
  ASSUME NEW S, NEW q \in [Terminal -> Seq(Message(S))], NEW id, NEW m,
         NEW t \in Terminal, place[t] # "gone"
  PROVE  SentOnly(q, id, m, t)
BY DEF SentOnly, To, Sent, Mapped

LEMMA NotifiedLast ==
  ASSUME msgs \in [Terminal -> Seq(Message(Shown))], NEW id, id # active,
         NEW t \in Terminal, place[t] # "gone", NEW w
  PROVE  /\ To(t, id) => LastOn(Notified(id)[t], w)
         /\ ~To(t, id) /\ To(t, active) => ~LastOn(Notified(id)[t], w)
         /\ ~To(t, id) /\ ~To(t, active) => Notified(id)[t] = msgs[t]
<1> DEFINE r == Sent(msgs, active, IsActive(FALSE))
           z == Sent(r, id, IsActive(TRUE))
<1>1. \A S : IsActive(TRUE) \in Message(S) /\ IsActive(FALSE) \in Message(S)
  BY DEF IsActive, Message
<1>2. r \in [Terminal -> Seq(Message(Shown))]
  BY <1>1, SentIs
<1>3. /\ To(t, active) => r[t] = Append(msgs[t], IsActive(FALSE))
      /\ ~To(t, active) => r[t] = msgs[t]
  <2>1. SentOnly(msgs, active, IsActive(FALSE), t)
    BY SentTo
  <2> QED
    BY <2>1 DEF SentOnly
<1>4. Notified(id) = z
  BY DEF Notified
<1> HIDE DEF r
<1>5. /\ To(t, id) => z[t] = Append(r[t], IsActive(TRUE))
      /\ ~To(t, id) => z[t] = r[t]
  <2>1. SentOnly(r, id, IsActive(TRUE), t)
    BY <1>2, SentTo
  <2> QED
    BY <2>1 DEF SentOnly
<1> HIDE DEF z
<1>6. ASSUME To(t, id)
      PROVE  LastOn(z[t], w)
  <2>1. LastOn(Append(r[t], IsActive(TRUE)), w) <=> TRUE
    BY <1>2, LastAppended
  <2> QED
    BY <1>5, <1>6, <2>1
<1>7. ASSUME ~To(t, id), To(t, active)
      PROVE  ~LastOn(z[t], w)
  <2>1. LastOn(Append(msgs[t], IsActive(FALSE)), w) <=> FALSE
    BY LastAppended
  <2> QED
    BY <1>3, <1>5, <1>7, <2>1
<1> QED
  BY <1>3, <1>4, <1>5, <1>6, <1>7

(* The activity passes to layer id.                                        *)
LEMMA ToldOf ==
  ASSUME OwnersInv, KnowInv, NEW id, NEW t \in Terminal, t \notin missed \cup Missing(id),
         place[t] \notin Ending
  PROVE  /\ LastOn(Notified(id)[t], window_isactive[t]) => id \in Mine(t)
         /\ id = own[t] /\ own[t] \in Mine(t) => LastOn(Notified(id)[t], window_isactive[t])
<1>1. /\ msgs \in [Terminal -> Seq(Message(Shown))]
      /\ place[t] # "gone" /\ Knowing(t)
  BY DEF OwnersInv, IInv, MsgInv, KnowInv, Ending
<1>2. CASE id = active
  <2>1. Notified(id) = msgs
    BY <1>2 DEF Notified
  <2> QED
    BY <1>1, <1>2, <2>1 DEF Knowing, LastActive
<1>3. CASE id # active
  <2>1. ASSUME NEW l \in {active, id}, l \in Mine(t)
        PROVE  To(t, l)
    <3>1. l \in Mapped /\ l # None /\ (task_map[l] = t \/ l = own[t])
      BY <2>1 DEF Mine, Mapped
    <3>2. l = own[t] => task_map[l] = t
      BY <1>3, <2>1, <3>1 DEF Missing, Mapped
    <3> QED
      BY <3>1, <3>2 DEF To
  <2>2. \A l : To(t, l) => l \in Mine(t)
    BY DEF To, Mine
  <2> DEFINE after == Notified(id)[t]
             w == window_isactive[t]
  <2>3. /\ To(t, id) => LastOn(after, w)
        /\ ~To(t, id) /\ To(t, active) => ~LastOn(after, w)
        /\ ~To(t, id) /\ ~To(t, active) => after = msgs[t]
    BY <1>1, <1>3, NotifiedLast
  <2> HIDE DEF after
  <2>4. ASSUME LastOn(after, w)
        PROVE  id \in Mine(t)
    <3>1. CASE To(t, id)
      BY <2>2, <3>1
    <3>2. CASE ~To(t, id)
      <4>1. ~To(t, active) /\ LastActive(t)
        BY <2>3, <2>4, <3>2 DEF LastActive
      <4>2. active \in Mine(t)
        BY <1>1, <4>1 DEF Knowing
      <4> QED
        BY <2>1, <4>1, <4>2
    <3> QED
      BY <3>1, <3>2
  <2>5. ASSUME id = own[t], own[t] \in Mine(t)
        PROVE  LastOn(after, w)
    <3>1. To(t, id)
      BY <2>1, <2>5
    <3> QED
      BY <2>3, <3>1
  <2> QED
    BY <2>4, <2>5 DEF after
<1> QED
  BY <1>2, <1>3

(* A step after which a terminal has the same news about the same windows. *)
LEMMA SameNews ==
  ASSUME KnowInv, NEW t \in Terminal, t \notin missed, place[t] \notin Ending,
         active' = active, own'[t] = own[t] \/ active \notin {own[t], own'[t]},
         Mine(t)' = Mine(t) \/ (own[t] \notin {None, active} /\ Mine(t)' = Mine(t) \cup {own[t]}),
         LastOn(msgs'[t], window_isactive'[t]) <=> LastOn(msgs[t], window_isactive[t])
  PROVE  Knowing(t)'
<1>1. Knowing(t)
  BY DEF KnowInv
<1>2. LastActive(t)' <=> LastActive(t)
  BY DEF LastActive
<1>3. active' \in Mine(t)' <=> active \in Mine(t)
  OBVIOUS
<1>4. active' = own'[t] /\ own'[t] \in Mine(t)' => active = own[t] /\ own[t] \in Mine(t)
  BY <1>3
<1> QED
  BY <1>1, <1>2, <1>3, <1>4 DEF Knowing

(* A step that passes the activity to layer id.                            *)
LEMMA Passing ==
  ASSUME OwnersInv, KnowInv, NEW id, NEW t \in Terminal, missed' = missed \cup Missing(id),
         t \notin missed', place[t] \notin Ending,
         active' = id, own'[t] = own[t], window_isactive' = window_isactive,
         Mine(t)' = Mine(t),
         LastOn(msgs'[t], window_isactive[t]) <=> LastOn(Notified(id)[t], window_isactive[t])
  PROVE  Knowing(t)'
<1>1. /\ LastOn(Notified(id)[t], window_isactive[t]) => id \in Mine(t)
      /\ id = own[t] /\ own[t] \in Mine(t) => LastOn(Notified(id)[t], window_isactive[t])
  BY ToldOf
<1>2. LastActive(t)' <=> LastOn(Notified(id)[t], window_isactive[t])
  BY DEF LastActive
<1> QED
  BY <1>1, <1>2 DEF Knowing

LEMMA PressKnows ==
  ASSUME OwnersInv, KnowInv, NEW id \in layers, NEW region \in {"TitleBar", "CloseButton", "Other"},
         Press(id, region)
  PROVE  KnowInv'
<1>1. UNCHANGED <<task_map, own, place, window_isactive>> /\ id \in ToSet(stack)
  BY DEF Press
<1> SUFFICES ASSUME NEW t \in Terminal, t \notin missed', place'[t] \notin Ending
             PROVE  Knowing(t)'
  BY <1>1 DEF KnowInv
<1>2. Mine(t)' = Mine(t)
  BY <1>1 DEF Mine, Mapped
<1>3. IInv /\ msgs \in [Terminal -> Seq(Message(Shown))]
  BY DEF OwnersInv, IInv, MsgInv
<1>4. CASE id \in draggable
  <2>1. /\ active' = id /\ missed' = missed \cup Missing(id)
        /\ msgs' \in {Notified(id), Sent(Notified(id), id, Close(id))}
    BY <1>4 DEF Press
  <2>2. id \in Shown
    BY <1>1, <1>3, <1>4 DEF IInv, StackInv, Shown
  <2>3. Notified(id) \in [Terminal -> Seq(Message(Shown))] /\ place[t] # "gone"
    BY <1>1, <1>3, NotifiedIs DEF Ending
  <2> DEFINE q == Notified(id)
             r == Sent(q, id, Close(id))
  <2>4. r[t] \in {q[t], Append(q[t], Close(id))}
    <3> HIDE DEF q
    <3> QED
      <4>1. SentOnly(q, id, Close(id), t)
        BY <2>3, SentTo DEF q
      <4> QED
        BY <4>1 DEF SentOnly
  <2>5. LastOn(Append(q[t], Close(id)), window_isactive[t]) <=> LastOn(q[t], window_isactive[t])
    <3>1. q[t] \in Seq(Message(Shown))
      BY <2>3
    <3> HIDE DEF q
    <3> QED
      BY <2>2, <3>1, LastKept
  <2> HIDE DEF r
  <2>6. LastOn(msgs'[t], window_isactive[t]) <=> LastOn(Notified(id)[t], window_isactive[t])
    BY <2>1, <2>4, <2>5 DEF r
  <2> QED
    BY <1>1, <1>2, <2>1, <2>6, Passing
<1>5. CASE id \notin draggable
  <2>1. /\ active' = None /\ missed' = missed \cup Missing(None)
        /\ msgs' = Notified(None)
    BY <1>5 DEF Press, Activate
  <2> QED
    BY <1>1, <1>2, <2>1, Passing
<1> QED
  BY <1>4, <1>5

LEMMA ShowWindowKnows ==
  ASSUME OwnersInv, KnowInv, NEW t \in Terminal, ShowWindow(t)
  PROVE  KnowInv'
<1>1. /\ UNCHANGED <<task_map, own, window_isactive>> /\ place[t] = "mapped"
      /\ place' = [place EXCEPT ![t] = "shell"]
      /\ active' = own[t] /\ missed' = missed \cup Missing(own[t])
      /\ msgs' = Notified(own[t])
  BY DEF ShowWindow, Activate
<1> SUFFICES ASSUME NEW u \in Terminal, u \notin missed', place'[u] \notin Ending
             PROVE  Knowing(u)'
  BY <1>1 DEF KnowInv
<1>2. Mine(u)' = Mine(u)
  BY <1>1 DEF Mine, Mapped
<1>3. place[u] \notin Ending
  BY <1>1 DEF OwnersInv, IInv, OwnInv, Ending, Task
<1> QED
  BY <1>1, <1>2, <1>3, Passing

(* The window of a terminal is entered in the map, or passes from the      *)
(* terminal to the right side of its line and back.                        *)
LEMMA MineMoves ==
  ASSUME OwnersInv, OwnersInv', NEW t \in Task, NEW w, task_map' = Map(own[t], w), own' = own,
         w \in Windowless \/ w = t, t \in Terminal => own[t] # None, NEW u \in Terminal
  PROVE  Mine(u)' = IF u = t THEN Mine(t) \cup {own[t]} ELSE Mine(u)
<1>1. /\ Mapped' = Mapped \cup ({own[t]} \ {None}) /\ task_map'[own[t]] = w
      /\ \A l \in Mapped : l # own[t] => task_map'[l] = task_map[l]
  BY DEF Map, Mapped
<1>2. /\ MapInv /\ IInv /\ LineInv /\ u \in Task /\ u \notin Windowless
  BY TaskAssumption DEF OwnersInv, Task
<1>3. CASE u = t /\ own[t] # None
  BY <1>1, <1>3 DEF Mine
<1>4. CASE u # t
  <2>1. ASSUME own[t] # None
        PROVE  own[t] \notin Mine(u) /\ own[t] # own[u]
    <3>1. own[t] # own[u]
      BY <1>2, <1>4, <2>1 DEF IInv, OwnInv
    <3>2. ASSUME own[t] \in Mapped
          PROVE  task_map[own[t]] # u
      <4>1. Cares(t, own[t])
        BY <1>2, <3>2, OwnCares
      <4>2. CASE task_map[own[t]] = t
        BY <1>4, <4>2
      <4>3. CASE place[t] \in Owning
        <5>1. t \in Terminal
          BY <1>2, <2>1 DEF LineInv, Task
        <5>2. task_map[own[t]] = Deputy(t)
          BY <1>2, <4>3, <5>1 DEF MapInv, HasWindow
        <5> QED
          BY <1>2, <1>4, <5>2, DeputyIs
      <4> QED
        BY <4>1, <4>2, <4>3 DEF Cares
    <3> QED
      BY <3>1, <3>2 DEF Mine
  <2>2. w # u
    BY <1>2, <1>4
  <2>3. CASE own[t] = None
    <3>1. Mapped' = Mapped /\ own[t] \notin Mapped
      BY <1>1, <2>3 DEF Mapped
    <3> QED
      BY <1>1, <1>4, <3>1 DEF Mine
  <2>4. CASE own[t] # None
    BY <1>1, <1>4, <2>1, <2>2, <2>4 DEF Mine
  <2> QED
    BY <2>3, <2>4
<1> QED
  BY <1>3, <1>4

LEMMA MovesKnow ==
  ASSUME OwnersInv, OwnersInv', KnowInv, NEW t \in Task, Moves(t) \/ Exit(t)
  PROVE  KnowInv'
<1>1. /\ UNCHANGED <<own, window_isactive, active, msgs, missed>>
      /\ \A u \in Terminal : place'[u] \notin Ending => place[u] \notin Ending
  <2>1. UNCHANGED <<own, window_isactive, active, msgs, missed>>
    BY MovesAre DEF Exit
  <2>2. place[t] \notin Ending \/ t \notin Terminal
    BY DEF Moves, NewTerminal, MapWindow, MapRight, OtherCommand, EndPipe, ExecuteFile, AtLine, Exit,
           Ending
  <2>3. \E x : place' = [place EXCEPT ![t] = x]
    BY MovesAre DEF Exit
  <2>4. \A u \in Task : u # t => place'[u] = place[u]
    BY <2>3 DEF OwnersInv, IInv, OwnInv
  <2> QED
    BY <2>1, <2>2, <2>4 DEF Task
<1> SUFFICES ASSUME NEW u \in Terminal, u \notin missed', place'[u] \notin Ending
             PROVE  Knowing(u)'
  BY <1>1 DEF KnowInv
<1>2. IInv /\ LineInv /\ MapInv
  BY DEF OwnersInv
<1>3. CASE \/ NewTerminal(t) \/ OtherCommand(t) \/ ExecuteFile(t) \/ Exit(t)
           \/ t \notin Terminal /\ (ExitCommand(t) \/ Finish(t))
  <2>1. task_map' = task_map
    BY <1>3 DEF NewTerminal, OtherCommand, ExecuteFile, Exit, ExitCommand, Finish
  <2>2. Mine(u)' = Mine(u)
    BY <1>1, <2>1 DEF Mine, Mapped
  <2> QED
    BY <1>1, <2>2, SameNews
<1>4. CASE MapWindow(t)
  <2>1. task_map' = Map(own[t], t) /\ place[t] = "made"
    BY <1>4 DEF MapWindow
  <2>2. own[t] \in layers /\ own[t] \in Hidden
    BY <1>2, <2>1 DEF IInv, OwnInv, Hidden
  <2>3. own[t] \notin {None, active}
    <3>1. own[t] # None
      BY <1>2, <2>2 DEF IInv, LayersInv, None
    <3>2. ASSUME active # None
          PROVE  active \in ToSet(stack)
      <4>1. PICK n \in Nat : n = Len(stack) /\ n >= 3
        BY <1>2 DEF IInv, StackInv, StackOK
      <4>2. DOMAIN stack = 1 .. n /\ n - 1 \in 1 .. n
        BY <1>2, <4>1 DEF IInv, StackInv, StackOK
      <4>3. active = stack[n - 1]
        BY <1>2, <3>2, <4>1 DEF IInv, StackInv
      <4> QED
        BY <4>2, <4>3 DEF ToSet
    <3> QED
      BY <1>2, <2>2, <3>1, <3>2 DEF IInv, StackInv
  <2>4. Mine(u)' = IF u = t THEN Mine(t) \cup {own[t]} ELSE Mine(u)
    BY <1>1, <2>1, <2>3, MineMoves
  <2> QED
    BY <1>1, <2>3, <2>4, SameNews
<1>5. CASE MapRight(t) \/ EndPipe(t)
  <2>1. PICK w : task_map' = Map(own[t], w) /\ (w \in Windowless \/ w = t)
    <3>1. CASE MapRight(t)
      <4>1. task_map' = Map(own[t], right[t]) /\ place[t] = "created"
        BY <3>1 DEF MapRight
      <4> QED
        BY <1>2, <4>1 DEF LineInv
    <3>2. CASE EndPipe(t)
      BY <3>2 DEF EndPipe
    <3> QED
      BY <1>5, <3>1, <3>2
  <2>2. place[t] \in Owning
    BY <1>5 DEF MapRight, EndPipe, Owning
  <2>3. t \in Terminal => own[t] \in Mine(t) /\ own[t] # None
    BY <1>2, <2>2 DEF MapInv, HasWindow, Mine, Mapped
  <2>4. Mine(u)' = Mine(u)
    <3>1. Mine(u)' = IF u = t THEN Mine(t) \cup {own[t]} ELSE Mine(u)
      BY <1>1, <2>1, <2>3, MineMoves
    <3> QED
      BY <2>3, <3>1
  <2> QED
    BY <1>1, <2>4, SameNews
<1> QED
  BY <1>3, <1>4, <1>5 DEF Moves

LEMMA StartsKnow ==
  ASSUME OwnersInv, KnowInv, NEW t \in Task, NEW s \in Windowless, Starts(t, s)
  PROVE  KnowInv'
<1>1. /\ UNCHANGED <<own, window_isactive, active, msgs, missed, task_map>>
      /\ \A u \in Task : place'[u] \notin Ending => place[u] \notin Ending
  BY StartsAre DEF OwnersInv, Ending
<1> SUFFICES ASSUME NEW u \in Terminal, u \notin missed', place'[u] \notin Ending
             PROVE  Knowing(u)'
  BY <1>1 DEF KnowInv
<1>2. Mine(u)' = Mine(u) /\ place[u] \notin Ending
  BY <1>1 DEF Mine, Mapped, Task
<1> QED
  BY <1>1, <1>2, SameNews

LEMMA QuietKnows ==
  ASSUME OwnersInv, KnowInv, Release \/ ShowClock
  PROVE  KnowInv'
<1>1. UNCHANGED <<task_map, own, place, window_isactive, active, msgs, missed>>
  BY DEF Release, ShowClock
<1> SUFFICES ASSUME NEW u \in Terminal, u \notin missed', place'[u] \notin Ending
             PROVE  Knowing(u)'
  BY <1>1 DEF KnowInv
<1>2. Mine(u)' = Mine(u)
  BY <1>1 DEF Mine, Mapped
<1> QED
  BY <1>1, <1>2, SameNews

LEMMA MakeWindowKnows ==
  ASSUME OwnersInv, KnowInv, NEW t \in Terminal, MakeWindow(t)
  PROVE  KnowInv'
<1>1. PICK id : NewLayer(id) /\ own' = [own EXCEPT ![t] = id]
  BY DEF MakeWindow
<1>2. /\ place[t] = "new" /\ place' = [place EXCEPT ![t] = "made"]
      /\ UNCHANGED <<task_map, window_isactive, active, msgs, missed>>
  BY DEF MakeWindow
<1> SUFFICES ASSUME NEW u \in Terminal, u \notin missed', place'[u] \notin Ending
             PROVE  Knowing(u)'
  BY <1>2 DEF KnowInv
<1>4. place[u] \notin Ending
  BY <1>2 DEF OwnersInv, IInv, OwnInv, Ending, Task
<1>5. id \notin layers /\ id # None /\ id \notin draggable
  BY <1>1 DEF NewLayer, OwnersInv, IInv, LayersInv, None, mouse_layer
<1>6. id # active /\ id \notin Mapped /\ Mapped' = Mapped
  BY <1>2, <1>5 DEF OwnersInv, IInv, StackInv, MapInv, Mapped
<1>7. own'[u] = own[u] \/ (own'[u] = id /\ own[u] \notin Mapped)
  <2>1. own[t] \notin Mapped
    BY <1>2 DEF OwnersInv, LineInv, Mapped, Task
  <2> QED
    BY <1>1, <2>1 DEF OwnersInv, IInv, OwnInv, Task
<1>3. Mine(u)' = Mine(u) /\ u \notin missed
  BY <1>2, <1>6, <1>7 DEF Mine
<1>8. Knowing(u) /\ (LastActive(u)' <=> LastActive(u))
  BY <1>2, <1>3, <1>4 DEF KnowInv, LastActive
<1> QED
  BY <1>2, <1>3, <1>6, <1>7, <1>8 DEF Knowing

LEMMA OpenWindowKnows ==
  ASSUME OwnersInv, KnowInv, NEW t \in Task, OpenWindow(t)
  PROVE  KnowInv'
<1>1. PICK id : NewLayer(id) /\ Activate(id) /\ task_map' = Map(id, t)
  BY DEF OpenWindow
<1>2. UNCHANGED <<place, own, window_isactive>>
  BY DEF OpenWindow
<1>3. /\ active' = id /\ missed' = missed \cup Missing(id) /\ msgs' = Notified(id)
  BY <1>1 DEF Activate
<1> SUFFICES ASSUME NEW u \in Terminal, u \notin missed', place'[u] \notin Ending
             PROVE  Knowing(u)'
  BY <1>2 DEF KnowInv
<1>4. id \notin layers /\ id # None /\ id \notin draggable
  BY <1>1 DEF NewLayer, OwnersInv, IInv, LayersInv, None, mouse_layer
<1>5. id \notin Mine(u) /\ own[u] # id
  BY <1>4 DEF OwnersInv, IInv, OwnInv, MapInv, Mine, Task
<1>6. ~LastOn(Notified(id)[u], window_isactive[u])
  <2>1. LastOn(Notified(id)[u], window_isactive[u]) => id \in Mine(u)
    BY <1>2, <1>3, ToldOf
  <2> QED
    BY <1>5, <2>1
<1> QED
  BY <1>2, <1>3, <1>5, <1>6 DEF Knowing, LastActive

LEMMA ClosingKnows ==
  ASSUME OwnersInv, KnowInv, NEW id, CloseLayer(id), UNCHANGED <<own, window_isactive>>,
         NEW u \in Terminal, u \notin missed', place[u] \notin Ending
  PROVE  Knowing(u)'
<1>1. CASE id \notin layers
  <2>1. UNCHANGED <<task_map, active, msgs, missed>>
    BY <1>1 DEF CloseLayer
  <2>2. Mine(u)' = Mine(u)
    BY <2>1 DEF Mine, Mapped
  <2> QED
    BY <2>1, <2>2, SameNews
<1>2. CASE id \in layers
  <2>1. /\ active' = None /\ msgs' = Notified(None) /\ missed' = missed \cup Missing(None)
        /\ task_map' = Unmap(id)
    BY <1>2 DEF CloseLayer
  <2>2. None \notin Mine(u)
    BY DEF Mine, Mapped
  <2>3. None \notin Mine(u)'
    BY DEF Mine, Mapped
  <2>4. ~LastOn(Notified(None)[u], window_isactive[u])
    <3>1. LastOn(Notified(None)[u], window_isactive[u]) => None \in Mine(u)
      BY <2>1, ToldOf
    <3> QED
      BY <2>2, <3>1
  <2> QED
    BY <2>1, <2>3, <2>4 DEF Knowing, LastActive
<1> QED
  BY <1>1, <1>2

LEMMA ClosesKnow ==
  ASSUME OwnersInv, KnowInv, NEW t \in Task,
         \/ t \in Terminal /\ (CloseWindowAndFinish(t) \/ ExitCommand(t))
         \/ \E id \in windows[t] : CloseWindow(t, id)
  PROVE  KnowInv'
<1>1. PICK id : CloseLayer(id)
  BY DEF CloseWindowAndFinish, ExitCommand, CloseWindow
<1>2. /\ UNCHANGED <<own, window_isactive>>
      /\ place' \in {place, [place EXCEPT ![t] = "finish"]}
  BY DEF CloseWindowAndFinish, ExitCommand, CloseWindow
<1> SUFFICES ASSUME NEW u \in Terminal, u \notin missed', place'[u] \notin Ending
             PROVE  Knowing(u)'
  BY <1>2 DEF KnowInv
<1>3. place[u] \notin Ending
  BY <1>2 DEF OwnersInv, IInv, OwnInv, Ending, Task
<1> QED
  BY <1>1, <1>2, <1>3, ClosingKnows

LEMMA TakesKnow ==
  ASSUME OwnersInv, KnowInv, NEW t \in Terminal,
         NoteActive(t) \/ TakeClose(t) \/ Finish(t) \/ ReadEvent(t)
  PROVE  KnowInv'
<1>1. UNCHANGED <<task_map, own, active>> /\ missed \subseteq missed'
  BY DEF NoteActive, TakeClose, Finish, ReadEvent
<1>2. /\ msgs \in [Terminal -> Seq(Message(Shown))] /\ msgs[t] \in Seq(Message(Shown))
      /\ place \in [Task -> Places] /\ window_isactive \in [Terminal -> BOOLEAN]
  BY DEF OwnersInv, IInv, MsgInv, OwnInv, KnowInv
<1>3. msgs[t] # <<>> => Head(msgs[t]) \in Message(Shown)
  BY <1>2, TailFor
<1>4. window_isactive' \in [Terminal -> BOOLEAN]
  <2>1. CASE NoteActive(t)
    <3>1. /\ Head(msgs[t]) \in Message(Shown) /\ Head(msgs[t]).type = "active"
          /\ window_isactive' = [window_isactive EXCEPT ![t] = Head(msgs[t]).on]
      BY <1>3, <2>1 DEF NoteActive
    <3>2. Head(msgs[t]).on \in BOOLEAN
      BY <3>1 DEF Message
    <3> QED
      BY <1>2, <3>1, <3>2
  <2>2. CASE TakeClose(t) \/ Finish(t) \/ ReadEvent(t)
    BY <1>2, <2>2 DEF TakeClose, Finish, ReadEvent
  <2> QED
    BY <2>1, <2>2
<1> SUFFICES ASSUME NEW u \in Terminal, u \notin missed', place'[u] \notin Ending
             PROVE  Knowing(u)'
  BY <1>4 DEF KnowInv
<1>5. Mine(u)' = Mine(u) /\ u \notin missed
  BY <1>1 DEF Mine, Mapped
<1>6. CASE u # t
  <2>1. place'[u] = place[u] /\ msgs'[u] = msgs[u] /\ window_isactive'[u] = window_isactive[u]
    BY <1>2, <1>6 DEF NoteActive, TakeClose, Finish, ReadEvent, Task
  <2> QED
    BY <1>1, <1>5, <2>1, SameNews
<1>7. CASE u = t
  <2>1. ~TakeClose(t) /\ ~Finish(t)
    BY <1>2, <1>7 DEF TakeClose, Finish, Ending, Task
  <2>2. NoteActive(t) \/ ReadEvent(t)
    BY <2>1
  <2>3. /\ msgs[t] # <<>> /\ msgs'[t] = Tail(msgs[t]) /\ place[t] \notin Ending
    BY <1>2, <2>2 DEF NoteActive, ReadEvent, Ending
  <2>4. LastOn(msgs'[t], window_isactive'[t]) <=> LastOn(msgs[t], window_isactive[t])
    <3>1. CASE Head(msgs[t]).type = "active"
      <4>1. NoteActive(t)
        BY <1>7, <2>2, <3>1 DEF ReadEvent
      <4>2. window_isactive'[t] = Head(msgs[t]).on
        BY <1>2, <4>1 DEF NoteActive
      <4> QED
        BY <1>2, <2>3, <3>1, <4>2, LastTail
    <3>2. CASE Head(msgs[t]).type = "close"
      <4>1. ReadEvent(t)
        BY <2>2, <3>2 DEF NoteActive
      <4>2. window_isactive'[t] = window_isactive[t]
        BY <4>1 DEF ReadEvent
      <4> QED
        BY <1>2, <2>3, <3>2, <4>2, LastTail
    <3>3. Head(msgs[t]).type \in {"active", "close"}
      BY <1>3, <2>3 DEF Message
    <3> QED
      BY <3>1, <3>2, <3>3
  <2> QED
    BY <1>1, <1>5, <1>7, <2>3, <2>4, SameNews
<1> QED
  BY <1>6, <1>7

LEMMA KnowInductive ==
  ASSUME OwnersInv, KnowInv, [Next]_vars
  PROVE  KnowInv'
<1>0. OwnersInv'
  BY OwnersInductive
<1>1. CASE UNCHANGED vars
  <2>1. UNCHANGED <<task_map, own, place, window_isactive, active, msgs, missed>>
    BY <1>1 DEF vars
  <2> SUFFICES ASSUME NEW u \in Terminal, u \notin missed', place'[u] \notin Ending
               PROVE  Knowing(u)'
    BY <2>1 DEF KnowInv
  <2>2. Mine(u)' = Mine(u)
    BY <2>1 DEF Mine, Mapped
  <2> QED
    BY <2>1, <2>2, SameNews
<1>2. CASE \E id \in layers, region \in {"TitleBar", "CloseButton", "Other"} : Press(id, region)
  BY <1>2, PressKnows
<1>3. CASE Release \/ ShowClock
  BY <1>3, QuietKnows
<1>4. ASSUME NEW t \in Task, Moves(t) \/ OpenWindow(t) \/ Exit(t)
      PROVE  KnowInv'
  BY <1>0, <1>4, MovesKnow, OpenWindowKnows
<1>5. ASSUME NEW t \in Task, NEW id \in windows[t], CloseWindow(t, id)
      PROVE  KnowInv'
  BY <1>5, ClosesKnow
<1>6. ASSUME NEW t \in Task, NEW s \in Windowless, Starts(t, s)
      PROVE  KnowInv'
  BY <1>6, StartsKnow
<1>7. ASSUME NEW t \in Terminal, MakeWindow(t) \/ ShowWindow(t)
      PROVE  KnowInv'
  BY <1>7, MakeWindowKnows, ShowWindowKnows
<1>8. ASSUME NEW t \in Terminal,
             \/ CloseWindowAndFinish(t) \/ ExitCommand(t)
             \/ NoteActive(t) \/ TakeClose(t) \/ Finish(t) \/ ReadEvent(t)
      PROVE  KnowInv'
  BY <1>8, ClosesKnow, TakesKnow DEF Task
<1> QED
  BY <1>1, <1>2, <1>3, <1>4, <1>5, <1>6, <1>7, <1>8, Steps

LEMMA KnowInvariant ==
  Spec => [](OwnersInv /\ KnowInv)
<1>1. Init => OwnersInv /\ KnowInv
  <2> SUFFICES ASSUME Init
               PROVE  OwnersInv /\ KnowInv
    OBVIOUS
  <2>1. OwnersInv
    BY InitOK, OwnersInit DEF OwnersInv
  <2>2. window_isactive \in [Terminal -> BOOLEAN]
    BY DEF Init
  <2>3. ASSUME NEW t \in Terminal
        PROVE  Knowing(t)
    <3>1. msgs[t] = <<>> /\ window_isactive[t] = FALSE /\ DOMAIN task_map = {}
      BY DEF Init
    <3>2. ~LastOn(<<>>, FALSE)
      BY DEF LastOn
    <3> QED
      BY <3>1, <3>2 DEF Knowing, LastActive, Mine, Mapped
  <2> QED
    BY <2>1, <2>2, <2>3 DEF KnowInv
<1>2. OwnersInv /\ KnowInv /\ [Next]_vars => (OwnersInv /\ KnowInv)'
  BY OwnersInductive, KnowInductive
<1> QED
  BY <1>1, <1>2, PTL DEF Spec

(* However many windows there are and whoever clicks, opens and closes     *)
(* them: a terminal with one window that missed no message, because none   *)
(* went to a program or to the right side of a pipe, knows once it has     *)
(* dealt with its queue whether its window is the active one.              *)
THEOREM TerminalsKnow ==
  Spec => []TerminalKnowsActive
<1>1. ASSUME OwnersInv, KnowInv
      PROVE  TerminalKnowsActive
  <2> SUFFICES ASSUME NEW t \in Terminal, t \notin missed, place[t] = "shell",
                      \A l \in DOMAIN task_map : task_map[l] = t => l = own[t]
               PROVE  LastActive(t) <=> active = own[t]
    BY DEF TerminalKnowsActive
  <2>1. Knowing(t) /\ MapInv
    BY <1>1 DEF KnowInv, Ending, OwnersInv
  <2>2. own[t] \in Mine(t)
    BY <2>1 DEF MapInv, HasWindow, Mine, Owning
  <2>3. ASSUME active \in Mine(t)
        PROVE  active = own[t]
    BY <2>3 DEF Mine, Mapped
  <2> QED
    BY <2>1, <2>2, <2>3 DEF Knowing
<1>2. OwnersInv /\ KnowInv => TerminalKnowsActive
  BY <1>1
<1> QED
  BY <1>2, KnowInvariant, PTL
=============================================================================
