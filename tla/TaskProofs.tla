----------------------------- MODULE TaskProofs -----------------------------
(***************************************************************************)
(* Proofs about the task manager and the two modules that call it, for any *)
(* number of tasks, messages and exit codes.                               *)
(*                                                                         *)
(* 1. The operators of TaskManager.  The run queues are treated apart from *)
(* the rest of the object: Holds says that they hold exactly the tasks of  *)
(* a set, each once and at its level.  Each way a method changes a queue   *)
(* (pop, push at the back, push at the front, erase) is one lemma about    *)
(* Holds; a method is a composition of them.                               *)
(*                                                                         *)
(* 2. The safety properties of Scheduler.  IInv is the inductive           *)
(* invariant: the object is consistent (ManagerInv), what the threads      *)
(* remember of their subtasks agrees with finish_tasks_ and finish_waiter_ *)
(* (JoinInv), and whoever sleeps has a reason to (AsleepInv).              *)
(*                                                                         *)
(* 3. Those of Pipe, for any sizes of chunks, reads and data, and any      *)
(* number of keys pushed meanwhile; and the steps of Pipe are steps of     *)
(* ByteStream.  The inductive invariant PipeInv says where the bytes are   *)
(* (QueueOK: the chunks under way continue what has been received), that   *)
(* only the chunk that ends the stream is empty, and which of the two      *)
(* tasks exist (TasksInv).                                                 *)
(***************************************************************************)
EXTENDS Scheduler, Pipe, SequenceTheorems, TLAPS

Holds(queues, level, A) ==
  /\ queues \in [Level -> Seq(TaskId)]
  /\ \A lv \in Level : \A i \in 1 .. Len(queues[lv]) :
       queues[lv][i] \in A /\ level[queues[lv][i]] = lv
  /\ \A lv \in Level : \A i, j \in 1 .. Len(queues[lv]) :
       queues[lv][i] = queues[lv][j] => i = j
  /\ \A t \in A : \E i \in 1 .. Len(queues[level[t]]) : queues[level[t]][i] = t

(* push_back of a task that no queue holds.                                *)
LEMMA HoldsAppend ==
  ASSUME NEW queues, NEW level \in [TaskId -> Level], NEW A \in SUBSET TaskId,
         Holds(queues, level, A),
         NEW t \in TaskId \ A, NEW lv \in Level
  PROVE  Holds([queues EXCEPT ![lv] = Append(@, t)], [level EXCEPT ![t] = lv],
               A \cup {t})
<1> DEFINE q == [queues EXCEPT ![lv] = Append(@, t)]
           l == [level EXCEPT ![t] = lv]
<1>0. queues \in [Level -> Seq(TaskId)] /\ queues[lv] \in Seq(TaskId)
  BY DEF Holds
<1>1. /\ Append(queues[lv], t) \in Seq(TaskId)
      /\ Len(Append(queues[lv], t)) = Len(queues[lv]) + 1
      /\ \A i \in 1 .. Len(queues[lv]) : Append(queues[lv], t)[i] = queues[lv][i]
      /\ Append(queues[lv], t)[Len(queues[lv]) + 1] = t
      /\ Len(queues[lv]) \in Nat
  BY <1>0, AppendProperties, LenProperties
<1>2. q \in [Level -> Seq(TaskId)] /\ q[lv] = Append(queues[lv], t)
  BY <1>0, <1>1
<1>3. ASSUME NEW k \in Level, NEW i \in 1 .. Len(q[k])
      PROVE  q[k][i] \in A \cup {t} /\ l[q[k][i]] = k
  <2>1. CASE k = lv BY <2>1, <1>1, <1>2 DEF Holds
  <2>2. CASE k # lv BY <2>2, <1>0 DEF Holds
  <2> QED BY <2>1, <2>2
<1>4. ASSUME NEW k \in Level, NEW i \in 1 .. Len(q[k]), NEW j \in 1 .. Len(q[k]),
             q[k][i] = q[k][j]
      PROVE  i = j
  <2>1. CASE k = lv BY <2>1, <1>1, <1>2, <1>4 DEF Holds
  <2>2. CASE k # lv BY <2>2, <1>0, <1>4 DEF Holds
  <2> QED BY <2>1, <2>2
<1>5. ASSUME NEW u \in A \cup {t}
      PROVE  \E i \in 1 .. Len(q[l[u]]) : q[l[u]][i] = u
  <2>1. CASE u = t BY <2>1, <1>1, <1>2
  <2>2. CASE u # t
    <3>1. l[u] = level[u] /\ level[u] \in Level /\ u \in A BY <2>2
    <3>2. PICK i \in 1 .. Len(queues[level[u]]) : queues[level[u]][i] = u
      BY <3>1 DEF Holds
    <3>3. i \in 1 .. Len(q[l[u]]) /\ q[l[u]][i] = u
      BY <3>1, <3>2, <1>0, <1>1, <1>2
    <3> QED BY <3>3
  <2> QED BY <2>1, <2>2
<1> QED BY <1>2, <1>3, <1>4, <1>5 DEF Holds

(* pop_front.                                                              *)
LEMMA HoldsTail ==
  ASSUME NEW queues, NEW level \in [TaskId -> Level], NEW A \in SUBSET TaskId,
         Holds(queues, level, A),
         NEW lv \in Level, queues[lv] # <<>>
  PROVE  /\ Head(queues[lv]) \in A
         /\ level[Head(queues[lv])] = lv
         /\ Holds([queues EXCEPT ![lv] = Tail(@)], level, A \ {Head(queues[lv])})
<1> DEFINE q == [queues EXCEPT ![lv] = Tail(@)]
           h == Head(queues[lv])
<1>0. queues \in [Level -> Seq(TaskId)] /\ queues[lv] \in Seq(TaskId)
  BY DEF Holds
<1>1. /\ Tail(queues[lv]) \in Seq(TaskId)
      /\ Len(Tail(queues[lv])) = Len(queues[lv]) - 1
      /\ \A i \in 1 .. Len(Tail(queues[lv])) : Tail(queues[lv])[i] = queues[lv][i + 1]
      /\ Len(queues[lv]) \in Nat /\ Len(queues[lv]) >= 1
      /\ h = queues[lv][1]
  BY <1>0, HeadTailProperties, LenProperties, EmptySeq
<1>2. q \in [Level -> Seq(TaskId)] /\ q[lv] = Tail(queues[lv])
  BY <1>0, <1>1
<1>3. h \in A /\ level[h] = lv
  BY <1>1 DEF Holds
<1>4. ASSUME NEW k \in Level, NEW i \in 1 .. Len(q[k])
      PROVE  q[k][i] \in A \ {h} /\ level[q[k][i]] = k
  <2>1. CASE k = lv
    <3>1. q[k][i] = queues[lv][i + 1] /\ i + 1 \in 1 .. Len(queues[lv]) /\ i + 1 # 1
      BY <2>1, <1>1, <1>2
    <3> QED BY <3>1, <2>1, <1>1 DEF Holds
  <2>2. CASE k # lv
    <3>1. q[k] = queues[k] BY <2>2, <1>0
    <3> QED BY <3>1, <2>2, <1>3 DEF Holds
  <2> QED BY <2>1, <2>2
<1>5. ASSUME NEW k \in Level, NEW i \in 1 .. Len(q[k]), NEW j \in 1 .. Len(q[k]),
             q[k][i] = q[k][j]
      PROVE  i = j
  <2>1. CASE k = lv
    <3>1. /\ q[k][i] = queues[lv][i + 1] /\ i + 1 \in 1 .. Len(queues[lv])
          /\ q[k][j] = queues[lv][j + 1] /\ j + 1 \in 1 .. Len(queues[lv])
      BY <2>1, <1>1, <1>2
    <3>2. i + 1 = j + 1 BY <3>1, <1>5 DEF Holds
    <3> QED BY <3>2, <2>1, <1>1, <1>2
  <2>2. CASE k # lv BY <2>2, <1>0, <1>5 DEF Holds
  <2> QED BY <2>1, <2>2
<1>6. ASSUME NEW u \in A \ {h}
      PROVE  \E i \in 1 .. Len(q[level[u]]) : q[level[u]][i] = u
  <2>1. PICK i \in 1 .. Len(queues[level[u]]) : queues[level[u]][i] = u
    BY DEF Holds
  <2>2. CASE level[u] = lv
    <3>1. i # 1 BY <2>1, <2>2, <1>1
    <3>2. i - 1 \in 1 .. Len(q[level[u]]) /\ q[level[u]][i - 1] = u
      BY <3>1, <2>1, <2>2, <1>1, <1>2
    <3> QED BY <3>2
  <2>3. CASE level[u] # lv
    <3>1. level[u] \in Level /\ q[level[u]] = queues[level[u]] BY <2>3, <1>0
    <3> QED BY <3>1, <2>1
  <2> QED BY <2>2, <2>3
<1> QED BY <1>2, <1>3, <1>4, <1>5, <1>6 DEF Holds

(* push_front of a task that no queue holds.                               *)
LEMMA HoldsPushFront ==
  ASSUME NEW queues, NEW level \in [TaskId -> Level], NEW A \in SUBSET TaskId,
         Holds(queues, level, A),
         NEW t \in TaskId \ A, NEW lv \in Level
  PROVE  Holds([queues EXCEPT ![lv] = <<t>> \o @], [level EXCEPT ![t] = lv],
               A \cup {t})
<1> DEFINE q == [queues EXCEPT ![lv] = <<t>> \o @]
           l == [level EXCEPT ![t] = lv]
<1>0. queues \in [Level -> Seq(TaskId)] /\ queues[lv] \in Seq(TaskId)
  BY DEF Holds
<1>1. /\ <<t>> \o queues[lv] \in Seq(TaskId)
      /\ Len(<<t>> \o queues[lv]) = Len(queues[lv]) + 1
      /\ \A i \in 1 .. Len(queues[lv]) : (<<t>> \o queues[lv])[i + 1] = queues[lv][i]
      /\ (<<t>> \o queues[lv])[1] = t
      /\ Len(queues[lv]) \in Nat
  BY <1>0, LenProperties
<1>2. q \in [Level -> Seq(TaskId)] /\ q[lv] = <<t>> \o queues[lv]
  BY <1>0, <1>1
<1>3. ASSUME NEW k \in Level, NEW i \in 1 .. Len(q[k])
      PROVE  q[k][i] \in A \cup {t} /\ l[q[k][i]] = k
  <2>1. CASE k = lv /\ i = 1 BY <2>1, <1>1, <1>2
  <2>2. CASE k = lv /\ i # 1
    <3>1. i - 1 \in 1 .. Len(queues[lv]) /\ q[k][i] = queues[lv][i - 1]
      BY <2>2, <1>1, <1>2
    <3> QED BY <3>1, <2>2 DEF Holds
  <2>3. CASE k # lv BY <2>3, <1>0 DEF Holds
  <2> QED BY <2>1, <2>2, <2>3
<1>4. ASSUME NEW k \in Level, NEW i \in 1 .. Len(q[k]), NEW j \in 1 .. Len(q[k]),
             q[k][i] = q[k][j]
      PROVE  i = j
  <2>1. CASE k = lv
    <3>1. ASSUME NEW n \in 1 .. Len(q[k]), n # 1
          PROVE  n - 1 \in 1 .. Len(queues[lv]) /\ q[k][n] = queues[lv][n - 1]
      BY <2>1, <3>1, <1>1, <1>2
    <3>2. q[k][1] = t BY <2>1, <1>1, <1>2
    <3>3. CASE i = 1 /\ j = 1 BY <3>3
    <3>4. CASE i = 1 /\ j # 1 BY <3>1, <3>2, <3>4, <1>4 DEF Holds
    <3>5. CASE i # 1 /\ j = 1 BY <3>1, <3>2, <3>5, <1>4 DEF Holds
    <3>6. CASE i # 1 /\ j # 1
      <4>1. /\ i - 1 \in 1 .. Len(queues[lv]) /\ j - 1 \in 1 .. Len(queues[lv])
            /\ queues[lv][i - 1] = queues[lv][j - 1]
        BY <3>1, <3>6, <2>1, <1>4
      <4>2. i - 1 = j - 1 BY <4>1 DEF Holds
      <4> QED BY <4>2, <2>1, <1>1, <1>2
    <3> QED BY <3>3, <3>4, <3>5, <3>6
  <2>2. CASE k # lv BY <2>2, <1>0, <1>4 DEF Holds
  <2> QED BY <2>1, <2>2
<1>5. ASSUME NEW u \in A \cup {t}
      PROVE  \E i \in 1 .. Len(q[l[u]]) : q[l[u]][i] = u
  <2>1. CASE u = t BY <2>1, <1>1, <1>2
  <2>2. CASE u # t
    <3>1. l[u] = level[u] /\ level[u] \in Level /\ u \in A BY <2>2
    <3>2. PICK i \in 1 .. Len(queues[level[u]]) : queues[level[u]][i] = u
      BY <3>1 DEF Holds
    <3>3. CASE level[u] = lv
      <4>1. i + 1 \in 1 .. Len(q[lv]) /\ q[lv][i + 1] = u
        BY <3>2, <3>3, <1>1, <1>2
      <4> QED BY <4>1, <3>1, <3>3
    <3>4. CASE level[u] # lv BY <3>1, <3>2, <3>4, <1>0
    <3> QED BY <3>3, <3>4
  <2> QED BY <2>1, <2>2
<1> QED BY <1>2, <1>3, <1>4, <1>5 DEF Holds

(* What std::remove leaves of a queue that holds t at position p only.     *)
ErasedAt(s, t, e, p) ==
  /\ s[p] = t
  /\ e \in Seq(TaskId)
  /\ Len(e) = Len(s) - 1
  /\ \A n \in 1 .. Len(s) - 1 : e[n] = IF n < p THEN s[n] ELSE s[n + 1]

LEMMA EraseProperties ==
  ASSUME NEW s \in Seq(TaskId), NEW t, NEW k \in 1 .. Len(s), s[k] = t
  PROVE  \E p \in 1 .. Len(s) : ErasedAt(s, t, Erase(s, t), p)
<1>0. Len(s) \in Nat /\ DOMAIN s = 1 .. Len(s)
  BY LenProperties
<1> DEFINE p == CHOOSE j \in DOMAIN s : s[j] = t
           a == SubSeq(s, 1, p - 1)
           b == SubSeq(s, p + 1, Len(s))
<1>1. p \in 1 .. Len(s) /\ s[p] = t
  BY <1>0
<1>2. Erase(s, t) = a \o b
  BY <1>0 DEF Erase
<1> HIDE DEF p
<1>3. /\ a \in Seq(TaskId) /\ Len(a) = p - 1
      /\ \A n \in 1 .. p - 1 : a[n] = s[n]
  BY <1>0, <1>1
<1>4. /\ b \in Seq(TaskId) /\ Len(b) = Len(s) - p
      /\ \A n \in 1 .. Len(s) - p : b[n] = s[p + n]
  <2>1. \A n \in p + 1 .. Len(s) : s[n] \in TaskId BY <1>0, <1>1
  <2>2. /\ b \in Seq(TaskId)
        /\ Len(b) = IF p + 1 <= Len(s) THEN Len(s) - (p + 1) + 1 ELSE 0
        /\ \A n \in 1 .. Len(s) - (p + 1) + 1 : b[n] = s[(p + 1) + n - 1]
    BY <2>1, <1>0, <1>1, SubSeqProperties
  <2> HIDE DEF b
  <2>5. Len(b) = IF p + 1 <= Len(s) THEN Len(s) - (p + 1) + 1 ELSE 0
    BY <2>2
  <2>6. Len(s) \in Nat /\ p \in 1 .. Len(s) BY <1>0, <1>1
  <2>3. Len(b) = Len(s) - p BY <2>5, <2>6
  <2>4. ASSUME NEW n \in 1 .. Len(s) - p PROVE b[n] = s[p + n]
    <3>1. n \in 1 .. Len(s) - (p + 1) + 1 /\ (p + 1) + n - 1 = p + n
      BY <1>0, <1>1
    <3> QED BY <3>1, <2>2
  <2> QED BY <2>2, <2>3, <2>4
<1> HIDE DEF a, b
<1>5. /\ a \o b \in Seq(TaskId) /\ Len(a \o b) = Len(s) - 1
      /\ \A n \in 1 .. Len(s) - 1 :
           (a \o b)[n] = IF n <= Len(a) THEN a[n] ELSE b[n - Len(a)]
  <2>1. /\ a \o b \in Seq(TaskId) /\ Len(a \o b) = Len(a) + Len(b)
        /\ \A n \in 1 .. Len(a) + Len(b) :
             (a \o b)[n] = IF n <= Len(a) THEN a[n] ELSE b[n - Len(a)]
    BY <1>3, <1>4, ConcatProperties
  <2>2. Len(a) + Len(b) = Len(s) - 1 BY <1>0, <1>1, <1>3, <1>4
  <2> QED BY <2>1, <2>2
<1>6. \A n \in 1 .. Len(s) - 1 :
         Erase(s, t)[n] = IF n < p THEN s[n] ELSE s[n + 1]
  BY <1>0, <1>1, <1>2, <1>3, <1>4, <1>5
<1> QED BY <1>1, <1>2, <1>5, <1>6 DEF ErasedAt

(* std::remove of a queued task from the queue of its level.               *)
LEMMA HoldsErase ==
  ASSUME NEW queues, NEW level \in [TaskId -> Level], NEW A \in SUBSET TaskId,
         Holds(queues, level, A),
         NEW t \in A
  PROVE  Holds([queues EXCEPT ![level[t]] = Erase(@, t)], level, A \ {t})
<1>0. /\ queues \in [Level -> Seq(TaskId)] /\ level[t] \in Level
      /\ queues[level[t]] \in Seq(TaskId)
  BY DEF Holds
<1>1. PICK pos \in 1 .. Len(queues[level[t]]) : queues[level[t]][pos] = t
  BY DEF Holds
<1>2. SUFFICES ASSUME NEW lv \in Level, lv = level[t],
                      NEW s \in Seq(TaskId), s = queues[lv],
                      NEW e \in Seq(TaskId),
                      NEW p \in 1 .. Len(s), s[p] = t,
                      Len(e) = Len(s) - 1,
                      \A n \in 1 .. Len(s) - 1 : e[n] = IF n < p THEN s[n] ELSE s[n + 1]
               PROVE  Holds([queues EXCEPT ![lv] = e], level, A \ {t})
  <2>1. PICK p \in 1 .. Len(queues[level[t]]) :
          ErasedAt(queues[level[t]], t, Erase(queues[level[t]], t), p)
    BY <1>0, <1>1, EraseProperties
  <2> QED BY <1>0, <1>2, <2>1 DEF ErasedAt
<1> DEFINE q == [queues EXCEPT ![lv] = e]
<1>3. /\ q \in [Level -> Seq(TaskId)] /\ q[lv] = e
      /\ \A k \in Level : k # lv => q[k] = queues[k]
      /\ Len(s) \in Nat
  BY <1>0, <1>2, LenProperties
<1>n. Len(s) \in Nat /\ p \in 1 .. Len(s) /\ s[p] = t
  BY <1>2, <1>3
<1>h. /\ \A i \in 1 .. Len(s) : s[i] \in A /\ level[s[i]] = lv
      /\ \A i, j \in 1 .. Len(s) : s[i] = s[j] => i = j
      /\ \A u \in A : level[u] = lv => \E i \in 1 .. Len(s) : s[i] = u
  <2>1. ASSUME NEW u \in A, level[u] = lv PROVE \E i \in 1 .. Len(s) : s[i] = u
    <3>1. \E i \in 1 .. Len(queues[level[u]]) : queues[level[u]][i] = u
      BY DEF Holds
    <3> QED BY <3>1, <2>1, <1>2
  <2>2. ASSUME NEW i \in 1 .. Len(s), NEW j \in 1 .. Len(s), s[i] = s[j] PROVE i = j
    BY <1>2, <2>2 DEF Holds
  <2>3. ASSUME NEW i \in 1 .. Len(s) PROVE s[i] \in A /\ level[s[i]] = lv
    BY <1>2 DEF Holds
  <2> QED BY <2>1, <2>2, <2>3
<1>e. /\ \A n \in 1 .. Len(s) - 1 : n < p => e[n] = s[n]
      /\ \A n \in 1 .. Len(s) - 1 : n >= p => e[n] = s[n + 1]
      /\ p \in 1 .. Len(s)
  BY <1>2
<1> HIDE DEF q
<1>4. ASSUME NEW k \in Level, NEW i \in 1 .. Len(q[k])
      PROVE  q[k][i] \in A \ {t} /\ level[q[k][i]] = k
  <2>1. CASE k = lv
    <3>1. i \in 1 .. Len(s) - 1 /\ q[k][i] = e[i] BY <2>1, <1>2, <1>3
    <3>2. PICK n \in 1 .. Len(s) : n # p /\ e[i] = s[n]
      <4>1. CASE i < p
        <5>1. i \in 1 .. Len(s) /\ i # p BY <4>1, <3>1, <1>n
        <5>2. e[i] = s[i] BY <4>1, <3>1, <1>e
        <5> QED BY <5>1, <5>2
      <4>2. CASE i >= p
        <5>1. i + 1 \in 1 .. Len(s) /\ i + 1 # p /\ e[i] = s[i + 1]
          BY <4>2, <3>1, <1>3, <1>e
        <5> QED BY <5>1
      <4> QED BY <4>1, <4>2, <3>1, <1>e, <1>3
    <3>3. s[n] # t BY <3>2, <1>2, <1>h
    <3> QED BY <2>1, <3>1, <3>2, <3>3, <1>h
  <2>2. CASE k # lv
    <3>1. q[k] = queues[k] BY <2>2, <1>3
    <3>2. i \in 1 .. Len(queues[k]) BY <3>1
    <3>3. queues[k][i] \in A /\ level[queues[k][i]] = k BY <3>2 DEF Holds
    <3>4. queues[k][i] # t BY <3>3, <2>2, <1>2
    <3> QED BY <3>1, <3>3, <3>4
  <2> QED BY <2>1, <2>2
<1>5. ASSUME NEW k \in Level, NEW i \in 1 .. Len(q[k]), NEW j \in 1 .. Len(q[k]),
             q[k][i] = q[k][j]
      PROVE  i = j
  <2>1. CASE k = lv
    <3>1. /\ i \in 1 .. Len(s) - 1 /\ j \in 1 .. Len(s) - 1 /\ e[i] = e[j]
      BY <2>1, <1>2, <1>3, <1>5
    <3>2. CASE i < p /\ j < p
      <4>1. s[i] = s[j] BY <3>1, <3>2, <1>e
      <4>2. i \in 1 .. Len(s) /\ j \in 1 .. Len(s) BY <3>1, <1>n
      <4> QED BY <4>1, <4>2, <1>h
    <3>3. CASE i < p /\ j >= p
      <4>1. s[i] = s[j + 1] BY <3>1, <3>3, <1>e
      <4>2. i = j + 1 BY <4>1, <3>1, <1>3, <1>h
      <4> QED BY <4>2, <3>1, <3>3
    <3>4. CASE i >= p /\ j < p
      <4>1. s[i + 1] = s[j] BY <3>1, <3>4, <1>e
      <4>2. i + 1 = j BY <4>1, <3>1, <1>3, <1>h
      <4> QED BY <4>2, <3>1, <3>4
    <3>5. CASE i >= p /\ j >= p
      <4>1. s[i + 1] = s[j + 1] BY <3>1, <3>5, <1>e
      <4>2. i + 1 \in 1 .. Len(s) /\ j + 1 \in 1 .. Len(s) BY <3>1, <1>n
      <4>3. i + 1 = j + 1 BY <4>1, <4>2, <1>h
      <4> QED BY <4>3, <3>1
    <3>6. (i < p \/ i >= p) /\ (j < p \/ j >= p) BY <3>1, <1>n
    <3> QED BY <3>2, <3>3, <3>4, <3>5, <3>6
  <2>2. CASE k # lv
    <3>1. /\ i \in 1 .. Len(queues[k]) /\ j \in 1 .. Len(queues[k])
          /\ queues[k][i] = queues[k][j]
      BY <2>2, <1>3, <1>5
    <3> QED BY <3>1 DEF Holds
  <2> QED BY <2>1, <2>2
<1>6. ASSUME NEW u \in A \ {t}
      PROVE  \E i \in 1 .. Len(q[level[u]]) : q[level[u]][i] = u
  <2>1. CASE level[u] = lv
    <3>1. PICK i \in 1 .. Len(s) : s[i] = u BY <2>1, <1>h
    <3>2. i # p BY <3>1, <1>2
    <3>3. CASE i < p
      <4>1. i \in 1 .. Len(s) - 1 /\ e[i] = s[i] BY <3>1, <3>3, <1>3, <1>e
      <4>2. i \in 1 .. Len(q[level[u]]) /\ q[level[u]][i] = u
        BY <4>1, <3>1, <2>1, <1>2, <1>3
      <4> QED BY <4>2
    <3>4. CASE i > p
      <4>1. i - 1 \in 1 .. Len(s) - 1 /\ e[i - 1] = s[(i - 1) + 1]
        BY <3>1, <3>4, <1>3, <1>e
      <4>2. e[i - 1] = u BY <4>1, <3>1, <1>n
      <4>3. i - 1 \in 1 .. Len(q[level[u]]) /\ q[level[u]][i - 1] = u
        BY <4>1, <4>2, <2>1, <1>2, <1>3
      <4> QED BY <4>3
    <3> QED BY <3>1, <3>2, <3>3, <3>4, <1>2, <1>3
  <2>2. CASE level[u] # lv
    <3>1. level[u] \in Level /\ q[level[u]] = queues[level[u]] BY <2>2, <1>3
    <3> QED BY <3>1 DEF Holds
  <2> QED BY <2>1, <2>2
<1> QED BY <1>3, <1>4, <1>5, <1>6 DEF Holds, q

-----------------------------------------------------------------------------
(* The object.                                                             *)

Queued(m) == {t \in m.tasks : m.is_running[t]}

(* The invariant of the object between two calls of its methods.  Beyond   *)
(* RunQueuesOK and CurrentLevelOK: the idle task always runs at level 0    *)
(* (some queue is never empty), and IDs above latest_id are unused.        *)
ManagerInv(m) ==
  /\ m \in Manager
  /\ Holds(m.running, m.level, Queued(m))
  /\ CurrentLevelOK(m)
  /\ IdleId \in m.tasks /\ m.is_running[IdleId] /\ m.level[IdleId] = 0
  /\ \A t \in TaskId : m.is_running[t] => t \in m.tasks
  /\ \A t \in m.tasks : t <= m.latest_id

LEMMA HoldsIsRunQueuesOK ==
  ASSUME NEW m, m \in Manager
  PROVE  RunQueuesOK(m) <=> Holds(m.running, m.level, Queued(m))
<1>1. m.running \in [Level -> Seq(TaskId)]
  BY DEF Manager
<1> QED BY <1>1 DEF RunQueuesOK, Holds, Queued

LEMMA CurrentTaskProperties ==
  ASSUME NEW m, ManagerInv(m)
  PROVE  /\ CurrentTask(m) \in m.tasks
         /\ CurrentTask(m) \in TaskId
         /\ m.is_running[CurrentTask(m)]
         /\ m.level[CurrentTask(m)] = m.current_level
<1>1. /\ m.level \in [TaskId -> Level] /\ Queued(m) \in SUBSET TaskId
      /\ m.current_level \in Level /\ m.running[m.current_level] # <<>>
  BY DEF ManagerInv, Manager, Queued, CurrentLevelOK
<1>2. CurrentTask(m) \in Queued(m) /\ m.level[CurrentTask(m)] = m.current_level
  BY <1>1, HoldsTail, ZenonT(40) DEF ManagerInv, CurrentTask
<1> QED BY <1>1, <1>2 DEF Queued

(* The scan for the highest occupied level finds one.                      *)
LEMMA HighestLevelProperties ==
  ASSUME NEW queues, NEW l \in Level, queues[l] # <<>>
  PROVE  /\ HighestLevel(queues) \in Level
         /\ queues[HighestLevel(queues)] # <<>>
         /\ \A lv \in Level : lv > HighestLevel(queues) => queues[lv] = <<>>
<1> DEFINE P(lv) == /\ queues[lv] # <<>>
                    /\ \A k \in Level : k > lv => queues[k] = <<>>
<1>1. Level = {0, 1, 2, 3} BY DEF Level, kMaxLevel
<1>2. \E lv \in Level : P(lv)
  <2>1. CASE queues[3] # <<>> BY <1>1, <2>1
  <2>2. CASE queues[3] = <<>> /\ queues[2] # <<>> BY <1>1, <2>2
  <2>3. CASE queues[3] = <<>> /\ queues[2] = <<>> /\ queues[1] # <<>> BY <1>1, <2>3
  <2>4. CASE queues[3] = <<>> /\ queues[2] = <<>> /\ queues[1] = <<>> BY <1>1, <2>4
  <2> QED BY <2>1, <2>2, <2>3, <2>4
<1> QED BY <1>2 DEF HighestLevel

(* The idle task keeps some queue occupied.                                *)
LEMMA SomeQueueOccupied ==
  ASSUME NEW queues, NEW level \in [TaskId -> Level], NEW A \in SUBSET TaskId,
         Holds(queues, level, A), NEW t \in A
  PROVE  queues[level[t]] # <<>>
<1>1. PICK i \in 1 .. Len(queues[level[t]]) : queues[level[t]][i] = t
  BY DEF Holds
<1>2. queues[level[t]] \in Seq(TaskId) BY DEF Holds
<1> QED BY <1>1, <1>2, EmptySeq

(* RotateCurrentRunQueue(false): the current task goes to the back.        *)
LEMMA RotateKeeps ==
  ASSUME NEW m, ManagerInv(m)
  PROVE  ManagerInv(RotateCurrentRunQueue(m, FALSE))
<1> DEFINE c  == CurrentTask(m)
           cl == m.current_level
           q  == [m.running EXCEPT ![cl] = Append(Tail(m.running[cl]), c)]
           r  == RotateCurrentRunQueue(m, FALSE)
<1>1. /\ m.level \in [TaskId -> Level] /\ Queued(m) \in SUBSET TaskId
      /\ cl \in Level /\ m.running[cl] # <<>> /\ m.running \in [Level -> Seq(TaskId)]
  BY DEF ManagerInv, Manager, Queued, CurrentLevelOK
<1>2. c \in Queued(m) /\ m.level[c] = cl
  BY CurrentTaskProperties DEF Queued
<1>3. Holds([m.running EXCEPT ![cl] = Tail(@)], m.level, Queued(m) \ {c})
  BY <1>1, HoldsTail DEF ManagerInv, CurrentTask
<1>4. Holds([[m.running EXCEPT ![cl] = Tail(@)] EXCEPT ![cl] = Append(@, c)],
            [m.level EXCEPT ![c] = cl], (Queued(m) \ {c}) \cup {c})
  BY <1>1, <1>2, <1>3, HoldsAppend
<1>5. Holds(q, m.level, Queued(m))
  <2>1. q = [[m.running EXCEPT ![cl] = Tail(@)] EXCEPT ![cl] = Append(@, c)]
    BY <1>1
  <2>2. m.level = [m.level EXCEPT ![c] = cl] BY <1>1, <1>2
  <2>3. Queued(m) = (Queued(m) \ {c}) \cup {c} BY <1>2
  <2> QED BY <1>4, <2>1, <2>2, <2>3
<1>6. q[cl] # <<>> /\ q \in [Level -> Seq(TaskId)]
  <2>1. q[m.level[c]] # <<>> BY <1>1, <1>2, <1>5, SomeQueueOccupied
  <2> QED BY <2>1, <1>2, <1>5 DEF Holds
<1>7. /\ HighestLevel(q) \in Level /\ q[HighestLevel(q)] # <<>>
      /\ \A lv \in Level : lv > HighestLevel(q) => q[lv] = <<>>
  BY <1>1, <1>6, HighestLevelProperties
<1>8. /\ r \in Manager
      /\ r.running = q /\ r.level = m.level /\ r.is_running = m.is_running
      /\ r.tasks = m.tasks /\ r.latest_id = m.latest_id
      /\ \/ r.current_level = HighestLevel(q) /\ r.level_changed = FALSE
         \/ /\ r.current_level = cl /\ r.level_changed = m.level_changed
            /\ ~m.level_changed
  <2> HIDE DEF q
  <2>1. m \in Manager BY DEF ManagerInv
  <2>2. CASE m.level_changed \/ q[cl] = <<>>
    <3>1. r = [m EXCEPT !.running = q, !.current_level = HighestLevel(q),
                        !.level_changed = FALSE]
      BY <2>2, <1>1 DEF RotateCurrentRunQueue, q
    <3> QED BY <3>1, <2>1, <1>6, <1>7 DEF Manager
  <2>3. CASE ~(m.level_changed \/ q[cl] = <<>>)
    <3>1. r = [m EXCEPT !.running = q]
      BY <2>3, <1>1 DEF RotateCurrentRunQueue, q
    <3> QED BY <3>1, <2>1, <2>3, <1>6 DEF Manager
  <2> QED BY <2>2, <2>3
<1>9. CurrentLevelOK(r)
  <2>1. CASE r.current_level = HighestLevel(q) BY <2>1, <1>7, <1>8 DEF CurrentLevelOK
  <2>2. CASE r.current_level = cl /\ ~m.level_changed
    <3>1. \A lv \in Level : lv > cl => q[lv] = <<>>
      BY <2>2, <1>1 DEF ManagerInv, CurrentLevelOK
    <3> QED BY <3>1, <2>2, <1>6, <1>8 DEF CurrentLevelOK
  <2> QED BY <2>1, <2>2, <1>8
<1> QED
  <2> HIDE DEF q, r
  <2>1. Queued(r) = Queued(m) BY <1>8 DEF Queued
  <2>2. ManagerInv(r) BY <2>1, <1>5, <1>8, <1>9 DEF ManagerInv
  <2> QED BY <2>2 DEF r

(* RotateCurrentRunQueue(true): the current task leaves its queue.  Sleep   *)
(* clears its flag before (x is then not m), Finish destroys it after.     *)
LEMMA RotateDrops ==
  ASSUME NEW m, ManagerInv(m), CurrentTask(m) # IdleId,
         NEW x \in Manager,
         x.running = m.running, x.level = m.level,
         x.current_level = m.current_level, x.level_changed = m.level_changed,
         NEW r, r = RotateCurrentRunQueue(x, TRUE)
  PROVE  /\ r \in Manager
         /\ Holds(r.running, r.level, Queued(m) \ {CurrentTask(m)})
         /\ CurrentLevelOK(r)
         /\ r.level = x.level /\ r.is_running = x.is_running
         /\ r.tasks = x.tasks /\ r.latest_id = x.latest_id /\ r.msgs = x.msgs
         /\ r.finish_tasks = x.finish_tasks /\ r.finish_waiter = x.finish_waiter
<1> DEFINE c  == CurrentTask(m)
           cl == m.current_level
           q  == [m.running EXCEPT ![cl] = Tail(m.running[cl])]
<1>1. /\ m.level \in [TaskId -> Level] /\ Queued(m) \in SUBSET TaskId
      /\ cl \in Level /\ m.running[cl] # <<>> /\ m.running \in [Level -> Seq(TaskId)]
  BY DEF ManagerInv, Manager, Queued, CurrentLevelOK
<1>2. c \in Queued(m) /\ m.level[c] = cl
  BY CurrentTaskProperties DEF Queued
<1>3. Holds([m.running EXCEPT ![cl] = Tail(@)], m.level, Queued(m) \ {c})
  BY <1>1, HoldsTail DEF ManagerInv, CurrentTask
<1>5. Holds(q, m.level, Queued(m) \ {c})
  BY <1>3, <1>1
<1>6. q[0] # <<>> /\ q \in [Level -> Seq(TaskId)]
  <2>1. IdleId \in Queued(m) \ {c} /\ m.level[IdleId] = 0
    BY DEF ManagerInv, Queued, c
  <2>2. q[m.level[IdleId]] # <<>> BY <2>1, <1>1, <1>5, SomeQueueOccupied
  <2> QED BY <2>1, <2>2, <1>5 DEF Holds
<1>7. /\ HighestLevel(q) \in Level /\ q[HighestLevel(q)] # <<>>
      /\ \A lv \in Level : lv > HighestLevel(q) => q[lv] = <<>>
  <2>1. 0 \in Level BY DEF Level, kMaxLevel
  <2> QED BY <2>1, <1>6, HighestLevelProperties
<1>8. /\ r \in Manager
      /\ r.running = q /\ r.level = x.level /\ r.is_running = x.is_running
      /\ r.tasks = x.tasks /\ r.latest_id = x.latest_id /\ r.msgs = x.msgs
      /\ r.finish_tasks = x.finish_tasks /\ r.finish_waiter = x.finish_waiter
      /\ \/ r.current_level = HighestLevel(q) /\ r.level_changed = FALSE
         \/ /\ r.current_level = cl /\ r.level_changed = m.level_changed
            /\ ~m.level_changed /\ q[cl] # <<>>
  <2> HIDE DEF q
  <2>2. CASE m.level_changed \/ q[cl] = <<>>
    <3>1. r = [x EXCEPT !.running = q, !.current_level = HighestLevel(q),
                        !.level_changed = FALSE]
      BY <2>2, <1>1 DEF RotateCurrentRunQueue, q
    <3> QED BY <3>1, <1>6, <1>7 DEF Manager
  <2>3. CASE ~(m.level_changed \/ q[cl] = <<>>)
    <3>1. r = [x EXCEPT !.running = q]
      BY <2>3, <1>1 DEF RotateCurrentRunQueue, q
    <3> QED BY <3>1, <2>3, <1>6 DEF Manager
  <2> QED BY <2>2, <2>3
<1>9. CurrentLevelOK(r)
  <2>1. CASE r.current_level = HighestLevel(q) BY <2>1, <1>7, <1>8 DEF CurrentLevelOK
  <2>2. CASE r.current_level = cl /\ ~m.level_changed /\ q[cl] # <<>>
    <3>1. \A lv \in Level : lv > cl => q[lv] = <<>>
      BY <2>2, <1>1 DEF ManagerInv, CurrentLevelOK
    <3> QED BY <3>1, <2>2, <1>8 DEF CurrentLevelOK
  <2> QED BY <2>1, <2>2, <1>8
<1> HIDE DEF q
<1>10. Holds(r.running, r.level, Queued(m) \ {c}) BY <1>5, <1>8
<1> QED BY <1>8, <1>9, <1>10

LEMMA SleepKeeps ==
  ASSUME NEW m, ManagerInv(m), NEW t \in TaskId, t # IdleId
  PROVE  /\ ManagerInv(Sleep(m, t))
         /\ Sleep(m, t).latest_id = m.latest_id /\ Sleep(m, t).tasks = m.tasks
         /\ Sleep(m, t).msgs = m.msgs
         /\ Sleep(m, t).is_running = [m.is_running EXCEPT ![t] = FALSE]
         /\ Sleep(m, t).finish_tasks = m.finish_tasks
         /\ Sleep(m, t).finish_waiter = m.finish_waiter
<1> DEFINE x == [m EXCEPT !.is_running[t] = FALSE]
           s == Sleep(m, t)
<1>0. /\ m \in Manager /\ x \in Manager
      /\ x.is_running = [m.is_running EXCEPT ![t] = FALSE]
      /\ x.running = m.running /\ x.level = m.level /\ x.tasks = m.tasks
      /\ x.current_level = m.current_level /\ x.level_changed = m.level_changed
      /\ x.latest_id = m.latest_id /\ x.msgs = m.msgs
      /\ x.finish_tasks = m.finish_tasks /\ x.finish_waiter = m.finish_waiter
      /\ m.level \in [TaskId -> Level] /\ Queued(m) \in SUBSET TaskId
      /\ m.is_running \in [TaskId -> BOOLEAN] /\ m.current_level \in Level
  BY DEF ManagerInv, Manager, Queued
<1> HIDE DEF x
<1>1. CASE ~m.is_running[t]
  <2>1. s = m BY <1>1 DEF Sleep
  <2>2. m.is_running = [m.is_running EXCEPT ![t] = FALSE] BY <1>0, <1>1
  <2> QED BY <2>1, <2>2
<1>2. CASE m.is_running[t] /\ t = CurrentTask(m)
  <2>1. s = RotateCurrentRunQueue(x, TRUE) BY <1>2 DEF Sleep, x
  <2>2. /\ s \in Manager
        /\ Holds(s.running, s.level, Queued(m) \ {t})
        /\ CurrentLevelOK(s)
        /\ s.level = x.level /\ s.is_running = x.is_running
        /\ s.tasks = x.tasks /\ s.latest_id = x.latest_id /\ s.msgs = x.msgs
        /\ s.finish_tasks = x.finish_tasks /\ s.finish_waiter = x.finish_waiter
    <3>1. CurrentTask(m) # IdleId BY <1>2
    <3>2. /\ x \in Manager
          /\ x.running = m.running /\ x.level = m.level
          /\ x.current_level = m.current_level /\ x.level_changed = m.level_changed
      BY <1>0
    <3> HIDE DEF s
    <3> QED BY <2>1, <1>2, <3>1, <3>2, RotateDrops, ZenonT(40)
  <2> HIDE DEF s
  <2>3. Queued(s) = Queued(m) \ {t} BY <2>2, <1>0 DEF Queued
  <2>4. ManagerInv(s) BY <2>2, <2>3, <1>0 DEF ManagerInv
  <2> QED BY <2>2, <2>4, <1>0 DEF s
<1>3. CASE m.is_running[t] /\ t # CurrentTask(m)
  <2> DEFINE q == [m.running EXCEPT ![m.level[t]] = Erase(@, t)]
  <2>1. s = [x EXCEPT !.running = q]
    BY <1>0, <1>3 DEF Sleep, x, Manager
  <2>2. t \in Queued(m) BY <1>3 DEF ManagerInv, Queued
  <2>3. Holds(q, m.level, Queued(m) \ {t})
    BY <2>2, <1>0, HoldsErase DEF ManagerInv
  <2>4. q \in [Level -> Seq(TaskId)] BY <2>3 DEF Holds
  <2>5. q[m.current_level] # <<>>
    <3>1. CurrentTask(m) \in Queued(m) \ {t} /\ m.level[CurrentTask(m)] = m.current_level
      BY <1>3, CurrentTaskProperties DEF Queued
    <3>2. q[m.level[CurrentTask(m)]] # <<>>
      <4> HIDE DEF q
      <4> QED BY <3>1, <2>3, <1>0, SomeQueueOccupied
    <3> QED BY <3>1, <3>2
  <2>6. m.level_changed \/ \A lv \in Level : lv > m.current_level => q[lv] = <<>>
    <3> SUFFICES ASSUME ~m.level_changed, NEW lv \in Level, lv > m.current_level
                 PROVE  q[lv] = <<>>
      OBVIOUS
    <3>1. m.running[lv] = <<>> BY DEF ManagerInv, CurrentLevelOK
    <3>2. lv # m.level[t]
      <4>1. m.running[m.level[t]] # <<>>
        BY <2>2, <1>0, SomeQueueOccupied DEF ManagerInv
      <4> QED BY <3>1, <4>1
    <3> QED BY <3>1, <3>2, <1>0 DEF Manager
  <2> HIDE DEF q
  <2>7. /\ s \in Manager /\ s.running = q /\ s.level = m.level
        /\ s.is_running = x.is_running /\ s.tasks = m.tasks
        /\ s.current_level = m.current_level /\ s.level_changed = m.level_changed
        /\ s.latest_id = m.latest_id /\ s.msgs = m.msgs
        /\ s.finish_tasks = m.finish_tasks /\ s.finish_waiter = m.finish_waiter
    BY <2>1, <2>4, <1>0 DEF Manager
  <2> HIDE DEF s
  <2>8. Queued(s) = Queued(m) \ {t} BY <2>7, <1>0 DEF Queued
  <2>9. ManagerInv(s)
    BY <2>3, <2>5, <2>6, <2>7, <2>8, <1>0 DEF ManagerInv, CurrentLevelOK
  <2> QED BY <2>7, <2>9, <1>0 DEF s
<1> QED BY <1>1, <1>2, <1>3

(* push_back of a sleeping task, which may occupy a level above the        *)
(* current one: then level_changed_ is set.                                *)
LEMMA EnqueueKeeps ==
  ASSUME NEW m, ManagerInv(m), NEW t \in m.tasks, ~m.is_running[t],
         NEW lv \in Level,
         NEW r, r = Enqueue(m, t, lv)
  PROVE  /\ ManagerInv(r)
         /\ r.latest_id = m.latest_id /\ r.tasks = m.tasks /\ r.msgs = m.msgs
         /\ r.is_running = [m.is_running EXCEPT ![t] = TRUE]
         /\ r.finish_tasks = m.finish_tasks /\ r.finish_waiter = m.finish_waiter
<1> DEFINE q == [m.running EXCEPT ![lv] = Append(@, t)]
<1>0. /\ m \in Manager /\ m.level \in [TaskId -> Level] /\ Queued(m) \in SUBSET TaskId
      /\ m.is_running \in [TaskId -> BOOLEAN] /\ m.current_level \in Level
      /\ m.running \in [Level -> Seq(TaskId)] /\ m.level_changed \in BOOLEAN
      /\ t \in TaskId \ Queued(m) /\ t # IdleId
  BY DEF ManagerInv, Manager, Queued
<1>1. Holds(q, [m.level EXCEPT ![t] = lv], Queued(m) \cup {t})
  BY <1>0, HoldsAppend DEF ManagerInv
<1>2. q \in [Level -> Seq(TaskId)] /\ q[lv] # <<>> /\ \A k \in Level : k # lv => q[k] = m.running[k]
  <2>1. q \in [Level -> Seq(TaskId)] BY <1>1 DEF Holds
  <2>2. m.running[lv] \in Seq(TaskId) BY <1>0
  <2>3. Append(m.running[lv], t) # <<>>
    <3>1. t \in TaskId BY <1>0
    <3> QED BY <2>2, <3>1, AppendProperties
  <2> QED BY <2>1, <2>3, <1>0
<1>3. /\ r \in Manager /\ r.running = q /\ r.level = [m.level EXCEPT ![t] = lv]
      /\ r.is_running = [m.is_running EXCEPT ![t] = TRUE]
      /\ r.tasks = m.tasks /\ r.latest_id = m.latest_id /\ r.msgs = m.msgs
      /\ r.current_level = m.current_level
      /\ r.level_changed = (m.level_changed \/ lv > m.current_level)
      /\ r.finish_tasks = m.finish_tasks /\ r.finish_waiter = m.finish_waiter
  <2> DEFINE b == m.level_changed \/ lv > m.current_level
  <2>1. r = [m EXCEPT !.level[t] = lv, !.is_running[t] = TRUE, !.running = q,
                      !.level_changed = b]
    BY DEF Enqueue
  <2>2. b \in BOOLEAN OBVIOUS
  <2> HIDE DEF q, b
  <2>3. r \in Manager
    <3> DEFINE l == [m.level EXCEPT ![t] = lv]
               u == [m.is_running EXCEPT ![t] = TRUE]
    <3>1. l \in [TaskId -> Level] /\ u \in [TaskId -> BOOLEAN] BY <1>0
    <3>2. r = [m EXCEPT !.level = l, !.is_running = u, !.running = q, !.level_changed = b] BY <2>1, <1>0
    <3> HIDE DEF l, u
    <3> QED BY <2>2, <3>1, <3>2, <1>0, <1>2 DEF Manager
  <2>4. r.level_changed = (m.level_changed \/ lv > m.current_level)
    BY <2>1, <1>0, Zenon DEF Manager, b
  <2> QED BY <2>1, <2>3, <2>4, <1>0 DEF Manager
<1> HIDE DEF q
<1>4. CurrentLevelOK(r)
  <2>1. q[m.current_level] # <<>>
    BY <1>0, <1>2 DEF ManagerInv, CurrentLevelOK
  <2>2. ASSUME ~(m.level_changed \/ lv > m.current_level),
               NEW k \in Level, k > m.current_level
        PROVE  q[k] = <<>>
    BY <2>2, <1>2 DEF ManagerInv, CurrentLevelOK
  <2> QED BY <2>1, <2>2, <1>3 DEF CurrentLevelOK
<1>5. Queued(r) = Queued(m) \cup {t}
  BY <1>0, <1>3 DEF Queued
<1>6. r.level[IdleId] = 0 /\ r.is_running[IdleId] /\ IdleId \in r.tasks
  BY <1>0, <1>3 DEF ManagerInv, Manager
<1>7. ManagerInv(r)
  BY <1>0, <1>1, <1>3, <1>4, <1>5, <1>6 DEF ManagerInv
<1> QED BY <1>3, <1>7

(* Another task changes level: erased from one queue, pushed on another.   *)
LEMMA MoveOtherKeeps ==
  ASSUME NEW m, ManagerInv(m), NEW t \in m.tasks, m.is_running[t],
         t # IdleId, t # CurrentTask(m), NEW lv \in Level,
         NEW r, r = MoveOther(m, t, lv)
  PROVE  /\ ManagerInv(r)
         /\ r.latest_id = m.latest_id /\ r.tasks = m.tasks /\ r.msgs = m.msgs
         /\ r.is_running = m.is_running
         /\ r.finish_tasks = m.finish_tasks /\ r.finish_waiter = m.finish_waiter
<1> DEFINE e == [m.running EXCEPT ![m.level[t]] = Erase(@, t)]
           q == [e EXCEPT ![lv] = Append(@, t)]
           c == CurrentTask(m)
<1>0. /\ m \in Manager /\ m.level \in [TaskId -> Level] /\ Queued(m) \in SUBSET TaskId
      /\ m.current_level \in Level /\ m.level_changed \in BOOLEAN
      /\ m.running \in [Level -> Seq(TaskId)] /\ t \in TaskId /\ t \in Queued(m)
      /\ m.level[t] \in Level
  BY DEF ManagerInv, Manager, Queued
<1>1. Holds(e, m.level, Queued(m) \ {t})
  BY <1>0, HoldsErase DEF ManagerInv
<1>2. Holds(q, [m.level EXCEPT ![t] = lv], (Queued(m) \ {t}) \cup {t})
  <2>1. Queued(m) \ {t} \in SUBSET TaskId /\ t \in TaskId \ (Queued(m) \ {t}) BY <1>0
  <2> HIDE DEF e
  <2> QED BY <2>1, <1>0, <1>1, HoldsAppend
<1>3. /\ e \in [Level -> Seq(TaskId)] /\ q \in [Level -> Seq(TaskId)]
      /\ \A k \in Level : k # lv => q[k] = e[k]
      /\ \A k \in Level : k # m.level[t] => e[k] = m.running[k]
  <2>1. e \in [Level -> Seq(TaskId)] /\ q \in [Level -> Seq(TaskId)]
    BY <1>1, <1>2 DEF Holds
  <2>2. \A k \in Level : k # m.level[t] => e[k] = m.running[k] BY <1>0
  <2> HIDE DEF e
  <2> QED BY <2>1, <2>2
<1>4. m.running[m.level[t]] # <<>>
  BY <1>0, SomeQueueOccupied DEF ManagerInv
<1>5. q[m.current_level] # <<>>
  <2>1. c \in Queued(m) /\ c # t /\ m.level[c] = m.current_level
    BY CurrentTaskProperties DEF Queued
  <2>2. c \in (Queued(m) \ {t}) \cup {t} /\ [m.level EXCEPT ![t] = lv][c] = m.current_level
    BY <2>1, <1>0
  <2>3. /\ [m.level EXCEPT ![t] = lv] \in [TaskId -> Level]
        /\ (Queued(m) \ {t}) \cup {t} \in SUBSET TaskId
    BY <1>0
  <2> HIDE DEF q, c
  <2>4. q[[m.level EXCEPT ![t] = lv][c]] # <<>>
    BY <2>2, <2>3, <1>2, SomeQueueOccupied
  <2> QED BY <2>2, <2>4
<1>6. /\ r \in Manager /\ r.running = q /\ r.level = [m.level EXCEPT ![t] = lv]
      /\ r.is_running = m.is_running
      /\ r.tasks = m.tasks /\ r.latest_id = m.latest_id /\ r.msgs = m.msgs
      /\ r.current_level = m.current_level
      /\ r.level_changed = (m.level_changed \/ lv > m.current_level)
      /\ r.finish_tasks = m.finish_tasks /\ r.finish_waiter = m.finish_waiter
  <2> DEFINE b == m.level_changed \/ lv > m.current_level
  <2>1. r = [m EXCEPT !.running = q, !.level[t] = lv,
                      !.level_changed = b]
    BY DEF MoveOther
  <2>2. b \in BOOLEAN OBVIOUS
  <2> HIDE DEF q, b
  <2>3. r \in Manager
    <3> DEFINE l == [m.level EXCEPT ![t] = lv]
    <3>1. l \in [TaskId -> Level] BY <1>0
    <3>2. r = [m EXCEPT !.level = l, !.running = q, !.level_changed = b] BY <2>1, <1>0
    <3> HIDE DEF l
    <3> QED BY <2>2, <3>1, <3>2, <1>0, <1>3, ZenonT(40) DEF Manager
  <2>4. r.level_changed = (m.level_changed \/ lv > m.current_level)
    BY <2>1, <1>0, Zenon DEF Manager, b
  <2> QED BY <2>1, <2>3, <2>4, <1>0 DEF Manager
<1> HIDE DEF q, e
<1>7. CurrentLevelOK(r)
  <2>1. ASSUME ~(m.level_changed \/ lv > m.current_level),
               NEW k \in Level, k > m.current_level
        PROVE  q[k] = <<>>
    <3>1. m.running[k] = <<>> BY <2>1 DEF ManagerInv, CurrentLevelOK
    <3>2. k # m.level[t] BY <3>1, <1>4
    <3>3. k # lv BY <2>1
    <3> QED BY <3>1, <3>2, <3>3, <1>3
  <2> QED BY <2>1, <1>5, <1>6 DEF CurrentLevelOK
<1>8. Queued(r) = (Queued(m) \ {t}) \cup {t}
  BY <1>0, <1>6 DEF Queued
<1>9. r.level[IdleId] = 0 /\ r.is_running[IdleId] /\ IdleId \in r.tasks
  BY <1>0, <1>6 DEF ManagerInv, Manager
<1>10. ManagerInv(r)
  BY <1>0, <1>2, <1>6, <1>7, <1>8, <1>9 DEF ManagerInv
<1> QED BY <1>6, <1>10

(* The current task changes level: it stays at the front and the current   *)
(* level follows it, so lowering it needs level_changed_.                  *)
LEMMA MoveCurrentKeeps ==
  ASSUME NEW m, ManagerInv(m), NEW t, t = CurrentTask(m), t # IdleId,
         NEW lv \in Level, lv # m.level[t],
         NEW r, r = MoveCurrent(m, t, lv)
  PROVE  /\ ManagerInv(r)
         /\ r.latest_id = m.latest_id /\ r.tasks = m.tasks /\ r.msgs = m.msgs
         /\ r.is_running = m.is_running
         /\ r.finish_tasks = m.finish_tasks /\ r.finish_waiter = m.finish_waiter
<1> DEFINE cl == m.current_level
           e == [m.running EXCEPT ![cl] = Tail(@)]
           q == [e EXCEPT ![lv] = <<t>> \o @]
<1>0. /\ m \in Manager /\ m.level \in [TaskId -> Level] /\ Queued(m) \in SUBSET TaskId
      /\ cl \in Level /\ m.level_changed \in BOOLEAN
      /\ m.running \in [Level -> Seq(TaskId)] /\ t \in TaskId /\ t \in Queued(m)
      /\ m.level[t] = cl /\ m.running[cl] # <<>>
  BY CurrentTaskProperties DEF ManagerInv, Manager, Queued, CurrentLevelOK
<1>1. Holds(e, m.level, Queued(m) \ {t})
  BY <1>0, HoldsTail DEF ManagerInv, CurrentTask
<1>2. Holds(q, [m.level EXCEPT ![t] = lv], (Queued(m) \ {t}) \cup {t})
  <2>1. Queued(m) \ {t} \in SUBSET TaskId /\ t \in TaskId \ (Queued(m) \ {t}) BY <1>0
  <2> HIDE DEF e
  <2> QED BY <2>1, <1>0, <1>1, HoldsPushFront
<1>3. /\ e \in [Level -> Seq(TaskId)] /\ q \in [Level -> Seq(TaskId)]
      /\ \A k \in Level : k # lv => q[k] = e[k]
      /\ \A k \in Level : k # cl => e[k] = m.running[k]
      /\ q[lv] # <<>>
  <2>1. e \in [Level -> Seq(TaskId)] /\ q \in [Level -> Seq(TaskId)]
    BY <1>1, <1>2 DEF Holds
  <2>2. \A k \in Level : k # cl => e[k] = m.running[k] BY <1>0
  <2> HIDE DEF e
  <2>3. \A k \in Level : k # lv => q[k] = e[k] BY <2>1
  <2>4. q[[m.level EXCEPT ![t] = lv][t]] # <<>>
    <3>1. /\ [m.level EXCEPT ![t] = lv] \in [TaskId -> Level]
          /\ (Queued(m) \ {t}) \cup {t} \in SUBSET TaskId
          /\ t \in (Queued(m) \ {t}) \cup {t}
      BY <1>0
    <3> HIDE DEF q
    <3> QED BY <3>1, <1>2, SomeQueueOccupied
  <2>5. q[lv] # <<>> BY <2>4, <1>0
  <2> QED BY <2>1, <2>2, <2>3, <2>5
<1>6. /\ r \in Manager /\ r.running = q /\ r.level = [m.level EXCEPT ![t] = lv]
      /\ r.is_running = m.is_running
      /\ r.tasks = m.tasks /\ r.latest_id = m.latest_id /\ r.msgs = m.msgs
      /\ r.current_level = lv
      /\ r.level_changed = (m.level_changed \/ lv < cl)
      /\ r.finish_tasks = m.finish_tasks /\ r.finish_waiter = m.finish_waiter
  <2> DEFINE b == m.level_changed \/ lv < cl
  <2>1. r = [m EXCEPT !.running = q, !.level[t] = lv, !.current_level = lv,
                      !.level_changed = b]
    BY DEF MoveCurrent
  <2>2. b \in BOOLEAN OBVIOUS
  <2> HIDE DEF q, b
  <2>3. r \in Manager
    <3> DEFINE l == [m.level EXCEPT ![t] = lv]
    <3>1. l \in [TaskId -> Level] BY <1>0
    <3>2. r = [m EXCEPT !.level = l, !.running = q, !.current_level = lv,
                       !.level_changed = b] BY <2>1, <1>0
    <3> HIDE DEF l
    <3> QED BY <2>2, <3>1, <3>2, <1>0, <1>3, ZenonT(40) DEF Manager
  <2>4. r.level_changed = (m.level_changed \/ lv < cl)
    BY <2>1, <1>0, Zenon DEF Manager, b
  <2> QED BY <2>1, <2>3, <2>4, <1>0 DEF Manager
<1> HIDE DEF q, e
<1>7. CurrentLevelOK(r)
  <2>1. ASSUME ~(m.level_changed \/ lv < cl), NEW k \in Level, k > lv
        PROVE  q[k] = <<>>
    <3>1. k > cl /\ k # lv /\ k # cl BY <2>1, <1>0 DEF Level, kMaxLevel
    <3>2. m.running[k] = <<>> BY <2>1, <3>1 DEF ManagerInv, CurrentLevelOK
    <3> QED BY <3>1, <3>2, <1>3
  <2> QED BY <2>1, <1>3, <1>6 DEF CurrentLevelOK
<1>8. Queued(r) = (Queued(m) \ {t}) \cup {t}
  BY <1>0, <1>6 DEF Queued
<1>9. r.level[IdleId] = 0 /\ r.is_running[IdleId] /\ IdleId \in r.tasks
  BY <1>0, <1>6 DEF ManagerInv, Manager
<1>10. ManagerInv(r)
  BY <1>0, <1>2, <1>6, <1>7, <1>8, <1>9 DEF ManagerInv
<1> QED BY <1>6, <1>10

(* Wakeup with any level, -1 (keep the task's own) included.               *)
LEMMA WakeupKeeps ==
  ASSUME NEW m, ManagerInv(m), NEW t \in m.tasks, t # IdleId,
         NEW lv \in -1 .. kMaxLevel,
         NEW r, r = Wakeup(m, t, lv)
  PROVE  /\ ManagerInv(r)
         /\ r.latest_id = m.latest_id /\ r.tasks = m.tasks /\ r.msgs = m.msgs
         /\ r.is_running = [m.is_running EXCEPT ![t] = TRUE]
         /\ r.finish_tasks = m.finish_tasks /\ r.finish_waiter = m.finish_waiter
<1>0. /\ m.level \in [TaskId -> Level] /\ m.is_running \in [TaskId -> BOOLEAN]
      /\ t \in TaskId
  BY DEF ManagerInv, Manager
<1>1. CASE ~m.is_running[t]
  <2> DEFINE l == IF lv < 0 THEN m.level[t] ELSE lv
  <2>1. l \in Level BY <1>0 DEF Level, kMaxLevel
  <2>2. r = Enqueue(m, t, l) BY <1>1 DEF Wakeup
  <2> HIDE DEF l
  <2> QED BY <1>1, <2>1, <2>2, EnqueueKeeps
<1>2. CASE m.is_running[t]
  <2>0. m.is_running = [m.is_running EXCEPT ![t] = TRUE] BY <1>0, <1>2
  <2>1. r = ChangeLevelRunning(m, t, lv) BY <1>2 DEF Wakeup
  <2>2. CASE lv < 0 \/ lv = m.level[t]
    BY <2>0, <2>1, <2>2 DEF ChangeLevelRunning
  <2>3. CASE ~(lv < 0 \/ lv = m.level[t]) /\ t = CurrentTask(m)
    <3>1. lv \in Level /\ r = MoveCurrent(m, t, lv)
      BY <2>1, <2>3 DEF ChangeLevelRunning, Level, kMaxLevel
    <3> QED BY <2>0, <2>3, <3>1, MoveCurrentKeeps
  <2>4. CASE ~(lv < 0 \/ lv = m.level[t]) /\ t # CurrentTask(m)
    <3>1. lv \in Level /\ r = MoveOther(m, t, lv)
      BY <2>1, <2>4 DEF ChangeLevelRunning, Level, kMaxLevel
    <3> QED BY <1>2, <2>0, <2>4, <3>1, MoveOtherKeeps
  <2> QED BY <2>2, <2>3, <2>4
<1> QED BY <1>1, <1>2

(* Messages do not take part in the invariant.                             *)
LEMMA MessagesDoNotMatter ==
  ASSUME NEW m, ManagerInv(m), NEW q \in [TaskId -> Seq(Message)],
         NEW x, x = [m EXCEPT !.msgs = q]
  PROVE  /\ ManagerInv(x)
         /\ x.latest_id = m.latest_id /\ x.tasks = m.tasks /\ x.msgs = q
         /\ x.is_running = m.is_running /\ x.running = m.running
         /\ x.finish_tasks = m.finish_tasks /\ x.finish_waiter = m.finish_waiter
<1>1. /\ x \in Manager
      /\ x.latest_id = m.latest_id /\ x.tasks = m.tasks /\ x.msgs = q
      /\ x.is_running = m.is_running /\ x.running = m.running /\ x.level = m.level
      /\ x.current_level = m.current_level /\ x.level_changed = m.level_changed
      /\ x.finish_tasks = m.finish_tasks /\ x.finish_waiter = m.finish_waiter
  BY DEF ManagerInv, Manager
<1>2. Queued(x) = Queued(m) /\ CurrentLevelOK(x)
  BY <1>1 DEF Queued, CurrentLevelOK, ManagerInv
<1> QED BY <1>1, <1>2 DEF ManagerInv

LEMMA SendMessageKeeps ==
  ASSUME NEW m, ManagerInv(m), NEW t \in m.tasks, t # IdleId, NEW msg \in Message,
         NEW r, r = SendMessage(m, t, msg)
  PROVE  /\ ManagerInv(r)
         /\ r.latest_id = m.latest_id /\ r.tasks = m.tasks
         /\ r.msgs = [m.msgs EXCEPT ![t] = Append(@, msg)]
         /\ r.is_running = [m.is_running EXCEPT ![t] = TRUE]
         /\ r.finish_tasks = m.finish_tasks /\ r.finish_waiter = m.finish_waiter
<1> DEFINE q == [m.msgs EXCEPT ![t] = Append(@, msg)]
           x == [m EXCEPT !.msgs = q]
<1>0. m \in Manager /\ t \in TaskId /\ m.msgs \in [TaskId -> Seq(Message)]
  BY DEF ManagerInv, Manager
<1>1. q \in [TaskId -> Seq(Message)] BY <1>0
<1>2. r = Wakeup(x, t, -1) BY DEF SendMessage
<1> HIDE DEF q
<1>3. /\ ManagerInv(x)
      /\ x.latest_id = m.latest_id /\ x.tasks = m.tasks /\ x.msgs = q
      /\ x.is_running = m.is_running
      /\ x.finish_tasks = m.finish_tasks /\ x.finish_waiter = m.finish_waiter
  BY <1>1, MessagesDoNotMatter
<1>4. -1 \in -1 .. kMaxLevel BY DEF kMaxLevel
<1> HIDE DEF x
<1>5. /\ ManagerInv(r)
      /\ r.latest_id = x.latest_id /\ r.tasks = x.tasks /\ r.msgs = x.msgs
      /\ r.is_running = [x.is_running EXCEPT ![t] = TRUE]
      /\ r.finish_tasks = x.finish_tasks /\ r.finish_waiter = x.finish_waiter
  BY <1>2, <1>3, <1>4, WakeupKeeps
<1> QED BY <1>3, <1>5 DEF q

LEMMA PopMessageKeeps ==
  ASSUME NEW m, ManagerInv(m), NEW t \in TaskId, m.msgs[t] # <<>>,
         NEW r, r = PopMessage(m, t)
  PROVE  /\ ManagerInv(r)
         /\ r.latest_id = m.latest_id /\ r.tasks = m.tasks
         /\ r.msgs = [m.msgs EXCEPT ![t] = Tail(@)]
         /\ r.is_running = m.is_running
         /\ r.finish_tasks = m.finish_tasks /\ r.finish_waiter = m.finish_waiter
<1> DEFINE q == [m.msgs EXCEPT ![t] = Tail(@)]
<1>0. m.msgs \in [TaskId -> Seq(Message)] BY DEF ManagerInv, Manager
<1>1. q \in [TaskId -> Seq(Message)] BY <1>0
<1>2. r = [m EXCEPT !.msgs = q] BY DEF PopMessage
<1> HIDE DEF q
<1>3. /\ ManagerInv(r)
      /\ r.latest_id = m.latest_id /\ r.tasks = m.tasks /\ r.msgs = q
      /\ r.is_running = m.is_running
      /\ r.finish_tasks = m.finish_tasks /\ r.finish_waiter = m.finish_waiter
  BY <1>1, <1>2, MessagesDoNotMatter
<1> QED BY <1>3 DEF q

(* The new task is in no queue and above every ID used so far.             *)
LEMMA NewTaskKeeps ==
  ASSUME NEW m, ManagerInv(m), m.latest_id < MaxId,
         NEW r, r = NewTask(m)
  PROVE  /\ ManagerInv(r)
         /\ m.latest_id + 1 \in TaskId /\ m.latest_id + 1 \notin m.tasks
         /\ m.latest_id + 1 # IdleId
         /\ r.latest_id = m.latest_id + 1
         /\ r.tasks = m.tasks \cup {m.latest_id + 1}
         /\ r.is_running = m.is_running /\ r.msgs = m.msgs
         /\ r.running = m.running /\ r.current_level = m.current_level
         /\ r.finish_tasks = m.finish_tasks /\ r.finish_waiter = m.finish_waiter
<1>0. m \in Manager /\ m.tasks \in SUBSET TaskId /\ m.latest_id \in TaskId
  BY DEF ManagerInv, Manager
<1>1. /\ m.latest_id + 1 \in TaskId /\ m.latest_id + 1 \notin m.tasks
      /\ m.latest_id + 1 # IdleId
      /\ \A t \in m.tasks : t <= m.latest_id + 1
  <2>1. IdleId <= m.latest_id BY DEF ManagerInv
  <2>2. \A t \in m.tasks : t <= m.latest_id BY DEF ManagerInv
  <2> QED BY <1>0, <2>1, <2>2, MaxIdAssumption DEF TaskId, IdleId
<1>2. /\ r \in Manager
      /\ r.latest_id = m.latest_id + 1
      /\ r.tasks = m.tasks \cup {m.latest_id + 1}
      /\ r.is_running = m.is_running /\ r.msgs = m.msgs /\ r.level = m.level
      /\ r.running = m.running /\ r.current_level = m.current_level
      /\ r.level_changed = m.level_changed
      /\ r.finish_tasks = m.finish_tasks /\ r.finish_waiter = m.finish_waiter
  BY <1>0, <1>1 DEF NewTask, Manager
<1>3. Queued(r) = Queued(m)
  <2>1. \A t \in TaskId : m.is_running[t] => t \in m.tasks BY DEF ManagerInv
  <2> QED BY <2>1, <1>1, <1>2 DEF Queued
<1>4. CurrentLevelOK(r) BY <1>2 DEF ManagerInv, CurrentLevelOK
<1>5. ManagerInv(r)
  <2>1. Holds(r.running, r.level, Queued(r)) BY <1>2, <1>3 DEF ManagerInv
  <2>2. IdleId \in r.tasks /\ r.is_running[IdleId] /\ r.level[IdleId] = 0
    BY <1>2 DEF ManagerInv
  <2>3. \A t \in TaskId : r.is_running[t] => t \in r.tasks
    BY <1>2 DEF ManagerInv
  <2>4. \A t \in r.tasks : t <= r.latest_id BY <1>0, <1>1, <1>2 DEF TaskId
  <2> QED BY <1>2, <1>4, <2>1, <2>2, <2>3, <2>4 DEF ManagerInv
<1> QED BY <1>1, <1>2, <1>5

(* Changes of finish_tasks_ and finish_waiter_ only.                       *)
LEMMA ExitTablesDoNotMatter ==
  ASSUME NEW m, ManagerInv(m), NEW x \in Manager,
         x.latest_id = m.latest_id, x.tasks = m.tasks,
         x.is_running = m.is_running, x.running = m.running,
         x.level = m.level, x.current_level = m.current_level,
         x.level_changed = m.level_changed
  PROVE  ManagerInv(x)
<1>1. Queued(x) = Queued(m) BY DEF Queued
<1>2. CurrentLevelOK(x) BY DEF ManagerInv, CurrentLevelOK
<1> QED BY <1>1, <1>2 DEF ManagerInv

LEMMA TakeExitCodeKeeps ==
  ASSUME NEW m, ManagerInv(m), NEW id \in TaskId,
         NEW r, r = TakeExitCode(m, id)
  PROVE  /\ ManagerInv(r)
         /\ r.latest_id = m.latest_id /\ r.tasks = m.tasks /\ r.msgs = m.msgs
         /\ r.is_running = m.is_running
         /\ r.finish_tasks = [m.finish_tasks EXCEPT ![id] = NoCode]
         /\ r.finish_waiter = m.finish_waiter
<1> DEFINE f == [m.finish_tasks EXCEPT ![id] = NoCode]
<1>1. f \in [TaskId -> ExitCode \cup {NoCode}] /\ m \in Manager
  BY DEF ManagerInv, Manager
<1>2. r = [m EXCEPT !.finish_tasks = f]
  BY <1>1 DEF TakeExitCode, Manager
<1> HIDE DEF f
<1>3. /\ r \in Manager
      /\ r.latest_id = m.latest_id /\ r.tasks = m.tasks /\ r.msgs = m.msgs
      /\ r.is_running = m.is_running /\ r.running = m.running
      /\ r.level = m.level /\ r.current_level = m.current_level
      /\ r.level_changed = m.level_changed
      /\ r.finish_tasks = f /\ r.finish_waiter = m.finish_waiter
  BY <1>1, <1>2 DEF Manager
<1>4. ManagerInv(r) BY <1>3, ExitTablesDoNotMatter, Zenon
<1> QED BY <1>3, <1>4 DEF f

LEMMA AwaitFinishKeeps ==
  ASSUME NEW m, ManagerInv(m), NEW id \in TaskId, CurrentTask(m) # IdleId,
         NEW t, t = CurrentTask(m),
         NEW r, r = AwaitFinish(m, id)
  PROVE  /\ ManagerInv(r)
         /\ r.latest_id = m.latest_id /\ r.tasks = m.tasks /\ r.msgs = m.msgs
         /\ r.is_running = [m.is_running EXCEPT ![t] = FALSE]
         /\ r.finish_tasks = m.finish_tasks
         /\ r.finish_waiter = [m.finish_waiter EXCEPT ![id] = t]
<1> DEFINE w == [m.finish_waiter EXCEPT ![id] = t]
           x == [m EXCEPT !.finish_waiter = w]
<1>0. t \in TaskId BY CurrentTaskProperties
<1>1. w \in [TaskId -> TaskId \cup {NoTask}] /\ m \in Manager
  BY <1>0 DEF ManagerInv, Manager
<1>2. r = Sleep(x, t) BY DEF AwaitFinish
<1> HIDE DEF w
<1>3. /\ x \in Manager
      /\ x.latest_id = m.latest_id /\ x.tasks = m.tasks /\ x.msgs = m.msgs
      /\ x.is_running = m.is_running /\ x.running = m.running
      /\ x.level = m.level /\ x.current_level = m.current_level
      /\ x.level_changed = m.level_changed
      /\ x.finish_tasks = m.finish_tasks /\ x.finish_waiter = w
  BY <1>1 DEF Manager
<1> HIDE DEF x
<1>4. ManagerInv(x) BY <1>3, ExitTablesDoNotMatter, Zenon
<1>5. /\ ManagerInv(r)
      /\ r.latest_id = x.latest_id /\ r.tasks = x.tasks /\ r.msgs = x.msgs
      /\ r.is_running = [x.is_running EXCEPT ![t] = FALSE]
      /\ r.finish_tasks = x.finish_tasks /\ r.finish_waiter = x.finish_waiter
  BY <1>0, <1>2, <1>4, SleepKeeps
<1> QED BY <1>3, <1>5 DEF w

(* Finish of the current task, whose waiter (if any) is another task.      *)
LEMMA FinishKeeps ==
  ASSUME NEW m, ManagerInv(m), NEW code \in ExitCode,
         NEW t, t = CurrentTask(m), t # IdleId,
         NEW w, w = m.finish_waiter[t],
         w = NoTask \/ (w \in m.tasks /\ w # t /\ w # IdleId),
         NEW r, r = Finish(m, code)
  PROVE  /\ ManagerInv(r)
         /\ r.latest_id = m.latest_id /\ r.tasks = m.tasks \ {t}
         /\ r.msgs = [m.msgs EXCEPT ![t] = <<>>]
         /\ ~r.is_running[t]
         /\ \A u \in TaskId \ {t} : r.is_running[u] <=> (u = w \/ m.is_running[u])
         /\ r.finish_tasks = [m.finish_tasks EXCEPT ![t] = code]
         /\ r.finish_waiter = [m.finish_waiter EXCEPT ![t] = NoTask]
<1> DEFINE d == RotateCurrentRunQueue(m, TRUE)
           g == [Destroy(d, t) EXCEPT !.finish_tasks[t] = code, !.finish_waiter[t] = NoTask]
<1>0. /\ m \in Manager /\ t \in m.tasks /\ t \in TaskId
      /\ m.is_running \in [TaskId -> BOOLEAN] /\ m.tasks \in SUBSET TaskId
      /\ m.finish_tasks \in [TaskId -> ExitCode \cup {NoCode}]
      /\ m.finish_waiter \in [TaskId -> TaskId \cup {NoTask}]
      /\ m.msgs \in [TaskId -> Seq(Message)]
  BY CurrentTaskProperties DEF ManagerInv, Manager
<1>1. /\ d \in Manager
      /\ Holds(d.running, d.level, Queued(m) \ {t})
      /\ CurrentLevelOK(d)
      /\ d.level = m.level /\ d.is_running = m.is_running
      /\ d.tasks = m.tasks /\ d.latest_id = m.latest_id /\ d.msgs = m.msgs
      /\ d.finish_tasks = m.finish_tasks /\ d.finish_waiter = m.finish_waiter
  <2>1. CurrentTask(m) # IdleId OBVIOUS
  <2> QED BY <1>0, <2>1, RotateDrops, ZenonT(40)
<1> HIDE DEF d
<1>2. /\ g \in Manager
      /\ g.running = d.running /\ g.level = m.level
      /\ g.current_level = d.current_level /\ g.level_changed = d.level_changed
      /\ g.is_running = [m.is_running EXCEPT ![t] = FALSE]
      /\ g.tasks = m.tasks \ {t} /\ g.latest_id = m.latest_id
      /\ g.msgs = [m.msgs EXCEPT ![t] = <<>>]
      /\ g.finish_tasks = [m.finish_tasks EXCEPT ![t] = code]
      /\ g.finish_waiter = [m.finish_waiter EXCEPT ![t] = NoTask]
  <2> DEFINE a == [m.is_running EXCEPT ![t] = FALSE]
             b == [m.msgs EXCEPT ![t] = <<>>]
             f == [m.finish_tasks EXCEPT ![t] = code]
             h == [m.finish_waiter EXCEPT ![t] = NoTask]
  <2>1. /\ a \in [TaskId -> BOOLEAN] /\ b \in [TaskId -> Seq(Message)]
        /\ f \in [TaskId -> ExitCode \cup {NoCode}]
        /\ h \in [TaskId -> TaskId \cup {NoTask}]
    BY <1>0
  <2>2. g = [d EXCEPT !.tasks = m.tasks \ {t}, !.is_running = a, !.msgs = b,
                      !.finish_tasks = f, !.finish_waiter = h]
    BY <1>1 DEF Destroy, Manager
  <2> HIDE DEF a, b, f, h, g
  <2>3. /\ g \in Manager
        /\ g.running = d.running /\ g.level = m.level
        /\ g.current_level = d.current_level /\ g.level_changed = d.level_changed
        /\ g.is_running = a /\ g.msgs = b
        /\ g.tasks = m.tasks \ {t} /\ g.latest_id = m.latest_id
        /\ g.finish_tasks = f /\ g.finish_waiter = h
    BY <1>0, <1>1, <2>1, <2>2 DEF Manager
  <2> QED BY <2>3 DEF a, b, f, h
<1>3. r = IF w = NoTask THEN g ELSE Wakeup(g, w, -1)
  BY DEF Finish, d, g
<1> HIDE DEF g
<1>4. ManagerInv(g)
  <2>1. Queued(g) = Queued(m) \ {t} BY <1>0, <1>2 DEF Queued
  <2>2. CurrentLevelOK(g) BY <1>1, <1>2 DEF CurrentLevelOK
  <2>3. \A u \in TaskId : g.is_running[u] => u \in g.tasks
    BY <1>0, <1>2 DEF ManagerInv
  <2>4. IdleId \in g.tasks /\ g.is_running[IdleId] /\ g.level[IdleId] = 0
    BY <1>0, <1>2 DEF ManagerInv
  <2>5. \A u \in g.tasks : u <= g.latest_id BY <1>2 DEF ManagerInv
  <2> QED BY <1>1, <1>2, <2>1, <2>2, <2>3, <2>4, <2>5 DEF ManagerInv
<1>5. CASE w = NoTask
  <2>1. /\ ~g.is_running[t]
        /\ \A u \in TaskId \ {t} : g.is_running[u] <=> (u = w \/ m.is_running[u])
    <3>1. ~g.is_running[t] BY <1>0, <1>2
    <3>2. \A u \in TaskId \ {t} : g.is_running[u] = m.is_running[u] BY <1>0, <1>2
    <3>3. \A u \in TaskId : u # w BY <1>5 DEF NoTask, TaskId
    <3> QED BY <3>1, <3>2, <3>3
  <2> QED BY <1>2, <1>3, <1>4, <1>5, <2>1
<1>6. CASE w # NoTask
  <2>0. PICK lv : lv = -1 OBVIOUS
  <2>1. w \in g.tasks /\ w # IdleId /\ lv \in -1 .. kMaxLevel
    BY <1>2, <1>6, <2>0 DEF kMaxLevel
  <2>2. r = Wakeup(g, w, lv) BY <1>3, <1>6, <2>0
  <2>3. /\ ManagerInv(r)
        /\ r.latest_id = g.latest_id /\ r.tasks = g.tasks /\ r.msgs = g.msgs
        /\ r.is_running = [g.is_running EXCEPT ![w] = TRUE]
        /\ r.finish_tasks = g.finish_tasks /\ r.finish_waiter = g.finish_waiter
    <3>1. PICK u : u = w OBVIOUS
    <3>2. u \in g.tasks /\ u # IdleId /\ r = Wakeup(g, u, lv) BY <2>1, <2>2, <3>1
    <3>3. /\ ManagerInv(r)
          /\ r.latest_id = g.latest_id /\ r.tasks = g.tasks /\ r.msgs = g.msgs
          /\ r.is_running = [g.is_running EXCEPT ![u] = TRUE]
          /\ r.finish_tasks = g.finish_tasks /\ r.finish_waiter = g.finish_waiter
      BY <1>4, <2>1, <3>2, WakeupKeeps
    <3> QED BY <3>1, <3>3
  <2>4. /\ ~r.is_running[t]
        /\ \A u \in TaskId \ {t} : r.is_running[u] <=> (u = w \/ m.is_running[u])
    BY <1>0, <1>2, <1>6, <2>3
  <2> QED BY <1>2, <2>3, <2>4
<1> QED BY <1>5, <1>6

(* The object the constructor leaves.                                      *)
LEMMA InitialManagerInv == ManagerInv(InitialManager)
<1> DEFINE m == InitialManager
<1>0. /\ MainId = 1 /\ IdleId = 2 /\ Level = {0, 1, 2, 3}
      /\ 1 \in TaskId /\ 2 \in TaskId
  BY MaxIdAssumption DEF MainId, IdleId, TaskId, Level, kMaxLevel
<1>1. /\ m.running \in [Level -> Seq(TaskId)]
      /\ m.running[3] = <<1>> /\ m.running[2] = <<>>
      /\ m.running[1] = <<>> /\ m.running[0] = <<2>>
  <2>1. m.running = [lv \in Level |-> IF lv = 3 THEN <<1>> ELSE
                                      IF lv = 0 THEN <<2>> ELSE <<>>]
    BY <1>0 DEF InitialManager, kMaxLevel
  <2> QED BY <1>0, <2>1
<1>2. m.level \in [TaskId -> Level] /\ m.level[1] = 3 /\ m.level[2] = 0
  <2>1. m.level = [t \in TaskId |-> IF t = 1 THEN 3 ELSE IF t = 2 THEN 0 ELSE 1]
    BY <1>0 DEF InitialManager, kMaxLevel, kDefaultLevel
  <2> QED BY <1>0, <2>1
<1>3. /\ m.is_running = [t \in TaskId |-> t \in {1, 2}]
      /\ m.tasks = {1, 2} /\ m.latest_id = 2 /\ m.current_level = 3
  BY <1>0 DEF InitialManager, kMaxLevel
<1>4. Queued(m) = {1, 2}
  BY <1>0, <1>3, ZenonT(40) DEF Queued
<1>5. m \in Manager
  <2>1. m.running \in [Level -> Seq(TaskId)] /\ m.level \in [TaskId -> Level]
    BY <1>1, <1>2
  <2> QED BY <1>0, <2>1 DEF InitialManager, Manager, NoTask, kMaxLevel
<1>6. Holds(m.running, m.level, Queued(m))
  <2>1. ASSUME NEW lv \in Level, NEW i \in 1 .. Len(m.running[lv])
        PROVE  i = 1 /\ m.running[lv][i] \in {1, 2} /\ m.level[m.running[lv][i]] = lv
    <3>1. CASE lv = 3 BY <3>1, <1>1, <1>2
    <3>2. CASE lv = 0 BY <3>2, <1>1, <1>2
    <3>3. CASE lv \in {1, 2} BY <3>3, <1>1
    <3> QED BY <3>1, <3>2, <3>3, <1>0
  <2>2. /\ 1 \in 1 .. Len(m.running[3]) /\ m.running[3][1] = 1
        /\ 1 \in 1 .. Len(m.running[0]) /\ m.running[0][1] = 2
    BY <1>1
  <2> HIDE DEF m
  <2> QED BY <2>1, <2>2, <1>1, <1>2, <1>4 DEF Holds
<1>7. CurrentLevelOK(m)
  <2> HIDE DEF m
  <2>1. m.running[m.current_level] # <<>>
    <3>1. <<1>> # <<>> BY Len(<<1>>) = 1, Len(<<>>) = 0
    <3> QED BY <3>1, <1>1, <1>3, Zenon
  <2>2. \A lv \in Level : ~(lv > 3) BY <1>0
  <2> QED BY <2>1, <2>2, <1>3 DEF CurrentLevelOK
<1> HIDE DEF m
<1>8. /\ IdleId \in m.tasks /\ m.is_running[IdleId] /\ m.level[IdleId] = 0
      /\ \A t \in TaskId : m.is_running[t] => t \in m.tasks
      /\ \A t \in m.tasks : t <= m.latest_id
  <2>1. \A t \in TaskId : m.is_running[t] <=> t \in {1, 2} BY <1>3
  <2> QED BY <1>0, <1>2, <1>3, <2>1
<1>9. ManagerInv(m) BY <1>5, <1>6, <1>7, <1>8 DEF ManagerInv
<1> QED BY <1>9 DEF m

(* What RotateCurrentRunQueue leaves alone.                                *)
LEMMA RotateRest ==
  ASSUME NEW m, m \in Manager, NEW b \in BOOLEAN,
         NEW r, r = RotateCurrentRunQueue(m, b)
  PROVE  /\ r.latest_id = m.latest_id /\ r.tasks = m.tasks /\ r.msgs = m.msgs
         /\ r.is_running = m.is_running
         /\ r.finish_tasks = m.finish_tasks /\ r.finish_waiter = m.finish_waiter
BY DEF RotateCurrentRunQueue, Manager

(* The types of the fields the invariants read.                            *)
LEMMA FieldTypes ==
  ASSUME NEW m, ManagerInv(m)
  PROVE  /\ m.latest_id \in Nat /\ m.tasks \in SUBSET TaskId
         /\ m.is_running \in [TaskId -> BOOLEAN]
         /\ m.msgs \in [TaskId -> Seq(Message)]
         /\ m.finish_tasks \in [TaskId -> ExitCode \cup {NoCode}]
         /\ m.finish_waiter \in [TaskId -> TaskId \cup {NoTask}]
         /\ \A t \in TaskId : m.is_running[t] => t \in m.tasks
         /\ \A t \in m.tasks : t <= m.latest_id
BY DEF ManagerInv, Manager, TaskId


-----------------------------------------------------------------------------
(* Order inside the queues, for NoOvertaking.  Before is the order of one  *)
(* queue; Orderly says that a change of a queue puts nobody in front of t  *)
(* but c, InOrder that a change of the object does so in every queue.      *)
Before(q, u, t) ==
  \E j \in 1 .. Len(q) : q[j] = t /\ \E i \in 1 .. j - 1 : q[i] = u

Orderly(q, r, t, c) ==
  \A u \in TaskId : Before(r, u, t) => Before(q, u, t) \/ u = c

InOrder(m, n, t, c) ==
  \A lv \in Level : Orderly(m.running[lv], n.running[lv], t, c)

(* pop_front.                                                              *)
LEMMA OrderlyTail ==
  ASSUME NEW q \in Seq(TaskId), q # <<>>, NEW t, NEW c
  PROVE  Orderly(q, Tail(q), t, c)
<1>1. /\ Len(Tail(q)) = Len(q) - 1 /\ Len(q) \in Nat /\ Len(q) >= 1
      /\ \A i \in 1 .. Len(Tail(q)) : Tail(q)[i] = q[i + 1]
  BY HeadTailProperties, LenProperties, EmptySeq
<1> SUFFICES ASSUME NEW u \in TaskId, Before(Tail(q), u, t)
             PROVE  Before(q, u, t)
  BY DEF Orderly
<1>5. PICK j \in 1 .. Len(Tail(q)) :
        Tail(q)[j] = t /\ \E i \in 1 .. j - 1 : Tail(q)[i] = u
  BY DEF Before
<1>2. PICK i \in 1 .. j - 1 : Tail(q)[i] = u BY <1>5
<1>3. /\ j + 1 \in 1 .. Len(q) /\ i + 1 \in 1 .. (j + 1) - 1
      /\ q[j + 1] = t /\ q[i + 1] = u
  BY <1>1, <1>2, <1>5
<1> QED BY <1>3 DEF Before

(* push_back of another task.                                              *)
LEMMA OrderlyAppend ==
  ASSUME NEW q \in Seq(TaskId), NEW v \in TaskId, NEW t, v # t, NEW c
  PROVE  Orderly(q, Append(q, v), t, c)
<1>1. /\ Len(Append(q, v)) = Len(q) + 1 /\ Len(q) \in Nat
      /\ \A i \in 1 .. Len(q) : Append(q, v)[i] = q[i]
      /\ Append(q, v)[Len(q) + 1] = v
  BY AppendProperties, LenProperties
<1> SUFFICES ASSUME NEW u \in TaskId, Before(Append(q, v), u, t)
             PROVE  Before(q, u, t)
  BY DEF Orderly
<1>2. PICK j \in 1 .. Len(Append(q, v)) :
        Append(q, v)[j] = t /\ \E i \in 1 .. j - 1 : Append(q, v)[i] = u
  BY DEF Before
<1>3. PICK i \in 1 .. j - 1 : Append(q, v)[i] = u BY <1>2
<1>4. j # Len(q) + 1 BY <1>1, <1>2
<1>5. j \in 1 .. Len(q) /\ i \in 1 .. Len(q) BY <1>1, <1>4
<1>6. q[j] = t /\ q[i] = u BY <1>1, <1>2, <1>3, <1>5
<1> QED BY <1>5, <1>6 DEF Before

(* push_front of the task that may be in front.                            *)
LEMMA OrderlyPushFront ==
  ASSUME NEW q \in Seq(TaskId), NEW c \in TaskId, NEW t, c # t
  PROVE  Orderly(q, <<c>> \o q, t, c)
<1> DEFINE r == <<c>> \o q
<1>1. /\ Len(r) = Len(q) + 1 /\ Len(q) \in Nat /\ r[1] = c
      /\ \A i \in 2 .. Len(q) + 1 : r[i] = q[i - 1]
  <2>1. <<c>> \in Seq(TaskId) /\ Len(<<c>>) = 1 /\ <<c>>[1] = c /\ Len(q) \in Nat
    BY LenProperties
  <2> QED BY <2>1, ConcatProperties
<1> HIDE DEF r
<1> SUFFICES ASSUME NEW u \in TaskId, Before(r, u, t), u # c
             PROVE  Before(q, u, t)
  BY DEF Orderly, r
<1>2. PICK j \in 1 .. Len(r) : r[j] = t /\ \E i \in 1 .. j - 1 : r[i] = u
  BY DEF Before
<1>6. PICK i \in 1 .. j - 1 : r[i] = u BY <1>2
<1>3. j # 1 /\ i # 1 BY <1>1, <1>2, <1>6
<1>4. /\ j \in 2 .. Len(q) + 1 /\ i \in 2 .. Len(q) + 1
      /\ j - 1 \in 1 .. Len(q) /\ i - 1 \in 1 .. (j - 1) - 1
  BY <1>1, <1>2, <1>3
<1>5. q[j - 1] = t /\ q[i - 1] = u BY <1>1, <1>2, <1>4, <1>6
<1> QED BY <1>4, <1>5 DEF Before

(* std::remove.                                                            *)
LEMMA OrderlyErase ==
  ASSUME NEW q \in Seq(TaskId), NEW v, NEW t, NEW c
  PROVE  Orderly(q, Erase(q, v), t, c)
<1>0. Len(q) \in Nat /\ DOMAIN q = 1 .. Len(q) BY LenProperties
<1>1. CASE ~\E k \in 1 .. Len(q) : q[k] = v
  <2>1. Erase(q, v) = q BY <1>0, <1>1 DEF Erase
  <2> QED BY <2>1 DEF Orderly
<1>2. CASE \E k \in 1 .. Len(q) : q[k] = v
  <2>1. PICK k \in 1 .. Len(q) : q[k] = v BY <1>2
  <2>2. PICK r : r = Erase(q, v) OBVIOUS
  <2>3. PICK p \in 1 .. Len(q) : ErasedAt(q, v, Erase(q, v), p)
    BY <2>1, EraseProperties
  <2>4. /\ Len(r) = Len(q) - 1
        /\ \A n \in 1 .. Len(q) - 1 : r[n] = IF n < p THEN q[n] ELSE q[n + 1]
    BY <2>2, <2>3 DEF ErasedAt
  <2> SUFFICES ASSUME NEW u \in TaskId, Before(r, u, t)
               PROVE  Before(q, u, t)
    BY <2>2 DEF Orderly
  <2>5. PICK j \in 1 .. Len(r) : r[j] = t /\ \E i \in 1 .. j - 1 : r[i] = u
    BY DEF Before
  <2>8. PICK i \in 1 .. j - 1 : r[i] = u BY <2>5
  <2> DEFINE jj == IF j < p THEN j ELSE j + 1
             ii == IF i < p THEN i ELSE i + 1
  <2>6. jj \in 1 .. Len(q) /\ ii \in 1 .. jj - 1
    BY <1>0, <2>4, <2>5
  <2>7. q[jj] = t /\ q[ii] = u
    <3>1. j \in 1 .. Len(q) - 1 /\ i \in 1 .. Len(q) - 1 BY <1>0, <2>4, <2>5
    <3> QED BY <3>1, <2>4, <2>5, <2>8
  <2> HIDE DEF ii, jj
  <2> QED BY <2>6, <2>7 DEF Before
<1> QED BY <1>1, <1>2

(* Changes follow one another.                                             *)
LEMMA OrderlyTwice ==
  ASSUME NEW q, NEW r, NEW s, NEW t, NEW c, Orderly(q, r, t, c), Orderly(r, s, t, c)
  PROVE  Orderly(q, s, t, c)
BY DEF Orderly

LEMMA OrderlySame == \A q, t, c : Orderly(q, q, t, c)
BY DEF Orderly


LEMMA InOrderTwice ==
  ASSUME NEW m, NEW n, NEW o, NEW t, NEW c, InOrder(m, n, t, c), InOrder(n, o, t, c)
  PROVE  InOrder(m, o, t, c)
BY DEF InOrder, Orderly

(* A change of one queue, or of none.                                      *)
LEMMA InOrderAt ==
  ASSUME NEW m, NEW n, NEW t, NEW c, NEW k \in Level,
         m.running \in [Level -> Seq(TaskId)],
         Orderly(m.running[k], n.running[k], t, c),
         \A lv \in Level : lv # k => n.running[lv] = m.running[lv]
  PROVE  InOrder(m, n, t, c)
BY DEF InOrder, Orderly

LEMMA InOrderSame ==
  ASSUME NEW m, NEW n, NEW t, NEW c, n.running = m.running
  PROVE  InOrder(m, n, t, c)
BY DEF InOrder, Orderly

(* A rotation: who loses the processor goes to the back or out.            *)
LEMMA RotateInOrder ==
  ASSUME NEW m \in Manager, m.running[m.current_level] # <<>>, NEW b,
         NEW r, r = RotateCurrentRunQueue(m, b),
         NEW t, NEW c, c = CurrentTask(m), t # c
  PROVE  InOrder(m, r, t, c) /\ r.level = m.level
<1>0. /\ m.running \in [Level -> Seq(TaskId)] /\ m.current_level \in Level
      /\ m.running[m.current_level] \in Seq(TaskId)
  BY DEF Manager
<1> DEFINE q    == m.running[m.current_level]
           rest == Tail(q)
           new  == IF b THEN rest ELSE Append(rest, c)
<1>1. c \in TaskId /\ rest \in Seq(TaskId)
  BY <1>0, HeadTailProperties DEF CurrentTask
<1>2. /\ r.running = [m.running EXCEPT ![m.current_level] = new]
      /\ r.level = m.level
  BY <1>0 DEF RotateCurrentRunQueue, Manager
<1>3. Orderly(q, rest, t, c) BY <1>0, OrderlyTail
<1>4. Orderly(q, new, t, c)
  <2>1. CASE b BY <1>3, <2>1
  <2>2. CASE ~b
    <3>1. Orderly(rest, Append(rest, c), t, c)
      <4> HIDE DEF rest
      <4> QED BY <1>1, OrderlyAppend
    <3>2. Orderly(q, Append(rest, c), t, c)
      <4> HIDE DEF rest, q
      <4> QED BY <1>3, <3>1, OrderlyTwice
    <3> QED BY <2>2, <3>2
  <2> QED BY <2>1, <2>2
<1> HIDE DEF new
<1>5. /\ r.running[m.current_level] = new
      /\ \A lv \in Level : lv # m.current_level => r.running[lv] = m.running[lv]
  BY <1>0, <1>2
<1>6. Orderly(m.running[m.current_level], r.running[m.current_level], t, c)
  BY <1>4, <1>5
<1>7. InOrder(m, r, t, c) BY <1>0, <1>5, <1>6, InOrderAt
<1> QED BY <1>2, <1>7

LEMMA SleepInOrder ==
  ASSUME NEW m \in Manager, m.running[m.current_level] # <<>>, NEW u \in TaskId,
         NEW r, r = Sleep(m, u),
         NEW t, NEW c, c = CurrentTask(m), t # c
  PROVE  InOrder(m, r, t, c) /\ r.level = m.level
<1> DEFINE x == [m EXCEPT !.is_running[u] = FALSE]
<1>0. /\ x \in Manager /\ x.running = m.running /\ x.level = m.level
      /\ x.current_level = m.current_level
      /\ m.running \in [Level -> Seq(TaskId)] /\ m.level[u] \in Level
      /\ m.running[m.level[u]] \in Seq(TaskId)
  BY DEF Manager
<1>1. CASE ~m.is_running[u]
  <2>1. r = m BY <1>1 DEF Sleep
  <2> QED BY <2>1, InOrderSame
<1>2. CASE m.is_running[u] /\ u = c
  <2>1. r = RotateCurrentRunQueue(x, TRUE) BY <1>2 DEF Sleep
  <2> HIDE DEF x
  <2>2. c = CurrentTask(x) BY <1>0 DEF CurrentTask
  <2>3. InOrder(x, r, t, c) /\ r.level = x.level
    <3>1. PICK b : b = TRUE OBVIOUS
    <3>2. x \in Manager /\ x.running[x.current_level] # <<>> BY <1>0
    <3>3. r = RotateCurrentRunQueue(x, b) BY <2>1, <3>1
    <3> QED BY <2>2, <3>2, <3>3, RotateInOrder
  <2>4. InOrder(m, x, t, c) BY <1>0, InOrderSame
  <2> QED BY <1>0, <2>3, <2>4, InOrderTwice
<1>3. CASE m.is_running[u] /\ u # c
  <2>1. r = [x EXCEPT !.running = [m.running EXCEPT ![m.level[u]] = Erase(@, u)]]
    BY <1>0, <1>3 DEF Sleep, Manager
  <2>2. /\ r.running = [m.running EXCEPT ![m.level[u]] = Erase(@, u)]
        /\ r.level = m.level
    BY <1>0, <2>1 DEF Manager
  <2>3. /\ r.running[m.level[u]] = Erase(m.running[m.level[u]], u)
        /\ \A lv \in Level : lv # m.level[u] => r.running[lv] = m.running[lv]
    BY <1>0, <2>2
  <2>4. Orderly(m.running[m.level[u]], r.running[m.level[u]], t, c)
    BY <1>0, <2>3, OrderlyErase
  <2>5. InOrder(m, r, t, c) BY <1>0, <2>3, <2>4, InOrderAt
  <2> QED BY <2>2, <2>5
<1> QED BY <1>1, <1>2, <1>3

(* push_back of a task that sleeps, hence of another one than t.           *)
LEMMA EnqueueInOrder ==
  ASSUME NEW m \in Manager, NEW u \in TaskId, NEW lv \in Level,
         NEW r, r = Enqueue(m, u, lv),
         NEW t, NEW c, t # u
  PROVE  InOrder(m, r, t, c)
<1>0. m.running \in [Level -> Seq(TaskId)] /\ m.running[lv] \in Seq(TaskId)
  BY DEF Manager
<1>1. r.running = [m.running EXCEPT ![lv] = Append(@, u)]
  BY DEF Enqueue, Manager
<1>2. /\ r.running[lv] = Append(m.running[lv], u)
      /\ \A k \in Level : k # lv => r.running[k] = m.running[k]
  BY <1>0, <1>1
<1>3. Orderly(m.running[lv], r.running[lv], t, c) BY <1>0, <1>2, OrderlyAppend
<1> QED BY <1>0, <1>2, <1>3, InOrderAt

LEMMA EraseIsSeq ==
  ASSUME NEW q \in Seq(TaskId), NEW v
  PROVE  Erase(q, v) \in Seq(TaskId)
<1>0. DOMAIN q = 1 .. Len(q) BY LenProperties
<1>1. CASE ~\E k \in 1 .. Len(q) : q[k] = v
  BY <1>0, <1>1 DEF Erase
<1>2. CASE \E k \in 1 .. Len(q) : q[k] = v
  <2>1. PICK k \in 1 .. Len(q) : q[k] = v BY <1>2
  <2>2. PICK p \in 1 .. Len(q) : ErasedAt(q, v, Erase(q, v), p)
    BY <2>1, EraseProperties
  <2> QED BY <2>2 DEF ErasedAt
<1> QED BY <1>1, <1>2

(* Another task changes level: it is not t, whose level stays.             *)
LEMMA MoveOtherInOrder ==
  ASSUME NEW m \in Manager, NEW u \in TaskId, NEW lv \in Level,
         NEW r, r = MoveOther(m, u, lv),
         NEW t, NEW c, t # u
  PROVE  InOrder(m, r, t, c)
<1> DEFINE e == [m.running EXCEPT ![m.level[u]] = Erase(@, u)]
<1>0. /\ m.running \in [Level -> Seq(TaskId)] /\ m.level[u] \in Level
      /\ m.running[m.level[u]] \in Seq(TaskId)
  BY DEF Manager
<1>1. PICK n : n = [m EXCEPT !.running = e] OBVIOUS
<1>2. n.running = e BY <1>1 DEF Manager
<1>3. /\ e[m.level[u]] = Erase(m.running[m.level[u]], u)
      /\ \A k \in Level : k # m.level[u] => e[k] = m.running[k]
  BY <1>0
<1>4. /\ r.running = [e EXCEPT ![lv] = Append(@, u)]
  BY DEF MoveOther, Manager
<1>5. Erase(m.running[m.level[u]], u) \in Seq(TaskId)
  BY <1>0, EraseIsSeq
<1>6. e \in [Level -> Seq(TaskId)] /\ e[lv] \in Seq(TaskId) BY <1>0, <1>5
<1> HIDE DEF e
<1>7. InOrder(m, n, t, c)
  <2>1. Orderly(m.running[m.level[u]], n.running[m.level[u]], t, c)
    BY <1>0, <1>2, <1>3, OrderlyErase
  <2>2. \A k \in Level : k # m.level[u] => n.running[k] = m.running[k]
    BY <1>2, <1>3
  <2> QED BY <1>0, <2>1, <2>2, InOrderAt
<1>8. InOrder(n, r, t, c)
  <2>1. /\ r.running[lv] = Append(n.running[lv], u)
        /\ \A k \in Level : k # lv => r.running[k] = n.running[k]
    BY <1>2, <1>4, <1>6
  <2>2. Orderly(n.running[lv], r.running[lv], t, c)
    BY <1>2, <1>6, <2>1, OrderlyAppend
  <2>3. n.running \in [Level -> Seq(TaskId)] BY <1>2, <1>6
  <2> QED BY <2>1, <2>2, <2>3, InOrderAt
<1> QED BY <1>7, <1>8, InOrderTwice

(* The current task changes level: it alone gets in front.                 *)
LEMMA MoveCurrentInOrder ==
  ASSUME NEW m \in Manager, m.running[m.current_level] # <<>>, NEW lv \in Level,
         NEW t, NEW c \in TaskId, t # c,
         NEW r, r = MoveCurrent(m, c, lv)
  PROVE  InOrder(m, r, t, c)
<1> DEFINE e == [m.running EXCEPT ![m.current_level] = Tail(@)]
<1>0. /\ m.running \in [Level -> Seq(TaskId)] /\ m.current_level \in Level
      /\ m.running[m.current_level] \in Seq(TaskId)
  BY DEF Manager
<1>1. PICK n : n = [m EXCEPT !.running = e] OBVIOUS
<1>2. n.running = e BY <1>1 DEF Manager
<1>3. /\ e[m.current_level] = Tail(m.running[m.current_level])
      /\ \A k \in Level : k # m.current_level => e[k] = m.running[k]
  BY <1>0
<1>4. r.running = [e EXCEPT ![lv] = <<c>> \o @]
  BY DEF MoveCurrent, Manager
<1>5. Tail(m.running[m.current_level]) \in Seq(TaskId)
  BY <1>0, HeadTailProperties
<1>6. e \in [Level -> Seq(TaskId)] /\ e[lv] \in Seq(TaskId) BY <1>0, <1>5
<1> HIDE DEF e
<1>7. InOrder(m, n, t, c)
  <2>1. Orderly(m.running[m.current_level], n.running[m.current_level], t, c)
    BY <1>0, <1>2, <1>3, OrderlyTail
  <2>2. \A k \in Level : k # m.current_level => n.running[k] = m.running[k]
    BY <1>2, <1>3
  <2> QED BY <1>0, <2>1, <2>2, InOrderAt
<1>8. InOrder(n, r, t, c)
  <2>1. /\ r.running[lv] = <<c>> \o n.running[lv]
        /\ \A k \in Level : k # lv => r.running[k] = n.running[k]
    BY <1>2, <1>4, <1>6
  <2>2. Orderly(n.running[lv], r.running[lv], t, c)
    BY <1>2, <1>6, <2>1, OrderlyPushFront
  <2>3. n.running \in [Level -> Seq(TaskId)] BY <1>2, <1>6
  <2> QED BY <2>1, <2>2, <2>3, InOrderAt
<1> QED BY <1>7, <1>8, InOrderTwice

(* A wake-up that keeps the level: whoever is current.                     *)
LEMMA WakeupAtLevelInOrder ==
  ASSUME NEW m \in Manager, NEW u \in TaskId,
         NEW r, r = Wakeup(m, u, -1),
         NEW t \in TaskId, m.is_running[t], NEW c
  PROVE  InOrder(m, r, t, c)
<1>1. CASE m.is_running[u]
  <2>1. r = m BY <1>1 DEF Wakeup, ChangeLevelRunning
  <2> QED BY <2>1, InOrderSame
<1>2. CASE ~m.is_running[u]
  <2>1. r = Enqueue(m, u, m.level[u]) BY <1>2 DEF Wakeup
  <2>2. m.level[u] \in Level BY DEF Manager
  <2>3. t # u BY <1>2
  <2> QED BY <2>1, <2>2, <2>3, EnqueueInOrder
<1> QED BY <1>1, <1>2

LEMMA WakeupInOrder ==
  ASSUME NEW m \in Manager, m.running[m.current_level] # <<>>, NEW u \in TaskId,
         NEW lv \in -1 .. kMaxLevel,
         NEW r, r = Wakeup(m, u, lv),
         NEW t \in TaskId, m.is_running[t], r.level[t] = m.level[t],
         NEW c \in TaskId, c = CurrentTask(m), t # c
  PROVE  InOrder(m, r, t, c)
<1>1. CASE ~m.is_running[u]
  <2> DEFINE l == IF lv < 0 THEN m.level[u] ELSE lv
  <2>1. l \in Level /\ r = Enqueue(m, u, l)
    BY <1>1 DEF Wakeup, Level, kMaxLevel, Manager
  <2>2. t # u BY <1>1
  <2> HIDE DEF l
  <2> QED BY <2>1, <2>2, EnqueueInOrder
<1>2. CASE m.is_running[u] /\ (lv < 0 \/ lv = m.level[u])
  <2>1. r = m BY <1>2 DEF Wakeup, ChangeLevelRunning
  <2> QED BY <2>1, InOrderSame
<1>3. CASE m.is_running[u] /\ ~(lv < 0 \/ lv = m.level[u]) /\ u = c
  <2>1. lv \in Level /\ r = MoveCurrent(m, c, lv)
    BY <1>3 DEF Wakeup, ChangeLevelRunning, Level, kMaxLevel
  <2> QED BY <2>1, MoveCurrentInOrder
<1>4. CASE m.is_running[u] /\ ~(lv < 0 \/ lv = m.level[u]) /\ u # c
  <2>1. lv \in Level /\ r = MoveOther(m, u, lv)
    BY <1>4 DEF Wakeup, ChangeLevelRunning, Level, kMaxLevel
  <2>2. r.level[u] = lv BY <2>1 DEF MoveOther, Manager
  <2>3. t # u BY <1>4, <2>2
  <2> QED BY <2>1, <2>3, MoveOtherInOrder
<1> QED BY <1>1, <1>2, <1>3, <1>4

LEMMA SendMessageInOrder ==
  ASSUME NEW m \in Manager, NEW u \in TaskId, NEW msg \in Message,
         NEW r, r = SendMessage(m, u, msg),
         NEW t \in TaskId, m.is_running[t], NEW c
  PROVE  InOrder(m, r, t, c)
<1> DEFINE q == [m.msgs EXCEPT ![u] = Append(@, msg)]
           x == [m EXCEPT !.msgs = q]
<1>1. q \in [TaskId -> Seq(Message)] BY DEF Manager
<1>2. u \in m.tasks => r = Wakeup(x, u, -1) BY DEF SendMessage
<1>3. u \notin m.tasks => r = m BY DEF SendMessage
<1> HIDE DEF q
<1>4. x \in Manager /\ x.running = m.running /\ x.is_running = m.is_running
  BY <1>1 DEF Manager
<1> HIDE DEF x
<1>5. InOrder(m, x, t, c) BY <1>4, InOrderSame
<1>6. CASE u \in m.tasks
  <2>1. r = Wakeup(x, u, -1) /\ x.is_running[t] BY <1>2, <1>4, <1>6
  <2>2. InOrder(x, r, t, c) BY <1>4, <2>1, WakeupAtLevelInOrder
  <2> QED BY <1>5, <2>2, InOrderTwice
<1>7. CASE u \notin m.tasks
  BY <1>3, <1>7, InOrderSame
<1> QED BY <1>6, <1>7

(* What Finish does to the object between the rotation and the wake-up.    *)
Gone(d, c, code) ==
  [Destroy(d, c) EXCEPT !.finish_tasks[c] = code, !.finish_waiter[c] = NoTask]

LEMMA DestroyRest ==
  ASSUME NEW d \in Manager, NEW c \in TaskId, NEW code \in ExitCode,
         NEW g, g = Gone(d, c, code)
  PROVE  /\ g \in Manager /\ g.running = d.running
         /\ \A t \in TaskId : t # c => g.is_running[t] = d.is_running[t]
<1> DEFINE a == [d.is_running EXCEPT ![c] = FALSE]
           b == [d.msgs EXCEPT ![c] = <<>>]
           f == [d.finish_tasks EXCEPT ![c] = code]
           h == [d.finish_waiter EXCEPT ![c] = NoTask]
           e == d.tasks \ {c}
<1>1. /\ e \in SUBSET TaskId
      /\ a \in [TaskId -> BOOLEAN] /\ b \in [TaskId -> Seq(Message)]
      /\ f \in [TaskId -> ExitCode \cup {NoCode}]
      /\ h \in [TaskId -> TaskId \cup {NoTask}]
  BY DEF Manager
<1>2. \A t \in TaskId : t # c => a[t] = d.is_running[t]
  BY DEF Manager
<1>3. g = [d EXCEPT !.tasks = e, !.is_running = a, !.msgs = b,
                    !.finish_tasks = f, !.finish_waiter = h]
  BY DEF Gone, Destroy, Manager
<1> HIDE DEF a, b, e, f, h
<1>4. g \in Manager /\ g.running = d.running /\ g.is_running = a
  BY <1>1, <1>3 DEF Manager
<1> QED BY <1>2, <1>4

(* The current task leaves; its waiter goes to the back of its level.      *)
LEMMA FinishInOrder ==
  ASSUME NEW m, ManagerInv(m), NEW code \in ExitCode,
         NEW r, r = Finish(m, code),
         NEW t \in TaskId, m.is_running[t],
         NEW c \in TaskId, c = CurrentTask(m), c # IdleId, t # c
  PROVE  InOrder(m, r, t, c)
<1>0. /\ m \in Manager /\ m.running[m.current_level] # <<>>
      /\ m.finish_waiter[c] \in TaskId \cup {NoTask}
  BY DEF ManagerInv, CurrentLevelOK, Manager
<1>1. PICK d : d = RotateCurrentRunQueue(m, TRUE) OBVIOUS
<1>2. InOrder(m, d, t, c)
  BY <1>0, <1>1, RotateInOrder, ZenonT(40)
<1>3. d \in Manager /\ d.is_running = m.is_running
  <2>1. CurrentTask(m) # IdleId OBVIOUS
  <2> QED BY <1>0, <1>1, <2>1, RotateDrops, ZenonT(40)
<1>4. PICK g : g = Gone(d, c, code) OBVIOUS
<1>5. /\ g \in Manager /\ g.running = d.running
      /\ \A u \in TaskId : u # c => g.is_running[u] = d.is_running[u]
  BY <1>3, <1>4, DestroyRest
<1>6. g.is_running[t] BY <1>3, <1>5
<1>7. InOrder(m, g, t, c)
  <2>1. InOrder(d, g, t, c) BY <1>5, InOrderSame
  <2> QED BY <1>2, <2>1, InOrderTwice
<1>8. PICK w : w = m.finish_waiter[c] OBVIOUS
<1>9. r = IF w = NoTask THEN g ELSE Wakeup(g, w, -1)
  BY <1>1, <1>4, <1>8 DEF Finish, Gone
<1>10. CASE w = NoTask BY <1>7, <1>9, <1>10
<1>11. CASE w # NoTask
  <2>1. w \in TaskId /\ r = Wakeup(g, w, -1) BY <1>0, <1>8, <1>9, <1>11
  <2>2. InOrder(g, r, t, c) BY <1>5, <1>6, <2>1, WakeupAtLevelInOrder
  <2> QED BY <1>7, <2>2, InOrderTwice
<1> QED BY <1>10, <1>11
-----------------------------------------------------------------------------
(* Scheduler.                                                              *)

JoinInv(m, s, w) ==
  /\ s \in [TaskId -> TaskId \cup {NoTask}]
  /\ w \in [TaskId -> BOOLEAN]
  /\ \A t \in TaskId : w[t] => t \in m.tasks /\ t # IdleId /\ s[t] # NoTask
  /\ \A t \in TaskId : s[t] # NoTask =>
       t < s[t] /\ IdleId < s[t] /\ s[t] <= m.latest_id
  /\ \A t, u \in TaskId : s[t] # NoTask /\ s[t] = s[u] => t = u
  /\ \A t \in TaskId : s[t] # NoTask =>
       s[t] \in m.tasks \/ m.finish_tasks[s[t]] # NoCode
  /\ \A id \in TaskId : m.finish_waiter[id] # NoTask =>
       /\ m.finish_tasks[id] = NoCode
       /\ w[m.finish_waiter[id]]
       /\ s[m.finish_waiter[id]] = id
  /\ \A id \in TaskId :
       id \in m.tasks \/ id > m.latest_id => m.finish_tasks[id] = NoCode

AsleepInv(m, s, w) ==
  /\ \A t \in TaskId : t \notin m.tasks => m.msgs[t] = <<>>
  /\ \A t \in m.tasks \ Sleepable :
       m.msgs[t] # <<>> /\ ~w[t] => m.is_running[t]
  /\ \A t \in m.tasks \ Sleepable : w[t] /\ ~m.is_running[t] =>
       /\ s[t] \in m.tasks
       /\ m.finish_tasks[s[t]] = NoCode
       /\ m.finish_waiter[s[t]] = t

IInv == ManagerInv(tm) /\ JoinInv(tm, subtask, waiting) /\ AsleepInv(tm, subtask, waiting)
-----------------------------------------------------------------------------
(* JoinInv reads four fields of the object.                                *)
LEMMA JoinFrame ==
  ASSUME NEW m, NEW s, NEW w, JoinInv(m, s, w),
         NEW r, r.latest_id = m.latest_id, r.tasks = m.tasks,
         r.finish_tasks = m.finish_tasks, r.finish_waiter = m.finish_waiter
  PROVE  JoinInv(r, s, w)
BY DEF JoinInv

(* A step that only wakes a task.                                          *)
LEMMA WakeupSafe ==
  ASSUME NEW m, ManagerInv(m), NEW s, NEW w, JoinInv(m, s, w),
         NEW t \in m.tasks, t # IdleId, NEW lv \in -1 .. kMaxLevel,
         NEW r, r = Wakeup(m, t, lv)
  PROVE  /\ ManagerInv(r) /\ JoinInv(r, s, w)
         /\ AsleepInv(m, s, w) => AsleepInv(r, s, w)
<1>1. /\ ManagerInv(r)
      /\ r.latest_id = m.latest_id /\ r.tasks = m.tasks /\ r.msgs = m.msgs
      /\ r.is_running = [m.is_running EXCEPT ![t] = TRUE]
      /\ r.finish_tasks = m.finish_tasks /\ r.finish_waiter = m.finish_waiter
  BY WakeupKeeps
<1>2. JoinInv(r, s, w) BY <1>1, JoinFrame
<1>3. \A u \in TaskId : m.is_running[u] => r.is_running[u] BY <1>1, FieldTypes
<1>4. m.tasks \subseteq TaskId BY FieldTypes
<1>5. AsleepInv(m, s, w) => AsleepInv(r, s, w) BY <1>1, <1>3, <1>4 DEF AsleepInv
<1> QED BY <1>1, <1>2, <1>5

-----------------------------------------------------------------------------
(* One lemma per action.                                                   *)

LEMMA CreateTaskSafe ==
  ASSUME IInv, NEW t \in TaskId, CreateTask(t)
  PROVE  IInv'
<1>1. /\ ManagerInv(tm') /\ tm.latest_id + 1 \notin tm.tasks
      /\ tm.latest_id + 1 \in TaskId
      /\ tm'.latest_id = tm.latest_id + 1
      /\ tm'.tasks = tm.tasks \cup {tm.latest_id + 1}
      /\ tm'.is_running = tm.is_running /\ tm'.msgs = tm.msgs
      /\ tm'.finish_tasks = tm.finish_tasks /\ tm'.finish_waiter = tm.finish_waiter
  BY NewTaskKeeps DEF IInv, CreateTask
<1>2. subtask' = subtask /\ waiting' = waiting BY DEF CreateTask
<1>3. tm.latest_id \in Nat /\ tm.tasks \subseteq TaskId BY FieldTypes DEF IInv
<1>4. JoinInv(tm', subtask, waiting)
  BY <1>1, <1>3 DEF IInv, JoinInv, TaskId
<1>5. AsleepInv(tm', subtask, waiting)
  BY <1>1, <1>3 DEF IInv, AsleepInv, JoinInv
<1> QED BY <1>1, <1>2, <1>4, <1>5 DEF IInv

LEMMA CreateSubtaskSafe ==
  ASSUME IInv, NEW t \in TaskId, CreateSubtask(t)
  PROVE  IInv'
<1> DEFINE m == NewTask(tm)
           id == tm.latest_id + 1
<1>0. /\ t \in tm.tasks /\ subtask[t] = NoTask /\ tm.latest_id < MaxId
      /\ ~waiting[t]
  BY CurrentTaskProperties DEF IInv, CreateSubtask, Running, Current
<1>1. /\ ManagerInv(m) /\ id \notin tm.tasks /\ id \in TaskId /\ id # IdleId
      /\ m.latest_id = id /\ m.tasks = tm.tasks \cup {id}
      /\ m.is_running = tm.is_running /\ m.msgs = tm.msgs
      /\ m.finish_tasks = tm.finish_tasks /\ m.finish_waiter = tm.finish_waiter
  BY <1>0, NewTaskKeeps DEF IInv
<1>2. /\ tm' = Wakeup(m, id, -1) /\ waiting' = waiting
      /\ subtask' = [subtask EXCEPT ![t] = id]
  BY DEF CreateSubtask
<1>3. /\ tm.latest_id \in Nat /\ tm.tasks \subseteq TaskId /\ t <= tm.latest_id
      /\ IdleId \in tm.tasks /\ IdleId <= tm.latest_id
  BY <1>0, FieldTypes DEF IInv, ManagerInv
<1> HIDE DEF m
<1>4. JoinInv(m, subtask', waiting)
  <2> DEFINE s == subtask'
  <2>1. /\ subtask \in [TaskId -> TaskId \cup {NoTask}]
        /\ waiting \in [TaskId -> BOOLEAN]
        /\ \A u \in TaskId : subtask[u] # NoTask => subtask[u] <= tm.latest_id
    BY DEF IInv, JoinInv
  <2>2. /\ s \in [TaskId -> TaskId \cup {NoTask}] /\ s[t] = id
        /\ \A u \in TaskId \ {t} : s[u] = subtask[u]
    BY <2>1, <1>1, <1>2
  <2>3. /\ t < id /\ IdleId < id /\ id # NoTask /\ tm.latest_id < id
    BY <1>1, <1>3 DEF TaskId, NoTask
  <2> HIDE DEF s
  <2>4. \A u \in TaskId : s[u] # NoTask =>
           u < s[u] /\ IdleId < s[u] /\ s[u] <= m.latest_id
    BY <2>1, <2>2, <2>3, <1>1, <1>3 DEF IInv, JoinInv, TaskId, NoTask
  <2>5. \A u, v \in TaskId : s[u] # NoTask /\ s[u] = s[v] => u = v
    <3>1. \A u \in TaskId \ {t} : s[u] # NoTask => s[u] # id
      BY <2>1, <2>2, <2>3, <1>1, <1>3 DEF TaskId, NoTask
    <3> QED BY <3>1, <2>2 DEF IInv, JoinInv
  <2>6. \A u \in TaskId : waiting[u] => u \in m.tasks /\ u # IdleId /\ s[u] # NoTask
    BY <2>2, <1>0, <1>1 DEF IInv, JoinInv
  <2>7. \A u \in TaskId : s[u] # NoTask =>
           s[u] \in m.tasks \/ m.finish_tasks[s[u]] # NoCode
    BY <2>2, <1>1 DEF IInv, JoinInv
  <2>8. \A i \in TaskId : m.finish_waiter[i] # NoTask =>
           /\ m.finish_tasks[i] = NoCode
           /\ waiting[m.finish_waiter[i]]
           /\ s[m.finish_waiter[i]] = i
    <3>1. ASSUME NEW i \in TaskId, m.finish_waiter[i] # NoTask
          PROVE  /\ tm.finish_tasks[i] = NoCode
                 /\ waiting[tm.finish_waiter[i]]
                 /\ subtask[tm.finish_waiter[i]] = i
                 /\ tm.finish_waiter[i] \in TaskId
      BY <3>1, <1>1, FieldTypes DEF IInv, JoinInv
    <3> QED BY <3>1, <2>2, <1>0, <1>1
  <2>9. \A i \in TaskId :
           i \in m.tasks \/ i > m.latest_id => m.finish_tasks[i] = NoCode
    <3>1. \A i \in TaskId :
             i \in tm.tasks \/ i > tm.latest_id => tm.finish_tasks[i] = NoCode
      BY DEF IInv, JoinInv
    <3> QED BY <3>1, <1>1, <1>3 DEF TaskId
  <2> QED BY <2>1, <2>2, <2>4, <2>5, <2>6, <2>7, <2>8, <2>9 DEF JoinInv, s
<1>5. AsleepInv(m, subtask', waiting)
  BY <1>0, <1>1, <1>2, <1>3 DEF IInv, AsleepInv, JoinInv
<1>6. id \in m.tasks /\ -1 \in -1 .. kMaxLevel BY <1>1 DEF kMaxLevel
<1> HIDE DEF id
<1>7. ManagerInv(tm') /\ JoinInv(tm', subtask', waiting) /\ AsleepInv(tm', subtask', waiting)
  BY <1>1, <1>2, <1>4, <1>5, <1>6, WakeupSafe
<1> QED BY <1>2, <1>7 DEF IInv

LEMMA SwitchTaskSafe ==
  ASSUME IInv, SwitchTask
  PROVE  IInv'
<1>1. ManagerInv(tm') BY RotateKeeps DEF IInv, SwitchTask
<1>2. /\ tm'.latest_id = tm.latest_id /\ tm'.tasks = tm.tasks /\ tm'.msgs = tm.msgs
      /\ tm'.is_running = tm.is_running
      /\ tm'.finish_tasks = tm.finish_tasks /\ tm'.finish_waiter = tm.finish_waiter
  BY RotateRest DEF IInv, ManagerInv, SwitchTask
<1>3. subtask' = subtask /\ waiting' = waiting BY DEF SwitchTask
<1>4. JoinInv(tm', subtask, waiting) BY <1>2, JoinFrame DEF IInv
<1>5. AsleepInv(tm', subtask, waiting) BY <1>2 DEF IInv, AsleepInv
<1> QED BY <1>1, <1>3, <1>4, <1>5 DEF IInv

LEMMA SendSafe ==
  ASSUME IInv, NEW t \in TaskId, NEW msg \in Message, Send(t, msg)
  PROVE  IInv'
<1>0. t \in tm.tasks /\ t # IdleId /\ tm' = SendMessage(tm, t, msg)
  BY DEF Send
<1>1. /\ ManagerInv(tm')
      /\ tm'.latest_id = tm.latest_id /\ tm'.tasks = tm.tasks
      /\ tm'.msgs = [tm.msgs EXCEPT ![t] = Append(@, msg)]
      /\ tm'.is_running = [tm.is_running EXCEPT ![t] = TRUE]
      /\ tm'.finish_tasks = tm.finish_tasks /\ tm'.finish_waiter = tm.finish_waiter
  BY <1>0, SendMessageKeeps DEF IInv
<1>2. subtask' = subtask /\ waiting' = waiting BY DEF Send
<1>3. JoinInv(tm', subtask, waiting) BY <1>1, JoinFrame DEF IInv
<1>4. AsleepInv(tm', subtask, waiting)
  <2>1. /\ tm.msgs \in [TaskId -> Seq(Message)]
        /\ tm.is_running \in [TaskId -> BOOLEAN] /\ tm.tasks \subseteq TaskId
    BY FieldTypes DEF IInv
  <2>2. /\ tm'.is_running[t]
        /\ \A u \in TaskId : u # t => /\ tm'.is_running[u] = tm.is_running[u]
                                     /\ tm'.msgs[u] = tm.msgs[u]
    BY <1>1, <2>1
  <2> QED BY <1>0, <1>1, <2>1, <2>2 DEF IInv, AsleepInv
<1> QED BY <1>1, <1>2, <1>3, <1>4 DEF IInv

LEMMA ReceiveSafe ==
  ASSUME IInv, NEW t \in TaskId, Receive(t)
  PROVE  IInv'
<1>0. /\ t = CurrentTask(tm) /\ t # IdleId /\ t \in tm.tasks /\ ~waiting[t]
      /\ tm.is_running[t]
      /\ subtask' = subtask /\ waiting' = waiting
  BY CurrentTaskProperties DEF IInv, Receive, Running, Current
<1>1. /\ tm.msgs \in [TaskId -> Seq(Message)]
      /\ tm.is_running \in [TaskId -> BOOLEAN] /\ tm.tasks \subseteq TaskId
  BY FieldTypes DEF IInv
<1>2. CASE tm.msgs[t] = <<>>
  <2>1. /\ ManagerInv(tm')
        /\ tm'.latest_id = tm.latest_id /\ tm'.tasks = tm.tasks
        /\ tm'.msgs = tm.msgs
        /\ tm'.is_running = [tm.is_running EXCEPT ![t] = FALSE]
        /\ tm'.finish_tasks = tm.finish_tasks /\ tm'.finish_waiter = tm.finish_waiter
    BY <1>0, <1>2, SleepKeeps DEF IInv, Receive
  <2>2. JoinInv(tm', subtask, waiting) BY <2>1, JoinFrame DEF IInv
  <2>3. \A u \in TaskId : u # t => tm'.is_running[u] = tm.is_running[u]
    BY <1>1, <2>1
  <2>4. AsleepInv(tm', subtask, waiting)
    BY <1>0, <1>1, <1>2, <2>1, <2>3 DEF IInv, AsleepInv
  <2> QED BY <1>0, <2>1, <2>2, <2>4 DEF IInv
<1>3. CASE tm.msgs[t] # <<>>
  <2>1. /\ ManagerInv(tm')
        /\ tm'.latest_id = tm.latest_id /\ tm'.tasks = tm.tasks
        /\ tm'.msgs = [tm.msgs EXCEPT ![t] = Tail(@)]
        /\ tm'.is_running = tm.is_running
        /\ tm'.finish_tasks = tm.finish_tasks /\ tm'.finish_waiter = tm.finish_waiter
    BY <1>0, <1>3, PopMessageKeeps DEF IInv, Receive
  <2>2. JoinInv(tm', subtask, waiting) BY <2>1, JoinFrame DEF IInv
  <2>3. \A u \in TaskId : u # t => tm'.msgs[u] = tm.msgs[u] BY <1>1, <2>1
  <2>4. AsleepInv(tm', subtask, waiting)
    BY <1>0, <1>1, <2>1, <2>3 DEF IInv, AsleepInv
  <2> QED BY <1>0, <2>1, <2>2, <2>4 DEF IInv
<1> QED BY <1>2, <1>3

LEMMA WakeSafe ==
  ASSUME IInv, NEW t \in TaskId, NEW level \in WakeLevels, Wake(t, level)
  PROVE  IInv'
<1>1. /\ t \in tm.tasks /\ t # IdleId /\ level \in -1 .. kMaxLevel
      /\ tm' = Wakeup(tm, t, level) /\ subtask' = subtask /\ waiting' = waiting
  BY WakeLevelsAssumption DEF Wake
<1> QED BY <1>1, WakeupSafe DEF IInv

LEMMA PutToSleepSafe ==
  ASSUME IInv, NEW t \in Sleepable, PutToSleep(t)
  PROVE  IInv'
<1>0. t \in TaskId /\ t # IdleId BY SleepableAssumption
<1>1. /\ ManagerInv(tm')
      /\ tm'.latest_id = tm.latest_id /\ tm'.tasks = tm.tasks
      /\ tm'.msgs = tm.msgs
      /\ tm'.is_running = [tm.is_running EXCEPT ![t] = FALSE]
      /\ tm'.finish_tasks = tm.finish_tasks /\ tm'.finish_waiter = tm.finish_waiter
  BY <1>0, SleepKeeps DEF IInv, PutToSleep
<1>2. subtask' = subtask /\ waiting' = waiting BY DEF PutToSleep
<1>3. JoinInv(tm', subtask, waiting) BY <1>1, JoinFrame DEF IInv
<1>4. \A u \in TaskId : u # t => tm'.is_running[u] = tm.is_running[u]
  BY <1>1, FieldTypes DEF IInv
<1>5. AsleepInv(tm', subtask, waiting)
  BY <1>0, <1>1, <1>4, FieldTypes DEF IInv, AsleepInv
<1> QED BY <1>1, <1>2, <1>3, <1>5 DEF IInv

LEMMA FinishTaskSafe ==
  ASSUME IInv, NEW t \in TaskId, NEW code \in ExitCode, FinishTask(t, code)
  PROVE  IInv'
<1> DEFINE w == tm.finish_waiter[t]
<1>0. /\ t = CurrentTask(tm) /\ t # IdleId /\ t \in tm.tasks /\ ~waiting[t]
      /\ tm' = Finish(tm, code) /\ subtask' = subtask /\ waiting' = waiting
      /\ code # NoCode
  BY CurrentTaskProperties, NoCodeAssumption DEF IInv, FinishTask, Running, Current
<1>1. w = NoTask \/ (w \in TaskId /\ waiting[w] /\ subtask[w] = t)
  BY <1>0, FieldTypes DEF IInv, JoinInv
<1>2. w = NoTask \/ (w \in tm.tasks /\ w # t /\ w # IdleId)
  BY <1>0, <1>1 DEF IInv, JoinInv
<1>3. /\ ManagerInv(tm')
      /\ tm'.latest_id = tm.latest_id /\ tm'.tasks = tm.tasks \ {t}
      /\ tm'.msgs = [tm.msgs EXCEPT ![t] = <<>>]
      /\ ~tm'.is_running[t]
      /\ \A u \in TaskId \ {t} : tm'.is_running[u] <=> (u = w \/ tm.is_running[u])
      /\ tm'.finish_tasks = [tm.finish_tasks EXCEPT ![t] = code]
      /\ tm'.finish_waiter = [tm.finish_waiter EXCEPT ![t] = NoTask]
  <2> HIDE DEF w
  <2>1. w = tm.finish_waiter[t] BY DEF w
  <2> QED BY <1>0, <1>2, <2>1, FinishKeeps DEF IInv
<1>4. /\ tm.msgs \in [TaskId -> Seq(Message)] /\ tm.tasks \subseteq TaskId
      /\ tm.finish_tasks \in [TaskId -> ExitCode \cup {NoCode}]
      /\ tm.finish_waiter \in [TaskId -> TaskId \cup {NoTask}]
      /\ tm.latest_id \in Nat /\ t <= tm.latest_id
  BY <1>0, FieldTypes DEF IInv
<1>5. /\ tm'.finish_tasks[t] = code /\ tm'.finish_waiter[t] = NoTask
      /\ tm'.msgs[t] = <<>>
      /\ \A u \in TaskId : u # t =>
            /\ tm'.finish_tasks[u] = tm.finish_tasks[u]
            /\ tm'.finish_waiter[u] = tm.finish_waiter[u]
            /\ tm'.msgs[u] = tm.msgs[u]
  BY <1>3, <1>4
<1>6. JoinInv(tm', subtask, waiting)
  BY <1>0, <1>3, <1>4, <1>5 DEF IInv, JoinInv, TaskId
<1>7. AsleepInv(tm', subtask, waiting)
  <2>1. ASSUME NEW u \in tm'.tasks \ Sleepable, waiting[u], ~tm'.is_running[u]
        PROVE  /\ subtask[u] \in tm'.tasks
               /\ tm'.finish_tasks[subtask[u]] = NoCode
               /\ tm'.finish_waiter[subtask[u]] = u
    <3>1. u \in tm.tasks \ Sleepable /\ u # t /\ u # w /\ ~tm.is_running[u]
      BY <2>1, <1>3, <1>4
    <3>2. /\ subtask[u] \in tm.tasks /\ tm.finish_tasks[subtask[u]] = NoCode
          /\ tm.finish_waiter[subtask[u]] = u
      BY <3>1, <2>1 DEF IInv, AsleepInv
    <3> QED BY <3>1, <3>2, <1>3, <1>4, <1>5
  <2>2. \A u \in TaskId : u \notin tm'.tasks => tm'.msgs[u] = <<>>
    BY <1>3, <1>5 DEF IInv, AsleepInv
  <2>3. \A u \in tm'.tasks \ Sleepable :
          tm'.msgs[u] # <<>> /\ ~waiting[u] => tm'.is_running[u]
    BY <1>3, <1>4, <1>5 DEF IInv, AsleepInv
  <2> QED BY <2>1, <2>2, <2>3 DEF AsleepInv
<1> QED BY <1>0, <1>3, <1>6, <1>7 DEF IInv

LEMMA WaitForExitSafe ==
  ASSUME IInv, NEW t \in TaskId, WaitForExit(t)
  PROVE  IInv'
<1> DEFINE id == subtask[t]
<1>0. /\ t = CurrentTask(tm) /\ t # IdleId /\ t \in tm.tasks /\ tm.is_running[t]
      /\ id # NoTask /\ tm.finish_tasks[id] = NoCode
      /\ tm' = AwaitFinish(tm, id) /\ subtask' = subtask
      /\ waiting' = [waiting EXCEPT ![t] = TRUE]
  BY CurrentTaskProperties DEF IInv, WaitForExit, Current
<1>1. id \in TaskId /\ id \in tm.tasks
  BY <1>0 DEF IInv, JoinInv
<1>2. /\ ManagerInv(tm')
      /\ tm'.latest_id = tm.latest_id /\ tm'.tasks = tm.tasks /\ tm'.msgs = tm.msgs
      /\ tm'.is_running = [tm.is_running EXCEPT ![t] = FALSE]
      /\ tm'.finish_tasks = tm.finish_tasks
      /\ tm'.finish_waiter = [tm.finish_waiter EXCEPT ![id] = t]
  <2> HIDE DEF id
  <2> QED BY <1>0, <1>1, AwaitFinishKeeps DEF IInv
<1>3. /\ tm.tasks \subseteq TaskId /\ tm.is_running \in [TaskId -> BOOLEAN]
      /\ tm.finish_waiter \in [TaskId -> TaskId \cup {NoTask}]
      /\ waiting \in [TaskId -> BOOLEAN]
  BY FieldTypes DEF IInv, JoinInv
<1>4. /\ tm'.finish_waiter[id] = t /\ waiting'[t]
      /\ \A u \in TaskId : u # id => tm'.finish_waiter[u] = tm.finish_waiter[u]
      /\ \A u \in TaskId : u # t => /\ tm'.is_running[u] = tm.is_running[u]
                                   /\ waiting'[u] = waiting[u]
      /\ waiting' \in [TaskId -> BOOLEAN]
  BY <1>0, <1>1, <1>2, <1>3
<1>5. JoinInv(tm', subtask, waiting')
  BY <1>0, <1>1, <1>2, <1>4 DEF IInv, JoinInv
<1>6. AsleepInv(tm', subtask, waiting')
  <2>1. \A u \in TaskId : u # t /\ waiting[u] => subtask[u] # id
    BY <1>0 DEF IInv, JoinInv
  <2>2. \A u \in tm.tasks : u # t /\ waiting[u] => subtask[u] \in TaskId
    BY <1>3 DEF IInv, JoinInv
  <2> QED BY <1>0, <1>1, <1>2, <1>3, <1>4, <2>1, <2>2 DEF IInv, AsleepInv
<1> QED BY <1>0, <1>2, <1>5, <1>6 DEF IInv

LEMMA JoinSubtaskSafe ==
  ASSUME IInv, NEW t \in TaskId, JoinSubtask(t)
  PROVE  IInv'
<1> DEFINE id == subtask[t]
<1>0. /\ t = CurrentTask(tm) /\ t \in tm.tasks /\ tm.is_running[t]
      /\ id # NoTask /\ tm.finish_tasks[id] # NoCode
      /\ tm' = TakeExitCode(tm, id)
      /\ waiting' = [waiting EXCEPT ![t] = FALSE]
      /\ subtask' = [subtask EXCEPT ![t] = NoTask]
  BY CurrentTaskProperties DEF IInv, JoinSubtask, Current
<1>1. id \in TaskId /\ id \notin tm.tasks /\ tm.finish_waiter[id] = NoTask
  BY <1>0 DEF IInv, JoinInv
<1>2. /\ ManagerInv(tm')
      /\ tm'.latest_id = tm.latest_id /\ tm'.tasks = tm.tasks /\ tm'.msgs = tm.msgs
      /\ tm'.is_running = tm.is_running
      /\ tm'.finish_tasks = [tm.finish_tasks EXCEPT ![id] = NoCode]
      /\ tm'.finish_waiter = tm.finish_waiter
  <2> HIDE DEF id
  <2>1. ManagerInv(tm) /\ id \in TaskId /\ tm' = TakeExitCode(tm, id)
    BY <1>0, <1>1 DEF IInv
  <2> DEFINE r == tm'
  <2> HIDE DEF r
  <2>2. r = TakeExitCode(tm, id) BY <2>1 DEF r
  <2>3. /\ ManagerInv(r)
        /\ r.latest_id = tm.latest_id /\ r.tasks = tm.tasks /\ r.msgs = tm.msgs
        /\ r.is_running = tm.is_running
        /\ r.finish_tasks = [tm.finish_tasks EXCEPT ![id] = NoCode]
        /\ r.finish_waiter = tm.finish_waiter
    BY <2>1, <2>2, TakeExitCodeKeeps
  <2> QED BY <2>3 DEF r
<1>3. /\ tm.tasks \subseteq TaskId /\ tm.latest_id \in Nat
      /\ tm.finish_tasks \in [TaskId -> ExitCode \cup {NoCode}]
      /\ waiting \in [TaskId -> BOOLEAN]
      /\ subtask \in [TaskId -> TaskId \cup {NoTask}]
  BY FieldTypes DEF IInv, JoinInv
<1>4. /\ ~waiting'[t] /\ subtask'[t] = NoTask /\ tm'.finish_tasks[id] = NoCode
      /\ \A u \in TaskId : u # id => tm'.finish_tasks[u] = tm.finish_tasks[u]
      /\ \A u \in TaskId : u # t => /\ subtask'[u] = subtask[u]
                                   /\ waiting'[u] = waiting[u]
      /\ waiting' \in [TaskId -> BOOLEAN]
      /\ subtask' \in [TaskId -> TaskId \cup {NoTask}]
  BY <1>0, <1>1, <1>2, <1>3
<1>5. \A u \in TaskId : u # t /\ subtask[u] # NoTask => subtask[u] # id
  BY <1>0 DEF IInv, JoinInv
<1>6. JoinInv(tm', subtask', waiting')
  BY <1>0, <1>1, <1>2, <1>3, <1>4, <1>5 DEF IInv, JoinInv
<1>7. AsleepInv(tm', subtask', waiting')
  BY <1>0, <1>1, <1>2, <1>3, <1>4, <1>5 DEF IInv, AsleepInv, JoinInv
<1> QED BY <1>2, <1>6, <1>7 DEF IInv

-----------------------------------------------------------------------------
LEMMA InitIInv == Init => IInv
<1> SUFFICES ASSUME Init PROVE IInv
  OBVIOUS
<1>1. ManagerInv(tm) BY InitialManagerInv DEF Init
<1>2. /\ tm.tasks = {MainId, IdleId}
      /\ tm.msgs = [t \in TaskId |-> <<>>]
      /\ tm.finish_tasks = [t \in TaskId |-> NoCode]
      /\ tm.finish_waiter = [t \in TaskId |-> NoTask]
  BY DEF Init, InitialManager
<1>3. JoinInv(tm, subtask, waiting)
  BY <1>2 DEF Init, JoinInv
<1>4. AsleepInv(tm, subtask, waiting)
  BY <1>2, FieldTypes, <1>1 DEF Init, AsleepInv
<1> QED BY <1>1, <1>3, <1>4 DEF IInv

LEMMA NextIInv == IInv /\ [Next]_vars => IInv'
<1> SUFFICES ASSUME IInv, [Next]_vars PROVE IInv'
  OBVIOUS
<1>1. CASE SwitchTask BY <1>1, SwitchTaskSafe
<1>2. ASSUME NEW t \in TaskId, CreateTask(t) PROVE IInv' BY <1>2, CreateTaskSafe
<1>3. ASSUME NEW t \in TaskId, CreateSubtask(t) PROVE IInv'
  BY <1>3, CreateSubtaskSafe
<1>4. ASSUME NEW t \in TaskId, NEW msg \in Message, Send(t, msg) PROVE IInv'
  BY <1>4, SendSafe
<1>5. ASSUME NEW t \in TaskId, Receive(t) PROVE IInv' BY <1>5, ReceiveSafe
<1>6. ASSUME NEW t \in TaskId, NEW level \in WakeLevels, Wake(t, level) PROVE IInv'
  BY <1>6, WakeSafe
<1>7. ASSUME NEW t \in TaskId, t \in Sleepable, PutToSleep(t) PROVE IInv'
  BY <1>7, PutToSleepSafe
<1>8. ASSUME NEW t \in TaskId, NEW code \in ExitCode, FinishTask(t, code) PROVE IInv'
  BY <1>8, FinishTaskSafe
<1>9. ASSUME NEW t \in TaskId, WaitForExit(t) PROVE IInv' BY <1>9, WaitForExitSafe
<1>10. ASSUME NEW t \in TaskId, JoinSubtask(t) PROVE IInv' BY <1>10, JoinSubtaskSafe
<1>11. CASE UNCHANGED vars BY <1>11 DEF vars, IInv
<1> QED BY <1>1, <1>2, <1>3, <1>4, <1>5, <1>6, <1>7, <1>8, <1>9, <1>10, <1>11
        DEF Next

THEOREM Inductive == Spec => []IInv
<1>1. Init => IInv BY InitIInv
<1>2. IInv /\ [Next]_vars => IInv' BY NextIInv
<1> QED BY <1>1, <1>2, PTL DEF Spec

-----------------------------------------------------------------------------
(* The object and the threads' variables keep their types.                 *)
THEOREM TypeCorrect == Spec => []TypeOK
<1>1. IInv => TypeOK BY DEF IInv, ManagerInv, JoinInv, TypeOK
<1> QED BY <1>1, Inductive, PTL

(* Every task that runs is in the queue of its level, once, and no queue   *)
(* holds any other task: a context switch never resumes a destroyed task.  *)
THEOREM RunQueuesAreSound == Spec => []RunQueuesSound
<1>1. IInv => RunQueuesSound
  BY HoldsIsRunQueuesOK DEF IInv, ManagerInv, RunQueuesSound
<1> QED BY <1>1, Inductive, PTL

(* There is always a task to execute, and a higher one is never forgotten. *)
THEOREM NoPreemptionMissed == Spec => []NoMissedPreemption
<1>1. IInv => NoMissedPreemption BY DEF IInv, ManagerInv, NoMissedPreemption
<1> QED BY <1>1, Inductive, PTL

(* No task sleeps in its event loop with a message in its queue.           *)
THEOREM NoMessageLost == Spec => []NoLostMessage
<1>1. IInv => NoLostMessage BY DEF IInv, AsleepInv, NoLostMessage
<1> QED BY <1>1, Inductive, PTL

(* A task asleep in WaitFinish is registered with a task still to finish.  *)
THEOREM WaitersAreRegistered == Spec => []WaiterRegistered
<1>1. IInv => WaiterRegistered BY DEF IInv, AsleepInv, WaiterRegistered
<1> QED BY <1>1, Inductive, PTL

(* No pointer in finish_waiter_ outlives its task.                         *)
THEOREM WaitersAreAlive == Spec => []WaitersAlive
<1>1. IInv => WaitersAlive
  <2> SUFFICES ASSUME IInv, NEW id \in TaskId
               PROVE  tm.finish_waiter[id] \in tm.tasks \cup {NoTask}
    BY DEF WaitersAlive
  <2>1. tm.finish_waiter[id] \in TaskId \cup {NoTask}
    BY FieldTypes DEF IInv
  <2> QED BY <2>1 DEF IInv, JoinInv
<1> QED BY <1>1, Inductive, PTL


-----------------------------------------------------------------------------
(* NoOvertaking: every step keeps the queues in order (InOrder above)      *)
(* around a task that waits at its level.                                  *)
LEMMA AheadIsBefore ==
  ASSUME NEW m \in Manager, NEW t \in TaskId, NEW u
  PROVE  u \in Ahead(m, t) <=> Before(m.running[m.level[t]], u, t)
<1> DEFINE q == m.running[m.level[t]]
<1>1. q \in Seq(TaskId) BY DEF Manager
<1>2. DOMAIN q = 1 .. Len(q) /\ Len(q) \in Nat BY <1>1, LenProperties
<1> HIDE DEF q
<1>3. ASSUME NEW i \in DOMAIN q, NEW j \in i + 1 .. Len(q), q[j] = t, q[i] = u
      PROVE  Before(q, u, t)
  <2>1. j \in 1 .. Len(q) /\ i \in 1 .. j - 1 BY <1>2
  <2> QED BY <1>3, <2>1 DEF Before
<1>4. ASSUME NEW j \in 1 .. Len(q), NEW i \in 1 .. j - 1, q[j] = t, q[i] = u
      PROVE  u \in {q[k] : k \in {l \in DOMAIN q : \E n \in l + 1 .. Len(q) : q[n] = t}}
  <2>1. i \in DOMAIN q /\ j \in i + 1 .. Len(q) BY <1>2
  <2> QED BY <1>4, <2>1
<1>5. u \in {q[k] : k \in {l \in DOMAIN q : \E n \in l + 1 .. Len(q) : q[n] = t}}
        <=> Before(q, u, t)
  BY <1>3, <1>4 DEF Before
<1> QED BY <1>5 DEF Ahead, q

LEMMA NextInOrder ==
  ASSUME IInv, Next, NEW t \in tm.tasks, tm.is_running[t], t # Current,
         tm.level[t] = tm'.level[t]
  PROVE  InOrder(tm, tm', t, Current)
<1>0. /\ tm \in Manager /\ ManagerInv(tm) /\ tm.running[tm.current_level] # <<>>
      /\ Current \in TaskId /\ Current = CurrentTask(tm)
      /\ t \in TaskId /\ t \in tm.tasks
      /\ subtask \in [TaskId -> TaskId \cup {NoTask}]
  BY CurrentTaskProperties DEF IInv, ManagerInv, Manager, CurrentLevelOK, Current, JoinInv
<1>1. CASE SwitchTask
  <2>1. tm' = RotateCurrentRunQueue(tm, FALSE) BY <1>1 DEF SwitchTask
  <2> QED BY <1>0, <2>1, RotateInOrder
<1>2. ASSUME NEW u \in TaskId, CreateTask(u) PROVE InOrder(tm, tm', t, Current)
  <2>1. tm'.running = tm.running BY <1>0, <1>2, NewTaskKeeps DEF CreateTask
  <2> QED BY <2>1, InOrderSame
<1>3. ASSUME NEW u \in TaskId, CreateSubtask(u) PROVE InOrder(tm, tm', t, Current)
  <2>1. PICK n : n = NewTask(tm) OBVIOUS
  <2>2. /\ ManagerInv(n) /\ n.running = tm.running /\ n.is_running = tm.is_running
        /\ tm.latest_id + 1 \in TaskId
    BY <1>0, <1>3, <2>1, NewTaskKeeps DEF CreateSubtask
  <2>3. n \in Manager BY <2>2 DEF ManagerInv
  <2>4. tm' = Wakeup(n, tm.latest_id + 1, -1) BY <1>3, <2>1 DEF CreateSubtask
  <2>5. InOrder(tm, n, t, Current) BY <2>2, InOrderSame
  <2>6. InOrder(n, tm', t, Current)
    BY <1>0, <2>2, <2>3, <2>4, WakeupAtLevelInOrder
  <2> QED BY <2>5, <2>6, InOrderTwice
<1>4. ASSUME NEW u \in TaskId, NEW msg \in Message, Send(u, msg)
      PROVE  InOrder(tm, tm', t, Current)
  <2>1. tm' = SendMessage(tm, u, msg) BY <1>4 DEF Send
  <2> QED BY <1>0, <2>1, SendMessageInOrder
<1>5. ASSUME NEW u \in TaskId, Receive(u) PROVE InOrder(tm, tm', t, Current)
  <2>1. CASE tm.msgs[u] = <<>>
    <3>1. tm' = Sleep(tm, u) BY <1>5, <2>1 DEF Receive
    <3> QED BY <1>0, <3>1, SleepInOrder
  <2>2. CASE tm.msgs[u] # <<>>
    <3>1. tm' = PopMessage(tm, u) BY <1>5, <2>2 DEF Receive
    <3>2. tm'.running = tm.running BY <1>0, <3>1 DEF PopMessage, Manager
    <3> QED BY <3>2, InOrderSame
  <2> QED BY <2>1, <2>2
<1>6. ASSUME NEW u \in TaskId, NEW level \in WakeLevels, Wake(u, level)
      PROVE  InOrder(tm, tm', t, Current)
  <2>1. tm' = Wakeup(tm, u, level) /\ level \in -1 .. kMaxLevel
    BY <1>6, WakeLevelsAssumption DEF Wake
  <2> QED BY <1>0, <2>1, WakeupInOrder
<1>7. ASSUME NEW u \in TaskId, u \in Sleepable, PutToSleep(u)
      PROVE  InOrder(tm, tm', t, Current)
  <2>1. tm' = Sleep(tm, u) BY <1>7 DEF PutToSleep
  <2> QED BY <1>0, <2>1, SleepInOrder
<1>8. ASSUME NEW u \in TaskId, NEW code \in ExitCode, FinishTask(u, code)
      PROVE  InOrder(tm, tm', t, Current)
  <2>1. tm' = Finish(tm, code) /\ Current # IdleId
    BY <1>8 DEF FinishTask, Running
  <2> QED BY <1>0, <2>1, FinishInOrder
<1>9. ASSUME NEW u \in TaskId, WaitForExit(u) PROVE InOrder(tm, tm', t, Current)
  <2> DEFINE w == [tm.finish_waiter EXCEPT ![subtask[u]] = Current]
  <2>1. PICK x : x = [tm EXCEPT !.finish_waiter = w] OBVIOUS
  <2>2. tm' = Sleep(x, Current)
    BY <1>9, <2>1 DEF WaitForExit, AwaitFinish, Current
  <2>3. subtask[u] \in TaskId BY <1>0, <1>9 DEF WaitForExit
  <2>4. w \in [TaskId -> TaskId \cup {NoTask}] BY <1>0, <2>3 DEF Manager
  <2> HIDE DEF w
  <2>5. /\ x \in Manager /\ x.running = tm.running
        /\ x.current_level = tm.current_level
    BY <1>0, <2>1, <2>4 DEF Manager
  <2>6. x.running[x.current_level] # <<>> /\ Current = CurrentTask(x)
    BY <1>0, <2>5 DEF CurrentTask
  <2>7. InOrder(x, tm', t, Current)
    BY <1>0, <2>2, <2>5, <2>6, SleepInOrder
  <2>8. InOrder(tm, x, t, Current) BY <2>5, InOrderSame
  <2> QED BY <2>7, <2>8, InOrderTwice
<1>10. ASSUME NEW u \in TaskId, JoinSubtask(u) PROVE InOrder(tm, tm', t, Current)
  <2>1. tm' = TakeExitCode(tm, subtask[u]) BY <1>10 DEF JoinSubtask
  <2>2. tm'.running = tm.running BY <1>0, <2>1 DEF TakeExitCode, Manager
  <2> QED BY <2>2, InOrderSame
<1> QED BY <1>1, <1>2, <1>3, <1>4, <1>5, <1>6, <1>7, <1>8, <1>9, <1>10 DEF Next

(* Round robin inside a level: while a task waits in the queue of its      *)
(* level, nobody gets in front of it but the task that executes, which     *)
(* may move to that level; the woken, the sent to, and the rotated go to   *)
(* the back.                                                               *)
THEOREM NobodyIsOvertaken == Spec => NoOvertaking
<1>1. IInv /\ IInv' /\ [Next]_vars => [OvertakesNobody]_vars
  <2> SUFFICES ASSUME IInv, IInv', Next PROVE OvertakesNobody
    OBVIOUS
  <2> SUFFICES ASSUME NEW t \in tm.tasks \cap tm'.tasks, tm.is_running[t],
                      tm.level[t] = tm'.level[t], t # Current,
                      NEW u \in Ahead(tm', t)
               PROVE  u \in Ahead(tm, t) \cup {Current}
    BY DEF OvertakesNobody
  <2>1. /\ tm \in Manager /\ tm' \in Manager /\ t \in TaskId
        /\ tm.level[t] \in Level
    BY DEF IInv, ManagerInv, Manager
  <2>2. PICK n : n = tm' OBVIOUS
  <2>3. Before(n.running[n.level[t]], u, t)
    <3>1. n \in Manager /\ u \in Ahead(n, t) BY <2>1, <2>2
    <3> QED BY <2>1, <3>1, AheadIsBefore
  <2>4. InOrder(tm, n, t, Current) BY <2>2, NextInOrder
  <2>5. Orderly(tm.running[tm.level[t]], n.running[tm.level[t]], t, Current)
    BY <2>1, <2>4 DEF InOrder
  <2>6. u \in TaskId
    <3>1. n.running[n.level[t]] \in Seq(TaskId) BY <2>1, <2>2 DEF Manager
    <3> QED BY <2>3, <3>1, ElementOfSeq, LenProperties DEF Before
  <2>7. Before(tm.running[tm.level[t]], u, t) \/ u = Current
    BY <2>2, <2>3, <2>5, <2>6 DEF Orderly
  <2> QED BY <2>1, <2>7, AheadIsBefore
<1> QED BY <1>1, Inductive, PTL DEF Spec, NoOvertaking
-----------------------------------------------------------------------------
(* Pipe.                                                                   *)

Closed == writer.pc \in {"wait", "asleep", "done"}

WriterInv ==
  /\ writer \in [pc : {"start", "run", "write", "wait", "asleep", "done", "undefined"},
                 sent : 0 .. MaxBytes, end : 0 .. MaxBytes]
  /\ writer.pc = "write" => writer.sent <= writer.end

ReaderInv ==
  /\ fd \in [from : 0 .. MaxBytes, to : 0 .. MaxBytes, closed : BOOLEAN]
  /\ fd.from <= fd.to /\ fd.to <= writer.sent
  /\ reader \in [pc : {"run", "read", "asleep", "done"}, len : Nat,
                 got : [from : 0 .. MaxBytes, to : 0 .. MaxBytes], eof : BOOLEAN]
  /\ reader.got.to <= writer.sent
  /\ Size(fd) > 0 => fd.from = reader.got.to
  /\ reader.pc \in {"read", "asleep"} =>
       reader.len \in ReadLens /\ Size(fd) = 0 /\ ~reader.eof
  /\ fd.closed <=> reader.eof
  /\ reader.eof => Closed /\ Size(fd) = 0

(* Of the messages of the reader, when the stream is at `from` for the     *)
(* reader and at `to` for the writer.                                      *)
QueueOK(q, from, to, closed) ==
  /\ q \in Seq(Messages)
  /\ Continue(q, from, to)
  /\ \A i \in Chunks(q) : q[i].from <= q[i].to /\ q[i].to <= to
  /\ \A i \in Chunks(q) : q[i].from = q[i].to => closed /\ \A j \in Chunks(q) : j <= i

(* When the reader has finished its queue has gone with it.                *)
QueueInv == reader.pc # "done" =>
  /\ QueueOK(tm.msgs[Reader], Received, writer.sent, Closed)
  /\ reader.eof => Chunks(tm.msgs[Reader]) = {}

TasksInv ==
  /\ Writer \in tm.tasks
  /\ writer.pc = "start" => tm.latest_id = Writer /\ reader.pc # "done"
  /\ writer.pc # "start" => (Reader \in tm.tasks <=> reader.pc # "done")
  /\ tm.finish_waiter[Reader] \in {NoTask, Writer}

PipeInv == ManagerInv(tm) /\ WriterInv /\ ReaderInv /\ QueueInv /\ TasksInv
-----------------------------------------------------------------------------
(* The queue.                                                              *)

LEMMA MessageIs ==
  ASSUME NEW m \in Messages
  PROVE  \/ m.type = "kPipe" /\ m.from \in 0 .. MaxBytes /\ m.to \in 0 .. MaxBytes
         \/ m.type = "kKeyPush"
BY DEF Messages, Key

LEMMA KeySent ==
  ASSUME NEW q, NEW from, NEW to, NEW closed, QueueOK(q, from, to, closed)
  PROVE  QueueOK(Append(q, Key), from, to, closed) /\ Chunks(Append(q, Key)) = Chunks(q)
<1> DEFINE r == Append(q, Key)
<1>1. q \in Seq(Messages) /\ Len(q) \in Nat /\ Key \in Messages
  BY DEF QueueOK, Messages
<1>2. /\ r \in Seq(Messages) /\ DOMAIN r = 1 .. Len(q) + 1 /\ DOMAIN q = 1 .. Len(q)
      /\ \A i \in 1 .. Len(q) : r[i] = q[i]
      /\ r[Len(q) + 1].type = "kKeyPush"
  BY <1>1 DEF Key
<1> HIDE DEF r
<1>3. Chunks(r) = Chunks(q)
  BY <1>1, <1>2 DEF Chunks
<1>4. \A i \in Chunks(q) : r[i] = q[i]
  BY <1>2 DEF Chunks
<1>5. QueueOK(r, from, to, closed)
  BY <1>2, <1>3, <1>4 DEF QueueOK, Continue
<1> QED
  BY <1>3, <1>5 DEF r

(* A chunk is sent while the stream is not closed, the end as well.        *)
LEMMA ChunkSent ==
  ASSUME NEW q, NEW from \in Nat, NEW at \in 0 .. MaxBytes, QueueOK(q, from, at, FALSE),
         NEW to \in 0 .. MaxBytes, at <= to, NEW closed, at = to => closed
  PROVE  QueueOK(Append(q, Chunk(at, to)), from, to, closed)
<1> DEFINE c == Chunk(at, to)
           r == Append(q, c)
           n == Len(q) + 1
<1>1. q \in Seq(Messages) /\ Len(q) \in Nat
  BY DEF QueueOK
<1>2. c \in Messages /\ c.type = "kPipe" /\ c.from = at /\ c.to = to
  BY DEF Chunk, Messages
<1> HIDE DEF c
<1>3. /\ r \in Seq(Messages) /\ DOMAIN r = 1 .. n /\ DOMAIN q = 1 .. Len(q)
      /\ \A i \in 1 .. Len(q) : r[i] = q[i]
      /\ r[n] = c /\ n \in Nat
  BY <1>1, <1>2
<1> HIDE DEF r
<1>4. /\ Chunks(r) = Chunks(q) \cup {n}
      /\ \A i \in Chunks(q) : r[i] = q[i] /\ i \in Nat /\ i < n
  BY <1>1, <1>2, <1>3 DEF Chunks
<1> HIDE DEF n
<1>5. ASSUME NEW i \in Chunks(q)
      PROVE  /\ q[i].from \in Nat /\ q[i].to \in Nat /\ q[i].from < q[i].to /\ q[i].to <= to
  <2>1. q[i] \in Messages /\ q[i].type = "kPipe"
    BY <1>1 DEF Chunks
  <2>2. q[i].from \in Nat /\ q[i].to \in Nat
    BY <2>1, MessageIs
  <2>3. q[i].from <= q[i].to /\ q[i].to <= at /\ q[i].from # q[i].to
    BY DEF QueueOK
  <2> QED
    BY <2>2, <2>3
<1>6. Continue(r, from, to)
  <2>1. ASSUME NEW i \in Chunks(r), \A j \in Chunks(r) : i <= j
        PROVE  r[i].from = from
    <3>1. CASE i \in Chunks(q)
      BY <3>1, <2>1, <1>4 DEF QueueOK, Continue
    <3>2. CASE i = n
      <4>1. ASSUME NEW j \in Chunks(q)
            PROVE  FALSE
        <5>1. n <= j /\ j < n /\ j \in Nat /\ n \in Nat
          BY <2>1, <3>2, <1>3, <1>4
        <5> QED
          BY <5>1
      <4> QED
        BY <3>2, <4>1, <1>2, <1>3 DEF QueueOK, Continue
    <3> QED
      BY <3>1, <3>2, <1>4
  <2>2. ASSUME NEW i \in Chunks(r), \A j \in Chunks(r) : j <= i
        PROVE  r[i].to = to
    BY <2>2, <1>2, <1>3, <1>4
  <2>3. ASSUME NEW i \in Chunks(r), NEW j \in Chunks(r), i < j,
               \A k \in Chunks(r) : k <= i \/ j <= k
        PROVE  r[i].to = r[j].from
    <3>1. i \in Chunks(q) /\ r[i] = q[i]
      BY <2>3, <1>3, <1>4
    <3>2. CASE j \in Chunks(q)
      BY <3>1, <3>2, <2>3, <1>4 DEF QueueOK, Continue
    <3>3. CASE j = n
      <4>1. \A k \in Chunks(q) : k <= i
        BY <2>3, <3>3, <1>3, <1>4
      <4>2. q[i].to = at
        BY <3>1, <4>1 DEF QueueOK, Continue
      <4> QED
        BY <3>1, <3>3, <4>2, <1>2, <1>3
    <3> QED
      BY <3>2, <3>3, <1>4
  <2>4. Chunks(r) # {}
    BY <1>4
  <2> QED
    BY <2>1, <2>2, <2>3, <2>4 DEF Continue
<1>7. \A i \in Chunks(r) : r[i].from <= r[i].to /\ r[i].to <= to
  BY <1>2, <1>3, <1>4, <1>5
<1>8. \A i \in Chunks(r) : r[i].from = r[i].to => closed /\ \A j \in Chunks(r) : j <= i
  BY <1>2, <1>3, <1>4, <1>5
<1>9. QueueOK(r, from, to, closed)
  BY <1>3, <1>6, <1>7, <1>8 DEF QueueOK
<1> QED
  BY <1>9 DEF r, c

(* The first message is taken.                                             *)
LEMMA Taken ==
  ASSUME NEW q, NEW from \in Nat, NEW to \in Nat, NEW closed, QueueOK(q, from, to, closed),
         q # <<>>
  PROVE  /\ Head(q) \in Messages
         /\ Head(q).type # "kPipe" => QueueOK(Tail(q), from, to, closed)
         /\ Head(q).type = "kPipe" =>
              /\ Head(q).from = from /\ from <= Head(q).to /\ Head(q).to <= to
              /\ Head(q).to \in 0 .. MaxBytes
              /\ QueueOK(Tail(q), Head(q).to, to, closed)
              /\ Head(q).to = from => closed /\ Chunks(Tail(q)) = {}
<1> DEFINE r == Tail(q)
           h == Head(q)
<1>1. q \in Seq(Messages) /\ Len(q) \in Nat /\ Len(q) >= 1
  BY DEF QueueOK
<1>2. /\ r \in Seq(Messages) /\ DOMAIN r = 1 .. Len(q) - 1 /\ DOMAIN q = 1 .. Len(q)
      /\ \A i \in 1 .. Len(q) - 1 : r[i] = q[i + 1]
      /\ h = q[1] /\ h \in Messages
  BY <1>1
<1> HIDE DEF r, h
<1>3. /\ \A i \in Chunks(r) : i \in Nat /\ i >= 1 /\ i + 1 \in Chunks(q) /\ r[i] = q[i + 1]
      /\ \A i \in Chunks(q) : i \in Nat /\ (i = 1 \/ i - 1 \in Chunks(r))
      /\ 1 \in Chunks(q) <=> h.type = "kPipe"
  <2>1. \A i \in Chunks(r) : i \in Nat /\ i >= 1 /\ i + 1 \in Chunks(q) /\ r[i] = q[i + 1]
    BY <1>1, <1>2 DEF Chunks
  <2>2. ASSUME NEW i \in Chunks(q), i # 1
        PROVE  i - 1 \in Chunks(r)
    <3>1. i \in 1 .. Len(q) /\ q[i].type = "kPipe"
      BY <1>2 DEF Chunks
    <3>2. i - 1 \in 1 .. Len(q) - 1 /\ r[i - 1] = q[(i - 1) + 1] /\ (i - 1) + 1 = i
      BY <2>2, <3>1, <1>1, <1>2
    <3> QED
      BY <3>1, <3>2, <1>2 DEF Chunks
  <2>3. 1 \in Chunks(q) <=> h.type = "kPipe"
    BY <1>1, <1>2 DEF Chunks
  <2>4. \A i \in Chunks(q) : i \in Nat
    BY <1>1, <1>2 DEF Chunks
  <2> QED
    BY <2>1, <2>2, <2>3, <2>4
<1>4. \A i \in Chunks(r) : r[i].from <= r[i].to /\ r[i].to <= to
  BY <1>3 DEF QueueOK
<1>5. ASSUME NEW i \in Chunks(r), r[i].from = r[i].to
      PROVE  closed /\ \A j \in Chunks(r) : j <= i
  <2>1. i + 1 \in Chunks(q) /\ q[i + 1].from = q[i + 1].to
    BY <1>3, <1>5
  <2>2. closed /\ \A j \in Chunks(q) : j <= i + 1
    BY <2>1 DEF QueueOK
  <2> QED
    BY <2>2, <1>3
<1>6. ASSUME NEW i \in Chunks(r), \A j \in Chunks(r) : j <= i
      PROVE  r[i].to = to
  <2>1. i + 1 \in Chunks(q) /\ \A j \in Chunks(q) : j <= i + 1
    BY <1>3, <1>6
  <2>2. q[i + 1].to = to
    BY <2>1 DEF QueueOK, Continue
  <2> QED
    BY <2>2, <1>3
<1>7. ASSUME NEW i \in Chunks(r), NEW j \in Chunks(r), i < j,
             \A k \in Chunks(r) : k <= i \/ j <= k
      PROVE  r[i].to = r[j].from
  <2>1. /\ i + 1 \in Chunks(q) /\ j + 1 \in Chunks(q) /\ i + 1 < j + 1
        /\ \A k \in Chunks(q) : k <= i + 1 \/ j + 1 <= k
    <3>1. i + 1 \in Chunks(q) /\ j + 1 \in Chunks(q) /\ i \in Nat /\ i >= 1 /\ j \in Nat
      BY <1>3
    <3>2. ASSUME NEW k \in Chunks(q)
          PROVE  k <= i + 1 \/ j + 1 <= k
      <4>1. k \in Nat /\ (k = 1 \/ k - 1 <= i \/ j <= k - 1)
        BY <1>3, <1>7
      <4> QED
        BY <3>1, <4>1
    <3> QED
      BY <1>7, <3>1, <3>2
  <2>2. q[i + 1].to = q[j + 1].from
    BY <2>1 DEF QueueOK, Continue
  <2> QED
    BY <2>2, <1>3
<1>8. CASE h.type # "kPipe"
  <2>1. ASSUME NEW i \in Chunks(r), \A j \in Chunks(r) : i <= j
        PROVE  r[i].from = from
    <3>1. i + 1 \in Chunks(q) /\ \A j \in Chunks(q) : i + 1 <= j
      BY <1>3, <1>8, <2>1
    <3>2. q[i + 1].from = from
      BY <3>1 DEF QueueOK, Continue
    <3> QED
      BY <3>2, <1>3
  <2>2. ASSUME Chunks(r) = {}
        PROVE  from = to
    <3>1. Chunks(q) = {}
      BY <1>3, <1>8, <2>2
    <3> QED
      BY <3>1 DEF QueueOK, Continue
  <2>3. QueueOK(r, from, to, closed)
    BY <1>2, <1>4, <1>5, <1>6, <1>7, <2>1, <2>2 DEF QueueOK, Continue
  <2> QED
    BY <1>2, <1>8, <2>3 DEF r, h
<1>9. CASE h.type = "kPipe"
  <2>1. 1 \in Chunks(q) /\ \A j \in Chunks(q) : 1 <= j
    BY <1>3, <1>9
  <2>2. h.from = from /\ h.from <= h.to /\ h.to <= to /\ h.to \in 0 .. MaxBytes
    <3>1. q[1].from = from /\ q[1].from <= q[1].to /\ q[1].to <= to
      BY <2>1 DEF QueueOK, Continue
    <3> QED
      BY <3>1, <1>2, <1>9, MessageIs
  <2>3. ASSUME NEW i \in Chunks(r), \A j \in Chunks(r) : i <= j
        PROVE  r[i].from = h.to
    <3>1. i + 1 \in Chunks(q) /\ 1 < i + 1 /\ \A k \in Chunks(q) : k <= 1 \/ i + 1 <= k
      BY <1>3, <2>3
    <3>2. q[1].to = q[i + 1].from
      BY <2>1, <3>1 DEF QueueOK, Continue
    <3> QED
      BY <3>2, <1>2, <1>3
  <2>4. ASSUME Chunks(r) = {}
        PROVE  h.to = to
    <3>1. \A j \in Chunks(q) : j <= 1
      BY <1>3, <2>4
    <3> QED
      BY <2>1, <3>1, <1>2 DEF QueueOK, Continue
  <2>5. QueueOK(r, h.to, to, closed)
    BY <1>2, <1>4, <1>5, <1>6, <1>7, <2>3, <2>4 DEF QueueOK, Continue
  <2>6. ASSUME h.to = from
        PROVE  closed /\ Chunks(r) = {}
    <3>1. closed /\ \A j \in Chunks(q) : j <= 1
      BY <2>1, <2>2, <2>6, <1>2 DEF QueueOK
    <3> QED
      BY <3>1, <1>3
  <2> QED
    BY <1>2, <1>9, <2>2, <2>5, <2>6 DEF r, h
<1> QED
  BY <1>8, <1>9
-----------------------------------------------------------------------------
(* One lemma per action, each of them saying also which step of the stream *)
(* it is.                                                                  *)

(* What all of them need.                                                  *)
LEMMA Ids ==
  ASSUME PipeInv
  PROVE  /\ Writer \in TaskId /\ Reader \in TaskId
         /\ Writer # Reader /\ Writer # IdleId /\ Reader # IdleId
         /\ Writer # NoTask /\ Reader # NoTask
         /\ Current = Writer => ~(Current = Reader)
         /\ Current \in tm.tasks
         /\ writer.pc = "start" => Reader \notin tm.tasks
         /\ Reader \in tm.tasks => reader.pc # "done"
         /\ tm.msgs \in [TaskId -> Seq(Message)]
         /\ tm.latest_id \in Nat /\ tm.tasks \in SUBSET TaskId
         /\ ChunkSize \in Nat \ {0} /\ MaxBytes \in Nat
<1>1. Writer = 3 /\ Reader = 4 /\ IdleId = 2 /\ NoTask = 0 /\ 3 \in TaskId /\ 4 \in TaskId
  BY PipeAssumption, MaxIdAssumption DEF Writer, Reader, IdleId, NoTask, TaskId
<1>2. /\ tm.latest_id \in Nat /\ tm.tasks \in SUBSET TaskId
      /\ tm.msgs \in [TaskId -> Seq(Message)] /\ \A t \in tm.tasks : t <= tm.latest_id
  BY FieldTypes DEF PipeInv
<1>3. Current \in tm.tasks
  BY CurrentTaskProperties DEF PipeInv, Current
<1>4. writer.pc = "start" => Reader \notin tm.tasks
  BY <1>1, <1>2 DEF PipeInv, TasksInv
<1>5. Reader \in tm.tasks => reader.pc # "done"
  BY <1>4 DEF PipeInv, TasksInv
<1> QED
  BY <1>1, <1>2, <1>3, <1>4, <1>5, PipeAssumption

(* A step that leaves the queue of the reader and the tasks alone.         *)
LEMMA SameQueue ==
  ASSUME PipeInv, ManagerInv(tm'), tm'.tasks = tm.tasks, tm'.latest_id = tm.latest_id,
         tm'.msgs[Reader] = tm.msgs[Reader],
         tm'.finish_waiter[Reader] \in {NoTask, Writer},
         WriterInv', ReaderInv', Received' = Received, writer'.sent = writer.sent,
         Closed' = Closed, reader'.eof = reader.eof,
         writer'.pc = "start" <=> writer.pc = "start",
         reader'.pc = "done" <=> reader.pc = "done"
  PROVE  PipeInv'
<1>1. QueueInv'
  BY DEF QueueInv, PipeInv
<1>2. TasksInv'
  BY DEF TasksInv, PipeInv
<1> QED
  BY <1>1, <1>2 DEF PipeInv

LEMMA Woken ==
  ASSUME NEW m, ManagerInv(m), NEW t \in m.tasks, t # IdleId,
         NEW r, r = Wakeup(m, t, -1)
  PROVE  /\ ManagerInv(r) /\ r.latest_id = m.latest_id /\ r.tasks = m.tasks
         /\ r.msgs = m.msgs /\ r.finish_waiter = m.finish_waiter
<1>1. PICK lv \in -1 .. kMaxLevel : lv = -1
  BY DEF kMaxLevel
<1>2. r = Wakeup(m, t, lv)
  BY <1>1
<1>3. /\ ManagerInv(r)
      /\ r.latest_id = m.latest_id /\ r.tasks = m.tasks /\ r.msgs = m.msgs
      /\ r.is_running = [m.is_running EXCEPT ![t] = TRUE]
      /\ r.finish_tasks = m.finish_tasks /\ r.finish_waiter = m.finish_waiter
  BY <1>2, WakeupKeeps
<1> QED
  BY <1>3

LEMMA InitOK == PipeInit => PipeInv /\ Stream!Init
<1> SUFFICES ASSUME PipeInit PROVE PipeInv /\ Stream!Init
  OBVIOUS
<1>a. PICK a : a = NewTask(InitialManager)
  OBVIOUS
<1>b. PICK b : b = Wakeup(a, Writer, -1)
  OBVIOUS
<1>1. /\ 3 \in TaskId /\ 4 \in TaskId /\ Writer = 3 /\ Reader = 4 /\ IdleId = 2 /\ MainId = 1
      /\ MainId \in TaskId /\ NoTask = 0 /\ MaxId > 2 /\ MaxBytes \in Nat
  BY PipeAssumption, MaxIdAssumption DEF Writer, Reader, IdleId, MainId, TaskId, NoTask
<1>2. /\ InitialManager.latest_id = 2 /\ InitialManager.tasks = {1, 2}
      /\ InitialManager.msgs[4] = <<>> /\ InitialManager.finish_waiter[4] = NoTask
  BY <1>1 DEF InitialManager, IdleId, MainId
<1>3. /\ ManagerInv(a) /\ a.latest_id = 3 /\ a.tasks = {1, 2, 3}
      /\ a.msgs = InitialManager.msgs /\ a.finish_waiter = InitialManager.finish_waiter
  <2>1. InitialManager.latest_id < MaxId /\ InitialManager.latest_id + 1 = 3
    BY <1>1, <1>2
  <2>2. /\ ManagerInv(a) /\ a.latest_id = InitialManager.latest_id + 1
        /\ a.tasks = InitialManager.tasks \cup {InitialManager.latest_id + 1}
        /\ a.msgs = InitialManager.msgs /\ a.finish_waiter = InitialManager.finish_waiter
    BY <1>a, <2>1, InitialManagerInv, NewTaskKeeps
  <2> QED
    BY <1>2, <2>1, <2>2
<1>4. /\ ManagerInv(b) /\ b.latest_id = 3 /\ b.tasks = {1, 2, 3}
      /\ b.msgs = a.msgs /\ b.finish_waiter = a.finish_waiter
  <2>1. Writer \in a.tasks /\ Writer # IdleId /\ -1 \in -1 .. kMaxLevel
    BY <1>1, <1>3 DEF kMaxLevel
  <2>2. /\ ManagerInv(b) /\ b.latest_id = a.latest_id /\ b.tasks = a.tasks
        /\ b.msgs = a.msgs /\ b.finish_waiter = a.finish_waiter
    BY <1>b, <1>3, <2>1, Woken
  <2> QED
    BY <1>3, <2>2
<1>5. /\ ManagerInv(tm) /\ tm.latest_id = 3 /\ tm.tasks = {1, 2, 3}
      /\ tm.msgs = a.msgs /\ tm.finish_waiter = a.finish_waiter
      /\ tm.msgs = a.msgs /\ tm.finish_waiter = a.finish_waiter
  <2>1. tm = Sleep(b, MainId)
    BY <1>a, <1>b DEF PipeInit
  <2>2. MainId \in TaskId /\ MainId # IdleId
    BY <1>1
  <2> QED
    BY <1>4, <2>1, <2>2, SleepKeeps
<1>6. /\ writer = [pc |-> "start", sent |-> 0, end |-> 0]
      /\ fd = [from |-> 0, to |-> 0, closed |-> FALSE]
      /\ reader = [pc |-> "run", len |-> 0, got |-> [from |-> 0, to |-> 0], eof |-> FALSE]
  BY DEF PipeInit
<1>7. WriterInv
  BY <1>1, <1>6 DEF WriterInv
<1>8. ReaderInv /\ Received = 0 /\ ~Closed /\ ~reader.eof
  BY <1>1, <1>6 DEF ReaderInv, Received, Size, Closed
<1>9. QueueInv
  <2>1. tm.msgs[Reader] = <<>>
    BY <1>1, <1>2, <1>3, <1>5
  <2>2. Chunks(<<>>) = {} /\ <<>> \in Seq(Messages)
    BY DEF Chunks
  <2> QED
    BY <1>6, <1>8, <2>1, <2>2 DEF QueueInv, QueueOK, Continue
<1>10. TasksInv
  BY <1>1, <1>2, <1>3, <1>5, <1>6 DEF TasksInv
<1>11. Stream!Init
  BY <1>6 DEF Stream!Init
<1> QED
  BY <1>5, <1>7, <1>8, <1>9, <1>10, <1>11 DEF PipeInv

LEMMA CreateReaderOK ==
  ASSUME PipeInv, CreateReader
  PROVE  PipeInv' /\ UNCHANGED Stream!vars
<1>1. /\ writer.pc = "start" /\ tm' = Wakeup(NewTask(tm), Reader, -1)
      /\ writer' = [writer EXCEPT !.pc = "run"] /\ UNCHANGED <<fd, reader>>
  BY DEF CreateReader
<1>2. PICK m : m = NewTask(tm)
  OBVIOUS
<1>3. tm.latest_id = Writer /\ Writer = 3 /\ Reader = 4 /\ tm.latest_id < MaxId /\ IdleId = 2
      /\ tm.latest_id + 1 = Reader
  BY <1>1, PipeAssumption, MaxIdAssumption DEF PipeInv, TasksInv, Writer, Reader, IdleId
<1>4. /\ ManagerInv(m) /\ m.tasks = tm.tasks \cup {Reader} /\ m.latest_id = Reader
      /\ m.msgs = tm.msgs /\ m.finish_waiter = tm.finish_waiter
  <2>1. /\ ManagerInv(m) /\ m.latest_id = tm.latest_id + 1
        /\ m.tasks = tm.tasks \cup {tm.latest_id + 1}
        /\ m.msgs = tm.msgs /\ m.finish_waiter = tm.finish_waiter
    BY <1>2, <1>3, NewTaskKeeps DEF PipeInv
  <2> QED
    BY <1>3, <2>1
<1>5. /\ ManagerInv(tm') /\ tm'.tasks = tm.tasks \cup {Reader} /\ tm'.latest_id = Reader
      /\ tm'.msgs = tm.msgs /\ tm'.finish_waiter = tm.finish_waiter
  <2>1. Reader \in m.tasks /\ Reader # IdleId /\ tm' = Wakeup(m, Reader, -1)
    BY <1>1, <1>2, <1>3, <1>4
  <2> QED
    BY <1>4, <2>1, Woken
<1>6. /\ WriterInv' /\ writer'.pc = "run" /\ writer'.sent = writer.sent
      /\ writer.pc \notin {"wait", "asleep", "done"}
  BY <1>1 DEF PipeInv, WriterInv
<1>7. ReaderInv' /\ QueueInv' /\ Closed' = Closed /\ UNCHANGED Stream!vars
  <2>1. Closed' = Closed /\ Received' = Received
    BY <1>1, <1>6 DEF Closed, Received
  <2>2. ReaderInv'
    BY <1>1, <1>6, <2>1 DEF ReaderInv, PipeInv
  <2>3. QueueInv'
    BY <1>1, <1>5, <1>6, <2>1 DEF QueueInv, PipeInv
  <2> QED
    BY <1>1, <1>6, <2>1, <2>2, <2>3 DEF Stream!vars, Closed
<1>8. TasksInv'
  BY <1>1, <1>5, <1>6 DEF PipeInv, TasksInv
<1> QED
  BY <1>5, <1>6, <1>7, <1>8 DEF PipeInv

LEMMA WriteOK ==
  ASSUME PipeInv, NEW len \in 0 .. MaxBytes, Write(len)
  PROVE  PipeInv' /\ UNCHANGED Stream!vars
<1>1. /\ writer.pc = "run" /\ writer.sent + len <= MaxBytes /\ UNCHANGED <<tm, fd, reader>>
      /\ writer' = [writer EXCEPT !.pc = "write", !.end = writer.sent + len]
  BY DEF Write
<1>2. /\ WriterInv' /\ writer'.pc = "write" /\ writer'.sent = writer.sent
      /\ writer.pc \notin {"wait", "asleep", "done"}
  <2>1. writer.sent \in Nat /\ writer.sent <= MaxBytes /\ MaxBytes \in Nat /\ len \in Nat
    BY Ids DEF PipeInv, WriterInv
  <2>2. PICK n \in 0 .. MaxBytes : n = writer.sent + len /\ writer.sent <= n
    BY <1>1, <2>1
  <2> QED
    BY <1>1, <2>2 DEF PipeInv, WriterInv
<1>3. Closed' = Closed /\ Received' = Received
  BY <1>1, <1>2 DEF Closed, Received
<1>4. ReaderInv'
  BY <1>1, <1>2, <1>3 DEF ReaderInv, PipeInv
<1>5. PipeInv'
  BY <1>1, <1>2, <1>3, <1>4, SameQueue DEF PipeInv, TasksInv
<1> QED
  BY <1>1, <1>2, <1>3, <1>5 DEF Stream!vars, Closed

(* What a chunk or a key sent to the reader leaves as it is.               *)
LEMMA SentToReader ==
  ASSUME PipeInv, Reader \in tm.tasks, NEW msg \in Messages, tm' = SendMessage(tm, Reader, msg)
  PROVE  /\ ManagerInv(tm') /\ tm'.tasks = tm.tasks /\ tm'.latest_id = tm.latest_id
         /\ tm'.msgs[Reader] = Append(tm.msgs[Reader], msg)
         /\ tm'.finish_waiter = tm.finish_waiter
<1>1. msg \in Message /\ Reader # IdleId
  BY Ids, PipeAssumption
<1>2. PICK r : r = SendMessage(tm, Reader, msg)
  OBVIOUS
<1>3. /\ ManagerInv(r)
      /\ r.latest_id = tm.latest_id /\ r.tasks = tm.tasks
      /\ r.msgs = [tm.msgs EXCEPT ![Reader] = Append(@, msg)]
      /\ r.is_running = [tm.is_running EXCEPT ![Reader] = TRUE]
      /\ r.finish_tasks = tm.finish_tasks /\ r.finish_waiter = tm.finish_waiter
  BY <1>1, <1>2, SendMessageKeeps DEF PipeInv
<1> QED
  BY <1>2, <1>3, Ids

(* What the loop of Write and FinishWrite send while the reader's task     *)
(* exists continues the stream.                                            *)
LEMMA SendingOK ==
  ASSUME PipeInv, writer.pc \in {"run", "write"}, NEW to \in 0 .. MaxBytes, writer.sent <= to,
         tm' = SendMessage(tm, Reader, Chunk(writer.sent, to)),
         WriterInv', writer'.sent = to, writer'.pc # "start",
         UNCHANGED <<fd, reader>>,
         writer.sent = to => Closed'
  PROVE  PipeInv'
<1>1. ~Closed /\ ~reader.eof
  BY DEF Closed, PipeInv, ReaderInv
<1>2. Chunk(writer.sent, to) \in Messages /\ writer.sent \in 0 .. MaxBytes
  BY DEF Chunk, Messages, PipeInv, WriterInv
<1>3. Received' = Received /\ Received \in Nat
  BY DEF Received, PipeInv, ReaderInv
<1>4. ReaderInv'
  <2>1. to \in Nat /\ fd.to \in Nat /\ reader.got.to \in Nat /\ writer.sent \in Nat
    BY <1>2 DEF PipeInv, ReaderInv
  <2> QED
    BY <1>1, <2>1 DEF PipeInv, ReaderInv
<1>5. CASE Reader \in tm.tasks
  <2>1. /\ ManagerInv(tm') /\ tm'.tasks = tm.tasks /\ tm'.latest_id = tm.latest_id
        /\ tm'.msgs[Reader] = Append(tm.msgs[Reader], Chunk(writer.sent, to))
        /\ tm'.finish_waiter = tm.finish_waiter
    BY <1>2, <1>5, SentToReader
  <2>2. QueueOK(tm.msgs[Reader], Received, writer.sent, FALSE)
    <3>1. Closed = FALSE
      BY <1>1 DEF Closed
    <3> QED
      BY <1>5, <3>1, Ids DEF PipeInv, QueueInv
  <2>3. QueueOK(Append(tm.msgs[Reader], Chunk(writer.sent, to)), Received, to, Closed')
    BY <1>2, <1>3, <2>2, ChunkSent
  <2>4. QueueInv'
    BY <1>1, <1>3, <2>1, <2>3 DEF QueueInv
  <2>5. TasksInv'
    BY <2>1 DEF PipeInv, TasksInv
  <2> QED
    BY <1>4, <2>1, <2>4, <2>5 DEF PipeInv
<1>6. CASE Reader \notin tm.tasks
  <2>1. tm' = tm /\ reader.pc = "done" /\ writer.pc # "start"
    BY <1>6 DEF SendMessage, PipeInv, TasksInv
  <2>2. QueueInv' /\ TasksInv' /\ ManagerInv(tm')
    BY <2>1 DEF PipeInv, QueueInv, TasksInv
  <2> QED
    BY <1>4, <2>2 DEF PipeInv
<1> QED
  BY <1>5, <1>6

(* The message to a task that is gone, when it does anything at all.       *)
LEMMA UndefinedOK ==
  ASSUME PipeInv, writer.pc \in {"run", "write"}, Reader \notin tm.tasks,
         writer' = [writer EXCEPT !.pc = "undefined"], UNCHANGED <<tm, fd, reader>>
  PROVE  PipeInv' /\ UNCHANGED Stream!vars
<1>1. /\ WriterInv' /\ writer'.pc = "undefined" /\ writer'.sent = writer.sent
      /\ writer.pc \notin {"wait", "asleep", "done"}
  BY DEF PipeInv, WriterInv
<1>2. Closed' = Closed /\ Received' = Received
  BY <1>1 DEF Closed, Received
<1>3. ReaderInv'
  BY <1>1, <1>2 DEF ReaderInv, PipeInv
<1>4. PipeInv'
  BY <1>1, <1>2, <1>3, SameQueue DEF PipeInv, TasksInv
<1> QED
  BY <1>1, <1>4 DEF Stream!vars, Closed

LEMMA SendChunkOK ==
  ASSUME PipeInv, SendChunk
  PROVE  PipeInv' /\ [Stream!Next]_Stream!vars
<1>1. writer.pc = "write" /\ UNCHANGED <<fd, reader>>
  BY DEF SendChunk
<1>2. /\ writer.sent \in Nat /\ writer.end \in Nat /\ writer.sent <= writer.end
      /\ writer.end <= MaxBytes /\ MaxBytes \in Nat /\ ChunkSize \in Nat \ {0} /\ ~Closed
  BY <1>1, Ids DEF PipeInv, WriterInv, Closed
<1>3. CASE writer.sent < writer.end
  <2>1. PICK to : /\ to = writer.sent + SmallerOf(writer.end - writer.sent, ChunkSize)
                  /\ SendToReader(Chunk(writer.sent, to), [writer EXCEPT !.sent = to])
    BY <1>3 DEF SendChunk
  <2>2. to \in 0 .. MaxBytes /\ writer.sent < to /\ to <= writer.end
    BY <1>2, <1>3, <2>1 DEF SmallerOf
  <2>3. CASE /\ tm' = SendMessage(tm, Reader, Chunk(writer.sent, to))
             /\ writer' = [writer EXCEPT !.sent = to]
    <3>1. WriterInv' /\ writer'.sent = to /\ writer'.pc = "write"
      BY <1>1, <2>2, <2>3 DEF PipeInv, WriterInv
    <3>2. PipeInv'
      BY <1>1, <1>2, <2>2, <2>3, <3>1, SendingOK
    <3>3. ~Closed'
      BY <3>1 DEF Closed
    <3>4. Stream!Write
      BY <1>1, <1>2, <2>2, <3>1, <3>3 DEF Stream!Write, Closed
    <3> QED
      BY <3>2, <3>4 DEF Stream!Next
  <2>4. CASE /\ Reader \notin tm.tasks /\ UNCHANGED tm
             /\ writer' = [writer EXCEPT !.pc = "undefined"]
    BY <1>1, <2>4, UndefinedOK
  <2> QED
    BY <2>1, <2>3, <2>4 DEF SendToReader
<1>4. CASE ~(writer.sent < writer.end)
  <2>1. writer' = [writer EXCEPT !.pc = "run"] /\ UNCHANGED tm
    BY <1>4 DEF SendChunk
  <2>2. WriterInv' /\ writer'.pc = "run" /\ writer'.sent = writer.sent
    BY <2>1 DEF PipeInv, WriterInv
  <2>3. Closed' = Closed /\ Received' = Received
    BY <1>1, <1>2, <2>2 DEF Closed, Received
  <2>4. ReaderInv'
    BY <1>1, <2>2, <2>3 DEF ReaderInv, PipeInv
  <2>5. PipeInv'
    BY <1>1, <2>1, <2>2, <2>3, <2>4, SameQueue DEF PipeInv, TasksInv
  <2> QED
    BY <1>1, <2>2, <2>3, <2>5 DEF Stream!vars, Closed
<1> QED
  BY <1>3, <1>4

LEMMA FinishWriteOK ==
  ASSUME PipeInv, FinishWrite
  PROVE  PipeInv' /\ [Stream!Next]_Stream!vars
<1>1. /\ writer.pc = "run" /\ UNCHANGED <<fd, reader>>
      /\ SendToReader(Chunk(writer.sent, writer.sent), [writer EXCEPT !.pc = "wait"])
  BY DEF FinishWrite
<1>2. CASE /\ tm' = SendMessage(tm, Reader, Chunk(writer.sent, writer.sent))
           /\ writer' = [writer EXCEPT !.pc = "wait"]
  <2>1. /\ WriterInv' /\ writer'.sent = writer.sent /\ writer'.pc = "wait"
        /\ writer.sent \in 0 .. MaxBytes /\ writer.sent <= writer.sent
    BY <1>1, <1>2, Ids DEF PipeInv, WriterInv
  <2>2. Closed'
    BY <2>1 DEF Closed
  <2>3. PipeInv'
    BY <1>1, <1>2, <2>1, <2>2, SendingOK
  <2>4. Stream!Close
    BY <1>1, <1>2, <2>1, <2>2 DEF Stream!Close, Closed
  <2> QED
    BY <2>3, <2>4 DEF Stream!Next
<1>3. CASE /\ Reader \notin tm.tasks /\ UNCHANGED tm
           /\ writer' = [writer EXCEPT !.pc = "undefined"]
  BY <1>1, <1>3, UndefinedOK
<1> QED
  BY <1>1, <1>2, <1>3 DEF SendToReader

LEMMA WaitFinishOK ==
  ASSUME PipeInv, WaitFinish
  PROVE  PipeInv' /\ UNCHANGED Stream!vars
<1>1. Current = Writer /\ writer.pc \in {"wait", "asleep"} /\ UNCHANGED <<fd, reader>>
  BY DEF WaitFinish
<1>2. /\ ManagerInv(tm') /\ tm'.tasks = tm.tasks /\ tm'.latest_id = tm.latest_id
      /\ tm'.msgs = tm.msgs /\ tm'.finish_waiter[Reader] \in {NoTask, Writer}
      /\ \E pc \in {"asleep", "done"} : writer' = [writer EXCEPT !.pc = pc]
  <2>1. CASE tm.finish_tasks[Reader] = NoCode
    <3>1. tm' = AwaitFinish(tm, Reader) /\ writer' = [writer EXCEPT !.pc = "asleep"]
      BY <2>1 DEF WaitFinish
    <3>2. CurrentTask(tm) # IdleId /\ CurrentTask(tm) = Writer /\ Reader \in TaskId
      BY <1>1, Ids DEF Current
    <3>3. PICK t : t = CurrentTask(tm)
      OBVIOUS
    <3>4. PICK r : r = AwaitFinish(tm, Reader)
      OBVIOUS
    <3>5. /\ ManagerInv(r)
          /\ r.latest_id = tm.latest_id /\ r.tasks = tm.tasks /\ r.msgs = tm.msgs
          /\ r.is_running = [tm.is_running EXCEPT ![t] = FALSE]
          /\ r.finish_tasks = tm.finish_tasks
          /\ r.finish_waiter = [tm.finish_waiter EXCEPT ![Reader] = t]
      BY <3>2, <3>3, <3>4, AwaitFinishKeeps DEF PipeInv
    <3>6. tm.finish_waiter \in [TaskId -> TaskId \cup {NoTask}]
      BY FieldTypes DEF PipeInv
    <3> QED
      BY <3>1, <3>2, <3>3, <3>4, <3>5, <3>6
  <2>2. CASE tm.finish_tasks[Reader] # NoCode
    <3>1. tm' = TakeExitCode(tm, Reader) /\ writer' = [writer EXCEPT !.pc = "done"]
      BY <2>2 DEF WaitFinish
    <3>2. PICK r : r = TakeExitCode(tm, Reader)
      OBVIOUS
    <3>3. /\ ManagerInv(r)
          /\ r.latest_id = tm.latest_id /\ r.tasks = tm.tasks /\ r.msgs = tm.msgs
          /\ r.is_running = tm.is_running
          /\ r.finish_tasks = [tm.finish_tasks EXCEPT ![Reader] = NoCode]
          /\ r.finish_waiter = tm.finish_waiter
      <4>1. ManagerInv(tm) /\ Reader \in TaskId
        BY Ids DEF PipeInv
      <4> QED
        BY <3>2, <4>1, TakeExitCodeKeeps
    <3> QED
      BY <3>1, <3>2, <3>3 DEF PipeInv, TasksInv
  <2> QED
    BY <2>1, <2>2
<1>3. /\ WriterInv' /\ writer'.pc \in {"asleep", "done"} /\ writer'.sent = writer.sent
  BY <1>2 DEF PipeInv, WriterInv
<1>4. Closed' = Closed /\ Received' = Received
  BY <1>1, <1>3 DEF Closed, Received
<1>5. ReaderInv'
  BY <1>1, <1>3, <1>4 DEF ReaderInv, PipeInv
<1>6. PipeInv'
  <2>1. writer'.pc = "start" <=> writer.pc = "start"
    BY <1>1, <1>3
  <2> QED
    BY <1>1, <1>2, <1>3, <1>4, <1>5, <2>1, SameQueue
<1> QED
  BY <1>1, <1>3, <1>4, <1>6 DEF Stream!vars, Closed

(* A part of what comes next in the stream, but not nothing, is returned;  *)
(* the rest is kept.                                                       *)
LEMMA Delivered ==
  ASSUME PipeInv, NEW data, NEW len \in ReadLens, Deliver(data, len),
         data.from = reader.got.to, data.to \in 0 .. MaxBytes, data.from < data.to,
         data.to <= writer.sent, ~reader.eof, reader.pc # "done", writer' = writer
  PROVE  /\ ReaderInv' /\ Received' = data.to /\ reader'.pc = "run" /\ ~reader'.eof
         /\ Stream!Read
<1>1. /\ data.from \in Nat /\ data.to \in Nat /\ writer.sent \in Nat /\ len \in Nat /\ len > 0
      /\ data.to <= MaxBytes /\ MaxBytes \in Nat
  BY Ids, PipeAssumption DEF PipeInv, ReaderInv, WriterInv
<1>2. PICK mid : /\ mid = data.from + SmallerOf(Size(data), len)
                 /\ reader' = [reader EXCEPT !.pc = "run",
                                             !.got = [from |-> data.from, to |-> mid]]
                 /\ fd' = [fd EXCEPT !.from = mid, !.to = data.to]
  BY DEF Deliver
<1>3. mid \in Nat /\ data.from < mid /\ mid <= data.to
  BY <1>1, <1>2 DEF SmallerOf, Size
<1>4. /\ reader'.pc = "run" /\ reader'.got = [from |-> data.from, to |-> mid]
      /\ reader'.eof = FALSE /\ reader'.len = reader.len
      /\ fd'.from = mid /\ fd'.to = data.to /\ fd'.closed = fd.closed
      /\ fd' \in [from : 0 .. MaxBytes, to : 0 .. MaxBytes, closed : BOOLEAN]
      /\ reader' \in [pc : {"run", "read", "asleep", "done"}, len : Nat,
                      got : [from : 0 .. MaxBytes, to : 0 .. MaxBytes], eof : BOOLEAN]
  <2>1. mid \in 0 .. MaxBytes /\ data.from \in 0 .. MaxBytes /\ data.to \in 0 .. MaxBytes
    BY <1>1, <1>3
  <2>2. /\ fd'.from = mid /\ fd'.to = data.to /\ fd'.closed = fd.closed
        /\ fd' \in [from : 0 .. MaxBytes, to : 0 .. MaxBytes, closed : BOOLEAN]
    BY <1>2, <2>1 DEF PipeInv, ReaderInv
  <2>3. PICK got \in [from : 0 .. MaxBytes, to : 0 .. MaxBytes] :
          got = [from |-> data.from, to |-> mid]
    BY <2>1
  <2>4. reader' = [reader EXCEPT !.pc = "run", !.got = got]
    BY <1>2, <2>3
  <2>5. reader.eof = FALSE
    BY DEF PipeInv, ReaderInv
  <2>6. /\ reader'.pc = "run" /\ reader'.got = got /\ reader'.eof = FALSE
        /\ reader'.len = reader.len
        /\ reader' \in [pc : {"run", "read", "asleep", "done"}, len : Nat,
                        got : [from : 0 .. MaxBytes, to : 0 .. MaxBytes], eof : BOOLEAN]
    BY <2>4, <2>5 DEF PipeInv, ReaderInv
  <2> QED
    BY <2>2, <2>3, <2>6
<1>5. ReaderInv'
  BY <1>1, <1>3, <1>4 DEF PipeInv, ReaderInv, Size
<1>6. Received' = data.to
  BY <1>1, <1>3, <1>4 DEF Received, Size
<1>7. Stream!Read
  <2>1. mid \in reader.got.to + 1 .. writer.sent
    BY <1>1, <1>3
  <2>2. reader'.got = [from |-> reader.got.to, to |-> mid]
    BY <1>4
  <2>3. reader.eof = FALSE
    BY DEF PipeInv, ReaderInv
  <2> QED
    BY <2>1, <2>2, <2>3, <1>4 DEF Stream!Read
<1> QED
  BY <1>4, <1>5, <1>6, <1>7

LEMMA ReadOK ==
  ASSUME PipeInv, NEW len \in ReadLens, Read(len)
  PROVE  PipeInv' /\ [Stream!Next]_Stream!vars
<1>1. Current = Reader /\ reader.pc = "run" /\ UNCHANGED <<tm, writer>>
  BY DEF Read
<1>2. WriterInv' /\ Closed' = Closed /\ fd.from \in Nat /\ fd.to \in Nat /\ fd.from <= fd.to
  BY <1>1 DEF PipeInv, WriterInv, ReaderInv, Closed
<1>3. ASSUME ReaderInv', Received' = Received, reader'.eof = reader.eof, reader'.pc # "done"
      PROVE  PipeInv'
  BY <1>1, <1>2, <1>3, SameQueue DEF PipeInv, TasksInv
<1>4. CASE Size(fd) > 0
  <2>1. Deliver(fd, len)
    BY <1>4 DEF Read
  <2>2. /\ fd.from = reader.got.to /\ fd.to \in 0 .. MaxBytes /\ fd.from < fd.to
        /\ fd.to <= writer.sent /\ ~reader.eof
    BY <1>2, <1>4 DEF PipeInv, ReaderInv, Size
  <2>3. /\ ReaderInv' /\ Received' = fd.to /\ reader'.pc = "run" /\ ~reader'.eof
        /\ Stream!Read
    BY <1>1, <2>1, <2>2, Delivered
  <2>4. Received' = Received /\ reader'.eof = reader.eof
    BY <1>4, <2>2, <2>3 DEF Received, ReaderInv, PipeInv
  <2> QED
    BY <1>3, <2>3, <2>4 DEF Stream!Next
<1>5. CASE ~(Size(fd) > 0) /\ fd.closed
  <2>1. Size(fd) = 0
    BY <1>2, <1>5 DEF Size
  <2>2. ReturnEnd
    BY <1>5, <2>1 DEF Read
  <2>3. /\ reader' = [reader EXCEPT !.pc = "run", !.eof = TRUE] /\ fd' = [fd EXCEPT !.closed = TRUE]
        /\ reader.eof /\ fd.closed
    BY <1>5, <2>2 DEF ReturnEnd, PipeInv, ReaderInv
  <2>4. reader' = reader /\ fd' = fd
    BY <1>1, <2>3 DEF PipeInv, ReaderInv
  <2>5. ReaderInv' /\ Received' = Received
    BY <1>1, <1>2, <2>4 DEF PipeInv, ReaderInv, Received
  <2> QED
    BY <1>1, <1>2, <1>3, <2>4, <2>5 DEF Stream!vars, Closed
<1>6. CASE ~(Size(fd) > 0) /\ ~fd.closed
  <2>1. Size(fd) = 0
    BY <1>2, <1>6 DEF Size
  <2>2. reader' = [reader EXCEPT !.pc = "read", !.len = len] /\ UNCHANGED fd
    BY <1>6, <2>1 DEF Read
  <2>3. /\ reader'.pc = "read" /\ reader'.len = len /\ reader'.got = reader.got
        /\ reader'.eof = reader.eof
        /\ reader' \in [pc : {"run", "read", "asleep", "done"}, len : Nat,
                        got : [from : 0 .. MaxBytes, to : 0 .. MaxBytes], eof : BOOLEAN]
    BY <2>2, PipeAssumption DEF PipeInv, ReaderInv
  <2>4. ReaderInv'
    BY <1>1, <1>2, <1>6, <2>1, <2>2, <2>3 DEF PipeInv, ReaderInv, Size
  <2>5. Received' = Received
    BY <2>2, <2>3 DEF Received
  <2> QED
    BY <1>1, <1>2, <1>3, <2>3, <2>4, <2>5 DEF Stream!vars, Closed
<1> QED
  BY <1>4, <1>5, <1>6

LEMMA ReceiveOK ==
  ASSUME PipeInv, ReceiveChunk
  PROVE  PipeInv' /\ [Stream!Next]_Stream!vars
<1> DEFINE q == tm.msgs[Reader]
<1>1. /\ Current = Reader /\ reader.pc \in {"read", "asleep"} /\ UNCHANGED writer
      /\ reader.len \in ReadLens /\ Size(fd) = 0 /\ ~reader.eof /\ ~fd.closed
  BY DEF ReceiveChunk, PipeInv, ReaderInv
<1>2. /\ WriterInv' /\ Closed' = Closed /\ fd.from \in Nat /\ fd.to \in Nat
      /\ writer.sent \in Nat /\ reader.got.to \in Nat /\ Received = reader.got.to
  BY <1>1 DEF PipeInv, WriterInv, ReaderInv, Closed, Received
<1>3. /\ Reader \in TaskId /\ Reader # IdleId /\ ManagerInv(tm)
      /\ tm.finish_waiter[Reader] \in {NoTask, Writer}
      /\ QueueOK(q, reader.got.to, writer.sent, Closed)
      /\ tm.msgs \in [TaskId -> Seq(Message)]
  BY <1>1, <1>2, Ids DEF PipeInv, TasksInv, QueueInv
<1>4. CASE q = <<>>
  <2>1. /\ tm' = Sleep(tm, Reader) /\ reader' = [reader EXCEPT !.pc = "asleep"] /\ UNCHANGED fd
    BY <1>4 DEF ReceiveChunk
  <2>2. /\ ManagerInv(Sleep(tm, Reader))
        /\ Sleep(tm, Reader).latest_id = tm.latest_id /\ Sleep(tm, Reader).tasks = tm.tasks
        /\ Sleep(tm, Reader).msgs = tm.msgs
        /\ Sleep(tm, Reader).is_running = [tm.is_running EXCEPT ![Reader] = FALSE]
        /\ Sleep(tm, Reader).finish_tasks = tm.finish_tasks
        /\ Sleep(tm, Reader).finish_waiter = tm.finish_waiter
    BY <1>3, SleepKeeps
  <2>3. /\ reader'.pc = "asleep" /\ reader'.len = reader.len /\ reader'.got = reader.got
        /\ reader'.eof = reader.eof
        /\ reader' \in [pc : {"run", "read", "asleep", "done"}, len : Nat,
                        got : [from : 0 .. MaxBytes, to : 0 .. MaxBytes], eof : BOOLEAN]
    BY <2>1 DEF PipeInv, ReaderInv
  <2>4. ReaderInv' /\ Received' = Received
    BY <1>1, <2>1, <2>3 DEF PipeInv, ReaderInv, Received
  <2>5. PipeInv'
    BY <1>1, <1>2, <1>3, <2>1, <2>2, <2>3, <2>4, SameQueue
  <2> QED
    BY <1>1, <1>2, <2>3, <2>5 DEF Stream!vars, Closed
<1>5. CASE q # <<>>
  <2>1. PICK msg : msg = Head(q)
    OBVIOUS
  <2>2. /\ tm' = PopMessage(tm, Reader)
        /\ msg.type # "kPipe" => reader' = [reader EXCEPT !.pc = "read"] /\ UNCHANGED fd
        /\ msg.type = "kPipe" /\ Size(msg) = 0 => ReturnEnd
        /\ msg.type = "kPipe" /\ Size(msg) # 0 => Deliver(msg, reader.len)
    BY <1>5, <2>1 DEF ReceiveChunk
  <2>3. /\ ManagerInv(tm')
        /\ tm'.latest_id = tm.latest_id /\ tm'.tasks = tm.tasks
        /\ tm'.msgs[Reader] = Tail(q)
        /\ tm'.finish_waiter = tm.finish_waiter
    <3>1. PICK r : r = PopMessage(tm, Reader)
      OBVIOUS
    <3>2. /\ ManagerInv(r)
          /\ r.latest_id = tm.latest_id /\ r.tasks = tm.tasks
          /\ r.msgs = [tm.msgs EXCEPT ![Reader] = Tail(@)]
          /\ r.is_running = tm.is_running
          /\ r.finish_tasks = tm.finish_tasks /\ r.finish_waiter = tm.finish_waiter
      BY <1>3, <1>5, <3>1, PopMessageKeeps
    <3> QED
      BY <1>3, <2>2, <3>1, <3>2
  <2>4. /\ msg \in Messages
        /\ msg.type # "kPipe" => QueueOK(Tail(q), reader.got.to, writer.sent, Closed)
        /\ msg.type = "kPipe" =>
             /\ msg.from = reader.got.to /\ reader.got.to <= msg.to /\ msg.to <= writer.sent
             /\ msg.to \in 0 .. MaxBytes
             /\ QueueOK(Tail(q), msg.to, writer.sent, Closed)
             /\ msg.to = reader.got.to => Closed /\ Chunks(Tail(q)) = {}
    <3> HIDE DEF q
    <3> QED
      BY <1>2, <1>3, <1>5, <2>1, Taken
  <2>5. ASSUME reader'.pc # "done"
        PROVE  TasksInv'
    BY <1>1, <2>3, <2>5 DEF PipeInv, TasksInv
  <2>6. CASE msg.type # "kPipe"
    <3>1. reader' = [reader EXCEPT !.pc = "read"] /\ fd' = fd
      BY <2>2, <2>6
    <3>2. /\ reader'.pc = "read" /\ reader'.len = reader.len /\ reader'.got = reader.got
          /\ reader'.eof = reader.eof
          /\ reader' \in [pc : {"run", "read", "asleep", "done"}, len : Nat,
                          got : [from : 0 .. MaxBytes, to : 0 .. MaxBytes], eof : BOOLEAN]
      BY <3>1 DEF PipeInv, ReaderInv
    <3>3. ReaderInv' /\ Received' = Received
      BY <1>1, <3>1, <3>2 DEF PipeInv, ReaderInv, Received
    <3>4. QueueInv'
      BY <1>1, <1>2, <2>3, <2>4, <2>6, <3>2, <3>3 DEF QueueInv
    <3>5. PipeInv'
      BY <1>2, <2>3, <2>5, <3>2, <3>3, <3>4 DEF PipeInv
    <3> QED
      BY <1>1, <1>2, <3>2, <3>5 DEF Stream!vars, Closed
  <2>7. CASE msg.type = "kPipe" /\ Size(msg) = 0
    <3>1. reader' = [reader EXCEPT !.pc = "run", !.eof = TRUE] /\ fd' = [fd EXCEPT !.closed = TRUE]
      BY <2>2, <2>7 DEF ReturnEnd
    <3>2. /\ reader'.pc = "run" /\ reader'.len = reader.len /\ reader'.got = reader.got
          /\ reader'.eof = TRUE /\ fd'.from = fd.from /\ fd'.to = fd.to /\ fd'.closed = TRUE
          /\ fd' \in [from : 0 .. MaxBytes, to : 0 .. MaxBytes, closed : BOOLEAN]
          /\ reader' \in [pc : {"run", "read", "asleep", "done"}, len : Nat,
                          got : [from : 0 .. MaxBytes, to : 0 .. MaxBytes], eof : BOOLEAN]
      BY <3>1 DEF PipeInv, ReaderInv
    <3>3. msg.to = reader.got.to /\ Closed /\ Chunks(Tail(q)) = {}
      <4>1. msg.to = reader.got.to
        BY <1>2, <2>4, <2>7 DEF Size
      <4> QED
        BY <2>4, <2>7, <4>1
    <3>4. ReaderInv' /\ Received' = Received
      BY <1>1, <1>2, <3>2, <3>3 DEF PipeInv, ReaderInv, Received, Size
    <3>5. QueueInv'
      BY <1>1, <1>2, <2>3, <2>4, <2>7, <3>3, <3>4 DEF QueueInv
    <3>6. PipeInv'
      BY <1>2, <2>3, <2>5, <3>2, <3>4, <3>5 DEF PipeInv
    <3>7. reader.got.to = writer.sent
      <4>1. QueueOK(Tail(q), reader.got.to, writer.sent, Closed)
        BY <2>4, <2>7, <3>3
      <4> QED
        BY <3>3, <4>1 DEF QueueOK, Continue
    <3>8. Stream!End
      BY <1>1, <3>2, <3>3, <3>7 DEF Stream!End, Closed
    <3> QED
      BY <3>6, <3>8 DEF Stream!Next
  <2>8. CASE msg.type = "kPipe" /\ Size(msg) # 0
    <3>1. Deliver(msg, reader.len) /\ msg.from = reader.got.to /\ msg.from < msg.to
      BY <1>2, <2>2, <2>4, <2>8 DEF Size
    <3>2. /\ ReaderInv' /\ Received' = msg.to /\ reader'.pc = "run" /\ ~reader'.eof
          /\ Stream!Read
      BY <1>1, <2>4, <2>8, <3>1, Delivered
    <3>3. QueueInv'
      BY <1>1, <1>2, <2>3, <2>4, <2>8, <3>2 DEF QueueInv
    <3>4. PipeInv'
      BY <1>2, <2>3, <2>5, <3>2, <3>3 DEF PipeInv
    <3> QED
      BY <3>2, <3>4 DEF Stream!Next
  <2> QED
    BY <2>6, <2>7, <2>8
<1> QED
  BY <1>4, <1>5

LEMMA FinishReaderOK ==
  ASSUME PipeInv, FinishReader
  PROVE  PipeInv' /\ Stream!Leave
<1>1. /\ Current = Reader /\ reader.pc = "run" /\ UNCHANGED <<writer, fd>>
      /\ reader' = [reader EXCEPT !.pc = "done"]
  BY DEF FinishReader
<1>2. PICK code \in ExitCode : tm' = Finish(tm, code)
  BY DEF FinishReader
<1>3. /\ ManagerInv(tm') /\ tm'.tasks = tm.tasks \ {Reader} /\ tm'.latest_id = tm.latest_id
      /\ tm'.msgs[Reader] = <<>> /\ tm'.finish_waiter[Reader] = NoTask
  <2>1. PICK t : t = CurrentTask(tm)
    OBVIOUS
  <2>2. PICK w : w = tm.finish_waiter[t]
    OBVIOUS
  <2>3. t = Reader /\ t # IdleId /\ t \in TaskId
    BY <1>1, <2>1, Ids DEF Current
  <2>4. w = NoTask \/ (w \in tm.tasks /\ w # t /\ w # IdleId)
    BY <2>2, <2>3, Ids DEF PipeInv, TasksInv
  <2>5. PICK r : r = Finish(tm, code)
    OBVIOUS
  <2>6. /\ ManagerInv(r)
        /\ r.latest_id = tm.latest_id /\ r.tasks = tm.tasks \ {t}
        /\ r.msgs = [tm.msgs EXCEPT ![t] = <<>>]
        /\ ~r.is_running[t]
        /\ \A u \in TaskId \ {t} : r.is_running[u] <=> (u = w \/ tm.is_running[u])
        /\ r.finish_tasks = [tm.finish_tasks EXCEPT ![t] = code]
        /\ r.finish_waiter = [tm.finish_waiter EXCEPT ![t] = NoTask]
    <3>1. ManagerInv(tm) /\ t # IdleId
      BY <2>3 DEF PipeInv
    <3> QED
      BY <2>1, <2>2, <2>4, <2>5, <3>1, FinishKeeps
  <2>7. /\ tm.msgs \in [TaskId -> Seq(Message)]
        /\ tm.finish_waiter \in [TaskId -> TaskId \cup {NoTask}]
    BY FieldTypes DEF PipeInv
  <2> QED
    BY <1>2, <2>3, <2>5, <2>6, <2>7
<1>4. /\ reader'.pc = "done" /\ reader'.len = reader.len /\ reader'.got = reader.got
      /\ reader'.eof = reader.eof
      /\ reader' \in [pc : {"run", "read", "asleep", "done"}, len : Nat,
                      got : [from : 0 .. MaxBytes, to : 0 .. MaxBytes], eof : BOOLEAN]
  BY <1>1 DEF PipeInv, ReaderInv
<1>5. WriterInv' /\ Closed' = Closed /\ Received' = Received
  BY <1>1, <1>4 DEF PipeInv, WriterInv, Closed, Received
<1>6. ReaderInv'
  BY <1>1, <1>4, <1>5 DEF PipeInv, ReaderInv
<1>7. QueueInv'
  BY <1>4 DEF QueueInv
<1>8. TasksInv'
  BY <1>1, <1>3, <1>4, Ids DEF PipeInv, TasksInv
<1>9. Stream!Leave
  BY <1>1, <1>4, <1>5 DEF Stream!Leave, Closed
<1> QED
  BY <1>3, <1>5, <1>6, <1>7, <1>8, <1>9 DEF PipeInv

LEMMA SwitchTaskOK ==
  ASSUME PipeInv, PreemptTask
  PROVE  PipeInv' /\ UNCHANGED Stream!vars
<1>1. tm' = RotateCurrentRunQueue(tm, FALSE) /\ UNCHANGED <<writer, fd, reader>>
  BY DEF PreemptTask
<1>2. ManagerInv(tm')
  BY <1>1, RotateKeeps DEF PipeInv
<1>3. PICK r : r = RotateCurrentRunQueue(tm, FALSE)
  OBVIOUS
<1>4. /\ r.latest_id = tm.latest_id /\ r.tasks = tm.tasks /\ r.msgs = tm.msgs
      /\ r.is_running = tm.is_running
      /\ r.finish_tasks = tm.finish_tasks /\ r.finish_waiter = tm.finish_waiter
  BY <1>3, RotateRest DEF PipeInv, ManagerInv
<1>5. WriterInv' /\ ReaderInv' /\ Closed' = Closed /\ Received' = Received
  BY <1>1 DEF PipeInv, WriterInv, ReaderInv, Closed, Received
<1>6. PipeInv'
  BY <1>1, <1>2, <1>3, <1>4, <1>5, SameQueue DEF PipeInv, TasksInv
<1> QED
  BY <1>1, <1>6 DEF Stream!vars, Closed

LEMMA PushKeyOK ==
  ASSUME PipeInv, PushKey
  PROVE  PipeInv' /\ UNCHANGED Stream!vars
<1>1. tm' = SendMessage(tm, Reader, Key) /\ UNCHANGED <<writer, fd, reader>>
  BY DEF PushKey
<1>2. WriterInv' /\ ReaderInv' /\ Closed' = Closed /\ Received' = Received
  BY <1>1 DEF PipeInv, WriterInv, ReaderInv, Closed, Received
<1>3. CASE Reader \notin tm.tasks
  <2>1. tm' = tm
    BY <1>1, <1>3 DEF SendMessage
  <2>2. PipeInv'
    BY <1>1, <1>2, <2>1 DEF PipeInv, TasksInv, QueueInv
  <2> QED
    BY <1>1, <2>2 DEF Stream!vars, Closed
<1>4. CASE Reader \in tm.tasks
  <2>1. /\ ManagerInv(tm') /\ tm'.tasks = tm.tasks /\ tm'.latest_id = tm.latest_id
        /\ tm'.msgs[Reader] = Append(tm.msgs[Reader], Key)
        /\ tm'.finish_waiter = tm.finish_waiter
    BY <1>1, <1>4, SentToReader DEF Messages
  <2>2. /\ QueueOK(Append(tm.msgs[Reader], Key), Received, writer.sent, Closed)
        /\ Chunks(Append(tm.msgs[Reader], Key)) = Chunks(tm.msgs[Reader])
    BY <1>4, Ids, KeySent DEF PipeInv, QueueInv
  <2>3. QueueInv'
    BY <1>1, <1>2, <2>1, <2>2 DEF PipeInv, QueueInv
  <2>4. PipeInv'
    BY <1>1, <1>2, <2>1, <2>3 DEF PipeInv, TasksInv
  <2> QED
    BY <1>1, <2>4 DEF Stream!vars, Closed
<1> QED
  BY <1>3, <1>4
-----------------------------------------------------------------------------
LEMMA StepOK ==
  ASSUME PipeInv, [PipeNext]_pipe_vars
  PROVE  PipeInv' /\ [Stream!Next]_Stream!vars
<1>1. CASE UNCHANGED pipe_vars
  <2>1. UNCHANGED <<tm, writer, fd, reader>>
    BY <1>1 DEF pipe_vars
  <2> QED
    BY <2>1 DEF PipeInv, WriterInv, ReaderInv, QueueInv, TasksInv, Closed, Received, Stream!vars
<1>2. CASE WriterStep
  BY <1>2, CreateReaderOK, WriteOK, SendChunkOK, FinishWriteOK, WaitFinishOK
     DEF WriterStep, Stream!Next
<1>3. CASE ReaderStep
  BY <1>3, ReadOK, ReceiveOK, FinishReaderOK DEF ReaderStep, Stream!Next
<1>4. CASE PreemptTask \/ PushKey
  BY <1>4, SwitchTaskOK, PushKeyOK
<1> QED
  BY <1>1, <1>2, <1>3, <1>4 DEF PipeNext

LEMMA Invariant ==
  PipeSpec => []PipeInv
<1>1. PipeInv /\ [PipeNext]_pipe_vars => PipeInv'
  BY StepOK
<1> QED
  BY <1>1, InitOK, PTL DEF PipeSpec

(* Write and FinishWrite send to the right command's task without looking  *)
(* it up.  In every schedule, a right command that reads until it is told  *)
(* the end is never outlived by them: what they can still send to a task   *)
(* that is gone, they send because it ended before it was told.            *)
THEOREM EndIsLast ==
  PipeSpec => []SafeIfReadToEnd
<1>1. PipeInv => SafeIfReadToEnd
  BY DEF PipeInv, ReaderInv, Closed, SafeIfReadToEnd
<1> QED
  BY <1>1, Invariant, PTL

(* Whatever the sizes of the writes, the chunks and the reads, and however *)
(* many keys come between them, as long as the right command runs every    *)
(* byte sent has been read, is in data_ or is in a queued chunk, in order  *)
(* and once.                                                               *)
THEOREM BytesKept ==
  PipeSpec => []NothingLost
<1>1. PipeInv => NothingLost
  BY Ids DEF PipeInv, ReaderInv, QueueInv, QueueOK, NothingLost
<1> QED
  BY <1>1, Invariant, PTL

(* Every step of the two tasks and of the interrupts is a step of the      *)
(* abstract stream, or none: in particular the end is told after the last  *)
(* byte only.  (That the end is told at last is checked by TLC.)           *)
THEOREM PipeIsStream ==
  PipeSpec => Stream!Init /\ [][Stream!Next]_Stream!vars
<1>1. PipeInv /\ [PipeNext]_pipe_vars => [Stream!Next]_Stream!vars
  BY StepOK
<1>2. PipeInit => Stream!Init
  BY InitOK
<1> QED
  BY <1>1, <1>2, Invariant, PTL DEF PipeSpec
=============================================================================
