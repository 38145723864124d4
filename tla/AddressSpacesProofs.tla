------------------------- MODULE AddressSpacesProofs ------------------------
(***************************************************************************)
(* Proofs about AddressSpaces and the functions of PageMaps it uses.       *)
(*                                                                         *)
(* The inductive invariant SpaceInv says that every page map somebody can  *)
(* still reach is a tree of frames in use (WellFormed), that two of them   *)
(* share nothing but read-only pages (Apart), and what each place of       *)
(* ExecuteFile knows about its page map (PlaceInv).  ContentInv, at the    *)
(* end, says what the pages hold.                                          *)
(***************************************************************************)
EXTENDS AddressSpaces, FiniteSetTheorems, WellFoundedInduction, TLAPS

EntryType == {NotPresent} \cup [frame : Frame, writable : BOOLEAN]
Content == [base : App \cup {"zero", "file"}, by : SUBSET Task]

Memory ==
  [alloc : SUBSET Frame, table : [Frame -> [Index -> EntryType]], page : [Frame -> Content]]

(* An address space by itself: a tree whose frames are in use.             *)
WellFormed(m, r) ==
  /\ r \in Frame
  /\ Tables(m, r) \cup Pages(m, r) \subseteq m.alloc
  /\ Tables(m, r) \cap Pages(m, r) = {}
  /\ \A d \in Index : Present(m.table[r][d]) => m.table[r][d].writable /\ m.table[r][d].frame # r
  /\ \A d, e \in Index :
       Present(m.table[r][d]) /\ m.table[r][d].frame = m.table[r][e].frame => d = e
  /\ \A a, b \in Address :
       Present(Lookup(m, r, a)) /\ Lookup(m, r, a).frame = Lookup(m, r, b).frame => a = b

(* What is not read-only belongs to one address space.                     *)
Apart(m, r, s) ==
  /\ Tables(m, r) \cap (Tables(m, s) \cup Pages(m, s)) = {}
  /\ PrivatePages(m, r) \cap Pages(m, s) = {}

Spaces(m, R) ==
  /\ \A r \in R : WellFormed(m, r)
  /\ \A r, s \in R : r # s => Apart(m, r, s)
-----------------------------------------------------------------------------
(* What the operators of PageMaps return.                                  *)

Less == {ss \in Nat \X Nat : ss[1] < ss[2]}

LEMMA LessWF == IsWellFoundedOn(Less, Nat)
  BY NatLessThanWellFounded DEF OpToRel, Less

LEMMA LeastNumber ==
  ASSUME NEW T \in SUBSET Nat, T # {}
  PROVE  \E x \in T : \A y \in T : x <= y
<1>1. PICK x \in T : \A y \in T : ~(<<y, x>> \in Less)
  BY LessWF, WFMin
<1>2. \A y \in T : ~(y < x)
  BY <1>1 DEF Less
<1> QED
  BY <1>1, <1>2

LEMMA EntryIs ==
  ASSUME NEW entry \in EntryType
  PROVE  /\ entry.frame \in Frame \cup {NoFrame}
         /\ entry.writable \in BOOLEAN
         /\ Present(entry) <=> entry.frame \in Frame
         /\ Present(entry) => entry \in [frame : Frame, writable : BOOLEAN]
         /\ ~Present(entry) <=> entry = NotPresent
<1>1. NoFrame \notin Frame
  BY SizeAssumption DEF Frame, NoFrame
<1>2. NotPresent.frame = NoFrame /\ NotPresent.writable = FALSE
  BY DEF NotPresent
<1>3. CASE entry = NotPresent
  BY <1>1, <1>2, <1>3 DEF Present
<1>4. CASE entry \in [frame : Frame, writable : BOOLEAN]
  <2>1. entry.frame \in Frame /\ entry.writable \in BOOLEAN
    BY <1>4
  <2> QED
    BY <1>1, <1>2, <1>4, <2>1 DEF Present
<1> QED
  BY <1>3, <1>4 DEF EntryType

LEMMA EntryOf ==
  ASSUME NEW entry, NEW f, NEW w, entry = [frame |-> f, writable |-> w]
  PROVE  entry.frame = f /\ entry.writable = w /\ (Present(entry) <=> f # NoFrame)
  BY DEF Present

LEMMA EntryExcept ==
  ASSUME NEW entry \in EntryType, NEW f, NEW v
  PROVE  /\ [entry EXCEPT !.frame = f] = [frame |-> f, writable |-> entry.writable]
         /\ [entry EXCEPT !.writable = v] = [frame |-> entry.frame, writable |-> v]
<1>1. entry \in [frame : Frame \cup {NoFrame}, writable : BOOLEAN]
  <2>1. NotPresent \in [frame : Frame \cup {NoFrame}, writable : BOOLEAN]
    BY DEF NotPresent
  <2> QED
    BY <2>1 DEF EntryType
<1>2. [entry EXCEPT !.frame = f] = [frame |-> f, writable |-> entry.writable]
  BY <1>1
<1>3. [entry EXCEPT !.writable = v] = [frame |-> entry.frame, writable |-> v]
  BY <1>1
<1> QED
  BY <1>2, <1>3

LEMMA AddressOf ==
  ASSUME NEW i \in Index, NEW j \in Index
  PROVE  \E a \in Address : a[1] = i /\ a[2] = j
<1>1. <<i, j>> \in Address
  BY DEF Address
<1> QED
  BY <1>1

LEMMA TableEntry ==
  ASSUME NEW m \in Memory, NEW r \in Frame, NEW d \in Index
  PROVE  m.table[r][d] \in EntryType
  BY DEF Memory

LEMMA LookupIs ==
  ASSUME NEW m \in Memory, NEW r \in Frame, NEW a \in Address
  PROVE  /\ Lookup(m, r, a) \in EntryType
         /\ Present(m.table[r][a[1]]) =>
              Lookup(m, r, a) = m.table[m.table[r][a[1]].frame][a[2]]
         /\ Present(Lookup(m, r, a)) => Present(m.table[r][a[1]])
<1>1. a[1] \in Index /\ a[2] \in Index
  BY DEF Address
<1>2. m.table[r][a[1]] \in EntryType
  BY <1>1, TableEntry
<1>3. Present(m.table[r][a[1]]) => m.table[r][a[1]].frame \in Frame
  BY <1>2, EntryIs
<1>4. NotPresent \in EntryType /\ ~Present(NotPresent)
  BY DEF EntryType, Present, NotPresent
<1> QED
  BY <1>1, <1>3, <1>4, TableEntry DEF Lookup

LEMMA TablesAre ==
  ASSUME NEW m \in Memory, NEW r \in Frame
  PROVE  /\ \A f : f \in Tables(m, r) <=>
              f = r \/ \E d \in Index : Present(m.table[r][d]) /\ f = m.table[r][d].frame
         /\ Tables(m, r) \subseteq Frame
<1>1. \A f : f \in Tables(m, r) <=>
              f = r \/ \E d \in Index : Present(m.table[r][d]) /\ f = m.table[r][d].frame
  BY DEF Tables
<1> QED
  BY <1>1, TableEntry, EntryIs

LEMMA PagesAre ==
  ASSUME NEW m \in Memory, NEW r \in Frame
  PROVE  /\ \A f : f \in Pages(m, r) <=>
              \E a \in Address : Present(Lookup(m, r, a)) /\ f = Lookup(m, r, a).frame
         /\ \A f : f \in PrivatePages(m, r) <=>
              \E a \in Address : /\ Present(Lookup(m, r, a)) /\ Lookup(m, r, a).writable
                                 /\ f = Lookup(m, r, a).frame
         /\ Pages(m, r) \subseteq Frame
         /\ PrivatePages(m, r) \subseteq Pages(m, r)
<1>1. \A a \in Address : Present(Lookup(m, r, a)) <=> Lookup(m, r, a) # NotPresent
  BY LookupIs, EntryIs
<1>2. \A f : f \in Pages(m, r) <=>
              \E a \in Address : Present(Lookup(m, r, a)) /\ f = Lookup(m, r, a).frame
  BY <1>1 DEF Pages, Entries
<1>3. \A f : f \in PrivatePages(m, r) <=>
              \E a \in Address : /\ Present(Lookup(m, r, a)) /\ Lookup(m, r, a).writable
                                 /\ f = Lookup(m, r, a).frame
  BY <1>1 DEF PrivatePages, Entries
<1> QED
  BY <1>2, <1>3, LookupIs, EntryIs

(* Who keeps its tables keeps its address space.                           *)
SameSpace(m, n, r) ==
  /\ n.table[r] = m.table[r]
  /\ Tables(n, r) = Tables(m, r)
  /\ \A a \in Address : Lookup(n, r, a) = Lookup(m, r, a)
  /\ Pages(n, r) = Pages(m, r)
  /\ PrivatePages(n, r) = PrivatePages(m, r)

LEMMA SameView ==
  ASSUME NEW m \in Memory, NEW n \in Memory, NEW r \in Frame,
         \A f \in Tables(m, r) : n.table[f] = m.table[f]
  PROVE  SameSpace(m, n, r)
<1>1. n.table[r] = m.table[r]
  BY TablesAre
<1>2. ASSUME NEW a \in Address
      PROVE  Lookup(n, r, a) = Lookup(m, r, a)
  <2>1. Present(m.table[r][a[1]]) => m.table[r][a[1]].frame \in Tables(m, r)
    BY TablesAre DEF Address
  <2> QED
    BY <1>1, <2>1 DEF Lookup
<1>3. Tables(n, r) = Tables(m, r)
  BY <1>1 DEF Tables
<1>4. \A f : f \in Pages(n, r) <=> f \in Pages(m, r)
  BY <1>2, PagesAre
<1>5. \A f : f \in PrivatePages(n, r) <=> f \in PrivatePages(m, r)
  BY <1>2, PagesAre
<1> QED
  BY <1>1, <1>2, <1>3, <1>4, <1>5 DEF SameSpace

LEMMA SameWellFormed ==
  ASSUME NEW m \in Memory, NEW n \in Memory, NEW r \in Frame,
         \A f \in Tables(m, r) : n.table[f] = m.table[f],
         WellFormed(m, r), Tables(m, r) \cup Pages(m, r) \subseteq n.alloc
  PROVE  WellFormed(n, r) /\ SameSpace(m, n, r)
<1>1. SameSpace(m, n, r)
  BY SameView
<1> QED
  BY <1>1 DEF WellFormed, SameSpace

(* NewPageMap takes a frame that nobody has.                               *)
Takes(m, n, f) ==
  /\ f \in Frame \ m.alloc
  /\ n \in Memory
  /\ n.alloc = m.alloc \cup {f}
  /\ n.table = [m.table EXCEPT ![f] = EmptyTable]
  /\ n.page = [m.page EXCEPT ![f] = Zero]

LEMMA EmptyIs ==
  /\ EmptyTable \in [Index -> EntryType] /\ \A i \in Index : EmptyTable[i] = NotPresent
  /\ Zero \in Content
  /\ ~Present(NotPresent) /\ NotPresent \in EntryType
  BY DEF EmptyTable, EntryType, Zero, Content, Present, NotPresent

LEMMA NewPageMapIs ==
  ASSUME NEW m \in Memory, NEW new, new = NewPageMap(m)
  PROVE  \/ new.frame = NoFrame /\ new.mem = m
         \/ new.frame # NoFrame /\ Takes(m, new.mem, new.frame)
<1> DEFINE free == Frame \ m.alloc
           f == CHOOSE x \in free : \A y \in free : x <= y
<1>1. CASE free = {}
  BY <1>1 DEF NewPageMap
<1>2. CASE free # {}
  <2>1. free \subseteq Nat /\ NoFrame \notin free
    BY SizeAssumption DEF Frame, NoFrame
  <2>2. \E x \in free : \A y \in free : x <= y
    BY <2>1, <1>2, LeastNumber
  <2>3. f \in free
    BY <2>2
  <2> HIDE DEF f
  <2>4. new.frame = f /\ new.mem = [m EXCEPT !.alloc = @ \cup {f}, !.table[f] = EmptyTable,
                                             !.page[f] = Zero]
    BY <1>2 DEF NewPageMap, f
  <2>5. new.mem.alloc = m.alloc \cup {f} /\ new.mem.table = [m.table EXCEPT ![f] = EmptyTable]
        /\ new.mem.page = [m.page EXCEPT ![f] = Zero]
    BY <2>4 DEF Memory
  <2>6. new.mem \in Memory
    <3>1. m.alloc \cup {f} \in SUBSET Frame
      BY <2>3 DEF Memory
    <3>2. [m.table EXCEPT ![f] = EmptyTable] \in [Frame -> [Index -> EntryType]]
      BY <2>3, EmptyIs DEF Memory
    <3>3. [m.page EXCEPT ![f] = Zero] \in [Frame -> Content]
      BY <2>3, EmptyIs DEF Memory
    <3> QED
      BY <2>4, <3>1, <3>2, <3>3 DEF Memory
  <2> QED
    BY <2>1, <2>3, <2>4, <2>5, <2>6 DEF Takes
<1> QED
  BY <1>1, <1>2
-----------------------------------------------------------------------------
(* An address space that has got more pages: at addresses of P, with new   *)
(* frames, or, not writable, the ones of X.                                *)
Fresh(m, n) == n.alloc \ m.alloc

Extends(m, n, r, w, P, X) ==
  /\ n \in Memory
  /\ m.alloc \subseteq n.alloc
  /\ \A f \in m.alloc \ Tables(m, r) : n.table[f] = m.table[f]
  /\ \A f \in m.alloc : n.page[f] = m.page[f]
  /\ \A f \in Fresh(m, n) : n.page[f] = Zero
  /\ WellFormed(n, r)
  /\ Tables(m, r) \subseteq Tables(n, r)
  /\ Tables(n, r) \subseteq Tables(m, r) \cup Fresh(m, n)
  /\ Fresh(m, n) \subseteq Tables(n, r) \cup Pages(n, r)
  /\ \A a \in Address : Present(Lookup(m, r, a)) => Lookup(n, r, a) = Lookup(m, r, a)
  /\ \A a \in Address : Present(Lookup(n, r, a)) /\ ~Present(Lookup(m, r, a)) =>
       /\ a \in P
       /\ Lookup(n, r, a).writable = w
       /\ Lookup(n, r, a).frame \in Fresh(m, n) \/ (~w /\ Lookup(n, r, a).frame \in X)

LEMMA ExtendsItself ==
  ASSUME NEW m \in Memory, NEW r, WellFormed(m, r), NEW w, NEW P, NEW X
  PROVE  Extends(m, m, r, w, P, X)
  BY DEF Extends, Fresh

LEMMA ExtendsPages ==
  ASSUME NEW m \in Memory, NEW n, NEW r \in Frame, NEW w, NEW P, NEW X,
         Extends(m, n, r, w, P, X)
  PROVE  /\ Pages(m, r) \subseteq Pages(n, r)
         /\ Pages(n, r) \subseteq Pages(m, r) \cup Fresh(m, n) \cup X
         /\ PrivatePages(n, r) \subseteq PrivatePages(m, r) \cup Fresh(m, n)
<1>1. n \in Memory
  BY DEF Extends
<1>2. Pages(m, r) \subseteq Pages(n, r)
  BY <1>1, PagesAre DEF Extends
<1>3. ASSUME NEW f \in Pages(n, r)
      PROVE  f \in Pages(m, r) \cup Fresh(m, n) \cup X
  <2>1. PICK a \in Address : Present(Lookup(n, r, a)) /\ f = Lookup(n, r, a).frame
    BY <1>1, PagesAre
  <2> QED
    BY <2>1, PagesAre DEF Extends
<1>4. ASSUME NEW f \in PrivatePages(n, r)
      PROVE  f \in PrivatePages(m, r) \cup Fresh(m, n)
  <2>1. PICK a \in Address : /\ Present(Lookup(n, r, a)) /\ Lookup(n, r, a).writable
                             /\ f = Lookup(n, r, a).frame
    BY <1>1, PagesAre
  <2>2. CASE Present(Lookup(m, r, a))
    BY <2>1, <2>2, PagesAre DEF Extends
  <2>3. CASE ~Present(Lookup(m, r, a))
    <3>1. Lookup(n, r, a).writable = w
      BY <2>1, <2>3 DEF Extends
    <3> QED
      BY <2>1, <2>3, <3>1 DEF Extends
  <2> QED
    BY <2>2, <2>3
<1> QED
  BY <1>2, <1>3, <1>4

LEMMA ExtendsOn ==
  ASSUME NEW m \in Memory, NEW n, NEW o, NEW r \in Frame, NEW w, NEW P, NEW X,
         Extends(m, n, r, w, P, X), Extends(n, o, r, w, P, X)
  PROVE  Extends(m, o, r, w, P, X)
<1>1. n \in Memory /\ o \in Memory /\ WellFormed(o, r)
  BY DEF Extends
<1>2. m.alloc \subseteq n.alloc /\ n.alloc \subseteq o.alloc
  BY DEF Extends
<1>3. Fresh(m, o) = Fresh(m, n) \cup Fresh(n, o)
  BY <1>2 DEF Fresh
<1>4. \A f \in m.alloc \ Tables(m, r) : o.table[f] = m.table[f]
  BY <1>2 DEF Extends, Fresh
<1>5. \A f \in m.alloc : o.page[f] = m.page[f]
  BY <1>2 DEF Extends
<1>6. \A f \in Fresh(m, o) : o.page[f] = Zero
  BY <1>3 DEF Extends, Fresh
<1>7. Tables(m, r) \subseteq Tables(o, r) /\ Tables(o, r) \subseteq Tables(m, r) \cup Fresh(m, o)
  BY <1>3 DEF Extends
<1>8. Fresh(m, o) \subseteq Tables(o, r) \cup Pages(o, r)
  <2>1. Pages(n, r) \subseteq Pages(o, r)
    BY <1>1, ExtendsPages
  <2> QED
    BY <1>3, <2>1 DEF Extends
<1>9. \A a \in Address : Present(Lookup(m, r, a)) => Lookup(o, r, a) = Lookup(m, r, a)
  BY DEF Extends
<1>10. ASSUME NEW a \in Address, Present(Lookup(o, r, a)), ~Present(Lookup(m, r, a))
       PROVE  /\ a \in P
              /\ Lookup(o, r, a).writable = w
              /\ Lookup(o, r, a).frame \in Fresh(m, o) \/ (~w /\ Lookup(o, r, a).frame \in X)
  <2>1. CASE Present(Lookup(n, r, a))
    BY <1>3, <1>10, <2>1 DEF Extends
  <2>2. CASE ~Present(Lookup(n, r, a))
    BY <1>3, <1>10, <2>2 DEF Extends
  <2> QED
    BY <2>1, <2>2
<1> QED
  BY <1>1, <1>2, <1>4, <1>5, <1>6, <1>7, <1>8, <1>9, <1>10 DEF Extends

(* n has the new frame f, and an entry for it in table t.                  *)
Puts(m, n, f, t, i, w) ==
  /\ n \in Memory
  /\ f \in Frame \ m.alloc /\ n.alloc = m.alloc \cup {f}
  /\ \A g \in Frame \ {f, t} : n.table[g] = m.table[g]
  /\ n.table[t] = [m.table[t] EXCEPT ![i] = [frame |-> f, writable |-> w]]

PutsNew(m, n, f, T, t, i, w) ==
  /\ Puts(m, n, f, t, i, w)
  /\ n.table[f] = T
  /\ n.page = [m.page EXCEPT ![f] = Zero]

(* The pages of a table that are mapped from somewhere else.               *)
Imports(m, r, i, T, w, P, X) ==
  \A j \in Index : Present(T[j]) =>
    /\ ~T[j].writable /\ ~w /\ <<i, j>> \in P
    /\ T[j].frame \in X /\ T[j].frame \in m.alloc
    /\ T[j].frame \notin Tables(m, r) \cup Pages(m, r)
    /\ \A k \in Index : T[k].frame = T[j].frame => k = j

HasTable(m, n, r, i, f, T) ==
  /\ \A a \in Address : Lookup(n, r, a) = IF a[1] = i THEN T[a[2]] ELSE Lookup(m, r, a)
  /\ \A d \in Index : n.table[r][d] = IF d = i THEN [frame |-> f, writable |-> TRUE]
                                      ELSE m.table[r][d]

(* The two ways in which an address space is extended: by a table T whose  *)
(* pages, if any, are read-only and of X, and by an entry of a table.      *)
LEMMA AddTable ==
  ASSUME NEW m \in Memory, NEW n, NEW r \in Frame, NEW i \in Index, NEW f,
         NEW T \in [Index -> EntryType], NEW w \in BOOLEAN, NEW P, NEW X,
         WellFormed(m, r), ~Present(m.table[r][i]),
         PutsNew(m, n, f, T, r, i, TRUE), Imports(m, r, i, T, w, P, X)
  PROVE  /\ Extends(m, n, r, w, P, X)
         /\ HasTable(m, n, r, i, f, T)
<1> USE DEF PutsNew, Imports
<1>0. /\ n \in Memory
      /\ f \in Frame \ m.alloc /\ n.alloc = m.alloc \cup {f}
      /\ \A g \in Frame \ {f, r} : n.table[g] = m.table[g]
      /\ n.table[r] = [m.table[r] EXCEPT ![i] = [frame |-> f, writable |-> TRUE]]
  BY DEF Puts
<1>1. r # f /\ r \in m.alloc
  BY <1>0, TablesAre DEF WellFormed
<1>2. \A d \in Index : n.table[r][d] = IF d = i THEN [frame |-> f, writable |-> TRUE]
                                       ELSE m.table[r][d]
  <2>1. m.table[r] \in [Index -> EntryType]
    BY DEF Memory
  <2> QED
    BY <1>0, <2>1
<1>3. \A g \in Frame \ {r, f} : n.table[g] = m.table[g]
  BY <1>0
<1>4. n.table[f] = T
  OBVIOUS
<1>5. Present(n.table[r][i]) /\ n.table[r][i].frame = f
  BY <1>0, <1>2, SizeAssumption DEF Present, NoFrame, Frame
<1>6. \A d \in Index : Present(m.table[r][d]) =>
        m.table[r][d].frame \in Frame \ {r, f} /\ m.table[r][d].frame \in m.alloc
  BY <1>0, TablesAre DEF WellFormed
<1>7. ASSUME NEW a \in Address
      PROVE  Lookup(n, r, a) = IF a[1] = i THEN T[a[2]] ELSE Lookup(m, r, a)
  <2>1. a[1] \in Index /\ a[2] \in Index
    BY DEF Address
  <2>2. CASE a[1] = i
    BY <1>4, <1>5, <2>2 DEF Lookup
  <2>3. CASE a[1] # i
    <3>1. n.table[r][a[1]] = m.table[r][a[1]]
      BY <1>2, <2>1, <2>3
    <3>2. Present(m.table[r][a[1]]) =>
            n.table[m.table[r][a[1]].frame] = m.table[m.table[r][a[1]].frame]
      BY <1>3, <1>6, <2>1
    <3> QED
      BY <2>3, <3>1, <3>2 DEF Lookup
  <2> QED
    BY <2>2, <2>3
<1>8. \A a \in Address : a[1] = i => ~Present(Lookup(m, r, a))
  BY LookupIs
<1>9. \A g : g \in Tables(n, r) <=> g \in Tables(m, r) \/ g = f
  <2>1. ASSUME NEW g \in Tables(n, r)
        PROVE  g \in Tables(m, r) \/ g = f
    <3>1. CASE g = r
      BY <1>0, <3>1, TablesAre
    <3>2. CASE g # r
      <4>1. PICK d \in Index : Present(n.table[r][d]) /\ g = n.table[r][d].frame
        BY <3>2 DEF Tables
      <4>2. CASE d = i
        BY <1>5, <4>1, <4>2
      <4>3. CASE d # i
        <5>1. n.table[r][d] = m.table[r][d]
          BY <1>2, <4>3
        <5> QED
          BY <4>1, <5>1, TablesAre
      <4> QED
        BY <4>2, <4>3
    <3> QED
      BY <3>1, <3>2
  <2>2. f \in Tables(n, r)
    BY <1>0, <1>5, TablesAre
  <2>3. ASSUME NEW g \in Tables(m, r)
        PROVE  g \in Tables(n, r)
    <3>1. CASE g = r
      BY <1>0, <3>1, TablesAre
    <3>2. CASE g # r
      <4>1. PICK d \in Index : Present(m.table[r][d]) /\ g = m.table[r][d].frame
        BY <3>2, TablesAre
      <4>2. n.table[r][d] = m.table[r][d]
        BY <1>2, <4>1
      <4> QED
        BY <4>1, <1>0, <4>2, TablesAre
    <3> QED
      BY <3>1, <3>2
  <2> QED
    BY <2>1, <2>2, <2>3
<1>10. \A a \in Address : Present(Lookup(m, r, a)) => Lookup(n, r, a) = Lookup(m, r, a)
  BY <1>7, <1>8
<1>11. \A a \in Address : Present(Lookup(n, r, a)) /\ ~Present(Lookup(m, r, a)) =>
         a[1] = i /\ Lookup(n, r, a) = T[a[2]] /\ a[2] \in Index /\ a = <<i, a[2]>>
  BY <1>7 DEF Address
<1>12. \A a \in Address : Present(Lookup(m, r, a)) =>
         Lookup(m, r, a).frame \in m.alloc /\ Lookup(m, r, a).frame \in Pages(m, r)
  BY PagesAre DEF WellFormed
<1>13. WellFormed(n, r)
  <2>1. \A g \in Pages(n, r) : g \in m.alloc /\ g \notin Tables(m, r)
    <3> SUFFICES ASSUME NEW g \in Pages(n, r)
                 PROVE  g \in m.alloc /\ g \notin Tables(m, r)
      OBVIOUS
    <3>1. PICK a \in Address : Present(Lookup(n, r, a)) /\ g = Lookup(n, r, a).frame
      BY <1>0, PagesAre
    <3>2. CASE Present(Lookup(m, r, a))
      BY <1>10, <1>12, <3>1, <3>2 DEF WellFormed
    <3>3. CASE ~Present(Lookup(m, r, a))
      BY <1>11, <3>1, <3>3
    <3> QED
      BY <3>2, <3>3
  <2>2. Tables(n, r) \cup Pages(n, r) \subseteq n.alloc
    BY <1>0, <1>9, <2>1 DEF WellFormed
  <2>3. Tables(n, r) \cap Pages(n, r) = {}
    BY <1>0, <1>9, <2>1
  <2>4. \A d \in Index : Present(n.table[r][d]) => n.table[r][d].writable /\ n.table[r][d].frame # r
    <3> SUFFICES ASSUME NEW d \in Index, Present(n.table[r][d])
                 PROVE  n.table[r][d].writable /\ n.table[r][d].frame # r
      OBVIOUS
    <3>1. CASE d = i
      <4>1. n.table[r][d] = [frame |-> f, writable |-> TRUE]
        BY <1>2, <3>1
      <4> QED
        BY <1>1, <4>1
    <3>2. CASE d # i
      <4>1. n.table[r][d] = m.table[r][d]
        BY <1>2, <3>2
      <4> QED
        BY <4>1 DEF WellFormed
    <3> QED
      BY <3>1, <3>2
  <2>5. \A d, e \in Index :
          Present(n.table[r][d]) /\ n.table[r][d].frame = n.table[r][e].frame => d = e
    <3> SUFFICES ASSUME NEW d \in Index, NEW e \in Index, Present(n.table[r][d]),
                        n.table[r][d].frame = n.table[r][e].frame
                 PROVE  d = e
      OBVIOUS
    <3>1. Present(n.table[r][e])
      BY DEF Present
    <3>2. \A x \in Index : x # i => n.table[r][x] = m.table[r][x]
      BY <1>2
    <3>3. \A x \in Index : x # i /\ Present(n.table[r][x]) => n.table[r][x].frame # f
      BY <1>0, <1>6, <3>2
    <3>4. CASE d = i \/ e = i
      BY <1>5, <3>1, <3>3, <3>4
    <3>5. CASE d # i /\ e # i
      BY <3>2, <3>5 DEF WellFormed
    <3> QED
      BY <3>4, <3>5
  <2>6. \A a, b \in Address :
          Present(Lookup(n, r, a)) /\ Lookup(n, r, a).frame = Lookup(n, r, b).frame => a = b
    <3> SUFFICES ASSUME NEW a \in Address, NEW b \in Address, Present(Lookup(n, r, a)),
                        Lookup(n, r, a).frame = Lookup(n, r, b).frame
                 PROVE  a = b
      OBVIOUS
    <3>1. Present(Lookup(n, r, b))
      BY DEF Present
    <3>2. CASE Present(Lookup(m, r, a)) /\ Present(Lookup(m, r, b))
      BY <1>10, <3>2 DEF WellFormed
    <3>3. CASE ~Present(Lookup(m, r, a)) /\ ~Present(Lookup(m, r, b))
      BY <1>11, <3>1, <3>3
    <3>4. CASE Present(Lookup(m, r, a)) /\ ~Present(Lookup(m, r, b))
      BY <1>0, <1>10, <1>11, <1>12, <3>1, <3>4
    <3>5. CASE ~Present(Lookup(m, r, a)) /\ Present(Lookup(m, r, b))
      BY <1>0, <1>10, <1>11, <1>12, <3>1, <3>5
    <3> QED
      BY <3>2, <3>3, <3>4, <3>5
  <2> QED
    BY <2>2, <2>3, <2>4, <2>5, <2>6 DEF WellFormed
<1>14. Fresh(m, n) = {f}
  BY <1>0 DEF Fresh
<1>15. \A g \in m.alloc : n.page[g] = m.page[g]
  BY <1>0 DEF Memory
<1>16. n.page[f] = Zero
  BY <1>0 DEF Memory
<1>17. \A g \in m.alloc \ Tables(m, r) : n.table[g] = m.table[g]
  <2>1. m.alloc \subseteq Frame /\ r \in Tables(m, r)
    BY TablesAre DEF Memory
  <2> QED
    BY <1>0, <1>3, <2>1
<1>18. \A a \in Address : Present(Lookup(n, r, a)) /\ ~Present(Lookup(m, r, a)) =>
         /\ a \in P
         /\ Lookup(n, r, a).writable = w
         /\ Lookup(n, r, a).frame \in Fresh(m, n) \/ (~w /\ Lookup(n, r, a).frame \in X)
  <2> SUFFICES ASSUME NEW a \in Address, Present(Lookup(n, r, a)), ~Present(Lookup(m, r, a))
               PROVE  /\ a \in P
                      /\ Lookup(n, r, a).writable = w
                      /\ ~w /\ Lookup(n, r, a).frame \in X
    OBVIOUS
  <2>1. a[2] \in Index /\ a = <<i, a[2]>> /\ Lookup(n, r, a) = T[a[2]] /\ Present(T[a[2]])
    BY <1>11
  <2>2. T[a[2]].writable \in BOOLEAN
    BY <2>1, EntryIs
  <2>3. ~T[a[2]].writable /\ ~w /\ <<i, a[2]>> \in P /\ T[a[2]].frame \in X
    BY <2>1
  <2>4. T[a[2]].writable = w
    BY <2>2, <2>3
  <2> QED
    BY <2>1, <2>3, <2>4
<1>19. Extends(m, n, r, w, P, X)
  <2>1. Tables(m, r) \subseteq Tables(n, r) /\ Tables(n, r) \subseteq Tables(m, r) \cup {f}
        /\ f \in Tables(n, r)
    BY <1>9
  <2> QED
    BY <1>0, <1>10, <1>13, <1>14, <1>15, <1>16, <1>17, <1>18, <2>1 DEF Extends
<1> QED
  BY <1>2, <1>7, <1>19 DEF HasTable

HasPut(m, n, r, f, a, w) ==
  /\ WellFormed(n, r)
  /\ Tables(n, r) = Tables(m, r)
  /\ \A b \in Address : Lookup(n, r, b) = IF b = a THEN [frame |-> f, writable |-> w]
                                          ELSE Lookup(m, r, b)
  /\ \A g \in m.alloc \ Tables(m, r) : n.table[g] = m.table[g]
  /\ f \in Pages(n, r) /\ Present([frame |-> f, writable |-> w])

LEMMA SetEntry ==
  ASSUME NEW m \in Memory, NEW n, NEW r \in Frame, NEW a \in Address, NEW f, NEW w \in BOOLEAN,
         WellFormed(m, r), Present(m.table[r][a[1]]),
         Puts(m, n, f, m.table[r][a[1]].frame, a[2], w)
  PROVE  HasPut(m, n, r, f, a, w)
<1> DEFINE e == [frame |-> f, writable |-> w]
           t == m.table[r][a[1]].frame
<1>0. /\ n \in Memory
      /\ f \in Frame \ m.alloc /\ n.alloc = m.alloc \cup {f}
      /\ \A g \in Frame \ {f, t} : n.table[g] = m.table[g]
      /\ n.table[t] = [m.table[t] EXCEPT ![a[2]] = e]
  BY DEF Puts
<1> HIDE DEF t
<1>1. a[1] \in Index /\ a[2] \in Index
  BY DEF Address
<1>2. t \in Tables(m, r) /\ t \in Frame /\ t \in m.alloc /\ t # r /\ t # f /\ f # r
  <2>1. t \in Tables(m, r) /\ r \in Tables(m, r) /\ Tables(m, r) \subseteq Frame
    BY <1>1, TablesAre DEF t
  <2>2. t # r /\ Tables(m, r) \subseteq m.alloc
    BY <1>1 DEF WellFormed, t
  <2> QED
    BY <1>0, <2>1, <2>2
<1>3. \A g \in Frame \ {f, t} : n.table[g] = m.table[g]
  BY <1>0
<1>4. n.table[t] = [m.table[t] EXCEPT ![a[2]] = e] /\ m.table[t] \in [Index -> EntryType]
  BY <1>0, <1>2 DEF Memory
<1>5. n.table[r] = m.table[r]
  BY <1>2, <1>3
<1>6. Tables(n, r) = Tables(m, r)
  BY <1>5 DEF Tables
<1>7. Present(e) /\ e.frame = f
  BY <1>0, SizeAssumption DEF Present, NoFrame, Frame
<1>8. \A d \in Index : Present(m.table[r][d]) =>
        m.table[r][d].frame \in Frame \ {r, f}
        /\ (m.table[r][d].frame = t => d = a[1])
  <2> SUFFICES ASSUME NEW d \in Index, Present(m.table[r][d])
               PROVE  /\ m.table[r][d].frame \in Frame \ {r, f}
                      /\ m.table[r][d].frame = t => d = a[1]
    OBVIOUS
  <2>1. m.table[r][d].frame \in Tables(m, r) /\ Tables(m, r) \subseteq Frame
    BY TablesAre
  <2>2. Tables(m, r) \subseteq m.alloc /\ m.table[r][d].frame # r
    BY DEF WellFormed
  <2>3. m.table[r][d].frame = t => d = a[1]
    BY <1>1 DEF WellFormed, t
  <2> QED
    BY <1>0, <2>1, <2>2, <2>3
<1>9. \A b \in Address : Lookup(n, r, b) = IF b = a THEN e ELSE Lookup(m, r, b)
  <2> SUFFICES ASSUME NEW b \in Address
               PROVE  Lookup(n, r, b) = IF b = a THEN e ELSE Lookup(m, r, b)
    OBVIOUS
  <2>1. b[1] \in Index /\ b[2] \in Index /\ b = <<b[1], b[2]>> /\ a = <<a[1], a[2]>>
    BY DEF Address
  <2>2. CASE b[1] = a[1]
    <3>1. Lookup(n, r, b) = n.table[t][b[2]] /\ Lookup(m, r, b) = m.table[t][b[2]]
      BY <1>5, <2>2 DEF Lookup, t
    <3>2. b = a <=> b[2] = a[2]
      BY <2>1, <2>2
    <3>3. n.table[t][b[2]] = IF b[2] = a[2] THEN e ELSE m.table[t][b[2]]
      BY <1>4, <2>1
    <3> QED
      BY <3>1, <3>2, <3>3
  <2>3. CASE b[1] # a[1]
    <3>1. Present(m.table[r][b[1]]) => n.table[m.table[r][b[1]].frame] = m.table[m.table[r][b[1]].frame]
      BY <1>3, <1>8, <2>1, <2>3
    <3> QED
      BY <1>5, <2>3, <3>1 DEF Lookup
  <2> QED
    BY <2>2, <2>3
<1>10. \A b \in Address : Present(Lookup(m, r, b)) =>
         Lookup(m, r, b).frame \in m.alloc /\ Lookup(m, r, b).frame \in Pages(m, r)
  BY <1>0, PagesAre DEF WellFormed
<1>11. ASSUME NEW g \in Pages(n, r)
       PROVE  g = f \/ g \in Pages(m, r)
  <2>1. PICK b \in Address : Present(Lookup(n, r, b)) /\ g = Lookup(n, r, b).frame
    BY <1>0, PagesAre
  <2>2. CASE b = a
    BY <1>7, <1>9, <2>1, <2>2
  <2>3. CASE b # a
    BY <1>9, <1>10, <2>1, <2>3
  <2> QED
    BY <2>2, <2>3
<1>12. f \in Pages(n, r)
  BY <1>0, <1>7, <1>9, PagesAre
<1>13. WellFormed(n, r)
  <2>1. Tables(n, r) \cup Pages(n, r) \subseteq n.alloc
    BY <1>0, <1>6, <1>11 DEF WellFormed
  <2>2. f \notin Tables(m, r)
    BY <1>0 DEF WellFormed
  <2>3. Tables(n, r) \cap Pages(n, r) = {}
    BY <1>6, <1>11, <2>2 DEF WellFormed
  <2>4. \A b, c \in Address :
          Present(Lookup(n, r, b)) /\ Lookup(n, r, b).frame = Lookup(n, r, c).frame => b = c
    <3> SUFFICES ASSUME NEW b \in Address, NEW c \in Address, Present(Lookup(n, r, b)),
                        Lookup(n, r, b).frame = Lookup(n, r, c).frame
                 PROVE  b = c
      OBVIOUS
    <3>1. Present(Lookup(n, r, c))
      BY DEF Present
    <3>2. \A x \in Address : x # a /\ Present(Lookup(n, r, x)) => Lookup(n, r, x).frame # f
      BY <1>0, <1>9, <1>10
    <3>3. CASE b = a \/ c = a
      BY <1>7, <1>9, <3>1, <3>2, <3>3
    <3>4. CASE b # a /\ c # a
      BY <1>9, <3>4 DEF WellFormed
    <3> QED
      BY <3>3, <3>4
  <2> QED
    BY <1>5, <2>1, <2>3, <2>4 DEF WellFormed
<1>14. \A g \in m.alloc \ Tables(m, r) : n.table[g] = m.table[g]
  <2>1. m.alloc \subseteq Frame
    BY DEF Memory
  <2> QED
    BY <1>0, <1>2, <1>3, <2>1 DEF t
<1> QED
  BY <1>6, <1>7, <1>9, <1>12, <1>13, <1>14 DEF HasPut

LEMMA AddPage ==
  ASSUME NEW m \in Memory, NEW n, NEW r \in Frame, NEW a \in Address, NEW f,
         NEW w \in BOOLEAN, NEW P, NEW X,
         WellFormed(m, r), Present(m.table[r][a[1]]),
         PutsNew(m, n, f, EmptyTable, m.table[r][a[1]].frame, a[2], w),
         ~Present(Lookup(m, r, a)), a \in P
  PROVE  /\ Extends(m, n, r, w, P, X)
         /\ Present(Lookup(n, r, a))
<1> USE DEF PutsNew
<1>1. HasPut(m, n, r, f, a, w)
  BY SetEntry
<1>2. Fresh(m, n) = {f} /\ f \in Frame \ m.alloc /\ n \in Memory /\ m.alloc \subseteq n.alloc
  BY DEF Fresh, Puts
<1>3. n.page[f] = Zero /\ \A g \in m.alloc : n.page[g] = m.page[g]
  BY <1>2 DEF Memory
<1>4. [frame |-> f, writable |-> w].frame = f /\ [frame |-> f, writable |-> w].writable = w
  OBVIOUS
<1>5. \A b \in Address : Present(Lookup(m, r, b)) => Lookup(n, r, b) = Lookup(m, r, b)
  BY <1>1 DEF HasPut
<1>6. \A b \in Address : Present(Lookup(n, r, b)) /\ ~Present(Lookup(m, r, b)) =>
        b = a /\ Lookup(n, r, b).frame = f /\ Lookup(n, r, b).writable = w
  BY <1>1, <1>4 DEF HasPut
<1>7. Present(Lookup(n, r, a))
  BY <1>1 DEF HasPut
<1> QED
  BY <1>1, <1>2, <1>3, <1>5, <1>6, <1>7 DEF Extends, HasPut

-----------------------------------------------------------------------------
(* What happens to one address space leaves the others alone.              *)
Grows(m, n, r, X) ==
  /\ n \in Memory
  /\ m.alloc \subseteq n.alloc
  /\ \A f \in m.alloc \ Tables(m, r) : n.table[f] = m.table[f]
  /\ WellFormed(n, r)
  /\ Tables(n, r) \subseteq Tables(m, r) \cup Fresh(m, n)
  /\ Pages(n, r) \subseteq Pages(m, r) \cup Fresh(m, n) \cup X
  /\ PrivatePages(n, r) \subseteq PrivatePages(m, r) \cup Fresh(m, n)

LEMMA ExtendsGrows ==
  ASSUME NEW m \in Memory, NEW n, NEW r \in Frame, NEW w, NEW P, NEW X,
         Extends(m, n, r, w, P, X)
  PROVE  Grows(m, n, r, X)
  BY ExtendsPages DEF Extends, Grows

LEMMA SubSpaces ==
  ASSUME NEW m \in Memory, NEW R, NEW S \in SUBSET R, Spaces(m, R)
  PROVE  Spaces(m, S)
  BY DEF Spaces

LEMMA OthersStay ==
  ASSUME NEW m \in Memory, NEW n \in Memory, NEW R, NEW r \in R, NEW s \in R, Spaces(m, R), s # r,
         \A f \in m.alloc \ Tables(m, r) : n.table[f] = m.table[f]
  PROVE  SameSpace(m, n, s)
<1>1. WellFormed(m, s) /\ Apart(m, s, r) /\ s \in Frame
  BY DEF Spaces, WellFormed
<1>2. \A f \in Tables(m, s) : n.table[f] = m.table[f]
  BY <1>1 DEF WellFormed, Apart
<1> QED
  BY <1>1, <1>2, SameView

LEMMA GrowsApart ==
  ASSUME NEW m \in Memory, NEW n, NEW R, NEW r \in R, NEW X, Spaces(m, R), Grows(m, n, r, X),
         \A s \in R \ {r} : X \cap (Tables(m, s) \cup PrivatePages(m, s)) = {}
  PROVE  /\ Spaces(n, R)
         /\ \A s \in R \ {r} : SameSpace(m, n, s)
<1>1. n \in Memory /\ r \in Frame /\ m.alloc \subseteq n.alloc
  BY DEF Grows, Spaces, WellFormed
<1>2. ASSUME NEW s \in R \ {r}
      PROVE  SameSpace(m, n, s)
  BY <1>1, OthersStay DEF Grows
<1>3. ASSUME NEW s \in R \ {r}
      PROVE  /\ WellFormed(n, s)
             /\ Tables(m, s) \cup Pages(m, s) \subseteq m.alloc
             /\ s \in Frame
  <2>1. WellFormed(m, s)
    BY DEF Spaces
  <2> QED
    BY <1>1, <1>2, <2>1 DEF WellFormed, SameSpace
<1>4. ASSUME NEW s \in R \ {r}
      PROVE  Apart(n, r, s) /\ Apart(n, s, r)
  <2>1. Apart(m, r, s) /\ Apart(m, s, r)
    BY DEF Spaces
  <2>2. PrivatePages(m, s) \subseteq m.alloc
    BY <1>3, PagesAre
  <2>3. SameSpace(m, n, s)
    BY <1>2
  <2>4. Fresh(m, n) \cap m.alloc = {}
    BY DEF Fresh
  <2>5. Apart(n, r, s)
    BY <1>3, <2>1, <2>3, <2>4 DEF Apart, SameSpace, Grows
  <2>6. X \cap (Tables(m, s) \cup PrivatePages(m, s)) = {}
    OBVIOUS
  <2>7. Apart(n, s, r)
    BY <1>3, <2>1, <2>2, <2>3, <2>4, <2>6 DEF Apart, SameSpace, Grows
  <2> QED
    BY <2>5, <2>7
<1>5. ASSUME NEW s \in R \ {r}, NEW u \in R \ {r}, s # u
      PROVE  Apart(n, s, u)
  <2>1. Apart(m, s, u)
    BY <1>5 DEF Spaces
  <2> QED
    BY <1>2, <2>1 DEF Apart, SameSpace
<1>6. WellFormed(n, r)
  BY DEF Grows
<1> QED
  BY <1>2, <1>3, <1>4, <1>5, <1>6 DEF Spaces

(* A new top table.                                                        *)
LEMMA EmptySpace ==
  ASSUME NEW m \in Memory, NEW r \in Frame, m.table[r] = EmptyTable
  PROVE  /\ Tables(m, r) = {r} /\ Pages(m, r) = {} /\ PrivatePages(m, r) = {}
         /\ \A a \in Address : ~Present(Lookup(m, r, a))
         /\ r \in m.alloc => WellFormed(m, r)
<1>1. \A d \in Index : ~Present(m.table[r][d]) /\ m.table[r][d] = NotPresent
  BY EmptyIs
<1>2. Tables(m, r) = {r}
  BY <1>1 DEF Tables
<1>3. \A a \in Address : ~Present(Lookup(m, r, a))
  BY <1>1, LookupIs DEF Address
<1>4. Pages(m, r) = {} /\ PrivatePages(m, r) = {}
  BY <1>3, PagesAre
<1> QED
  BY <1>1, <1>2, <1>3, <1>4 DEF WellFormed

LEMMA NewSpace ==
  ASSUME NEW m \in Memory, NEW n, NEW R, NEW f, Spaces(m, R), Takes(m, n, f),
         NEW S, S = R \cup {f}
  PROVE  /\ Spaces(n, S)
         /\ \A s \in R : SameSpace(m, n, s) /\ s # f
         /\ n.table[f] = EmptyTable /\ f \in n.alloc
<1>1. n \in Memory /\ f \in Frame /\ f \notin m.alloc /\ n.alloc = m.alloc \cup {f}
  BY DEF Takes
<1>2. n.table[f] = EmptyTable /\ \A g \in m.alloc : n.table[g] = m.table[g]
  <2>1. m.alloc \subseteq Frame /\ m.table \in [Frame -> [Index -> EntryType]]
    BY DEF Memory
  <2> QED
    BY <1>1, <2>1 DEF Takes
<1>3. ASSUME NEW s \in R
      PROVE  /\ SameSpace(m, n, s) /\ WellFormed(n, s)
             /\ Tables(n, s) \cup Pages(n, s) \subseteq m.alloc /\ s # f /\ s \in Frame
  <2>1. WellFormed(m, s) /\ s \in Frame
    BY DEF Spaces, WellFormed
  <2>2. Tables(m, s) \cup Pages(m, s) \subseteq m.alloc /\ s \in m.alloc
    BY <2>1, TablesAre DEF WellFormed
  <2>3. SameSpace(m, n, s) /\ WellFormed(n, s)
    BY <1>1, <1>2, <2>1, <2>2, SameWellFormed
  <2> QED
    BY <1>1, <2>1, <2>2, <2>3 DEF SameSpace
<1>4. /\ Tables(n, f) = {f} /\ Pages(n, f) = {} /\ PrivatePages(n, f) = {}
      /\ WellFormed(n, f)
  BY <1>1, <1>2, EmptySpace
<1>5. ASSUME NEW s \in R, NEW u \in R, s # u
      PROVE  Apart(n, s, u)
  <2>1. Apart(m, s, u)
    BY <1>5 DEF Spaces
  <2> QED
    BY <1>3, <2>1 DEF Apart, SameSpace
<1>6. ASSUME NEW s \in R
      PROVE  Apart(n, s, f) /\ Apart(n, f, s)
  BY <1>1, <1>3, <1>4 DEF Apart
<1> QED
  BY <1>1, <1>2, <1>3, <1>4, <1>5, <1>6 DEF Spaces

-----------------------------------------------------------------------------
(* The assignments to entries.                                             *)
PutInto(m, n, t, i, e) ==
  /\ n \in Memory /\ n.alloc = m.alloc /\ n.page = m.page
  /\ \A g \in Frame \ {t} : n.table[g] = m.table[g]
  /\ n.table[t] = [m.table[t] EXCEPT ![i] = e]
  /\ \A j \in Index : n.table[t][j] = IF j = i THEN e ELSE m.table[t][j]

LEMMA PutIs ==
  ASSUME NEW m \in Memory, NEW t \in Frame, NEW i \in Index, NEW e \in EntryType,
         NEW n, n = Put(m, t, i, e)
  PROVE  PutInto(m, n, t, i, e)
<1>1. m.table \in [Frame -> [Index -> EntryType]] /\ m.table[t] \in [Index -> EntryType]
  BY DEF Memory
<1>2. n = [m EXCEPT !.table = [m.table EXCEPT ![t] = [m.table[t] EXCEPT ![i] = e]]]
  BY DEF Put
<1>3. [m.table[t] EXCEPT ![i] = e] \in [Index -> EntryType]
  BY <1>1
<1>4. [m.table EXCEPT ![t] = [m.table[t] EXCEPT ![i] = e]] \in [Frame -> [Index -> EntryType]]
  BY <1>1, <1>3
<1>5. n.table = [m.table EXCEPT ![t] = [m.table[t] EXCEPT ![i] = e]]
      /\ n.alloc = m.alloc /\ n.page = m.page
  BY <1>2 DEF Memory
<1>6. n \in Memory
  BY <1>2, <1>4 DEF Memory
<1>7. n.table[t] = [m.table[t] EXCEPT ![i] = e] /\ \A g \in Frame \ {t} : n.table[g] = m.table[g]
  BY <1>1, <1>5
<1> QED
  BY <1>1, <1>5, <1>6, <1>7 DEF PutInto

LEMMA MemoryIs ==
  ASSUME NEW m \in Memory, NEW n \in Memory, m.alloc = n.alloc, m.page = n.page,
         \A g \in Frame : m.table[g] = n.table[g]
  PROVE  m = n
<1>1. m.table \in [Frame -> [Index -> EntryType]] /\ n.table \in [Frame -> [Index -> EntryType]]
  BY DEF Memory
<1>2. m.table = n.table
  BY <1>1
<1> QED
  BY <1>2 DEF Memory

LEMMA PutSame ==
  ASSUME NEW m \in Memory, NEW t \in Frame, NEW i \in Index, NEW w \in BOOLEAN,
         m.table[t][i].writable = w
  PROVE  SetWritable(m, t, i, w) = m
<1> DEFINE e == m.table[t][i]
<1>1. e \in EntryType
  BY TableEntry
<1>2. [e EXCEPT !.writable = w] = e
  <2>1. [e EXCEPT !.writable = w] = [frame |-> e.frame, writable |-> w]
    BY <1>1, EntryExcept
  <2>2. e = [frame |-> e.frame, writable |-> e.writable]
    BY <1>1 DEF EntryType, NotPresent
  <2> QED
    BY <2>1, <2>2
<1>3. PICK n : n = Put(m, t, i, e)
  OBVIOUS
<1>4. /\ n \in Memory /\ n.alloc = m.alloc /\ n.page = m.page
      /\ \A g \in Frame \ {t} : n.table[g] = m.table[g]
      /\ n.table[t] = [m.table[t] EXCEPT ![i] = e]
  BY <1>1, <1>3, PutIs DEF PutInto
<1>5. n.table[t] = m.table[t]
  <2>1. m.table[t] \in [Index -> EntryType]
    BY DEF Memory
  <2> QED
    BY <1>4, <2>1
<1>6. n = m
  BY <1>4, <1>5, MemoryIs
<1> QED
  BY <1>2, <1>3, <1>6 DEF SetWritable

LEMMA PutTwice ==
  ASSUME NEW m \in Memory, NEW t \in Frame, NEW i \in Index, NEW d \in EntryType,
         NEW e \in EntryType
  PROVE  Put(Put(m, t, i, d), t, i, e) = Put(m, t, i, e)
<1>1. PICK o : o = Put(m, t, i, d)
  OBVIOUS
<1>2. PICK n : n = Put(m, t, i, e)
  OBVIOUS
<1>3. PICK p : p = Put(o, t, i, e)
  OBVIOUS
<1>4. /\ o \in Memory /\ o.alloc = m.alloc /\ o.page = m.page
      /\ \A g \in Frame \ {t} : o.table[g] = m.table[g]
      /\ o.table[t] = [m.table[t] EXCEPT ![i] = d]
  BY <1>1, PutIs DEF PutInto
<1>5. /\ n \in Memory /\ n.alloc = m.alloc /\ n.page = m.page
      /\ \A g \in Frame \ {t} : n.table[g] = m.table[g]
      /\ n.table[t] = [m.table[t] EXCEPT ![i] = e]
  BY <1>2, PutIs DEF PutInto
<1>6. /\ p \in Memory /\ p.alloc = o.alloc /\ p.page = o.page
      /\ \A g \in Frame \ {t} : p.table[g] = o.table[g]
      /\ p.table[t] = [o.table[t] EXCEPT ![i] = e]
  BY <1>3, <1>4, PutIs DEF PutInto
<1>7. p.table[t] = n.table[t]
  <2>1. m.table[t] \in [Index -> EntryType]
    BY DEF Memory
  <2> QED
    BY <1>4, <1>5, <1>6, <2>1
<1>8. p = n
  BY <1>4, <1>5, <1>6, <1>7, MemoryIs
<1> QED
  BY <1>1, <1>2, <1>3, <1>8

(* A frame is taken, cleared, and put into a table.                        *)
LEMMA PutsEntry ==
  ASSUME NEW m \in Memory, NEW o, NEW n, NEW f, NEW t \in Frame, NEW i \in Index,
         NEW w \in BOOLEAN, Takes(m, o, f), t \in m.alloc,
         n = Put(o, t, i, [frame |-> f, writable |-> w])
  PROVE  PutsNew(m, n, f, EmptyTable, t, i, w)
<1> DEFINE e == [frame |-> f, writable |-> w]
<1>1. /\ o \in Memory /\ f \in Frame \ m.alloc /\ o.alloc = m.alloc \cup {f}
      /\ o.table = [m.table EXCEPT ![f] = EmptyTable] /\ o.page = [m.page EXCEPT ![f] = Zero]
  BY DEF Takes
<1>2. e \in EntryType
  BY <1>1 DEF EntryType
<1>3. m.table \in [Frame -> [Index -> EntryType]]
  BY DEF Memory
<1>4. o.table[t] = m.table[t] /\ t # f /\ o.table[f] = EmptyTable
      /\ \A g \in Frame \ {f} : o.table[g] = m.table[g]
  BY <1>1, <1>3
<1>5. /\ n \in Memory /\ n.alloc = o.alloc /\ n.page = o.page
      /\ \A g \in Frame \ {t} : n.table[g] = o.table[g]
      /\ n.table[t] = [o.table[t] EXCEPT ![i] = e]
  <2>1. n = Put(o, t, i, e)
    OBVIOUS
  <2> HIDE DEF e
  <2>2. PutInto(o, n, t, i, e)
    BY <1>1, <1>2, <2>1, PutIs
  <2> QED
    BY <2>2 DEF PutInto
<1> QED
  BY <1>1, <1>4, <1>5 DEF Puts, PutsNew

(* SetNewPageMapIfNotPresent, with what its caller writes next to it.      *)
LEMMA SetNewIs ==
  ASSUME NEW m \in Memory, NEW t \in Frame, NEW i \in Index, NEW v \in BOOLEAN, t \in m.alloc,
         NEW new, new = SetNewPageMapIfNotPresent(m, t, i),
         NEW n, n = SetWritable(new.mem, t, i, v)
  PROVE  /\ Present(m.table[t][i]) => new.mem = m /\ new.frame = m.table[t][i].frame
         /\ ~Present(m.table[t][i]) =>
              \/ new.frame = NoFrame /\ new.mem = m
              \/ new.frame # NoFrame /\ PutsNew(m, n, new.frame, EmptyTable, t, i, v)
<1>1. CASE Present(m.table[t][i])
  BY <1>1 DEF SetNewPageMapIfNotPresent
<1>2. CASE ~Present(m.table[t][i])
  <2>1. PICK one : one = NewPageMap(m)
    OBVIOUS
  <2>2. CASE one.frame = NoFrame
    <3>1. new = one
      BY <1>2, <2>1, <2>2 DEF SetNewPageMapIfNotPresent
    <3> QED
      BY <1>2, <2>1, <2>2, <3>1, NewPageMapIs
  <2>3. CASE one.frame # NoFrame
    <3>1. PICK o, f : o = one.mem /\ f = one.frame
      OBVIOUS
    <3>2. Takes(m, o, f)
      BY <2>1, <2>3, <3>1, NewPageMapIs
    <3>3. o \in Memory /\ f \in Frame
      BY <3>2 DEF Takes
    <3> DEFINE d == [m.table[t][i] EXCEPT !.frame = f]
    <3>4. one = [mem |-> o, frame |-> f]
      BY <2>1, <2>3, <3>1 DEF NewPageMap
    <3>5. new = [mem |-> Put(o, t, i, d), frame |-> f]
      BY <1>2, <2>1, <2>3, <3>1, <3>4 DEF SetNewPageMapIfNotPresent
    <3>6. m.table[t][i] = NotPresent
      BY <1>2, TableEntry, EntryIs
    <3>7. d = [frame |-> f, writable |-> FALSE]
      <4>1. NotPresent \in EntryType /\ NotPresent.writable = FALSE
        BY DEF NotPresent, EntryType
      <4> QED
        BY <3>6, <4>1, EntryExcept
    <3> HIDE DEF d
    <3>8. d \in EntryType
      BY <3>3, <3>7 DEF EntryType
    <3>9. PICK p : p = Put(o, t, i, d)
      OBVIOUS
    <3>10. p.table[t][i] = d
      <4>1. PutInto(o, p, t, i, d)
        BY <3>3, <3>8, <3>9, PutIs
      <4> QED
        BY <4>1 DEF PutInto
    <3>11. [d EXCEPT !.writable = v] = [frame |-> f, writable |-> v]
      BY <3>7, <3>8, EntryExcept
    <3>12. [frame |-> f, writable |-> v] \in EntryType
      BY <3>3 DEF EntryType
    <3>13. n = Put(p, t, i, [frame |-> f, writable |-> v])
      BY <3>5, <3>9, <3>10, <3>11 DEF SetWritable
    <3>14. n = Put(o, t, i, [frame |-> f, writable |-> v])
      BY <3>3, <3>8, <3>9, <3>12, <3>13, PutTwice
    <3>15. PutsNew(m, n, f, EmptyTable, t, i, v)
      BY <3>2, <3>14, PutsEntry
    <3> QED
      BY <1>2, <2>3, <3>1, <3>5, <3>15
  <2> QED
    BY <2>2, <2>3
<1> QED
  BY <1>1, <1>2

-----------------------------------------------------------------------------
(* SetupPageMaps only adds pages, with new frames, at the addresses it is  *)
(* asked for.                                                              *)
Ready(m, r, w, P) ==
  \A a \in P : Present(Lookup(m, r, a)) => Lookup(m, r, a).writable = w

TableReady(m, n, r, i, f) ==
  /\ \A a \in Address : Lookup(n, r, a) = Lookup(m, r, a)
  /\ Present(n.table[r][i]) /\ n.table[r][i].frame = f

LEMMA SetupTable ==
  ASSUME NEW m \in Memory, NEW r \in Frame, NEW a \in Address, NEW w \in BOOLEAN, NEW P,
         WellFormed(m, r),
         NEW dir, dir = SetNewPageMapIfNotPresent(m, r, a[1]),
         NEW m1, m1 = SetWritable(dir.mem, r, a[1], TRUE), dir.frame # NoFrame
  PROVE  /\ Extends(m, m1, r, w, P, {})
         /\ TableReady(m, m1, r, a[1], dir.frame)
<1>1. a[1] \in Index /\ r \in m.alloc
  BY TablesAre DEF Address, WellFormed
<1>2. CASE Present(m.table[r][a[1]])
  <2>1. dir.mem = m /\ dir.frame = m.table[r][a[1]].frame
    BY <1>1, <1>2, SetNewIs
  <2>2. m.table[r][a[1]].writable = TRUE
    BY <1>1, <1>2, TableEntry, EntryIs DEF WellFormed
  <2>3. m1 = m
    <3>1. m1 = SetWritable(m, r, a[1], TRUE)
      BY <2>1
    <3> QED
      BY <1>1, <2>2, <3>1, PutSame
  <2> QED
    BY <1>2, <2>1, <2>3, ExtendsItself DEF TableReady
<1>3. CASE ~Present(m.table[r][a[1]])
  <2>1. PutsNew(m, m1, dir.frame, EmptyTable, r, a[1], TRUE)
    BY <1>1, <1>3, SetNewIs
  <2>2. Imports(m, r, a[1], EmptyTable, w, P, {})
    BY EmptyIs DEF Imports
  <2>3. EmptyTable \in [Index -> EntryType]
    BY EmptyIs
  <2>4. Extends(m, m1, r, w, P, {}) /\ HasTable(m, m1, r, a[1], dir.frame, EmptyTable)
    BY <1>1, <1>3, <2>1, <2>2, <2>3, AddTable
  <2>5. \A b \in Address : Lookup(m1, r, b) = Lookup(m, r, b)
    <3> SUFFICES ASSUME NEW b \in Address
                 PROVE  Lookup(m1, r, b) = Lookup(m, r, b)
      OBVIOUS
    <3>1. CASE b[1] = a[1]
      <4>1. Lookup(m1, r, b) = NotPresent
        BY <2>4, <3>1, EmptyIs DEF Address, HasTable
      <4>2. Lookup(m, r, b) = NotPresent
        BY <1>3, <3>1 DEF Lookup
      <4> QED
        BY <4>1, <4>2
    <3>2. CASE b[1] # a[1]
      BY <2>4, <3>2 DEF HasTable
    <3> QED
      BY <3>1, <3>2
  <2>6. m1.table[r][a[1]] = [frame |-> dir.frame, writable |-> TRUE]
    BY <1>1, <2>4 DEF HasTable
  <2>7. Present(m1.table[r][a[1]]) /\ m1.table[r][a[1]].frame = dir.frame
    <3>1. PICK e, f : e = m1.table[r][a[1]] /\ f = dir.frame
      OBVIOUS
    <3>2. e = [frame |-> f, writable |-> TRUE]
      BY <2>6, <3>1
    <3>3. Present(e) /\ e.frame = f
      BY <3>1, <3>2, EntryOf
    <3> QED
      BY <3>1, <3>3
  <2> QED
    BY <2>4, <2>5, <2>7 DEF TableReady
<1> QED
  BY <1>2, <1>3

LEMMA SetupPageIs ==
  ASSUME NEW m \in Memory, NEW r \in Frame, NEW P \in SUBSET Address, NEW a \in P,
         NEW w \in BOOLEAN, WellFormed(m, r), Ready(m, r, w, P),
         NEW res, res = SetupPage(m, r, a, w)
  PROVE  /\ Extends(m, res.mem, r, w, P, {})
         /\ res.ok \in BOOLEAN
         /\ res.ok => Present(Lookup(res.mem, r, a))
         /\ ~res.ok => Lookup(res.mem, r, a) = Lookup(m, r, a)
<1>1. PICK dir : dir = SetNewPageMapIfNotPresent(m, r, a[1])
  OBVIOUS
<1>2. PICK m1 : m1 = SetWritable(dir.mem, r, a[1], TRUE)
  OBVIOUS
<1>3. PICK new : new = SetNewPageMapIfNotPresent(m1, dir.frame, a[2])
  OBVIOUS
<1>4. res = IF dir.frame = NoFrame THEN [mem |-> m, ok |-> FALSE]
            ELSE IF new.frame = NoFrame THEN [mem |-> m1, ok |-> FALSE]
            ELSE [mem |-> SetWritable(new.mem, dir.frame, a[2], w), ok |-> TRUE]
  BY <1>1, <1>2, <1>3 DEF SetupPage
<1>5. CASE dir.frame = NoFrame
  BY <1>4, <1>5, ExtendsItself
<1>6. CASE dir.frame # NoFrame
  <2>0. Extends(m, m1, r, w, P, {}) /\ TableReady(m, m1, r, a[1], dir.frame)
    BY <1>1, <1>2, <1>6, SetupTable
  <2>1. /\ Extends(m, m1, r, w, P, {})
        /\ \A b \in Address : Lookup(m1, r, b) = Lookup(m, r, b)
        /\ Present(m1.table[r][a[1]]) /\ m1.table[r][a[1]].frame = dir.frame
    BY <2>0 DEF TableReady
  <2>2. m1 \in Memory /\ WellFormed(m1, r)
    BY <2>1 DEF Extends
  <2>3. CASE new.frame = NoFrame
    BY <1>4, <1>6, <2>1, <2>3
  <2>4. CASE new.frame # NoFrame
    <3>1. PICK n : n = SetWritable(new.mem, dir.frame, a[2], w)
      OBVIOUS
    <3>2. res.mem = n /\ res.ok = TRUE
      BY <1>4, <1>6, <2>4, <3>1
    <3>3. a[1] \in Index /\ a[2] \in Index
      BY DEF Address
    <3>4. dir.frame \in Frame /\ dir.frame \in m1.alloc
      BY <2>1, <2>2, <3>3, TablesAre DEF WellFormed
    <3>5. Lookup(m1, r, a) = m1.table[dir.frame][a[2]]
      BY <2>1 DEF Lookup
    <3>6. CASE Present(m1.table[dir.frame][a[2]])
      <4>1. new.mem = m1
        BY <1>3, <2>2, <3>3, <3>4, <3>6, SetNewIs
      <4>2. m1.table[dir.frame][a[2]].writable = w
        BY <2>1, <3>5, <3>6 DEF Ready
      <4>3. n = m1
        BY <2>2, <3>1, <3>3, <3>4, <4>1, <4>2, PutSame
      <4> QED
        BY <2>1, <3>2, <3>5, <3>6, <4>3
    <3>7. CASE ~Present(m1.table[dir.frame][a[2]])
      <4>1. PutsNew(m1, n, new.frame, EmptyTable, dir.frame, a[2], w)
        BY <1>3, <2>2, <2>4, <3>1, <3>3, <3>4, <3>7, SetNewIs
      <4>2. Extends(m1, n, r, w, P, {}) /\ Present(Lookup(n, r, a))
        BY <2>1, <2>2, <3>5, <3>7, <4>1, AddPage
      <4>3. Extends(m, n, r, w, P, {})
        BY <2>1, <4>2, ExtendsOn
      <4> QED
        BY <3>2, <4>2, <4>3
    <3> QED
      BY <3>6, <3>7
  <2> QED
    BY <2>3, <2>4
<1> QED
  BY <1>5, <1>6

(* Page after page.                                                        *)
SetupOn(q, r, a, w) == IF q.ok THEN SetupPage(q.mem, r, a, w) ELSE q

SetupUpTo(f, n, m, r, pages, w) ==
  f = [k \in 0 .. n |-> IF k = 0 THEN [mem |-> m, ok |-> TRUE]
                        ELSE SetupOn(f[k - 1], r, pages[k], w)]

LEMMA SetupUpToExists ==
  ASSUME NEW m, NEW r, NEW pages, NEW w, NEW n \in Nat
  PROVE  \E f : SetupUpTo(f, n, m, r, pages, w)
<1> DEFINE T == {x \in Nat : ~ \E f : SetupUpTo(f, x, m, r, pages, w)}
<1>1. SUFFICES ASSUME T # {}
               PROVE  FALSE
  BY <1>1
<1>2. PICK x \in T : \A y \in T : x <= y
  BY <1>1, LeastNumber
<1>3. x # 0
  <2>1. SetupUpTo([k \in 0 .. 0 |-> [mem |-> m, ok |-> TRUE]], 0, m, r, pages, w)
    BY DEF SetupUpTo
  <2> QED
    BY <2>1
<1>4. x - 1 \in Nat /\ x - 1 \notin T
  BY <1>2, <1>3
<1>5. PICK f : SetupUpTo(f, x - 1, m, r, pages, w)
  BY <1>4
<1> DEFINE g == [k \in 0 .. x |-> IF k = x THEN SetupOn(f[x - 1], r, pages[x], w) ELSE f[k]]
<1>6. \A k \in 0 .. x - 1 : g[k] = f[k]
  OBVIOUS
<1>7. g[x] = SetupOn(f[x - 1], r, pages[x], w)
  OBVIOUS
<1>8. \A k \in 0 .. x : g[k] = IF k = 0 THEN [mem |-> m, ok |-> TRUE]
                               ELSE SetupOn(g[k - 1], r, pages[k], w)
  <2> SUFFICES ASSUME NEW k \in 0 .. x
               PROVE  g[k] = IF k = 0 THEN [mem |-> m, ok |-> TRUE]
                             ELSE SetupOn(g[k - 1], r, pages[k], w)
    OBVIOUS
  <2>1. CASE k = x
    <3>1. g[x - 1] = f[x - 1]
      BY <1>4, <1>6
    <3> QED
      BY <1>3, <1>7, <2>1, <3>1
  <2>2. CASE k # x
    <3>1. k \in 0 .. x - 1
      BY <2>2
    <3>2. f[k] = IF k = 0 THEN [mem |-> m, ok |-> TRUE]
                 ELSE SetupOn(f[k - 1], r, pages[k], w)
      BY <1>5, <3>1 DEF SetupUpTo
    <3>3. CASE k = 0
      BY <1>6, <3>1, <3>2, <3>3
    <3>4. CASE k # 0
      <4>1. g[k - 1] = f[k - 1] /\ g[k] = f[k]
        BY <1>6, <3>1, <3>4
      <4> QED
        BY <3>2, <3>4, <4>1
    <3> QED
      BY <3>3, <3>4
  <2> QED
    BY <2>1, <2>2
<1>9. SetupUpTo(g, x, m, r, pages, w)
  <2>1. g = [k \in 0 .. x |-> g[k]]
    OBVIOUS
  <2> HIDE DEF g
  <2> QED
    BY <1>8, <2>1 DEF SetupUpTo
<1> QED
  BY <1>9

LEMMA SetupPageMapsAre ==
  ASSUME NEW m, NEW r, NEW pages, NEW w, Len(pages) \in Nat
  PROVE  \E f : /\ SetupUpTo(f, Len(pages), m, r, pages, w)
                /\ SetupPageMaps(m, r, pages, w) = f[Len(pages)]
<1> DEFINE F == CHOOSE f : SetupUpTo(f, Len(pages), m, r, pages, w)
<1>1. SetupUpTo(F, Len(pages), m, r, pages, w)
  BY SetupUpToExists
<1>2. SetupPageMaps(m, r, pages, w) = F[Len(pages)]
  BY DEF SetupPageMaps, SetupUpTo, SetupOn
<1> QED
  BY <1>1, <1>2

LEMMA ReadyOn ==
  ASSUME NEW m, NEW n, NEW r, NEW w, NEW P \in SUBSET Address, NEW X,
         Ready(m, r, w, P), Extends(m, n, r, w, P, X)
  PROVE  Ready(n, r, w, P)
<1> SUFFICES ASSUME NEW a \in P, Present(Lookup(n, r, a))
             PROVE  Lookup(n, r, a).writable = w
  BY DEF Ready
<1>1. CASE Present(Lookup(m, r, a))
  BY <1>1 DEF Ready, Extends
<1>2. CASE ~Present(Lookup(m, r, a))
  BY <1>2 DEF Extends
<1> QED
  BY <1>1, <1>2

LEMMA SetupPagesIs ==
  ASSUME NEW m \in Memory, NEW r \in Frame, NEW P \in SUBSET Address, NEW pages \in Seq(P),
         NEW w \in BOOLEAN, WellFormed(m, r), Ready(m, r, w, P),
         NEW res, res = SetupPageMaps(m, r, pages, w)
  PROVE  /\ Extends(m, res.mem, r, w, P, {})
         /\ res.ok \in BOOLEAN
         /\ res.ok => \A a \in Range(pages) : Present(Lookup(res.mem, r, a))
<1>1. Len(pages) \in Nat
  OBVIOUS
<1>2. PICK f : /\ SetupUpTo(f, Len(pages), m, r, pages, w)
               /\ res = f[Len(pages)]
  BY <1>1, SetupPageMapsAre
<1> DEFINE Done(q, k) ==
             /\ Extends(m, q.mem, r, w, P, {})
             /\ q.ok \in BOOLEAN
             /\ q.ok => \A j \in 1 .. k : Present(Lookup(q.mem, r, pages[j]))
           T == {k \in 0 .. Len(pages) : ~Done(f[k], k)}
<1>3. T = {}
  <2> SUFFICES ASSUME T # {}
               PROVE  FALSE
    OBVIOUS
  <2>1. T \subseteq Nat
    BY <1>1
  <2> HIDE DEF T
  <2>2. PICK k \in T : \A y \in T : k <= y
    BY <2>1, LeastNumber
  <2>3. k \in 0 .. Len(pages) /\ ~Done(f[k], k)
    BY <2>2 DEF T
  <2>4. f[k] = IF k = 0 THEN [mem |-> m, ok |-> TRUE] ELSE SetupOn(f[k - 1], r, pages[k], w)
    BY <1>2, <2>3 DEF SetupUpTo
  <2>5. CASE k = 0
    <3>1. PICK z : z = f[k]
      OBVIOUS
    <3>2. z.mem = m /\ z.ok = TRUE
      BY <2>4, <2>5, <3>1
    <3>3. Extends(m, z.mem, r, w, P, {})
      BY <3>2, ExtendsItself
    <3>4. \A j \in 1 .. k : Present(Lookup(z.mem, r, pages[j]))
      BY <2>5
    <3> QED
      BY <2>3, <3>1, <3>2, <3>3, <3>4
  <2>6. CASE k # 0
    <3>1. k - 1 \in 0 .. Len(pages) /\ ~(k <= k - 1)
      BY <1>1, <2>3, <2>6
    <3>2. Done(f[k - 1], k - 1)
      BY <2>2, <3>1 DEF T
    <3>3. PICK q, z : q = f[k - 1] /\ z = f[k]
      OBVIOUS
    <3>4. z = SetupOn(q, r, pages[k], w) /\ Done(q, k - 1) /\ ~Done(z, k)
      BY <2>3, <2>4, <2>6, <3>2, <3>3
    <3>5. CASE ~q.ok
      <4>1. z = q
        BY <3>4, <3>5 DEF SetupOn
      <4> QED
        BY <3>4, <3>5, <4>1
    <3>6. CASE q.ok
      <4>1. z = SetupPage(q.mem, r, pages[k], w)
        BY <3>4, <3>6 DEF SetupOn
      <4>2. pages[k] \in P
        BY <2>3, <2>6
      <4>3. q.mem \in Memory /\ WellFormed(q.mem, r) /\ Ready(q.mem, r, w, P)
        BY <3>4, ReadyOn DEF Extends
      <4>4. /\ Extends(q.mem, z.mem, r, w, P, {}) /\ z.ok \in BOOLEAN
            /\ z.ok => Present(Lookup(z.mem, r, pages[k]))
        BY <4>1, <4>2, <4>3, SetupPageIs
      <4>5. Extends(m, z.mem, r, w, P, {})
        BY <3>4, <4>4, ExtendsOn
      <4>6. ASSUME z.ok, NEW j \in 1 .. k
            PROVE  Present(Lookup(z.mem, r, pages[j]))
        <5>1. CASE j = k
          BY <4>4, <4>6, <5>1
        <5>2. CASE j # k
          <6>1. j \in 1 .. k - 1 /\ pages[j] \in Address
            BY <2>3, <5>2
          <6>2. Present(Lookup(q.mem, r, pages[j]))
            BY <3>4, <3>6, <6>1
          <6> QED
            BY <4>4, <6>1, <6>2 DEF Extends
        <5> QED
          BY <5>1, <5>2
      <4> QED
        BY <3>4, <4>4, <4>5, <4>6
    <3> QED
      BY <3>5, <3>6
  <2> QED
    BY <2>5, <2>6
<1>4. Done(res, Len(pages))
  BY <1>1, <1>2, <1>3
<1>5. \A a \in Range(pages) : \E j \in 1 .. Len(pages) : a = pages[j]
  BY DEF Range
<1> QED
  BY <1>4, <1>5

-----------------------------------------------------------------------------
(* CopyPageMaps maps the pages of src, none of them writable, in tables of *)
(* its own: src has none of its own pages writable.                        *)
Copied(m, dest, src, k) ==
  /\ \A a \in Address : Present(Lookup(m, dest, a)) =>
       /\ a[1] < k /\ Present(Lookup(m, src, a))
       /\ Lookup(m, dest, a) = [frame |-> Lookup(m, src, a).frame, writable |-> FALSE]
  /\ \A d \in Index : d >= k => ~Present(m.table[dest][d])

CopiedAll(m, dest, src, k) ==
  \A a \in Address : a[1] < k /\ Present(Lookup(m, src, a)) => Present(Lookup(m, dest, a))

Copying(m, dest, src) ==
  /\ m \in Memory /\ dest \in Frame /\ src \in Frame /\ dest # src
  /\ Spaces(m, {dest, src})
  /\ PrivatePages(m, src) = {}

(* The addresses of the pages of src.                                      *)
Used(m, src) == {a \in Address : Present(Lookup(m, src, a))}

LEMMA ReadOnlyIs ==
  ASSUME NEW table \in [Index -> EntryType]
  PROVE  /\ ReadOnly(table) \in [Index -> EntryType]
         /\ \A j \in Index : ReadOnly(table)[j] = [frame |-> table[j].frame, writable |-> FALSE]
         /\ \A j \in Index : Present(ReadOnly(table)[j]) <=> Present(table[j])
<1>1. ASSUME NEW j \in Index
      PROVE  /\ ReadOnly(table)[j] = [frame |-> table[j].frame, writable |-> FALSE]
             /\ ReadOnly(table)[j] \in EntryType
             /\ Present(ReadOnly(table)[j]) <=> Present(table[j])
  <2>1. PICK e : e = table[j]
    OBVIOUS
  <2>2. e \in EntryType
    BY <2>1
  <2>3. ReadOnly(table)[j] = [e EXCEPT !.writable = FALSE]
    BY <2>1 DEF ReadOnly
  <2>4. ReadOnly(table)[j] = [frame |-> e.frame, writable |-> FALSE]
    BY <2>2, <2>3, EntryExcept
  <2>5. [frame |-> e.frame, writable |-> FALSE] \in EntryType
    <3>1. CASE Present(e)
      <4>1. e.frame \in Frame
        BY <2>2, <3>1, EntryIs
      <4> QED
        BY <4>1 DEF EntryType
    <3>2. CASE ~Present(e)
      <4>1. e = NotPresent
        BY <2>2, <3>2, EntryIs
      <4> QED
        BY <4>1 DEF EntryType, NotPresent
    <3> QED
      BY <3>1, <3>2
  <2>6. Present(ReadOnly(table)[j]) <=> Present(e)
    BY <2>4, EntryOf DEF Present
  <2> QED
    BY <2>1, <2>4, <2>5, <2>6
<1>2. ReadOnly(table) \in [Index -> EntryType]
  <2>1. ReadOnly(table) = [j \in Index |-> ReadOnly(table)[j]]
    BY DEF ReadOnly
  <2> QED
    BY <1>1, <2>1
<1> QED
  BY <1>1, <1>2

(* The table of entry i, if there is a frame for it.                       *)
LEMMA CopyTableTakes ==
  ASSUME NEW m, NEW dest, NEW src, Copying(m, dest, src), NEW i \in Index,
         Present(m.table[src][i]), NEW one, one = NewPageMap(m), one.frame # NoFrame,
         NEW n, n = CopyTable(m, dest, src, i).mem,
         NEW T, T = ReadOnly(m.table[m.table[src][i].frame])
  PROVE  PutsNew(m, n, one.frame, T, dest, i, TRUE)
<1>1. PICK o, f : o = one.mem /\ f = one.frame
  OBVIOUS
<1>2. m \in Memory /\ WellFormed(m, src) /\ WellFormed(m, dest) /\ dest \in Frame /\ src \in Frame
  BY DEF Copying, Spaces
<1>3. Takes(m, o, f)
  BY <1>1, <1>2, NewPageMapIs
<1>4. o \in Memory /\ f \in Frame \ m.alloc
  BY <1>3 DEF Takes
<1>5. PICK e : e = m.table[src][i]
  OBVIOUS
<1>6. e \in EntryType /\ e.writable = TRUE /\ e.frame \in Frame
  BY <1>2, <1>5, TableEntry, EntryIs DEF WellFormed
<1>7. [e EXCEPT !.frame = f] = [frame |-> f, writable |-> TRUE]
  BY <1>6, EntryExcept
<1>8. PICK p : p = Put(o, dest, i, [frame |-> f, writable |-> TRUE])
  OBVIOUS
<1>9. n = [p EXCEPT !.table[f] = T]
  BY <1>1, <1>5, <1>7, <1>8 DEF CopyTable
<1>10. dest \in m.alloc /\ dest # f
  BY <1>2, <1>4, TablesAre DEF WellFormed
<1>11. PutsNew(m, p, f, EmptyTable, dest, i, TRUE)
  BY <1>2, <1>3, <1>8, <1>10, PutsEntry
<1>12. p \in Memory
  BY <1>11 DEF PutsNew, Puts
<1>13. T \in [Index -> EntryType]
  <2>1. m.table[e.frame] \in [Index -> EntryType]
    BY <1>2, <1>6 DEF Memory
  <2> QED
    BY <1>5, <2>1, ReadOnlyIs
<1>14. /\ n.alloc = p.alloc /\ n.page = p.page /\ n.table = [p.table EXCEPT ![f] = T]
       /\ n \in Memory
  <2>1. p.table \in [Frame -> [Index -> EntryType]]
    BY <1>12 DEF Memory
  <2>2. [p.table EXCEPT ![f] = T] \in [Frame -> [Index -> EntryType]]
    BY <1>13, <2>1
  <2> QED
    BY <1>9, <1>12, <2>2 DEF Memory
<1>15. n.table[f] = T /\ \A g \in Frame \ {f} : n.table[g] = p.table[g]
  BY <1>4, <1>12, <1>14 DEF Memory
<1>16. Puts(m, n, f, dest, i, TRUE)
  <2>1. Puts(m, p, f, dest, i, TRUE)
    BY <1>11 DEF PutsNew
  <2> QED
    BY <1>2, <1>10, <1>14, <1>15, <2>1 DEF Puts
<1>17. PutsNew(m, n, f, T, dest, i, TRUE)
  BY <1>11, <1>14, <1>15, <1>16 DEF PutsNew
<1> QED
  BY <1>1, <1>17

Mirrors(m, src, i, T) ==
  \A a \in Address : a[1] = i =>
    /\ T[a[2]] = [frame |-> Lookup(m, src, a).frame, writable |-> FALSE]
    /\ Present(T[a[2]]) <=> Present(Lookup(m, src, a))

LEMMA CopyTableImports ==
  ASSUME NEW m, NEW dest, NEW src, Copying(m, dest, src), NEW i \in Index,
         Copied(m, dest, src, i), Present(m.table[src][i]),
         NEW T, T = ReadOnly(m.table[m.table[src][i].frame])
  PROVE  /\ Imports(m, dest, i, T, FALSE, Used(m, src), Pages(m, src))
         /\ T \in [Index -> EntryType]
         /\ Mirrors(m, src, i, T)
<1>1. m \in Memory /\ dest \in Frame /\ src \in Frame /\ WellFormed(m, src) /\ Apart(m, dest, src)
  BY DEF Copying, Spaces
<1>2. m.table[src][i].frame \in Frame
  BY <1>1, TableEntry, EntryIs
<1>3. m.table[m.table[src][i].frame] \in [Index -> EntryType]
  BY <1>1, <1>2 DEF Memory
<1>4. /\ T \in [Index -> EntryType]
      /\ \A j \in Index : T[j] = [frame |-> m.table[m.table[src][i].frame][j].frame,
                                  writable |-> FALSE]
      /\ \A j \in Index : Present(T[j]) <=> Present(m.table[m.table[src][i].frame][j])
  BY <1>3, ReadOnlyIs
<1>5. \A a \in Address : a[1] = i =>
        /\ a[2] \in Index
        /\ Lookup(m, src, a) = m.table[m.table[src][i].frame][a[2]]
  BY DEF Lookup, Address
<1>6. Mirrors(m, src, i, T)
  BY <1>4, <1>5 DEF Mirrors
<1>7. ASSUME NEW j \in Index, Present(T[j])
      PROVE  /\ ~T[j].writable /\ ~FALSE /\ <<i, j>> \in Used(m, src)
             /\ T[j].frame \in Pages(m, src) /\ T[j].frame \in m.alloc
             /\ T[j].frame \notin Tables(m, dest) \cup Pages(m, dest)
             /\ \A k \in Index : T[k].frame = T[j].frame => k = j
  <2>1. PICK a : a = <<i, j>>
    OBVIOUS
  <2>2. a \in Address /\ a[1] = i /\ a[2] = j
    BY <2>1 DEF Address
  <2>3. T[j] = [frame |-> Lookup(m, src, a).frame, writable |-> FALSE]
        /\ Present(Lookup(m, src, a))
    BY <1>6, <1>7, <2>2 DEF Mirrors
  <2>4. T[j].frame = Lookup(m, src, a).frame /\ ~T[j].writable
    BY <2>3
  <2>5. Lookup(m, src, a).frame \in Pages(m, src)
    BY <1>1, <2>2, <2>3, PagesAre
  <2>6. Lookup(m, src, a).frame \in m.alloc /\ Lookup(m, src, a).frame \notin Tables(m, dest)
    BY <1>1, <2>5 DEF WellFormed, Apart
  <2>7. Lookup(m, src, a).frame \notin Pages(m, dest)
    <3> SUFFICES ASSUME Lookup(m, src, a).frame \in Pages(m, dest)
                 PROVE  FALSE
      OBVIOUS
    <3>1. PICK b \in Address : /\ Present(Lookup(m, dest, b))
                               /\ Lookup(m, src, a).frame = Lookup(m, dest, b).frame
      BY <1>1, PagesAre
    <3>2. /\ b[1] < i /\ Present(Lookup(m, src, b))
          /\ Lookup(m, dest, b) = [frame |-> Lookup(m, src, b).frame, writable |-> FALSE]
      BY <3>1 DEF Copied
    <3>3. Lookup(m, dest, b).frame = Lookup(m, src, b).frame
      <4>1. PICK d, e : d = Lookup(m, dest, b) /\ e = Lookup(m, src, b).frame
        OBVIOUS
      <4>2. d = [frame |-> e, writable |-> FALSE]
        BY <3>2, <4>1
      <4>3. d.frame = e
        BY <4>2, EntryOf
      <4> QED
        BY <4>1, <4>3
    <3>4. a = b
      BY <1>1, <2>2, <2>3, <3>1, <3>3 DEF WellFormed
    <3> QED
      BY <2>2, <3>2, <3>4 DEF Index
  <2>8. ASSUME NEW k \in Index, T[k].frame = T[j].frame
        PROVE  k = j
    <3>2. PICK b \in Address : b[1] = i /\ b[2] = k
      BY AddressOf
    <3>3. T[k] = [frame |-> Lookup(m, src, b).frame, writable |-> FALSE]
      BY <1>6, <3>2 DEF Mirrors
    <3>4. Lookup(m, src, b).frame = Lookup(m, src, a).frame
      <4>1. T[k].frame = Lookup(m, src, b).frame
        BY <3>3, EntryOf
      <4> QED
        BY <2>4, <2>8, <4>1
    <3>5. a = b
      BY <1>1, <2>2, <2>3, <3>2, <3>4 DEF WellFormed
    <3> QED
      BY <2>2, <3>2, <3>5
  <2>9. a \in Used(m, src)
    BY <2>2, <2>3 DEF Used
  <2> QED
    BY <2>1, <2>4, <2>5, <2>6, <2>7, <2>8, <2>9
<1>8. Imports(m, dest, i, T, FALSE, Used(m, src), Pages(m, src))
  BY <1>7 DEF Imports
<1> QED
  BY <1>4, <1>6, <1>8

(* Extending dest by pages of src leaves both as they should be.           *)
LEMMA CopyingOn ==
  ASSUME NEW m, NEW n, NEW dest, NEW src, Copying(m, dest, src), NEW P,
         Extends(m, n, dest, FALSE, P, Pages(m, src))
  PROVE  /\ Copying(n, dest, src)
         /\ SameSpace(m, n, src)
<1>1. m \in Memory /\ dest \in Frame /\ src \in Frame /\ WellFormed(m, src)
  BY DEF Copying, Spaces
<1>2. Grows(m, n, dest, Pages(m, src))
  BY <1>1, ExtendsGrows
<1>3. \A s \in {dest, src} \ {dest} :
        Pages(m, src) \cap (Tables(m, s) \cup PrivatePages(m, s)) = {}
  BY <1>1 DEF Copying, WellFormed
<1>4. Spaces(n, {dest, src}) /\ \A s \in {dest, src} \ {dest} : SameSpace(m, n, s)
  BY <1>1, <1>2, <1>3, GrowsApart DEF Copying
<1>5. SameSpace(m, n, src)
  BY <1>4 DEF Copying
<1> QED
  BY <1>1, <1>2, <1>4, <1>5 DEF Copying, SameSpace, Grows

LEMMA CopyTableIs ==
  ASSUME NEW m, NEW dest, NEW src, Copying(m, dest, src), NEW i \in Index,
         Copied(m, dest, src, i), NEW res, res = CopyTable(m, dest, src, i)
  PROVE  /\ Extends(m, res.mem, dest, FALSE, Used(m, src), Pages(m, src))
         /\ res.ok \in BOOLEAN
         /\ Copied(res.mem, dest, src, i + 1)
         /\ res.ok /\ CopiedAll(m, dest, src, i) => CopiedAll(res.mem, dest, src, i + 1)
<1>1. m \in Memory /\ dest \in Frame /\ src \in Frame /\ WellFormed(m, dest) /\ WellFormed(m, src)
  BY DEF Copying, Spaces
<1>2. \A a \in Address : a[1] \in Index /\ (a[1] < i => a[1] < i + 1)
        /\ (a[1] < i + 1 => a[1] < i \/ a[1] = i)
  BY DEF Address, Index
<1>3. \A d \in Index : d >= i + 1 => d >= i /\ d # i
  BY DEF Index
<1>4. Copied(m, dest, src, i + 1)
  BY <1>2, <1>3 DEF Copied
<1>5. CASE ~Present(m.table[src][i])
  <2>1. res.mem = m /\ res.ok = TRUE
    BY <1>5 DEF CopyTable
  <2>2. \A a \in Address : a[1] = i => ~Present(Lookup(m, src, a))
    BY <1>1, <1>5, LookupIs
  <2>3. CopiedAll(m, dest, src, i) => CopiedAll(m, dest, src, i + 1)
    BY <1>2, <2>2 DEF CopiedAll
  <2> QED
    BY <1>1, <1>4, <2>1, <2>3, ExtendsItself
<1>6. CASE Present(m.table[src][i])
  <2>1. PICK one : one = NewPageMap(m)
    OBVIOUS
  <2>2. CASE one.frame = NoFrame
    <3>1. res.mem = m /\ res.ok = FALSE
      BY <1>6, <2>1, <2>2 DEF CopyTable
    <3> QED
      BY <1>1, <1>4, <3>1, ExtendsItself
  <2>3. CASE one.frame # NoFrame
    <3>1. res.ok = TRUE
      BY <1>6, <2>1, <2>3 DEF CopyTable
    <3>2. PICK n, T, f : n = res.mem /\ T = ReadOnly(m.table[m.table[src][i].frame]) /\ f = one.frame
      OBVIOUS
    <3>3. PutsNew(m, n, f, T, dest, i, TRUE)
      BY <1>6, <2>1, <2>3, <3>2, CopyTableTakes
    <3>4. /\ Imports(m, dest, i, T, FALSE, Used(m, src), Pages(m, src))
          /\ T \in [Index -> EntryType]
          /\ Mirrors(m, src, i, T)
      BY <1>6, <3>2, CopyTableImports
    <3>5. ~Present(m.table[dest][i])
      BY DEF Copied, Index
    <3>6. /\ Extends(m, n, dest, FALSE, Used(m, src), Pages(m, src))
          /\ HasTable(m, n, dest, i, f, T)
      BY <1>1, <3>3, <3>4, <3>5, AddTable
    <3>7. Copying(n, dest, src) /\ SameSpace(m, n, src)
      BY <3>6, CopyingOn
    <3>8. \A a \in Address : Lookup(n, src, a) = Lookup(m, src, a)
      BY <3>7 DEF SameSpace
    <3>9. \A a \in Address : Lookup(n, dest, a) = IF a[1] = i THEN T[a[2]] ELSE Lookup(m, dest, a)
      BY <3>6 DEF HasTable
    <3>10. Copied(n, dest, src, i + 1)
      <4>1. ASSUME NEW a \in Address, Present(Lookup(n, dest, a))
            PROVE  /\ a[1] < i + 1 /\ Present(Lookup(n, src, a))
                   /\ Lookup(n, dest, a) = [frame |-> Lookup(n, src, a).frame, writable |-> FALSE]
        <5>1. CASE a[1] = i
          <6>1. Lookup(n, dest, a) = T[a[2]]
            BY <3>9, <5>1
          <6>2. a[1] < i + 1
            BY <5>1 DEF Index
          <6> QED
            BY <3>4, <3>8, <4>1, <5>1, <6>1, <6>2 DEF Mirrors
        <5>2. CASE a[1] # i
          <6>1. Lookup(n, dest, a) = Lookup(m, dest, a)
            BY <3>9, <5>2
          <6>2. /\ a[1] < i /\ Present(Lookup(m, src, a))
                /\ Lookup(m, dest, a) = [frame |-> Lookup(m, src, a).frame, writable |-> FALSE]
            BY <4>1, <6>1 DEF Copied
          <6> QED
            BY <1>2, <3>8, <6>1, <6>2
        <5> QED
          BY <5>1, <5>2
      <4>2. \A d \in Index : d >= i + 1 => n.table[dest][d] = m.table[dest][d]
        BY <1>3, <3>6 DEF HasTable
      <4>3. \A d \in Index : d >= i + 1 => ~Present(n.table[dest][d])
        BY <1>3, <4>2 DEF Copied
      <4> QED
        BY <4>1, <4>3 DEF Copied
    <3>11. CopiedAll(m, dest, src, i) => CopiedAll(n, dest, src, i + 1)
      BY <1>2, <3>4, <3>8, <3>9 DEF CopiedAll, Mirrors
    <3> QED
      BY <3>1, <3>2, <3>6, <3>10, <3>11
  <2> QED
    BY <2>2, <2>3
<1> QED
  BY <1>5, <1>6

(* Table after table.                                                      *)
CopyOn(q, dest, src, i) == IF q.ok THEN CopyTable(q.mem, dest, src, i) ELSE q

CopyUpTo(f, n, m, dest, src) ==
  f = [k \in 0 .. n |-> IF k = 0 THEN [mem |-> m, ok |-> TRUE]
                        ELSE CopyOn(f[k - 1], dest, src, k - 1)]

LEMMA CopyUpToExists ==
  ASSUME NEW m, NEW dest, NEW src, NEW n \in Nat
  PROVE  \E f : CopyUpTo(f, n, m, dest, src)
<1> DEFINE T == {x \in Nat : ~ \E f : CopyUpTo(f, x, m, dest, src)}
<1>1. SUFFICES ASSUME T # {}
               PROVE  FALSE
  BY <1>1
<1>2. PICK x \in T : \A y \in T : x <= y
  BY <1>1, LeastNumber
<1>3. x # 0
  <2>1. CopyUpTo([k \in 0 .. 0 |-> [mem |-> m, ok |-> TRUE]], 0, m, dest, src)
    BY DEF CopyUpTo
  <2> QED
    BY <2>1
<1>4. x - 1 \in Nat /\ x - 1 \notin T
  BY <1>2, <1>3
<1>5. PICK f : CopyUpTo(f, x - 1, m, dest, src)
  BY <1>4
<1> DEFINE g == [k \in 0 .. x |-> IF k = x THEN CopyOn(f[x - 1], dest, src, x - 1) ELSE f[k]]
<1>6. \A k \in 0 .. x - 1 : g[k] = f[k]
  OBVIOUS
<1>7. g[x] = CopyOn(f[x - 1], dest, src, x - 1)
  OBVIOUS
<1>8. \A k \in 0 .. x : g[k] = IF k = 0 THEN [mem |-> m, ok |-> TRUE]
                               ELSE CopyOn(g[k - 1], dest, src, k - 1)
  <2> SUFFICES ASSUME NEW k \in 0 .. x
               PROVE  g[k] = IF k = 0 THEN [mem |-> m, ok |-> TRUE]
                             ELSE CopyOn(g[k - 1], dest, src, k - 1)
    OBVIOUS
  <2>1. CASE k = x
    <3>1. g[x - 1] = f[x - 1]
      BY <1>4, <1>6
    <3> QED
      BY <1>3, <1>7, <2>1, <3>1
  <2>2. CASE k # x
    <3>1. k \in 0 .. x - 1
      BY <2>2
    <3>2. f[k] = IF k = 0 THEN [mem |-> m, ok |-> TRUE]
                 ELSE CopyOn(f[k - 1], dest, src, k - 1)
      BY <1>5, <3>1 DEF CopyUpTo
    <3>3. CASE k = 0
      BY <1>6, <3>1, <3>2, <3>3
    <3>4. CASE k # 0
      <4>1. g[k - 1] = f[k - 1] /\ g[k] = f[k]
        BY <1>6, <3>1, <3>4
      <4> QED
        BY <3>2, <3>4, <4>1
    <3> QED
      BY <3>3, <3>4
  <2> QED
    BY <2>1, <2>2
<1>9. CopyUpTo(g, x, m, dest, src)
  <2>1. g = [k \in 0 .. x |-> g[k]]
    OBVIOUS
  <2> HIDE DEF g
  <2> QED
    BY <1>8, <2>1 DEF CopyUpTo
<1> QED
  BY <1>9

LEMMA CopyPageMapsAre ==
  ASSUME NEW m, NEW dest, NEW src
  PROVE  \E f : /\ CopyUpTo(f, TableSize, m, dest, src)
                /\ CopyPageMaps(m, dest, src) = f[TableSize]
<1> DEFINE F == CHOOSE f : CopyUpTo(f, TableSize, m, dest, src)
<1>1. CopyUpTo(F, TableSize, m, dest, src)
  BY CopyUpToExists, SizeAssumption
<1>2. CopyPageMaps(m, dest, src) = F[TableSize]
  BY DEF CopyPageMaps, CopyUpTo, CopyOn
<1> QED
  BY <1>1, <1>2

LEMMA CopyPageMapsIs ==
  ASSUME NEW m, NEW dest, NEW src, Copying(m, dest, src), m.table[dest] = EmptyTable,
         NEW res, res = CopyPageMaps(m, dest, src)
  PROVE  /\ Extends(m, res.mem, dest, FALSE, Used(m, src), Pages(m, src))
         /\ res.ok \in BOOLEAN
         /\ Copying(res.mem, dest, src) /\ SameSpace(m, res.mem, src)
         /\ Copied(res.mem, dest, src, TableSize)
         /\ res.ok => CopiedAll(res.mem, dest, src, TableSize)
<1>1. TableSize \in Nat
  BY SizeAssumption
<1>2. PICK f : CopyUpTo(f, TableSize, m, dest, src) /\ res = f[TableSize]
  BY CopyPageMapsAre
<1>3. m \in Memory /\ dest \in Frame /\ src \in Frame /\ WellFormed(m, dest)
  BY DEF Copying, Spaces
<1> DEFINE Done(q, k) ==
             /\ Extends(m, q.mem, dest, FALSE, Used(m, src), Pages(m, src))
             /\ q.ok \in BOOLEAN
             /\ Copied(q.mem, dest, src, k)
             /\ q.ok => CopiedAll(q.mem, dest, src, k)
           T == {k \in 0 .. TableSize : ~Done(f[k], k)}
<1>4. T = {}
  <2> SUFFICES ASSUME T # {}
               PROVE  FALSE
    OBVIOUS
  <2>1. T \subseteq Nat
    <3> HIDE DEF Done
    <3> QED
      BY <1>1
  <2> HIDE DEF T
  <2>2. PICK k \in T : \A y \in T : k <= y
    BY <2>1, LeastNumber
  <2>3. k \in 0 .. TableSize /\ ~Done(f[k], k)
    BY <2>2 DEF T
  <2>4. f[k] = IF k = 0 THEN [mem |-> m, ok |-> TRUE] ELSE CopyOn(f[k - 1], dest, src, k - 1)
    BY <1>2, <2>3 DEF CopyUpTo
  <2>5. PICK z : z = f[k]
    OBVIOUS
  <2>6. CASE k = 0
    <3>1. z.mem = m /\ z.ok = TRUE
      BY <2>4, <2>5, <2>6
    <3>2. Extends(m, z.mem, dest, FALSE, Used(m, src), Pages(m, src))
      BY <1>3, <3>1, ExtendsItself
    <3>3. \A a \in Address : ~Present(Lookup(m, dest, a))
      BY <1>3, EmptySpace
    <3>4. Copied(m, dest, src, k)
      BY <3>3, EmptyIs DEF Copied
    <3>5. CopiedAll(m, dest, src, k)
      BY <2>6 DEF CopiedAll, Address, Index
    <3> QED
      BY <2>3, <2>5, <3>1, <3>2, <3>4, <3>5
  <2>7. CASE k # 0
    <3>1. k - 1 \in 0 .. TableSize /\ ~(k <= k - 1) /\ k - 1 \in Index /\ (k - 1) + 1 = k
      BY <1>1, <2>3, <2>7 DEF Index
    <3>2. Done(f[k - 1], k - 1)
      BY <2>2, <3>1 DEF T
    <3>3. PICK q : q = f[k - 1]
      OBVIOUS
    <3>4. z = CopyOn(q, dest, src, k - 1) /\ Done(q, k - 1) /\ ~Done(z, k)
      BY <2>3, <2>4, <2>5, <2>7, <3>2, <3>3
    <3>5. Copying(q.mem, dest, src) /\ SameSpace(m, q.mem, src)
      BY <3>4, CopyingOn
    <3>6. CASE ~q.ok
      <4>1. z = q
        BY <3>4, <3>6 DEF CopyOn
      <4>2. Copied(q.mem, dest, src, k)
        <5>1. \A a \in Address : a[1] \in Nat /\ (a[1] < k - 1 => a[1] < k)
          BY <2>3 DEF Address, Index
        <5>2. \A d \in Index : d >= k => d >= k - 1
          BY <2>3 DEF Index
        <5> QED
          BY <3>4, <5>1, <5>2 DEF Copied
      <4> QED
        BY <3>4, <3>6, <4>1, <4>2
    <3>7. CASE q.ok
      <4>1. z = CopyTable(q.mem, dest, src, k - 1)
        BY <3>4, <3>7 DEF CopyOn
      <4>2. PICK i \in Index : i = k - 1
        BY <3>1
      <4>3. /\ Extends(q.mem, z.mem, dest, FALSE, Used(q.mem, src), Pages(q.mem, src))
            /\ z.ok \in BOOLEAN
            /\ Copied(z.mem, dest, src, i + 1)
            /\ z.ok /\ CopiedAll(q.mem, dest, src, i) => CopiedAll(z.mem, dest, src, i + 1)
        BY <3>4, <3>5, <4>1, <4>2, CopyTableIs
      <4>4. Used(q.mem, src) = Used(m, src) /\ Pages(q.mem, src) = Pages(m, src)
        BY <3>5 DEF SameSpace, Used
      <4>5. Extends(m, z.mem, dest, FALSE, Used(m, src), Pages(m, src))
        BY <1>3, <3>4, <4>3, <4>4, ExtendsOn
      <4>6. i + 1 = k
        BY <3>1, <4>2
      <4>7. Done(z, k)
        BY <3>4, <3>7, <4>2, <4>3, <4>5, <4>6
      <4> QED
        BY <3>4, <4>7
    <3> QED
      BY <3>6, <3>7
  <2> QED
    BY <2>6, <2>7
<1>5. Done(res, TableSize)
  <2> HIDE DEF Done
  <2> QED
    BY <1>1, <1>2, <1>4
<1>6. Copying(res.mem, dest, src) /\ SameSpace(m, res.mem, src)
  BY <1>5, CopyingOn
<1> QED
  BY <1>5, <1>6

-----------------------------------------------------------------------------
(* What the other functions do to an address space, and to the others.     *)
CopiedPage(m, n, r, a, f) ==
  /\ HasPut(m, n, r, f, a, TRUE)
  /\ f \in Frame \ m.alloc /\ n \in Memory
  /\ n.alloc = m.alloc \cup {f}
  /\ \A g \in Frame : n.page[g] = IF g = f THEN m.page[Lookup(m, r, a).frame] ELSE m.page[g]

LEMMA CopyOnePageIs ==
  ASSUME NEW m \in Memory, NEW r \in Frame, WellFormed(m, r), NEW a \in Address,
         Present(Lookup(m, r, a)), NEW res, res = CopyOnePage(m, r, a)
  PROVE  \/ res.ok = FALSE /\ res.mem = m
         \/ res.ok = TRUE /\ \E f : CopiedPage(m, res.mem, r, a, f)
<1>1. PICK one : one = NewPageMap(m)
  OBVIOUS
<1>2. CASE one.frame = NoFrame
  BY <1>1, <1>2 DEF CopyOnePage
<1>3. CASE one.frame # NoFrame
  <2>1. PICK o, f, t : o = one.mem /\ f = one.frame /\ t = m.table[r][a[1]].frame
    OBVIOUS
  <2>2. Takes(m, o, f)
    BY <1>1, <1>3, <2>1, NewPageMapIs
  <2>3. o \in Memory /\ f \in Frame \ m.alloc
    BY <2>2 DEF Takes
  <2>4. a[1] \in Index /\ a[2] \in Index /\ Present(m.table[r][a[1]])
    BY LookupIs DEF Address
  <2>5. t \in Frame /\ t \in m.alloc /\ Lookup(m, r, a) = m.table[t][a[2]]
    BY <2>1, <2>4, TablesAre, LookupIs DEF WellFormed
  <2>6. PICK p : p = Put(o, t, a[2], [frame |-> f, writable |-> TRUE])
    OBVIOUS
  <2>7. PutsNew(m, p, f, EmptyTable, t, a[2], TRUE)
    BY <2>2, <2>4, <2>5, <2>6, PutsEntry
  <2>8. PICK c : c = m.page[Lookup(m, r, a).frame]
    OBVIOUS
  <2>9. res = [mem |-> [p EXCEPT !.page[f] = c], ok |-> TRUE]
    BY <1>1, <1>3, <2>1, <2>5, <2>6, <2>8 DEF CopyOnePage
  <2>10. PICK n : n = [p EXCEPT !.page[f] = c]
    OBVIOUS
  <2>11. p \in Memory /\ c \in Content
    <3>1. Lookup(m, r, a).frame \in Frame
      BY LookupIs, EntryIs
    <3> QED
      BY <2>7, <2>8, <3>1 DEF PutsNew, Puts, Memory
  <2>12. /\ n.alloc = p.alloc /\ n.table = p.table /\ n.page = [p.page EXCEPT ![f] = c]
         /\ n \in Memory
    <3>1. p.page \in [Frame -> Content]
      BY <2>11 DEF Memory
    <3>2. [p.page EXCEPT ![f] = c] \in [Frame -> Content]
      BY <2>11, <3>1
    <3> QED
      BY <2>10, <2>11, <3>2 DEF Memory
  <2>13. Puts(m, n, f, t, a[2], TRUE)
    BY <2>7, <2>12 DEF PutsNew, Puts
  <2>14. HasPut(m, n, r, f, a, TRUE)
    BY <2>1, <2>4, <2>13, SetEntry
  <2>15. \A g \in Frame : n.page[g] = IF g = f THEN c ELSE m.page[g]
    <3>1. m.page \in [Frame -> Content]
      BY DEF Memory
    <3> QED
      BY <2>3, <2>7, <2>12, <3>1 DEF PutsNew
  <2>16. n.alloc = m.alloc \cup {f}
    BY <2>13 DEF Puts
  <2>17. res.mem = n /\ res.ok = TRUE
    BY <2>9, <2>10
  <2>18. CopiedPage(m, n, r, a, f)
    BY <2>3, <2>8, <2>12, <2>14, <2>15, <2>16 DEF CopiedPage
  <2> QED
    BY <2>17, <2>18
<1> QED
  BY <1>2, <1>3

(* CopyOnePage as a step of the address space.                             *)
LEMMA CopyGrows ==
  ASSUME NEW m \in Memory, NEW n \in Memory, NEW r \in Frame, WellFormed(m, r),
         NEW a \in Address, NEW f, CopiedPage(m, n, r, a, f)
  PROVE  /\ Grows(m, n, r, {})
         /\ Fresh(m, n) \subseteq Pages(n, r)
         /\ Pages(m, r) \subseteq Pages(n, r) \cup {Lookup(m, r, a).frame}
         /\ Pages(n, r) \ PrivatePages(n, r) \subseteq Pages(m, r) \ PrivatePages(m, r)
<1> DEFINE e == [frame |-> f, writable |-> TRUE]
<1>1. e.frame = f /\ e.writable
  OBVIOUS
<1> HIDE DEF e
<1>2. /\ WellFormed(n, r) /\ Tables(n, r) = Tables(m, r)
      /\ \A b \in Address : Lookup(n, r, b) = IF b = a THEN e ELSE Lookup(m, r, b)
      /\ \A g \in m.alloc \ Tables(m, r) : n.table[g] = m.table[g]
      /\ f \in Pages(n, r) /\ Present(e)
  BY DEF HasPut, CopiedPage, e
<1>3. Fresh(m, n) = {f} /\ m.alloc \subseteq n.alloc
  BY DEF Fresh, CopiedPage
<1>4. ASSUME NEW g \in Pages(n, r)
      PROVE  g \in Pages(m, r) \cup {f}
  <2>1. PICK b \in Address : Present(Lookup(n, r, b)) /\ g = Lookup(n, r, b).frame
    BY PagesAre
  <2> QED
    BY <1>1, <1>2, <2>1, PagesAre
<1>5. ASSUME NEW g \in PrivatePages(n, r)
      PROVE  g \in PrivatePages(m, r) \cup {f}
  <2>1. PICK b \in Address : /\ Present(Lookup(n, r, b)) /\ Lookup(n, r, b).writable
                             /\ g = Lookup(n, r, b).frame
    BY PagesAre
  <2> QED
    BY <1>1, <1>2, <2>1, PagesAre
<1>6. ASSUME NEW g \in Pages(m, r)
      PROVE  g \in Pages(n, r) \cup {Lookup(m, r, a).frame}
  <2>1. PICK b \in Address : Present(Lookup(m, r, b)) /\ g = Lookup(m, r, b).frame
    BY PagesAre
  <2> QED
    BY <1>2, <2>1, PagesAre
<1>7. ASSUME NEW g \in Pages(n, r), g \notin PrivatePages(n, r)
      PROVE  g \in Pages(m, r) \ PrivatePages(m, r)
  <2>1. PICK b \in Address : Present(Lookup(n, r, b)) /\ g = Lookup(n, r, b).frame
    BY PagesAre
  <2>2. b # a /\ Lookup(n, r, b) = Lookup(m, r, b) /\ ~Lookup(m, r, b).writable
    BY <1>1, <1>2, <1>7, <2>1, PagesAre
  <2>3. ASSUME g \in PrivatePages(m, r)
        PROVE  FALSE
    <3>1. PICK c \in Address : /\ Present(Lookup(m, r, c)) /\ Lookup(m, r, c).writable
                               /\ g = Lookup(m, r, c).frame
      BY <2>3, PagesAre
    <3>2. b = c
      BY <2>1, <2>2, <3>1 DEF WellFormed
    <3> QED
      BY <2>2, <3>1, <3>2
  <2> QED
    BY <2>1, <2>2, <2>3, PagesAre
<1> QED
  BY <1>2, <1>3, <1>4, <1>5, <1>6, <1>7 DEF Grows

(* Only contents of pages change.                                          *)
LEMMA ContentsOnly ==
  ASSUME NEW m \in Memory, NEW n \in Memory, NEW R, Spaces(m, R),
         n.table = m.table, m.alloc \subseteq n.alloc
  PROVE  Spaces(n, R) /\ \A r \in R : SameSpace(m, n, r)
<1>1. ASSUME NEW r \in R
      PROVE  SameSpace(m, n, r) /\ WellFormed(n, r)
  <2>1. WellFormed(m, r)
    BY DEF Spaces
  <2>2. r \in Frame /\ Tables(m, r) \cup Pages(m, r) \subseteq n.alloc
    BY <2>1 DEF WellFormed
  <2> QED
    BY <2>1, <2>2, SameWellFormed
<1> QED
  BY <1>1 DEF Spaces, Apart, SameSpace

Released(m, n, frames) ==
  /\ n \in Memory
  /\ n.alloc = m.alloc \ frames
  /\ \A g \in Frame : n.page[g] = IF g \in frames THEN Zero ELSE m.page[g]

LEMMA ReleaseIs ==
  ASSUME NEW m \in Memory, NEW frames, NEW n, n = Release(m, frames)
  PROVE  Released(m, n, frames) /\ n.table = m.table
<1>1. PICK p : p = [f \in Frame |-> IF f \in frames THEN Zero ELSE m.page[f]]
  OBVIOUS
<1>2. p \in [Frame -> Content]
  BY <1>1, EmptyIs DEF Memory
<1>3. PICK A : A = m.alloc \ frames
  OBVIOUS
<1>4. A \in SUBSET Frame
  BY <1>3 DEF Memory
<1>5. n = [m EXCEPT !.alloc = A, !.page = p]
  BY <1>1, <1>3 DEF Release
<1>6. n \in Memory /\ n.alloc = A /\ n.page = p /\ n.table = m.table
  BY <1>2, <1>4, <1>5 DEF Memory
<1> QED
  BY <1>1, <1>3, <1>6 DEF Released

(* CleanPageMaps leaves an empty top table, and the read-only pages.       *)
Cleaned(m, n, r) ==
  /\ Released(m, n, PrivatePages(m, r) \cup (Tables(m, r) \ {r}))
  /\ \A g \in Frame \ Tables(m, r) : n.table[g] = m.table[g]
  /\ n.table[r] = EmptyTable

LEMMA CleanPageMapsIs ==
  ASSUME NEW m \in Memory, NEW r \in Frame, WellFormed(m, r), NEW n, n = CleanPageMaps(m, r)
  PROVE  Cleaned(m, n, r)
<1> DEFINE owned == {m.table[r][i].frame : i \in {j \in Index : m.table[r][j].writable}}
           tables == (Tables(m, r) \ {r}) \cup {r}
<1>1. \A d \in Index : Present(m.table[r][d]) <=> m.table[r][d].writable
  <2> SUFFICES ASSUME NEW d \in Index
               PROVE  Present(m.table[r][d]) <=> m.table[r][d].writable
    OBVIOUS
  <2>1. CASE Present(m.table[r][d])
    BY <2>1 DEF WellFormed
  <2>2. CASE ~Present(m.table[r][d])
    <3>1. m.table[r][d] = NotPresent
      BY <2>2, TableEntry, EntryIs
    <3>2. NotPresent.writable = FALSE
      BY DEF NotPresent
    <3> QED
      BY <2>2, <3>1, <3>2
  <2> QED
    BY <2>1, <2>2
<1>2. \A g : g \in owned <=> \E d \in Index : Present(m.table[r][d]) /\ g = m.table[r][d].frame
  BY <1>1
<1>3. owned = Tables(m, r) \ {r}
  <2> HIDE DEF owned
  <2>1. \A g \in owned : g # r
    BY <1>2 DEF WellFormed
  <2>2. \A g : g \in Tables(m, r) <=>
          g = r \/ \E d \in Index : Present(m.table[r][d]) /\ g = m.table[r][d].frame
    BY TablesAre
  <2>3. \A g : g \in owned <=> g \in Tables(m, r) \ {r}
    BY <1>2, <2>1, <2>2
  <2> QED
    BY <2>3
<1>4. tables = Tables(m, r)
  BY TablesAre
<1>5. PICK o : o = Release(m, PrivatePages(m, r) \cup owned)
  OBVIOUS
<1>6. Released(m, o, PrivatePages(m, r) \cup owned) /\ o.table = m.table
  BY <1>5, ReleaseIs
<1>7. PICK tb : tb = [g \in Frame |-> IF g \in tables THEN EmptyTable ELSE m.table[g]]
  OBVIOUS
<1>8. n = [o EXCEPT !.table = tb]
  BY <1>5, <1>7 DEF CleanPageMaps
<1> HIDE DEF owned, tables
<1>9. tb \in [Frame -> [Index -> EntryType]]
  BY <1>7, EmptyIs DEF Memory
<1>10. n \in Memory /\ n.alloc = o.alloc /\ n.page = o.page /\ n.table = tb
  BY <1>6, <1>8, <1>9 DEF Released, Memory
<1>11. r \in Tables(m, r)
  BY TablesAre
<1> QED
  BY <1>3, <1>4, <1>6, <1>7, <1>10, <1>11 DEF Cleaned, Released

LEMMA CleanApart ==
  ASSUME NEW m \in Memory, NEW n, NEW R, NEW r \in R, Spaces(m, R), Cleaned(m, n, r)
  PROVE  /\ Spaces(n, R)
         /\ \A s \in R \ {r} : SameSpace(m, n, s)
         /\ Tables(n, r) = {r} /\ Pages(n, r) = {} /\ r \in n.alloc
<1>1. n \in Memory /\ r \in Frame /\ WellFormed(m, r)
      /\ n.alloc = m.alloc \ (PrivatePages(m, r) \cup (Tables(m, r) \ {r}))
  BY DEF Cleaned, Released, Spaces, WellFormed
<1>2. r \in Tables(m, r) /\ r \in m.alloc /\ r \notin PrivatePages(m, r)
  BY <1>1, TablesAre, PagesAre DEF WellFormed
<1>3. r \in n.alloc
  BY <1>1, <1>2
<1>4. Tables(n, r) = {r} /\ Pages(n, r) = {} /\ PrivatePages(n, r) = {} /\ WellFormed(n, r)
  BY <1>1, <1>3, EmptySpace DEF Cleaned
<1>5. ASSUME NEW s \in R \ {r}
      PROVE  /\ SameSpace(m, n, s) /\ WellFormed(n, s) /\ s \in Frame
             /\ r \notin Tables(n, s) \cup Pages(n, s)
  <2>1. WellFormed(m, s) /\ Apart(m, r, s) /\ Apart(m, s, r) /\ s \in Frame
    BY DEF Spaces, WellFormed
  <2>2. \A g \in Tables(m, s) : g \in Frame /\ g \notin Tables(m, r)
    BY <2>1, TablesAre DEF Apart
  <2>3. \A g \in Tables(m, s) : n.table[g] = m.table[g]
    BY <2>2 DEF Cleaned
  <2>4. PrivatePages(m, r) \subseteq Pages(m, r)
    BY <1>1, PagesAre
  <2>5. Tables(m, s) \cup Pages(m, s) \subseteq n.alloc
    BY <1>1, <2>1, <2>2, <2>4 DEF WellFormed, Apart
  <2>6. SameSpace(m, n, s) /\ WellFormed(n, s)
    BY <1>1, <2>1, <2>3, <2>5, SameWellFormed
  <2>7. r \notin Tables(m, s) \cup Pages(m, s)
    BY <1>2, <2>1 DEF Apart
  <2> QED
    BY <2>1, <2>6, <2>7 DEF SameSpace
<1>6. ASSUME NEW s \in R, NEW u \in R, s # u
      PROVE  Apart(n, s, u)
  <2>1. CASE s = r
    BY <1>4, <1>5, <1>6, <2>1 DEF Apart
  <2>2. CASE u = r
    BY <1>4, <1>5, <1>6, <2>2 DEF Apart
  <2>3. CASE s # r /\ u # r
    BY <1>5, <1>6, <2>3 DEF Apart, SameSpace, Spaces
  <2> QED
    BY <2>1, <2>2, <2>3
<1> QED
  BY <1>3, <1>4, <1>5, <1>6 DEF Spaces

(* FreePageMap gives the top table back.                                   *)
LEMMA FreeApart ==
  ASSUME NEW m \in Memory, NEW n, NEW R, NEW r \in R, Spaces(m, R), n = FreePageMap(m, r),
         NEW S, S = R \ {r}
  PROVE  /\ n \in Memory /\ n.alloc = m.alloc \ {r}
         /\ Spaces(n, S)
         /\ \A s \in S : SameSpace(m, n, s)
<1>1. Released(m, n, {r}) /\ n.table = m.table
  BY ReleaseIs DEF FreePageMap
<1>2. n \in Memory /\ n.alloc = m.alloc \ {r} /\ r \in Frame /\ r \in Tables(m, r)
  BY <1>1, TablesAre DEF Released, Spaces, WellFormed
<1>3. ASSUME NEW s \in R \ {r}
      PROVE  SameSpace(m, n, s) /\ WellFormed(n, s)
  <2>1. WellFormed(m, s) /\ Apart(m, r, s) /\ s \in Frame
    BY DEF Spaces, WellFormed
  <2>2. Tables(m, s) \cup Pages(m, s) \subseteq n.alloc
    BY <1>2, <2>1 DEF WellFormed, Apart
  <2> QED
    BY <1>1, <1>2, <2>1, <2>2, SameWellFormed
<1>4. ASSUME NEW s \in R \ {r}, NEW u \in R \ {r}, s # u
      PROVE  Apart(n, s, u)
  <2>1. Apart(m, s, u)
    BY <1>4 DEF Spaces
  <2> QED
    BY <1>3, <2>1 DEF Apart, SameSpace
<1> QED
  BY <1>2, <1>3, <1>4 DEF Spaces

-----------------------------------------------------------------------------
(* The inductive invariant.                                                *)

(* An address space that is or was to be an image.                         *)
ImageLike(m, r) ==
  \A a \in Address : Present(Lookup(m, r, a)) =>
    ~Lookup(m, r, a).writable /\ a \in Range(ImagePages)

Image(r) == r # NoFrame /\ \E app \in App : app_loads[app] = r

Shared(f) == f \in lost \/ \E x \in Frame : Image(x) /\ f \in Pages(mem, x)

(* Those of its pages that are read-only are also an image's, or lost.     *)
Shares(r) == \A f \in Pages(mem, r) \ PrivatePages(mem, r) : Shared(f)

Left(r) == Tables(mem, r) \cup Pages(mem, r) \subseteq lost

PCs == {"shell", "find", "insert", "remap", "copy", "args", "run", "clean", "free"}

Place == [pc : PCs, app : App \cup {"none"}, temp_pml4 : Frame \cup {NoFrame}]

TypeInv ==
  /\ mem \in Memory
  /\ app_loads \in [App -> Frame \cup {NoFrame}]
  /\ cr3 \in [Task -> Frame \cup {NoFrame}]
  /\ run \in [Task -> Place]
  /\ \A t \in Task : run[t].pc # "shell" => run[t].app \in App

(* An address space has one user, an image one name.                       *)
OwnerInv ==
  /\ \A t, u \in Task : cr3[t] = cr3[u] /\ cr3[t] # NoFrame => t = u
  /\ \A x, y \in App : app_loads[x] = app_loads[y] /\ app_loads[x] # NoFrame => x = y
  /\ \A app \in App : app_loads[app] # NoFrame => ImageLike(mem, app_loads[app])

(* What ExecuteFile knows at each place about its page maps.               *)
PlaceInv(t) ==
  LET pc == run[t].pc
      temp == run[t].temp_pml4
  IN  /\ pc # "shell" => cr3[t] # NoFrame
      /\ pc \notin {"shell", "remap"} => ~Image(cr3[t])
      /\ pc \in {"find", "insert", "remap"} => temp = cr3[t]
      /\ pc \in {"find", "copy", "free"} => mem.table[cr3[t]] = EmptyTable
      /\ pc \in {"insert", "args"} =>
           \A a \in Address : Present(Lookup(mem, cr3[t], a)) => a \in Range(ImagePages)
      /\ pc = "insert" => ImageLike(mem, temp)
      /\ pc \in {"remap", "copy"} =>
           temp # NoFrame /\ ImageLike(mem, temp) /\ (Image(temp) \/ Left(temp))
      /\ pc = "copy" => \A u \in Task : cr3[u] # temp
      /\ pc \in {"args", "run", "clean"} => Shares(cr3[t])

SpaceInv ==
  /\ TypeInv
  /\ Spaces(mem, Roots)
  /\ mem.alloc \subseteq Mapped \cup lost
  /\ OwnerInv
  /\ \A t \in Task : PlaceInv(t)
-----------------------------------------------------------------------------
Loading == {"insert", "remap", "copy"}

LEMMA RootsAre ==
  \A x : x \in Roots <=>
    /\ x # NoFrame
    /\ \/ \E t \in Task : x = cr3[t]
       \/ \E app \in App : x = app_loads[app]
       \/ \E t \in Task : run[t].pc \in Loading /\ x = run[t].temp_pml4
  BY DEF Roots, Loading

LEMMA MappedIs ==
  \A f : f \in Mapped <=> \E r \in Roots : f \in Tables(mem, r) \cup Pages(mem, r)
  BY DEF Mapped, AllFrames

LEMMA InitOK ==
  Init => SpaceInv
<1> SUFFICES ASSUME Init
             PROVE  SpaceInv
  OBVIOUS
<1> USE DEF Init
<1>1. mem \in Memory
  BY EmptyIs DEF Memory
<1>2. /\ app_loads \in [App -> Frame \cup {NoFrame}]
      /\ cr3 \in [Task -> Frame \cup {NoFrame}]
  BY DEF Kernel
<1>3. run \in [Task -> Place] /\ \A t \in Task : run[t].pc = "shell"
  BY DEF Place, PCs, Shell
<1>4. Roots = {}
  BY <1>3, RootsAre DEF Loading, Kernel
<1>5. Spaces(mem, Roots) /\ mem.alloc \subseteq Mapped \cup lost
  BY <1>4 DEF Spaces
<1>6. OwnerInv
  BY DEF OwnerInv, Kernel
<1>7. \A t \in Task : PlaceInv(t)
  BY <1>3 DEF PlaceInv
<1> QED
  BY <1>1, <1>2, <1>3, <1>5, <1>6, <1>7 DEF SpaceInv, TypeInv

(* Where a task goes.                                                      *)
Gone(t, pc, app, temp) ==
  /\ run' \in [Task -> Place]
  /\ \A u \in Task \ {t} : run'[u] = run[u]
  /\ run'[t].pc = pc /\ run'[t].app = app /\ run'[t].temp_pml4 = temp

LEMMA GotoIs ==
  ASSUME TypeInv, NEW t \in Task, NEW pc \in PCs, Goto(t, pc)
  PROVE  Gone(t, pc, run[t].app, run[t].temp_pml4)
<1>1. run \in [Task -> Place] /\ run[t] \in Place
  BY DEF TypeInv
<1>2. PICK q : q = [run[t] EXCEPT !.pc = pc]
  OBVIOUS
<1>3. q \in Place /\ q.pc = pc /\ q.app = run[t].app /\ q.temp_pml4 = run[t].temp_pml4
  BY <1>1, <1>2 DEF Place
<1>4. run' = [run EXCEPT ![t] = q]
  BY <1>2 DEF Goto
<1> QED
  BY <1>1, <1>3, <1>4 DEF Gone

LEMMA ReturnIs ==
  ASSUME TypeInv, NEW t \in Task, Return(t)
  PROVE  Gone(t, "shell", "none", NoFrame)
<1>1. Shell \in Place /\ Shell.pc = "shell" /\ Shell.app = "none" /\ Shell.temp_pml4 = NoFrame
  BY DEF Shell, Place, PCs
<1> HIDE DEF Shell
<1> QED
  BY <1>1 DEF Return, TypeInv, Gone

LEMMA ShellPlace ==
  ASSUME NEW t \in Task, run[t].pc = "shell"
  PROVE  PlaceInv(t)
  BY DEF PlaceInv

(* What a step of t leaves alone: the other tasks' places, their address   *)
(* spaces, and the images.                                                 *)
OthersKept(t) ==
  /\ mem' \in Memory
  /\ \A s \in Roots \ {cr3[t]} : SameSpace(mem, mem', s)
  /\ Image(cr3[t]) => SameSpace(mem, mem', cr3[t])
  /\ \A u \in Task \ {t} : run'[u] = run[u] /\ cr3'[u] = cr3[u]
  /\ lost \subseteq lost'
  /\ \A app \in App : app_loads[app] # NoFrame => app_loads'[app] = app_loads[app]
  /\ \A app \in App : app_loads[app] = NoFrame => app_loads'[app] \in {NoFrame, cr3[t]}
  /\ cr3'[t] \in {NoFrame, cr3[t]} \/ cr3'[t] \notin mem.alloc

LEMMA ImageIsRoot ==
  ASSUME SpaceInv, NEW x, Image(x)
  PROVE  x \in Roots /\ x \in Frame /\ x \in mem.alloc /\ ImageLike(mem, x)
<1>1. PICK app \in App : app_loads[app] = x /\ x # NoFrame
  BY DEF Image
<1>2. x \in Roots
  BY <1>1, RootsAre
<1>3. WellFormed(mem, x) /\ ImageLike(mem, x) /\ mem \in Memory
  BY <1>1, <1>2 DEF SpaceInv, Spaces, OwnerInv, TypeInv
<1> QED
  BY <1>2, <1>3, TablesAre DEF WellFormed

LEMMA ImagesKept ==
  ASSUME SpaceInv, NEW t \in Task, OthersKept(t)
  PROVE  /\ \A x : Image(x) => Image(x)' /\ SameSpace(mem, mem', x)
         /\ \A f : Shared(f) => Shared(f)'
<1>1. ASSUME NEW x, Image(x)
      PROVE  Image(x)' /\ SameSpace(mem, mem', x) /\ x \in Frame
  <2>1. PICK app \in App : app_loads[app] = x /\ x # NoFrame
    BY <1>1 DEF Image
  <2>2. app_loads'[app] = x
    BY <2>1 DEF OthersKept
  <2>3. x \in Roots /\ x \in Frame
    BY <1>1, ImageIsRoot
  <2> QED
    BY <1>1, <2>1, <2>2, <2>3 DEF Image, OthersKept
<1>2. ASSUME NEW f, Shared(f)
      PROVE  Shared(f)'
  <2>1. CASE f \in lost
    BY <2>1 DEF Shared, OthersKept
  <2>2. CASE f \notin lost
    <3>1. PICK x \in Frame : Image(x) /\ f \in Pages(mem, x)
      BY <1>2, <2>2 DEF Shared
    <3>2. Image(x)' /\ f \in Pages(mem', x)
      BY <1>1, <3>1 DEF SameSpace
    <3> QED
      BY <3>1, <3>2 DEF Shared
  <2> QED
    BY <2>1, <2>2
<1> QED
  BY <1>1, <1>2

LEMMA SameImageLike ==
  ASSUME NEW m, NEW n, NEW r, SameSpace(m, n, r), ImageLike(m, r)
  PROVE  ImageLike(n, r)
  BY DEF SameSpace, ImageLike

LEMMA OthersPlaces ==
  ASSUME SpaceInv, NEW t \in Task, OthersKept(t), NEW u \in Task \ {t}
  PROVE  PlaceInv(u)'
<1>1. CASE run[u].pc = "shell"
  BY <1>1 DEF OthersKept, PlaceInv
<1>2. CASE run[u].pc # "shell"
  <2>0. PICK pc, temp, root :
          pc = run[u].pc /\ temp = run[u].temp_pml4 /\ root = cr3[u]
    OBVIOUS
  <2>1. /\ run'[u] = run[u] /\ cr3'[u] = cr3[u] /\ PlaceInv(u) /\ mem \in Memory
        /\ run'[u].pc = pc /\ run'[u].temp_pml4 = temp /\ cr3'[u] = root
    BY <2>0 DEF OthersKept, SpaceInv, TypeInv
  <2>2. root # NoFrame /\ root # cr3[t] /\ root \in Roots
    BY <2>0, <1>2, <2>1, RootsAre DEF PlaceInv, SpaceInv, OwnerInv
  <2>3. SameSpace(mem, mem', root) /\ root \in mem.alloc /\ root \in Frame
    <3>1. WellFormed(mem, root)
      BY <2>0, <2>2 DEF SpaceInv, Spaces
    <3> QED
      BY <2>0, <2>1, <2>2, <3>1, TablesAre DEF OthersKept, WellFormed
  <2>4. Image(root)' => Image(root)
    BY <2>0, <2>2 DEF Image, OthersKept
  <2>5. ASSUME pc \in Loading
        PROVE  /\ temp # NoFrame /\ temp \in Roots /\ temp # cr3[t]
               /\ SameSpace(mem, mem', temp) /\ temp \in mem.alloc
    <3>1. temp # NoFrame
      BY <2>0, <2>1, <2>2, <2>5 DEF PlaceInv, Loading
    <3>2. temp \in Roots
      BY <2>0, <2>5, <3>1, RootsAre
    <3>3. temp # cr3[t]
      BY <2>0, <2>1, <2>2, <2>5 DEF PlaceInv, Loading
    <3>4. WellFormed(mem, temp)
      BY <2>0, <3>2 DEF SpaceInv, Spaces
    <3> QED
      BY <2>0, <2>1, <3>1, <3>2, <3>3, <3>4, TablesAre DEF OthersKept, WellFormed
  <2>6. ASSUME pc \in {"remap", "copy"}
        PROVE  /\ temp # NoFrame /\ ImageLike(mem', temp)
               /\ Image(temp)' \/ Left(temp)'
    <3>1. temp # NoFrame /\ ImageLike(mem, temp) /\ (Image(temp) \/ Left(temp))
      BY <2>0, <2>1, <2>6 DEF PlaceInv
    <3>2. SameSpace(mem, mem', temp)
      BY <2>0, <2>5, <2>6 DEF Loading
    <3>3. ImageLike(mem', temp)
      BY <2>0, <3>1, <3>2, SameImageLike
    <3>4. Image(temp) => Image(temp)'
      BY <2>0, ImagesKept
    <3>5. Left(temp) => Left(temp)'
      BY <2>0, <2>1, <3>2 DEF Left, SameSpace, OthersKept
    <3> QED
      BY <2>0, <3>1, <3>3, <3>4, <3>5
  <2>7. pc = "insert" => ImageLike(mem', temp)
    <3> SUFFICES ASSUME pc = "insert"
                 PROVE  ImageLike(mem', temp)
      OBVIOUS
    <3>1. ImageLike(mem, temp) /\ SameSpace(mem, mem', temp)
      BY <2>0, <2>1, <2>5 DEF PlaceInv, Loading
    <3> QED
      BY <2>0, <3>1, SameImageLike
  <2>8. pc = "copy" => \A w \in Task : cr3'[w] # temp
    <3> SUFFICES ASSUME pc = "copy", NEW w \in Task
                 PROVE  cr3'[w] # temp
      OBVIOUS
    <3>1. cr3[w] # temp /\ cr3[t] # temp
      BY <2>0, <2>1 DEF PlaceInv
    <3>2. temp # NoFrame /\ temp \in mem.alloc
      BY <2>0, <2>5 DEF Loading
    <3>3. w # t => cr3'[w] = cr3[w]
      BY <2>0 DEF OthersKept
    <3>4. cr3'[t] # temp
      BY <2>0, <3>1, <3>2 DEF OthersKept
    <3> QED
      BY <2>0, <3>1, <3>3, <3>4
  <2>9. pc \in {"args", "run", "clean"} => Shares(root)'
    <3>1. Shares(root) => Shares(root)'
      BY <2>0, <2>1, <2>3, ImagesKept DEF Shares, SameSpace
    <3> QED
      BY <2>0, <2>1, <3>1 DEF PlaceInv
  <2>10. pc \in {"insert", "args"} =>
           \A a \in Address : Present(Lookup(mem', root, a)) => a \in Range(ImagePages)
    BY <2>0, <2>1, <2>3 DEF PlaceInv, SameSpace
  <2>11. pc \in {"find", "copy", "free"} => mem'.table[root] = EmptyTable
    BY <2>0, <2>1, <2>3 DEF PlaceInv, SameSpace
  <2>12. pc # "remap" => ~Image(root)'
    BY <2>0, <1>2, <2>1, <2>4 DEF PlaceInv
  <2>13. pc \in {"find", "insert", "remap"} => temp = root
    BY <2>0, <2>1 DEF PlaceInv
  <2> QED
    BY <2>0, <2>1, <2>2, <2>6, <2>7, <2>8, <2>9, <2>10, <2>11, <2>12, <2>13 DEF PlaceInv
<1> QED
  BY <1>1, <1>2


(* Where the steps that only add to t's address space may lead.            *)
Growing(t) ==
  /\ cr3[t] # NoFrame /\ ~Image(cr3[t])
  /\ UNCHANGED <<app_loads, cr3, lost>>
  /\ run' \in [Task -> Place]
  /\ \A u \in Task \ {t} : run'[u] = run[u]
  /\ run'[t].pc # "shell" => run'[t].app \in App
  /\ run'[t].pc \in Loading => run'[t].temp_pml4 = cr3[t]

LEMMA GrowingRoots ==
  ASSUME SpaceInv, NEW t \in Task, Growing(t)
  PROVE  /\ cr3[t] \in Roots /\ Roots' \subseteq Roots
         /\ \A x \in Roots : x \in Roots' \/ Left(x)
<1>1. app_loads' = app_loads /\ cr3' = cr3
  BY DEF Growing
<1>2. \A x : x \in Roots' <=>
        /\ x # NoFrame
        /\ \/ \E u \in Task : x = cr3[u]
           \/ \E app \in App : x = app_loads[app]
           \/ \E u \in Task : run'[u].pc \in Loading /\ x = run'[u].temp_pml4
  BY <1>1 DEF Roots, Loading
<1>3. cr3[t] \in Roots /\ cr3[t] \in Roots'
  BY <1>2, RootsAre DEF Growing
<1>4. ASSUME NEW x \in Roots'
      PROVE  x \in Roots
  <2>1. CASE \E u \in Task : run'[u].pc \in Loading /\ x = run'[u].temp_pml4
    <3>1. PICK u \in Task : run'[u].pc \in Loading /\ x = run'[u].temp_pml4
      BY <2>1
    <3>2. CASE u = t
      BY <1>3, <3>1, <3>2 DEF Growing
    <3>3. CASE u # t
      BY <1>2, <3>1, <3>3, RootsAre DEF Growing
    <3> QED
      BY <3>2, <3>3
  <2>2. CASE ~\E u \in Task : run'[u].pc \in Loading /\ x = run'[u].temp_pml4
    BY <1>2, <2>2, RootsAre
  <2> QED
    BY <2>1, <2>2
<1>5. ASSUME NEW x \in Roots
      PROVE  x \in Roots' \/ Left(x)
  <2>1. CASE \E u \in Task : run[u].pc \in Loading /\ x = run[u].temp_pml4
    <3>1. PICK u \in Task : run[u].pc \in Loading /\ x = run[u].temp_pml4
      BY <2>1
    <3>2. x # NoFrame /\ PlaceInv(u)
      BY RootsAre DEF SpaceInv
    <3>3. CASE u # t
      BY <1>2, <3>1, <3>2, <3>3 DEF Growing
    <3>4. CASE run[u].pc \in {"insert", "remap"}
      <4>1. x = cr3[u]
        BY <3>1, <3>2, <3>4 DEF PlaceInv
      <4> QED
        BY <1>2, <3>2, <4>1
    <3>5. CASE run[u].pc = "copy"
      <4>1. Image(x) \/ Left(x)
        BY <3>1, <3>2, <3>5 DEF PlaceInv
      <4>2. Image(x) => x \in Roots'
        <5> SUFFICES ASSUME Image(x)
                     PROVE  x \in Roots'
          OBVIOUS
        <5>1. PICK app \in App : app_loads[app] = x
          BY DEF Image
        <5> QED
          BY <1>2, <3>2, <5>1
      <4> QED
        BY <4>1, <4>2
    <3> QED
      BY <3>1, <3>3, <3>4, <3>5 DEF Loading
  <2>2. CASE ~\E u \in Task : run[u].pc \in Loading /\ x = run[u].temp_pml4
    BY <1>2, <2>2, RootsAre
  <2> QED
    BY <2>1, <2>2
<1> QED
  BY <1>3, <1>4, <1>5

(* Memory n is memory m with more in r: new frames, or read-only pages X   *)
(* of an image.                                                            *)
Added(m, n, r, X) ==
  /\ n \in Memory /\ Grows(m, n, r, X)
  /\ \A s \in Roots \ {r} : X \cap (Tables(m, s) \cup PrivatePages(m, s)) = {}
  /\ Fresh(m, n) \subseteq Tables(n, r) \cup Pages(n, r)
  /\ \A f \in Tables(m, r) \cup Pages(m, r) : f \in Tables(n, r) \cup Pages(n, r) \/ Shared(f)

LEMMA AddedKept ==
  ASSUME SpaceInv, NEW t \in Task, Growing(t), NEW n, n = mem', NEW X, Added(mem, n, cr3[t], X)
  PROVE  /\ Spaces(n, Roots) /\ \A s \in Roots \ {cr3[t]} : SameSpace(mem, n, s)
         /\ OthersKept(t)
<1>1. /\ mem \in Memory /\ n \in Memory /\ Spaces(mem, Roots) /\ cr3[t] \in Roots
      /\ app_loads' = app_loads /\ cr3' = cr3 /\ lost' = lost
  BY GrowingRoots DEF SpaceInv, TypeInv, Growing, Added
<1>2. Spaces(n, Roots) /\ \A s \in Roots \ {cr3[t]} : SameSpace(mem, n, s)
  BY <1>1, GrowsApart DEF Added
<1>3. OthersKept(t)
  BY <1>1, <1>2 DEF OthersKept, Growing
<1> QED
  BY <1>2, <1>3

LEMMA GrowStep ==
  ASSUME SpaceInv, NEW t \in Task, Growing(t), NEW n, n = mem', NEW X, Added(mem, n, cr3[t], X),
         PlaceInv(t)'
  PROVE  SpaceInv' /\ OthersKept(t)
<1> PICK r : r = cr3[t]
  OBVIOUS
<1>1. /\ mem \in Memory /\ mem' \in Memory /\ Spaces(mem, Roots) /\ r # NoFrame /\ ~Image(r)
      /\ app_loads' = app_loads /\ cr3' = cr3 /\ lost' = lost
  BY DEF SpaceInv, TypeInv, Growing, Added
<1>2. /\ r \in Roots /\ Roots' \subseteq Roots
      /\ \A x \in Roots : x \in Roots' \/ Left(x)
  BY GrowingRoots
<1>3. Spaces(mem', Roots) /\ \A s \in Roots \ {r} : SameSpace(mem, mem', s)
  BY AddedKept
<1>4. Spaces(mem', Roots')
  BY <1>1, <1>2, <1>3, SubSpaces
<1>5. OthersKept(t)
  BY AddedKept
<1>6. TypeInv'
  <2>1. \A u \in Task : run'[u].pc # "shell" => run'[u].app \in App
    BY DEF SpaceInv, TypeInv, Growing
  <2> QED
    BY <1>1, <2>1 DEF SpaceInv, TypeInv, Growing
<1>7. r \in Roots'
  BY <1>1, RootsAre DEF Roots
<1>8. ASSUME NEW f \in mem'.alloc, f \notin lost
      PROVE  f \in Mapped'
  <2> SUFFICES \E s \in Roots' : f \in Tables(mem', s) \cup Pages(mem', s)
    BY DEF Mapped, AllFrames
  <2>1. CASE f \in Fresh(mem, mem')
    BY <1>7, <2>1 DEF Added
  <2>2. CASE f \notin Fresh(mem, mem')
    <3>1. f \in mem.alloc
      BY <2>2 DEF Fresh
    <3>2. f \in Mapped
      BY <1>8, <3>1 DEF SpaceInv
    <3>3. PICK s \in Roots : f \in Tables(mem, s) \cup Pages(mem, s)
      BY <3>2, MappedIs
    <3>4. CASE s # r
      <4>1. SameSpace(mem, mem', s)
        BY <1>3, <3>4
      <4>2. s \in Roots'
        BY <1>2, <1>8, <3>3 DEF Left
      <4> QED
        BY <3>3, <4>1, <4>2 DEF SameSpace
    <3>5. CASE s = r
      <4>1. CASE f \in Tables(mem', r) \cup Pages(mem', r)
        BY <1>7, <4>1
      <4>2. CASE Shared(f)
        <5>1. PICK x \in Frame : Image(x) /\ f \in Pages(mem, x)
          BY <1>8, <4>2 DEF Shared
        <5>2. x \in Roots /\ x # r
          BY <1>1, <5>1, ImageIsRoot
        <5>3. SameSpace(mem, mem', x)
          BY <1>3, <5>2
        <5>4. x \in Roots'
          BY <1>2, <1>8, <5>1, <5>2 DEF Left
        <5> QED
          BY <5>1, <5>3, <5>4 DEF SameSpace
      <4> QED
        BY <3>3, <3>5, <4>1, <4>2 DEF Added
    <3> QED
      BY <3>4, <3>5
  <2> QED
    BY <2>1, <2>2
<1>9. OwnerInv'
  <2>1. ASSUME NEW app \in App, app_loads[app] # NoFrame
        PROVE  ImageLike(mem', app_loads[app])
    <3> PICK x : x = app_loads[app]
      OBVIOUS
    <3>1. Image(x)
      BY <2>1 DEF Image
    <3>2. ImageLike(mem, x) /\ SameSpace(mem, mem', x)
      BY <1>5, <3>1, ImageIsRoot, ImagesKept
    <3> QED
      BY <3>2, SameImageLike
  <2> QED
    BY <1>1, <2>1 DEF SpaceInv, OwnerInv
<1>10. \A u \in Task : PlaceInv(u)'
  <2>1. \A u \in Task \ {t} : PlaceInv(u)'
    BY <1>5, OthersPlaces
  <2> QED
    BY <2>1
<1> QED
  BY <1>1, <1>4, <1>5, <1>6, <1>8, <1>9, <1>10 DEF SpaceInv


LEMMA AddedContents ==
  ASSUME NEW m \in Memory, NEW n, NEW o \in Memory, NEW r \in Frame, NEW X, Added(m, n, r, X),
         o.alloc = n.alloc, o.table = n.table
  PROVE  Added(m, o, r, X) /\ SameSpace(n, o, r)
<1>1. n \in Memory
  BY DEF Added
<1>2. WellFormed(n, r)
  BY DEF Added, Grows
<1>3. SameSpace(n, o, r) /\ WellFormed(o, r)
  BY <1>1, <1>2, SameWellFormed DEF WellFormed
<1>4. Fresh(m, o) = Fresh(m, n)
  BY DEF Fresh
<1>5. Grows(m, o, r, X)
  BY <1>3, <1>4 DEF Added, Grows, SameSpace
<1> QED
  BY <1>3, <1>4, <1>5 DEF Added, SameSpace

LEMMA ExtendsAdded ==
  ASSUME NEW m \in Memory, NEW n, NEW r \in Frame, NEW w, NEW P, NEW X,
         Extends(m, n, r, w, P, X),
         \A s \in Roots \ {r} : X \cap (Tables(m, s) \cup PrivatePages(m, s)) = {}
  PROVE  Added(m, n, r, X)
<1>1. Grows(m, n, r, X)
  BY ExtendsGrows
<1>2. Pages(m, r) \subseteq Pages(n, r)
  BY ExtendsPages
<1> QED
  BY <1>1, <1>2 DEF Added, Extends

(* The read-only pages are the same, or fewer.                             *)
LEMMA ExtendsReadOnly ==
  ASSUME NEW m \in Memory, NEW n, NEW r \in Frame, NEW P, NEW X, Extends(m, n, r, TRUE, P, X)
  PROVE  Pages(n, r) \ PrivatePages(n, r) \subseteq Pages(m, r) \ PrivatePages(m, r)
<1>1. n \in Memory
  BY DEF Extends
<1> SUFFICES ASSUME NEW f \in Pages(n, r), f \notin PrivatePages(n, r)
             PROVE  f \in Pages(m, r) \ PrivatePages(m, r)
  OBVIOUS
<1>2. PICK a \in Address : Present(Lookup(n, r, a)) /\ f = Lookup(n, r, a).frame
  BY <1>1, PagesAre
<1>3. ~Lookup(n, r, a).writable
  BY <1>1, <1>2, PagesAre
<1>4. Present(Lookup(m, r, a))
  BY <1>2, <1>3 DEF Extends
<1>5. f \in Pages(m, r)
  BY <1>2, <1>4, PagesAre DEF Extends
<1>6. ASSUME f \in PrivatePages(m, r)
      PROVE  FALSE
  <2>1. PICK b \in Address : /\ Present(Lookup(m, r, b)) /\ Lookup(m, r, b).writable
                             /\ f = Lookup(m, r, b).frame
    BY <1>6, PagesAre
  <2>2. Lookup(n, r, b) = Lookup(m, r, b)
    BY <2>1 DEF Extends
  <2> QED
    BY <1>1, <2>1, <2>2, PagesAre
<1> QED
  BY <1>5, <1>6

LEMMA GrowingIs ==
  ASSUME SpaceInv, NEW t \in Task, run[t].pc \in {"find", "copy", "args", "run"},
         UNCHANGED <<app_loads, cr3, lost>>, NEW pc, NEW app, NEW temp, Gone(t, pc, app, temp),
         pc # "shell" => app \in App, pc \in Loading => temp = cr3[t]
  PROVE  /\ Growing(t)
         /\ cr3[t] \in Roots /\ cr3[t] \in Frame
         /\ mem \in Memory /\ WellFormed(mem, cr3[t])
<1>1. PlaceInv(t)
  BY DEF SpaceInv
<1>2. Growing(t)
  BY <1>1 DEF PlaceInv, Growing, Gone
<1>3. cr3[t] \in Roots
  BY <1>2, GrowingRoots
<1>4. WellFormed(mem, cr3[t]) /\ mem \in Memory
  BY <1>3 DEF SpaceInv, TypeInv, Spaces
<1> QED
  BY <1>2, <1>3, <1>4 DEF WellFormed

(* Nothing is shared by t's address space that was not before.             *)
LEMMA SharesOn ==
  ASSUME SpaceInv, NEW t \in Task, Growing(t), NEW n, n = mem', NEW X, Added(mem, n, cr3[t], X),
         Shares(cr3[t]),
         Pages(n, cr3[t]) \ PrivatePages(n, cr3[t])
           \subseteq Pages(mem, cr3[t]) \ PrivatePages(mem, cr3[t])
  PROVE  Shares(cr3[t])'
<1>1. \A f : Shared(f) => Shared(f)'
  BY AddedKept, ImagesKept
<1>2. cr3' = cr3
  BY DEF Growing
<1> QED
  BY <1>1, <1>2 DEF Shares

LEMMA BackInShell ==
  ASSUME SpaceInv, NEW t \in Task, Growing(t), NEW n, n = mem', NEW X, Added(mem, n, cr3[t], X),
         run'[t].pc = "shell"
  PROVE  SpaceInv' /\ OthersKept(t)
<1>1. PlaceInv(t)'
  BY DEF PlaceInv
<1> QED
  BY <1>1, GrowStep

LEMMA StillRunning ==
  ASSUME SpaceInv, NEW t \in Task, Growing(t), NEW n, n = mem', NEW X, Added(mem, n, cr3[t], X),
         run'[t].pc \in {"run", "clean"}, Shares(cr3[t]),
         Pages(n, cr3[t]) \ PrivatePages(n, cr3[t])
           \subseteq Pages(mem, cr3[t]) \ PrivatePages(mem, cr3[t])
  PROVE  SpaceInv' /\ OthersKept(t)
<1>1. Shares(cr3[t])'
  BY SharesOn
<1>2. cr3' = cr3 /\ app_loads' = app_loads /\ cr3[t] # NoFrame /\ ~Image(cr3[t])
  BY DEF Growing
<1>3. PlaceInv(t)'
  BY <1>1, <1>2 DEF PlaceInv, Image
<1> QED
  BY <1>3, GrowStep

-----------------------------------------------------------------------------
(* The steps of ExecuteFile that add to an address space.                  *)

LEMMA NoneShared ==
  ASSUME NEW m, NEW r, NEW R
  PROVE  \A s \in R \ {r} : {} \cap (Tables(m, s) \cup PrivatePages(m, s)) = {}
  OBVIOUS

LEMMA SetupStackIs ==
  ASSUME SpaceInv, NEW t \in Task, SetupStack(t)
  PROVE  /\ \E app, temp : \/ Gone(t, "shell", app, temp)
                           \/ Gone(t, "run", app, temp) /\ app = run[t].app /\ app \in App
         /\ run[t].pc = "args" /\ Growing(t) /\ cr3[t] \in Frame /\ WellFormed(mem, cr3[t])
         /\ Extends(mem, mem', cr3[t], TRUE, Range(StackPages), {})
<1> PICK r, P : r = cr3[t] /\ P = Range(StackPages)
  OBVIOUS
<1>1. run[t].pc = "args" /\ app_loads' = app_loads /\ cr3' = cr3 /\ lost' = lost
  BY DEF SetupStack, At
<1>2. PICK args : args = SetupPageMaps(mem, r, <<Head(StackPages)>>, TRUE)
  OBVIOUS
<1>3. PICK stack : stack = SetupPageMaps(args.mem, r, Tail(StackPages), TRUE)
  OBVIOUS
<1>4. \/ mem' = args.mem /\ Return(t)
      \/ mem' = stack.mem /\ (Return(t) \/ Goto(t, "run"))
  BY <1>2, <1>3 DEF SetupStack
<1>5. PICK pc, app, temp : /\ Gone(t, pc, app, temp)
                           /\ \/ pc = "shell" /\ mem' \in {args.mem, stack.mem}
                              \/ /\ pc = "run" /\ app = run[t].app /\ app \in App
                                 /\ mem' = stack.mem
  <2>1. CASE Return(t)
    BY <1>4, <2>1, ReturnIs DEF SpaceInv
  <2>2. CASE mem' = stack.mem /\ Goto(t, "run")
    <3>1. "run" \in PCs /\ run[t].app \in App
      BY <1>1 DEF PCs, SpaceInv, TypeInv
    <3>2. Gone(t, "run", run[t].app, run[t].temp_pml4)
      BY <2>2, <3>1, GotoIs DEF SpaceInv
    <3> QED
      BY <2>2, <3>1, <3>2
  <2> QED
    BY <1>4, <2>1, <2>2
<1>6. /\ Growing(t) /\ r \in Roots /\ r \in Frame /\ mem \in Memory /\ WellFormed(mem, r)
  BY <1>1, <1>5, GrowingIs DEF Loading
<1>7. P \in SUBSET Address /\ <<Head(StackPages)>> \in Seq(P) /\ Tail(StackPages) \in Seq(P)
  <2>1. StackPages \in Seq(Address) /\ StackPages # <<>>
    BY SpacesAssumption
  <2>2. \A i \in 1 .. Len(StackPages) : StackPages[i] \in P
    BY <2>1 DEF Range
  <2>3. P \in SUBSET Address
    BY <2>1 DEF Range
  <2>4. StackPages \in Seq(P)
    <3>1. \A i \in 1 .. Len(StackPages) : StackPages[i] \in P
      BY <2>2
    <3>2. StackPages = [i \in 1 .. Len(StackPages) |-> StackPages[i]] /\ Len(StackPages) \in Nat
      BY <2>1
    <3> QED
      BY <3>1, <3>2
  <2> QED
    BY <2>1, <2>3, <2>4
<1>8. Ready(mem, r, TRUE, P)
  <2>1. \A a \in Address : Present(Lookup(mem, r, a)) => a \in Range(ImagePages)
    BY <1>1 DEF SpaceInv, PlaceInv
  <2>2. Range(ImagePages) \cap P = {}
    BY SpacesAssumption
  <2> QED
    BY <1>7, <2>1, <2>2 DEF Ready
<1>9. Extends(mem, args.mem, r, TRUE, P, {})
  BY <1>2, <1>6, <1>7, <1>8, SetupPagesIs
<1>10. Extends(mem, stack.mem, r, TRUE, P, {})
  <2>1. args.mem \in Memory /\ WellFormed(args.mem, r)
    BY <1>9 DEF Extends
  <2>2. Ready(args.mem, r, TRUE, P)
    BY <1>7, <1>8, <1>9, ReadyOn
  <2>3. Extends(args.mem, stack.mem, r, TRUE, P, {})
    BY <1>3, <1>6, <1>7, <2>1, <2>2, SetupPagesIs
  <2> QED
    BY <1>6, <1>9, <2>3, ExtendsOn
<1>11. Extends(mem, mem', r, TRUE, P, {})
  BY <1>5, <1>9, <1>10
<1> QED
  BY <1>1, <1>5, <1>6, <1>11

LEMMA SetupStackOK ==
  ASSUME SpaceInv, NEW t \in Task, SetupStack(t)
  PROVE  SpaceInv' /\ OthersKept(t)
<1> PICK n, r : n = mem' /\ r = cr3[t]
  OBVIOUS
<1>1. PICK pc, app, temp : Gone(t, pc, app, temp) /\ pc \in {"shell", "run"}
  BY SetupStackIs
<1>2. /\ run[t].pc = "args" /\ Growing(t) /\ r \in Frame /\ WellFormed(mem, r)
      /\ Extends(mem, n, r, TRUE, Range(StackPages), {}) /\ mem \in Memory
  BY SetupStackIs DEF SpaceInv, TypeInv
<1>3. /\ Added(mem, n, r, {})
      /\ Pages(n, r) \ PrivatePages(n, r) \subseteq Pages(mem, r) \ PrivatePages(mem, r)
  BY <1>2, ExtendsAdded, ExtendsReadOnly, NoneShared
<1>4. CASE pc = "shell"
  BY <1>1, <1>2, <1>3, <1>4, BackInShell DEF Gone
<1>5. CASE pc = "run"
  <2>1. Shares(r)
    BY <1>2 DEF SpaceInv, PlaceInv
  <2> QED
    BY <1>1, <1>2, <1>3, <1>5, <2>1, StillRunning DEF Gone
<1> QED
  BY <1>1, <1>4, <1>5

LEMMA AddedNothing ==
  ASSUME NEW m \in Memory, NEW r \in Frame, WellFormed(m, r)
  PROVE  Added(m, m, r, {})
<1>1. Extends(m, m, r, TRUE, {}, {})
  BY ExtendsItself
<1> QED
  BY <1>1, ExtendsAdded, NoneShared

LEMMA ExitOK ==
  ASSUME SpaceInv, NEW t \in Task, Exit(t)
  PROVE  SpaceInv' /\ OthersKept(t)
<1> PICK n : n = mem
  OBVIOUS
<1>1. /\ run[t].pc = "run" /\ app_loads' = app_loads /\ cr3' = cr3 /\ lost' = lost
      /\ mem' = n /\ Goto(t, "clean")
  BY DEF Exit, At
<1>2. "clean" \in PCs /\ run[t].app \in App
  BY <1>1 DEF PCs, SpaceInv, TypeInv
<1>3. Gone(t, "clean", run[t].app, run[t].temp_pml4)
  BY <1>1, <1>2, GotoIs DEF SpaceInv
<1>4. Growing(t) /\ cr3[t] \in Frame /\ mem \in Memory /\ WellFormed(mem, cr3[t])
  BY <1>1, <1>2, <1>3, GrowingIs DEF Loading
<1>5. Added(mem, n, cr3[t], {})
  BY <1>4, AddedNothing
<1>6. Shares(cr3[t])
  BY <1>1 DEF SpaceInv, PlaceInv
<1> QED
  BY <1>1, <1>3, <1>4, <1>5, <1>6, StillRunning DEF Gone

-----------------------------------------------------------------------------
(* The program and its faults.                                             *)

(* Only the contents of frame f are others.                                *)
Filled(m, n, f, c) ==
  /\ n \in Memory /\ n.alloc = m.alloc /\ n.table = m.table
  /\ n.page = [m.page EXCEPT ![f] = c]

LEMMA FilledIs ==
  ASSUME NEW m \in Memory, NEW f \in Frame, NEW c \in Content,
         NEW n, n = [m EXCEPT !.page[f] = c]
  PROVE  Filled(m, n, f, c)
<1>1. PICK p : p = [m.page EXCEPT ![f] = c]
  OBVIOUS
<1>2. p \in [Frame -> Content]
  BY <1>1 DEF Memory
<1>3. n = [m EXCEPT !.page = p]
  BY <1>1
<1>4. n \in Memory /\ n.alloc = m.alloc /\ n.table = m.table /\ n.page = p
  BY <1>2, <1>3 DEF Memory
<1> QED
  BY <1>1, <1>4 DEF Filled

LEMMA StoreIs ==
  ASSUME NEW m \in Memory, NEW t \in Task, NEW a \in Address, cr3[t] \in Frame,
         Present(Lookup(m, cr3[t], a)), NEW n, n = Store(m, t, a)
  PROVE  \E c : Filled(m, n, Lookup(m, cr3[t], a).frame, c)
<1>1. PICK f : f = Lookup(m, cr3[t], a).frame
  OBVIOUS
<1>2. f \in Frame
  BY <1>1, LookupIs, EntryIs
<1>3. m.page[f] \in Content
  BY <1>2 DEF Memory
<1>4. PICK c : c = [m.page[f] EXCEPT !.by = @ \cup {t}]
  OBVIOUS
<1>5. c \in Content
  <2>1. m.page[f].by \cup {t} \in SUBSET Task
    BY <1>3 DEF Content
  <2> QED
    BY <1>3, <1>4, <2>1 DEF Content
<1>6. n = [m EXCEPT !.page[f] = c]
  BY <1>1, <1>4 DEF Store
<1>7. Filled(m, n, f, c)
  BY <1>2, <1>5, <1>6, FilledIs
<1> QED
  BY <1>1, <1>7

(* What a fault has done to the address space r.                           *)
Faulted(m, n, r) ==
  /\ Added(m, n, r, {})
  /\ Pages(n, r) \ PrivatePages(n, r) \subseteq Pages(m, r) \ PrivatePages(m, r)

LEMMA FaultedContents ==
  ASSUME NEW m \in Memory, NEW n, NEW o \in Memory, NEW r \in Frame, Faulted(m, n, r),
         o.alloc = n.alloc, o.table = n.table
  PROVE  Faulted(m, o, r) /\ SameSpace(n, o, r)
<1>1. Added(m, o, r, {}) /\ SameSpace(n, o, r)
  BY AddedContents DEF Faulted
<1> QED
  BY <1>1 DEF Faulted, SameSpace

(* A page of its own for one absent address.                               *)
LEMMA OnePage ==
  ASSUME NEW m \in Memory, NEW r \in Frame, WellFormed(m, r), NEW a \in Address,
         ~Present(Lookup(m, r, a)),
         NEW res, res = SetupPageMaps(m, r, <<a>>, TRUE)
  PROVE  /\ Faulted(m, res.mem, r) /\ res.mem \in Memory
         /\ res.ok \in BOOLEAN
         /\ res.ok => Present(Lookup(res.mem, r, a))
<1>1. {a} \in SUBSET Address /\ <<a>> \in Seq({a}) /\ Ready(m, r, TRUE, {a})
  BY DEF Ready
<1>2. a \in Range(<<a>>)
  BY DEF Range
<1>3. /\ Extends(m, res.mem, r, TRUE, {a}, {})
      /\ res.ok \in BOOLEAN
      /\ res.ok => \A b \in Range(<<a>>) : Present(Lookup(res.mem, r, b))
  BY <1>1, SetupPagesIs
<1>4. Faulted(m, res.mem, r)
  BY <1>3, ExtendsAdded, ExtendsReadOnly, NoneShared DEF Faulted
<1> QED
  BY <1>2, <1>3, <1>4 DEF Extends

LEMMA PreparePageCacheIs ==
  ASSUME mem \in Memory, NEW r \in Frame, WellFormed(mem, r), NEW a \in Address,
         ~Present(Lookup(mem, r, a)), NEW res, res = PreparePageCache(r, a)
  PROVE  /\ Faulted(mem, res.mem, r) /\ res.mem \in Memory
         /\ res.ok \in BOOLEAN
         /\ res.ok => Present(Lookup(res.mem, r, a))
<1>1. PICK q : q = SetupPageMaps(mem, r, <<a>>, TRUE)
  OBVIOUS
<1>2. /\ Faulted(mem, q.mem, r) /\ q.mem \in Memory
      /\ q.ok \in BOOLEAN
      /\ q.ok => Present(Lookup(q.mem, r, a))
  BY <1>1, OnePage
<1>3. CASE ~q.ok
  BY <1>1, <1>2, <1>3 DEF PreparePageCache
<1>4. CASE q.ok
  <2>1. PICK f, c : f = Lookup(q.mem, r, a).frame /\ c = [base |-> "file", by |-> {}]
    OBVIOUS
  <2>2. f \in Frame /\ c \in Content
    BY <1>2, <1>4, <2>1, LookupIs, EntryIs DEF Content
  <2>3. PICK m1, o : m1 = q.mem /\ o = [m1 EXCEPT !.page[f] = c]
    OBVIOUS
  <2>4. Filled(m1, o, f, c)
    BY <1>2, <2>2, <2>3, FilledIs
  <2>5. res.mem = o /\ res.ok = TRUE
    BY <1>1, <1>4, <2>1, <2>3 DEF PreparePageCache
  <2>6. Faulted(mem, o, r) /\ SameSpace(m1, o, r)
    <3>1. o \in Memory /\ o.alloc = m1.alloc /\ o.table = m1.table /\ Faulted(mem, m1, r)
      BY <1>2, <2>3, <2>4 DEF Filled
    <3> QED
      BY <3>1, FaultedContents
  <2> QED
    BY <1>2, <1>4, <2>3, <2>4, <2>5, <2>6 DEF Filled, SameSpace
<1> QED
  BY <1>2, <1>3, <1>4

LEMMA HandlePageFaultIs ==
  ASSUME SpaceInv, NEW t \in Task, run[t].pc = "run", NEW r \in Frame, r = cr3[t],
         WellFormed(mem, r), NEW a \in Address, ~Lookup(mem, r, a).writable,
         NEW res, res = HandlePageFault(t, a)
  PROVE  /\ Faulted(mem, res.mem, r) /\ res.mem \in Memory
         /\ res.ok \in BOOLEAN
         /\ res.ok => Present(Lookup(res.mem, r, a))
<1>1. mem \in Memory /\ Shares(r)
  BY DEF SpaceInv, TypeInv, PlaceInv
<1>2. Faulted(mem, mem, r)
  BY <1>1, AddedNothing DEF Faulted
<1>3. CASE Present(Lookup(mem, r, a))
  <2>1. res = CopyOnePage(mem, r, a)
    BY <1>3 DEF HandlePageFault
  <2>2. PICK o : o = res.mem
    OBVIOUS
  <2>3. \/ res.ok = FALSE /\ o = mem
        \/ res.ok = TRUE /\ \E f : CopiedPage(mem, o, r, a, f)
    BY <1>1, <1>3, <2>1, <2>2, CopyOnePageIs
  <2>4. CASE res.ok = TRUE
    <3>1. PICK f : CopiedPage(mem, o, r, a, f)
      BY <2>3, <2>4
    <3>2. o \in Memory
      BY <3>1 DEF CopiedPage
    <3>3. /\ Grows(mem, o, r, {}) /\ Fresh(mem, o) \subseteq Pages(o, r)
          /\ Pages(mem, r) \subseteq Pages(o, r) \cup {Lookup(mem, r, a).frame}
          /\ Pages(o, r) \ PrivatePages(o, r) \subseteq Pages(mem, r) \ PrivatePages(mem, r)
      BY <1>1, <3>1, <3>2, CopyGrows
    <3>4. Shared(Lookup(mem, r, a).frame)
      <4>1. PICK g : g = Lookup(mem, r, a).frame
        OBVIOUS
      <4>2. g \in Pages(mem, r)
        BY <1>1, <1>3, <4>1, PagesAre
      <4>3. ASSUME g \in PrivatePages(mem, r)
            PROVE  FALSE
        <5>1. PICK b \in Address : /\ Present(Lookup(mem, r, b)) /\ Lookup(mem, r, b).writable
                                   /\ g = Lookup(mem, r, b).frame
          BY <1>1, <4>3, PagesAre
        <5>2. a = b
          BY <1>3, <4>1, <5>1 DEF WellFormed
        <5> QED
          BY <5>1, <5>2
      <4> QED
        BY <1>1, <4>1, <4>2, <4>3 DEF Shares
    <3>5. Tables(o, r) = Tables(mem, r) /\ Present(Lookup(o, r, a))
      <4>1. PICK e : e = [frame |-> f, writable |-> TRUE]
        OBVIOUS
      <4>2. HasPut(mem, o, r, f, a, TRUE)
        BY <3>1 DEF CopiedPage
      <4>3. Present(e) /\ Lookup(o, r, a) = e
        BY <4>1, <4>2 DEF HasPut
      <4> QED
        BY <4>2, <4>3 DEF HasPut
    <3>6. Faulted(mem, o, r)
      BY <3>2, <3>3, <3>4, <3>5, NoneShared DEF Faulted, Added
    <3> QED
      BY <2>2, <2>4, <3>2, <3>5, <3>6
  <2> QED
    BY <1>1, <1>2, <2>2, <2>3, <2>4
<1>4. CASE ~Present(Lookup(mem, r, a))
  <2>1. CASE a \in HeapPages
    <3>1. a \notin FilePages
      BY <2>1, SpacesAssumption
    <3>2. res = SetupPageMaps(mem, r, <<a>>, TRUE)
      BY <1>4, <2>1, <3>1 DEF HandlePageFault
    <3> QED
      BY <1>1, <1>4, <3>2, OnePage
  <2>2. CASE a \in FilePages
    <3>1. a \notin HeapPages
      BY <2>2, SpacesAssumption
    <3>2. res = PreparePageCache(r, a)
      BY <1>4, <2>2, <3>1 DEF HandlePageFault
    <3> QED
      BY <1>1, <1>4, <3>2, PreparePageCacheIs
  <2>3. CASE a \notin HeapPages /\ a \notin FilePages
    <3>1. res.mem = mem /\ res.ok = FALSE
      BY <1>4, <2>3 DEF HandlePageFault
    <3> QED
      BY <1>1, <1>2, <3>1
  <2> QED
    BY <2>1, <2>2, <2>3
<1> QED
  BY <1>3, <1>4

(* The memory after an access of the program.                              *)
LEMMA AccessOK ==
  ASSUME SpaceInv, NEW t \in Task, run[t].pc = "run", UNCHANGED <<app_loads, cr3, lost>>,
         UNCHANGED run \/ Goto(t, "clean"), NEW n, n = mem',
         WellFormed(mem, cr3[t]) => Faulted(mem, n, cr3[t])
  PROVE  SpaceInv' /\ OthersKept(t)
<1>1. run[t].app \in App /\ run \in [Task -> Place] /\ "clean" \in PCs
  BY DEF SpaceInv, TypeInv, PCs
<1>2. PICK pc, app, temp : Gone(t, pc, app, temp) /\ pc \in {"run", "clean"} /\ app \in App
  <2>1. CASE run' = run
    <3>1. Gone(t, "run", run[t].app, run[t].temp_pml4)
      BY <1>1, <2>1 DEF Gone
    <3> QED
      BY <1>1, <3>1
  <2>2. CASE Goto(t, "clean")
    <3>1. Gone(t, "clean", run[t].app, run[t].temp_pml4)
      BY <1>1, <2>2, GotoIs DEF SpaceInv
    <3> QED
      BY <1>1, <3>1
  <2> QED
    BY <2>1, <2>2
<1>3. Growing(t) /\ WellFormed(mem, cr3[t])
  BY <1>2, GrowingIs DEF Loading
<1>4. Shares(cr3[t])
  BY DEF SpaceInv, PlaceInv
<1> QED
  BY <1>2, <1>3, <1>4, StillRunning DEF Gone, Faulted


(* A store to a page that is there, perhaps after a fault.                 *)
LEMMA StoredIs ==
  ASSUME mem \in Memory, NEW t \in Task, NEW a \in Address, NEW r \in Frame, r = cr3[t],
         NEW m \in Memory, Faulted(mem, m, r), Present(Lookup(m, r, a)),
         NEW n, n = Store(m, t, a)
  PROVE  Faulted(mem, n, r)
<1>1. PICK c : Filled(m, n, Lookup(m, r, a).frame, c)
  BY StoreIs
<1>2. n \in Memory /\ n.alloc = m.alloc /\ n.table = m.table
  BY <1>1 DEF Filled
<1> QED
  BY <1>2, FaultedContents

LEMMA WriteMemoryOK ==
  ASSUME SpaceInv, NEW t \in Task, NEW a \in Address, WriteMemory(t, a)
  PROVE  SpaceInv' /\ OthersKept(t)
<1> PICK n, r, fault : n = mem' /\ r = cr3[t] /\ fault = HandlePageFault(t, a)
  OBVIOUS
<1>1. /\ run[t].pc = "run" /\ app_loads' = app_loads /\ cr3' = cr3 /\ lost' = lost
      /\ mem \in Memory
  BY DEF WriteMemory, At, SpaceInv, TypeInv
<1>2. IF Lookup(mem, r, a).writable
      THEN n = Store(mem, t, a) /\ run' = run
      ELSE IF fault.ok THEN n = Store(fault.mem, t, a) /\ run' = run
           ELSE n = fault.mem /\ Goto(t, "clean")
  BY DEF WriteMemory
<1>3. ASSUME WellFormed(mem, r)
      PROVE  Faulted(mem, n, r)
  <2>1. r \in Frame /\ Lookup(mem, r, a) \in EntryType
    BY <1>1, <1>3, LookupIs DEF WellFormed
  <2>2. CASE Lookup(mem, r, a).writable
    <3>1. Present(Lookup(mem, r, a))
      <4>1. NotPresent.writable = FALSE
        BY DEF NotPresent
      <4> QED
        BY <2>1, <2>2, <4>1, EntryIs
    <3>2. Faulted(mem, mem, r)
      BY <1>1, <1>3, <2>1, AddedNothing DEF Faulted
    <3> QED
      BY <1>1, <1>2, <2>1, <2>2, <3>1, <3>2, StoredIs
  <2>3. CASE ~Lookup(mem, r, a).writable
    <3>1. /\ Faulted(mem, fault.mem, r) /\ fault.mem \in Memory /\ fault.ok \in BOOLEAN
          /\ fault.ok => Present(Lookup(fault.mem, r, a))
      BY <1>1, <1>3, <2>1, <2>3, HandlePageFaultIs
    <3> PICK m : m = fault.mem
      OBVIOUS
    <3>2. CASE fault.ok
      <4>1. m \in Memory /\ Faulted(mem, m, r) /\ Present(Lookup(m, r, a))
            /\ n = Store(m, t, a)
        BY <1>2, <2>3, <3>1, <3>2
      <4> QED
        BY <1>1, <2>1, <4>1, StoredIs
    <3>3. CASE ~fault.ok
      BY <1>2, <2>3, <3>1, <3>3
    <3> QED
      BY <3>2, <3>3
  <2> QED
    BY <2>2, <2>3
<1>4. run' = run \/ Goto(t, "clean")
  BY <1>2
<1> QED
  BY <1>1, <1>3, <1>4, AccessOK

LEMMA ReadMemoryOK ==
  ASSUME SpaceInv, NEW t \in Task, NEW a \in Address, ReadMemory(t, a)
  PROVE  SpaceInv' /\ OthersKept(t)
<1> PICK n, r, fault : n = mem' /\ r = cr3[t] /\ fault = HandlePageFault(t, a)
  OBVIOUS
<1>1. /\ run[t].pc = "run" /\ app_loads' = app_loads /\ cr3' = cr3 /\ lost' = lost
      /\ n = fault.mem /\ (run' = run \/ Goto(t, "clean")) /\ mem \in Memory
      /\ ~Present(Lookup(mem, r, a))
  BY DEF ReadMemory, At, SpaceInv, TypeInv
<1>2. ASSUME WellFormed(mem, r)
      PROVE  Faulted(mem, n, r)
  <2>1. r \in Frame
    BY <1>2 DEF WellFormed
  <2>2. ~Lookup(mem, r, a).writable
    <3>1. Lookup(mem, r, a) = NotPresent
      BY <1>1, <2>1, LookupIs, EntryIs
    <3>2. NotPresent.writable = FALSE
      BY DEF NotPresent
    <3> QED
      BY <3>1, <3>2
  <2> QED
    BY <1>1, <1>2, <2>1, <2>2, HandlePageFaultIs
<1> QED
  BY <1>1, <1>2, AccessOK

LEMMA SystemCallWritesOK ==
  ASSUME SpaceInv, NEW t \in Task, NEW a \in Address, SystemCallWrites(t, a)
  PROVE  SpaceInv' /\ OthersKept(t)
<1> PICK n, r, fault : n = mem' /\ r = cr3[t] /\ fault = HandlePageFault(t, a)
  OBVIOUS
<1>1. /\ run[t].pc = "run" /\ app_loads' = app_loads /\ cr3' = cr3 /\ lost' = lost
      /\ run' = run /\ mem \in Memory
  BY DEF SystemCallWrites, At, SpaceInv, TypeInv
<1>2. IF Present(Lookup(mem, r, a)) THEN n = Store(mem, t, a)
      ELSE IF fault.ok THEN n = Store(fault.mem, t, a) ELSE n = fault.mem
  BY DEF SystemCallWrites
<1>3. ASSUME WellFormed(mem, r)
      PROVE  Faulted(mem, n, r)
  <2>1. r \in Frame
    BY <1>3 DEF WellFormed
  <2>2. CASE Present(Lookup(mem, r, a))
    <3>1. Faulted(mem, mem, r)
      BY <1>1, <1>3, <2>1, AddedNothing DEF Faulted
    <3> QED
      BY <1>1, <1>2, <2>1, <2>2, <3>1, StoredIs
  <2>3. CASE ~Present(Lookup(mem, r, a))
    <3>1. ~Lookup(mem, r, a).writable
      <4>1. Lookup(mem, r, a) = NotPresent
        BY <1>1, <2>1, <2>3, LookupIs, EntryIs
      <4>2. NotPresent.writable = FALSE
        BY DEF NotPresent
      <4> QED
        BY <4>1, <4>2
    <3>2. /\ Faulted(mem, fault.mem, r) /\ fault.mem \in Memory /\ fault.ok \in BOOLEAN
          /\ fault.ok => Present(Lookup(fault.mem, r, a))
      BY <1>1, <1>3, <2>1, <3>1, HandlePageFaultIs
    <3> PICK m : m = fault.mem
      OBVIOUS
    <3>3. CASE fault.ok
      <4>1. m \in Memory /\ Faulted(mem, m, r) /\ Present(Lookup(m, r, a))
            /\ n = Store(m, t, a)
        BY <1>2, <2>3, <3>2, <3>3
      <4> QED
        BY <1>1, <2>1, <4>1, StoredIs
    <3>4. CASE ~fault.ok
      BY <1>2, <2>3, <3>2, <3>4
    <3> QED
      BY <3>3, <3>4
  <2> QED
    BY <2>2, <2>3
<1> QED
  BY <1>1, <1>3, AccessOK

-----------------------------------------------------------------------------
(* Loading an application and sharing its image.                           *)

(* CopyPageMaps from an image, or from one that was doubled.               *)
LEMMA CopyingIs ==
  ASSUME SpaceInv, NEW t \in Task, run[t].pc \in {"find", "copy"},
         NEW src \in Roots, src # cr3[t], ImageLike(mem, src)
  PROVE  /\ Copying(mem, cr3[t], src) /\ PrivatePages(mem, src) = {}
         /\ mem.table[cr3[t]] = EmptyTable
<1> PICK r : r = cr3[t]
  OBVIOUS
<1>1. mem.table[r] = EmptyTable /\ r # NoFrame
  BY DEF SpaceInv, PlaceInv
<1>2. r \in Roots
  BY <1>1, RootsAre
<1>3. /\ r \in Frame /\ src \in Frame /\ WellFormed(mem, src) /\ mem \in Memory
  BY <1>2 DEF SpaceInv, TypeInv, Spaces, WellFormed
<1>4. PrivatePages(mem, src) = {}
  <2>1. \A f : f \notin PrivatePages(mem, src)
    BY <1>3, PagesAre DEF ImageLike
  <2> QED
    BY <2>1
<1>5. Spaces(mem, {r, src})
  BY <1>2, <1>3, SubSpaces DEF SpaceInv
<1> QED
  BY <1>1, <1>3, <1>4, <1>5 DEF Copying

LEMMA CopyStep ==
  ASSUME SpaceInv, NEW t \in Task, run[t].pc \in {"find", "copy"},
         UNCHANGED <<app_loads, cr3, lost>>,
         NEW src \in Roots, src # cr3[t], ImageLike(mem, src), Image(src) \/ Left(src),
         NEW copy, copy = CopyPageMaps(mem, cr3[t], src), mem' = copy.mem,
         IF copy.ok THEN Goto(t, "args") ELSE Return(t)
  PROVE  SpaceInv' /\ OthersKept(t)
<1> PICK n, r : n = mem' /\ r = cr3[t]
  OBVIOUS
<1>1. PICK pc, app, temp : /\ Gone(t, pc, app, temp)
                           /\ \/ pc = "shell"
                              \/ pc = "args" /\ app \in App /\ copy.ok
  <2>1. CASE Return(t)
    <3>1. Gone(t, "shell", "none", NoFrame)
      BY <2>1, ReturnIs DEF SpaceInv
    <3> QED
      BY <3>1
  <2>2. CASE copy.ok /\ Goto(t, "args")
    <3>1. "args" \in PCs /\ run[t].app \in App
      BY DEF PCs, SpaceInv, TypeInv
    <3>2. Gone(t, "args", run[t].app, run[t].temp_pml4)
      BY <2>2, <3>1, GotoIs DEF SpaceInv
    <3> QED
      BY <2>2, <3>1, <3>2
  <2> QED
    BY <2>1, <2>2
<1>2. Growing(t) /\ r \in Roots /\ r \in Frame /\ mem \in Memory /\ WellFormed(mem, r)
  BY <1>1, GrowingIs DEF Loading
<1>3. mem.table[r] = EmptyTable /\ Copying(mem, r, src) /\ PrivatePages(mem, src) = {}
  BY CopyingIs
<1>4. src \in Frame /\ WellFormed(mem, src)
  BY DEF SpaceInv, Spaces, WellFormed
<1>7. /\ Extends(mem, n, r, FALSE, Used(mem, src), Pages(mem, src))
      /\ Copied(n, r, src, TableSize) /\ SameSpace(mem, n, src) /\ n \in Memory
  <2>1. n = copy.mem /\ copy = CopyPageMaps(mem, r, src)
    OBVIOUS
  <2>2. /\ Extends(mem, copy.mem, r, FALSE, Used(mem, src), Pages(mem, src))
        /\ Copied(copy.mem, r, src, TableSize) /\ SameSpace(mem, copy.mem, src)
    BY <1>3, <2>1, CopyPageMapsIs
  <2> QED
    BY <2>1, <2>2 DEF Extends
<1>8. ASSUME NEW s \in Roots \ {r}
      PROVE  Pages(mem, src) \cap (Tables(mem, s) \cup PrivatePages(mem, s)) = {}
  <2>1. CASE s = src
    BY <1>3, <1>4, <2>1 DEF WellFormed
  <2>2. CASE s # src
    BY <2>2 DEF SpaceInv, Spaces, Apart
  <2> QED
    BY <2>1, <2>2
<1>9. Added(mem, n, r, Pages(mem, src))
  BY <1>2, <1>7, <1>8, ExtendsAdded
<1>10. CASE pc = "shell"
  BY <1>1, <1>2, <1>9, <1>10, BackInShell DEF Gone
<1>11. CASE pc = "args"
  <2>1. cr3' = cr3 /\ app_loads' = app_loads /\ r # NoFrame /\ ~Image(r)
    BY <1>2 DEF Growing
  <2>2. ASSUME NEW a \in Address, Present(Lookup(n, r, a))
        PROVE  a \in Range(ImagePages) /\ Lookup(n, r, a).frame \in Pages(mem, src)
    <3>1. Present(Lookup(n, src, a))
      BY <1>7, <2>2 DEF Copied
    <3>2. Present(Lookup(mem, src, a))
      BY <1>7, <3>1 DEF SameSpace
    <3> PICK e : e = Lookup(n, r, a)
      OBVIOUS
    <3>3. e = [frame |-> Lookup(n, src, a).frame, writable |-> FALSE]
      BY <1>7, <2>2 DEF Copied
    <3>4. e.frame = Lookup(mem, src, a).frame
      BY <1>7, <3>3 DEF SameSpace
    <3> QED
      BY <1>2, <1>4, <3>2, <3>4, PagesAre DEF ImageLike
  <2>3. \A f : Shared(f) => Shared(f)'
    BY <1>2, <1>9, AddedKept, ImagesKept
  <2>4. \A f \in Pages(mem, src) : Shared(f)
    BY <1>4 DEF Left, Shared
  <2>5. \A f \in Pages(n, r) : Shared(f)'
    <3> SUFFICES ASSUME NEW f \in Pages(n, r)
                 PROVE  Shared(f)'
      OBVIOUS
    <3>1. PICK a \in Address : Present(Lookup(n, r, a)) /\ f = Lookup(n, r, a).frame
      BY <1>2, <1>7, PagesAre
    <3> QED
      BY <2>2, <2>3, <2>4, <3>1
  <2>6. Shares(r)'
    BY <2>5 DEF Shares
  <2>7. PlaceInv(t)'
    BY <1>1, <1>11, <2>1, <2>2, <2>6 DEF PlaceInv, Gone, Image
  <2> QED
    BY <1>2, <1>9, <2>7, GrowStep
<1> QED
  BY <1>1, <1>10, <1>11

LEMMA FindImageOK ==
  ASSUME SpaceInv, NEW t \in Task, FindImage(t)
  PROVE  SpaceInv' /\ OthersKept(t)
<1> PICK src, copy : /\ src = app_loads[run[t].app]
                     /\ copy = CopyPageMaps(mem, run[t].temp_pml4, app_loads[run[t].app])
  OBVIOUS
<1>1. /\ run[t].pc = "find" /\ app_loads' = app_loads /\ cr3' = cr3 /\ lost' = lost
      /\ src # NoFrame /\ mem' = copy.mem
      /\ IF copy.ok THEN Goto(t, "args") ELSE Return(t)
  BY DEF FindImage, At
<1>2. run[t].app \in App /\ PlaceInv(t)
  BY <1>1 DEF SpaceInv, TypeInv
<1>3. Image(src)
  BY <1>1, <1>2 DEF Image
<1>4. run[t].temp_pml4 = cr3[t] /\ ~Image(cr3[t])
  BY <1>1, <1>2 DEF PlaceInv
<1>5. src \in Roots /\ ImageLike(mem, src) /\ src # cr3[t]
  BY <1>3, <1>4, ImageIsRoot
<1>6. copy = CopyPageMaps(mem, cr3[t], src)
  BY <1>4
<1> QED
  BY <1>1, <1>3, <1>5, <1>6, CopyStep

LEMMA CopyImageOK ==
  ASSUME SpaceInv, NEW t \in Task, CopyImage(t)
  PROVE  SpaceInv' /\ OthersKept(t)
<1> PICK src, copy : /\ src = run[t].temp_pml4
                     /\ copy = CopyPageMaps(mem, cr3[t], run[t].temp_pml4)
  OBVIOUS
<1>1. /\ run[t].pc = "copy" /\ app_loads' = app_loads /\ cr3' = cr3 /\ lost' = lost
      /\ mem' = copy.mem
      /\ IF copy.ok THEN Goto(t, "args") ELSE Return(t)
  BY DEF CopyImage, At
<1>2. PlaceInv(t)
  BY DEF SpaceInv
<1>3. src # NoFrame /\ ImageLike(mem, src) /\ (Image(src) \/ Left(src)) /\ src # cr3[t]
  BY <1>1, <1>2 DEF PlaceInv
<1>4. src \in Roots
  BY <1>1, <1>3, RootsAre DEF Loading
<1> QED
  BY <1>1, <1>3, <1>4, CopyStep

(* The segments are there, read-only, and nothing else.                    *)
LEMMA CopyLoadSegmentsIs ==
  ASSUME mem \in Memory, NEW r \in Frame, WellFormed(mem, r), mem.table[r] = EmptyTable,
         NEW app \in App, NEW res, res = CopyLoadSegments(r, app)
  PROVE  /\ Added(mem, res.mem, r, {}) /\ res.mem \in Memory
         /\ \A a \in Address : Present(Lookup(res.mem, r, a)) => a \in Range(ImagePages)
         /\ ImageLike(res.mem, r)
<1> PICK P, q : P = Range(ImagePages) /\ q = SetupPageMaps(mem, r, ImagePages, FALSE)
  OBVIOUS
<1>1. \A a \in Address : ~Present(Lookup(mem, r, a))
  BY EmptySpace
<1>2. P \in SUBSET Address /\ ImagePages \in Seq(P)
  <2>1. ImagePages \in Seq(Address)
    BY SpacesAssumption
  <2>2. \A i \in 1 .. Len(ImagePages) : ImagePages[i] \in P
    BY <2>1 DEF Range
  <2>3. ImagePages = [i \in 1 .. Len(ImagePages) |-> ImagePages[i]] /\ Len(ImagePages) \in Nat
    BY <2>1
  <2> QED
    BY <2>1, <2>2, <2>3 DEF Range
<1>3. Ready(mem, r, FALSE, P)
  BY <1>1, <1>2 DEF Ready
<1>4. Extends(mem, q.mem, r, FALSE, P, {})
  BY <1>2, <1>3, SetupPagesIs
<1>5. q.mem \in Memory /\ Added(mem, q.mem, r, {})
  <2> PICK k : k = q.mem
    OBVIOUS
  <2>1. k \in Memory
    BY <1>4 DEF Extends
  <2>2. Added(mem, k, r, {})
    BY <1>4, ExtendsAdded, NoneShared
  <2> QED
    BY <2>1, <2>2
<1>6. \A a \in Address : Present(Lookup(q.mem, r, a)) => a \in P /\ ~Lookup(q.mem, r, a).writable
  BY <1>1, <1>4 DEF Extends
<1>7. CASE ~q.ok
  BY <1>5, <1>6, <1>7 DEF CopyLoadSegments, ImageLike
<1>8. CASE q.ok
  <2> PICK image, m, c : /\ image = {Lookup(q.mem, r, a).frame : a \in Range(ImagePages)}
                         /\ m = q.mem /\ c = [base |-> app, by |-> {}]
    OBVIOUS
  <2>1. c \in Content
    BY DEF Content
  <2> PICK p : p = [f \in Frame |-> IF f \in image THEN c ELSE m.page[f]]
    OBVIOUS
  <2>2. p \in [Frame -> Content]
    BY <1>5, <2>1 DEF Memory
  <2> PICK o : o = [m EXCEPT !.page = p]
    OBVIOUS
  <2>3. o \in Memory /\ o.alloc = m.alloc /\ o.table = m.table
    BY <1>5, <2>2 DEF Memory
  <2>4. res.mem = o
    BY <1>8 DEF CopyLoadSegments
  <2>5. Added(mem, o, r, {}) /\ SameSpace(m, o, r)
    BY <1>5, <2>3, AddedContents
  <2> QED
    BY <1>6, <2>3, <2>4, <2>5 DEF ImageLike, SameSpace
<1> QED
  BY <1>7, <1>8

LEMMA LoadELFOK ==
  ASSUME SpaceInv, NEW t \in Task, LoadELF(t)
  PROVE  SpaceInv' /\ OthersKept(t)
<1> PICK n, r, loaded : /\ n = mem' /\ r = cr3[t]
                        /\ loaded = CopyLoadSegments(run[t].temp_pml4, run[t].app)
  OBVIOUS
<1>1. /\ run[t].pc = "find" /\ app_loads' = app_loads /\ cr3' = cr3 /\ lost' = lost
      /\ \/ n = mem /\ Return(t)
         \/ n = loaded.mem /\ (Return(t) \/ Goto(t, "insert"))
  BY DEF LoadELF, At
<1>2. /\ run[t].app \in App /\ run[t].temp_pml4 = r /\ mem.table[r] = EmptyTable
      /\ mem \in Memory
  BY <1>1 DEF SpaceInv, TypeInv, PlaceInv
<1>3. PICK pc, app, temp : /\ Gone(t, pc, app, temp)
                           /\ \/ pc = "shell" /\ n \in {mem, loaded.mem}
                              \/ pc = "insert" /\ n = loaded.mem /\ app \in App /\ temp = r
  <2>1. CASE Return(t)
    <3>1. Gone(t, "shell", "none", NoFrame)
      BY <2>1, ReturnIs DEF SpaceInv
    <3> QED
      BY <1>1, <3>1
  <2>2. CASE n = loaded.mem /\ Goto(t, "insert")
    <3>1. "insert" \in PCs
      BY DEF PCs
    <3>2. Gone(t, "insert", run[t].app, run[t].temp_pml4)
      BY <2>2, <3>1, GotoIs DEF SpaceInv
    <3> QED
      BY <1>2, <2>2, <3>2
  <2> QED
    BY <1>1, <2>1, <2>2
<1>4. Growing(t) /\ r \in Frame /\ WellFormed(mem, r)
  BY <1>1, <1>3, GrowingIs DEF Loading
<1>5. /\ Added(mem, loaded.mem, r, {})
      /\ \A a \in Address : Present(Lookup(loaded.mem, r, a)) => a \in Range(ImagePages)
      /\ ImageLike(loaded.mem, r)
  BY <1>2, <1>4, CopyLoadSegmentsIs
<1>6. Added(mem, n, r, {})
  BY <1>2, <1>3, <1>4, <1>5, AddedNothing
<1>7. CASE pc = "shell"
  BY <1>3, <1>4, <1>6, <1>7, BackInShell DEF Gone
<1>8. CASE pc = "insert"
  <2>1. r # NoFrame /\ ~Image(r)
    BY <1>4 DEF Growing
  <2>2. PlaceInv(t)'
    BY <1>1, <1>3, <1>5, <1>8, <2>1 DEF PlaceInv, Gone, Image
  <2> QED
    BY <1>4, <1>6, <2>2, GrowStep
<1> QED
  BY <1>3, <1>7, <1>8

-----------------------------------------------------------------------------
(* The steps that change who has which page map.                           *)

LEMMA RootFrame ==
  ASSUME SpaceInv, NEW x \in Roots
  PROVE  x \in Frame /\ x \in mem.alloc /\ WellFormed(mem, x) /\ mem \in Memory
<1>1. WellFormed(mem, x) /\ mem \in Memory
  BY DEF SpaceInv, Spaces, TypeInv
<1> QED
  BY <1>1, TablesAre DEF WellFormed

LEMMA OwnersKept ==
  ASSUME SpaceInv, NEW t \in Task, OthersKept(t), app_loads' = app_loads
  PROVE  OwnerInv'
<1>1. ASSUME NEW u \in Task, NEW w \in Task, cr3'[u] = cr3'[w], cr3'[u] # NoFrame, u # w
      PROVE  FALSE
  <2>1. ASSUME NEW x \in Task, x # t, cr3'[t] = cr3'[x], cr3'[t] # NoFrame
        PROVE  FALSE
    <3>1. cr3'[x] = cr3[x] /\ cr3[x] # cr3[t]
      BY <2>1 DEF OthersKept, SpaceInv, OwnerInv
    <3>2. cr3[x] \in mem.alloc
      BY <2>1, <3>1, RootsAre, RootFrame
    <3> QED
      BY <2>1, <3>1, <3>2 DEF OthersKept
  <2>2. CASE u = t \/ w = t
    BY <1>1, <2>1, <2>2
  <2>3. CASE u # t /\ w # t
    BY <1>1, <2>3 DEF OthersKept, SpaceInv, OwnerInv
  <2> QED
    BY <2>2, <2>3
<1>2. ASSUME NEW app \in App, app_loads[app] # NoFrame
      PROVE  ImageLike(mem', app_loads[app])
  <2> PICK x : x = app_loads[app]
    OBVIOUS
  <2>1. Image(x)
    BY <1>2 DEF Image
  <2>2. ImageLike(mem, x) /\ SameSpace(mem, mem', x)
    BY <2>1, ImageIsRoot, ImagesKept
  <2> QED
    BY <2>2, SameImageLike
<1> QED
  BY <1>1, <1>2 DEF SpaceInv, OwnerInv

(* The parts of a step that are left when the others are kept.             *)
LEMMA StepOK ==
  ASSUME SpaceInv, NEW t \in Task, OthersKept(t), app_loads' = app_loads,
         cr3' \in [Task -> Frame \cup {NoFrame}], run' \in [Task -> Place],
         run'[t].pc # "shell" => run'[t].app \in App,
         Spaces(mem', Roots'), mem'.alloc \subseteq Mapped' \cup lost', PlaceInv(t)'
  PROVE  SpaceInv' /\ OthersKept(t)
<1>1. OwnerInv'
  BY OwnersKept
<1>2. TypeInv'
  BY DEF SpaceInv, TypeInv, OthersKept
<1>3. \A u \in Task : PlaceInv(u)'
  <2>1. \A u \in Task \ {t} : PlaceInv(u)'
    BY OthersPlaces
  <2> QED
    BY <2>1
<1> QED
  BY <1>1, <1>2, <1>3 DEF SpaceInv

LEMMA NextRoots ==
  \A x : x \in Roots' <=>
    /\ x # NoFrame
    /\ \/ \E t \in Task : x = cr3'[t]
       \/ \E app \in App : x = app_loads'[app]
       \/ \E t \in Task : run'[t].pc \in Loading /\ x = run'[t].temp_pml4
  BY DEF Roots, Loading

LEMMA MappedBy ==
  ASSUME NEW f, NEW x, x \in Roots', f \in Tables(mem', x) \cup Pages(mem', x)
  PROVE  f \in Mapped'
  BY DEF Mapped, AllFrames

(* SetupPML4: t has a new, empty address space.  The old one is an image   *)
(* or is given up.                                                         *)
LEMMA SetupPML4Step ==
  ASSUME SpaceInv, NEW t \in Task, run[t].pc \in {"shell", "remap"}, SetupPML4(t),
         app_loads' = app_loads, run' \in [Task -> Place],
         \A u \in Task \ {t} : run'[u] = run[u],
         run'[t].app \in App,
         \/ run'[t].pc = "find" /\ run'[t].temp_pml4 = cr3'[t]
         \/ /\ run'[t].pc = "copy" /\ run[t].pc = "remap"
            /\ run'[t].temp_pml4 = run[t].temp_pml4
  PROVE  SpaceInv' /\ OthersKept(t)
<1> PICK f, old, n : f = NewPageMap(mem).frame /\ old = cr3[t] /\ n = mem'
  OBVIOUS
<1>1. /\ f # NoFrame /\ n = NewPageMap(mem).mem /\ cr3' = [cr3 EXCEPT ![t] = f]
      /\ lost' = lost \cup (IF old = Kernel \/ IsImage(old) THEN {} ELSE AllFrames(old))
  BY DEF SetupPML4
<1>2. /\ mem \in Memory /\ Spaces(mem, Roots) /\ PlaceInv(t)
      /\ cr3 \in [Task -> Frame \cup {NoFrame}]
  BY DEF SpaceInv, TypeInv
<1>3. Takes(mem, n, f)
  BY <1>1, <1>2, NewPageMapIs
<1>4. /\ Spaces(n, Roots \cup {f}) /\ \A s \in Roots : SameSpace(mem, n, s) /\ s # f
      /\ n.table[f] = EmptyTable /\ f \in n.alloc
  <2> PICK R, S : R = Roots /\ S = R \cup {f}
    OBVIOUS
  <2>1. Spaces(mem, R)
    BY <1>2
  <2>2. /\ Spaces(n, S) /\ \A s \in R : SameSpace(mem, n, s) /\ s # f
        /\ n.table[f] = EmptyTable /\ f \in n.alloc
    BY <1>2, <1>3, <2>1, NewSpace
  <2> QED
    BY <2>2
<1>5. /\ f \in Frame /\ f \notin mem.alloc /\ n \in Memory /\ n.alloc = mem.alloc \cup {f}
  BY <1>3 DEF Takes
<1>6. cr3'[t] = f /\ (\A u \in Task \ {t} : cr3'[u] = cr3[u])
      /\ cr3' \in [Task -> Frame \cup {NoFrame}]
  BY <1>1, <1>2, <1>5
<1>7. run[t].pc = "remap" => run[t].temp_pml4 = old /\ old # NoFrame
  BY <1>2 DEF PlaceInv
<1>8. old # NoFrame => old \in Roots
  BY RootsAre
<1>9. lost \subseteq lost'
      /\ (old # NoFrame /\ ~Image(old) => Tables(mem, old) \cup Pages(mem, old) \subseteq lost')
  BY <1>1 DEF Kernel, IsImage, Image, AllFrames
<1>10. Image(old) => old \in Roots
  BY ImageIsRoot
<1>11. OthersKept(t)
  BY <1>4, <1>5, <1>6, <1>9, <1>10 DEF OthersKept
<1>12. f \in Roots' /\ Roots' \subseteq Roots \cup {f}
  <2>1. f \in Roots'
    BY <1>1, <1>6, NextRoots
  <2>2. ASSUME NEW x \in Roots'
        PROVE  x \in Roots \cup {f}
    <3>1. CASE \E u \in Task : x = cr3'[u]
      BY <1>6, <2>2, <3>1, NextRoots, RootsAre
    <3>2. CASE \E app \in App : x = app_loads'[app]
      BY <2>2, <3>2, NextRoots, RootsAre
    <3>3. CASE \E u \in Task : run'[u].pc \in Loading /\ x = run'[u].temp_pml4
      <4>1. PICK u \in Task : run'[u].pc \in Loading /\ x = run'[u].temp_pml4
        BY <3>3
      <4>2. CASE u # t
        BY <2>2, <4>1, <4>2, NextRoots, RootsAre
      <4>3. CASE u = t
        BY <1>6, <1>7, <1>8, <4>1, <4>3 DEF Loading
      <4> QED
        BY <4>2, <4>3
    <3> QED
      BY <2>2, <3>1, <3>2, <3>3, NextRoots
  <2> QED
    BY <2>1, <2>2
<1>13. Spaces(n, Roots')
  BY <1>4, <1>5, <1>12, SubSpaces
<1>14. ASSUME NEW g \in n.alloc, g \notin lost'
       PROVE  g \in Mapped'
  <2>1. CASE g = f
    <3>1. f \in Tables(n, f)
      BY <1>5, TablesAre
    <3> QED
      BY <1>12, <2>1, <3>1, MappedBy
  <2>2. CASE g # f
    <3>1. g \in mem.alloc /\ g \notin lost
      BY <1>5, <1>9, <1>14, <2>2
    <3>2. g \in Mapped
      BY <3>1 DEF SpaceInv
    <3>3. PICK x \in Roots : g \in Tables(mem, x) \cup Pages(mem, x)
      BY <3>2, MappedIs
    <3>4. x \in Roots'
      <4>1. x # NoFrame
        BY RootsAre
      <4>2. CASE \E u \in Task : x = cr3[u]
        <5>1. PICK u \in Task : x = cr3[u]
          BY <4>2
        <5>2. CASE u # t
          BY <1>6, <4>1, <5>1, <5>2, NextRoots
        <5>3. CASE u = t
          <6>1. Image(old)
            BY <1>9, <1>14, <3>3, <4>1, <5>1, <5>3
          <6>2. PICK app \in App : app_loads[app] = old
            BY <6>1 DEF Image
          <6> QED
            BY <4>1, <5>1, <5>3, <6>2, NextRoots
        <5> QED
          BY <5>2, <5>3
      <4>3. CASE \E app \in App : x = app_loads[app]
        BY <4>1, <4>3, NextRoots
      <4>4. CASE \E u \in Task : run[u].pc \in Loading /\ x = run[u].temp_pml4
        <5>1. PICK u \in Task : run[u].pc \in Loading /\ x = run[u].temp_pml4
          BY <4>4
        <5>2. CASE u # t
          BY <4>1, <5>1, <5>2, NextRoots
        <5>3. CASE u = t
          BY <1>7, <4>2, <5>1, <5>3 DEF Loading
        <5> QED
          BY <5>2, <5>3
      <4> QED
        BY <4>2, <4>3, <4>4, RootsAre
    <3>5. SameSpace(mem, n, x)
      BY <1>4
    <3> QED
      BY <3>3, <3>4, <3>5, MappedBy DEF SameSpace
  <2> QED
    BY <2>1, <2>2
<1>15. ~Image(f)'
  <2>1. ~Image(f)
    BY <1>5, ImageIsRoot
  <2> QED
    BY <2>1 DEF Image
<1>16. PlaceInv(t)'
  <2>1. CASE run'[t].pc = "find"
    BY <1>1, <1>4, <1>6, <1>15, <2>1 DEF PlaceInv
  <2>2. CASE run'[t].pc = "copy"
    <3>1. /\ run'[t].temp_pml4 = old /\ old # NoFrame /\ ImageLike(mem, old)
          /\ old \in Roots /\ SameSpace(mem, n, old) /\ old # f
      BY <1>2, <1>4, <1>7, <1>8, <2>2 DEF PlaceInv
    <3>2. ImageLike(n, old)
      BY <3>1, SameImageLike
    <3>3. Image(old) => Image(old)'
      BY DEF Image
    <3>4. ~Image(old) => Left(old)'
      BY <1>9, <3>1 DEF Left, SameSpace
    <3>5. \A u \in Task : cr3'[u] # old
      BY <1>6, <3>1 DEF SpaceInv, OwnerInv
    <3> QED
      BY <1>1, <1>4, <1>6, <1>15, <2>2, <3>1, <3>2, <3>3, <3>4, <3>5 DEF PlaceInv
  <2> QED
    BY <2>1, <2>2
<1> QED
  BY <1>6, <1>11, <1>13, <1>14, <1>16, StepOK


LEMMA ExecuteFileOK ==
  ASSUME SpaceInv, NEW t \in Task, NEW app \in App, ExecuteFile(t, app)
  PROVE  SpaceInv' /\ OthersKept(t)
<1> PICK f : f = NewPageMap(mem).frame
  OBVIOUS
<1>1. /\ run[t].pc = "shell" /\ SetupPML4(t) /\ app_loads' = app_loads
      /\ run' = [run EXCEPT ![t] = [pc |-> "find", app |-> app, temp_pml4 |-> cr3'[t]]]
  BY DEF ExecuteFile, At
<1>2. /\ mem \in Memory /\ run \in [Task -> Place] /\ cr3 \in [Task -> Frame \cup {NoFrame}]
  BY DEF SpaceInv, TypeInv
<1>3. f \in Frame /\ cr3'[t] = f
  <2>1. f # NoFrame /\ cr3' = [cr3 EXCEPT ![t] = f]
    BY <1>1 DEF SetupPML4
  <2>2. Takes(mem, NewPageMap(mem).mem, f)
    BY <1>2, <2>1, NewPageMapIs
  <2> QED
    BY <1>2, <2>1, <2>2 DEF Takes
<1> PICK q : q = [pc |-> "find", app |-> app, temp_pml4 |-> f]
  OBVIOUS
<1>4. q \in Place /\ q.pc = "find" /\ q.app = app /\ q.temp_pml4 = f
  BY <1>3 DEF Place, PCs
<1>5. run' = [run EXCEPT ![t] = q]
  BY <1>1, <1>3
<1>6. /\ run' \in [Task -> Place] /\ \A u \in Task \ {t} : run'[u] = run[u]
      /\ run'[t] = q
  BY <1>2, <1>4, <1>5
<1> QED
  BY <1>1, <1>3, <1>4, <1>6, SetupPML4Step

LEMMA RemapOK ==
  ASSUME SpaceInv, NEW t \in Task, Remap(t)
  PROVE  SpaceInv' /\ OthersKept(t)
<1>1. run[t].pc = "remap" /\ app_loads' = app_loads
  BY DEF Remap, At
<1>2. CASE SetupPML4(t) /\ Goto(t, "copy")
  <2>1. "copy" \in PCs /\ run[t].app \in App
    BY <1>1 DEF PCs, SpaceInv, TypeInv
  <2>2. Gone(t, "copy", run[t].app, run[t].temp_pml4)
    BY <1>2, <2>1, GotoIs DEF SpaceInv
  <2> QED
    BY <1>1, <1>2, <2>1, <2>2, SetupPML4Step DEF Gone
<1>3. CASE Return(t) /\ UNCHANGED <<mem, cr3, lost>>
  <2>1. Gone(t, "shell", "none", NoFrame)
    BY <1>3, ReturnIs DEF SpaceInv
  <2>2. /\ mem' = mem /\ cr3' = cr3 /\ lost' = lost /\ mem \in Memory /\ PlaceInv(t)
        /\ cr3 \in [Task -> Frame \cup {NoFrame}]
    BY <1>3 DEF SpaceInv, TypeInv
  <2>3. OthersKept(t)
    BY <1>1, <2>1, <2>2 DEF OthersKept, SameSpace, Gone
  <2>4. run[t].temp_pml4 = cr3[t]
    BY <1>1, <2>2 DEF PlaceInv
  <2>5. \A x : x \in Roots' <=> x \in Roots
    <3>1. ASSUME NEW x, NEW u \in Task, run'[u].pc \in Loading, x = run'[u].temp_pml4
          PROVE  run[u].pc \in Loading /\ x = run[u].temp_pml4
      BY <2>1, <3>1 DEF Gone, Loading
    <3>2. ASSUME NEW x, NEW u \in Task, run[u].pc \in Loading, x = run[u].temp_pml4
          PROVE  x = cr3[t] \/ (run'[u].pc \in Loading /\ x = run'[u].temp_pml4)
      BY <2>1, <2>4, <3>2 DEF Gone
    <3> QED
      BY <1>1, <2>2, <3>1, <3>2, NextRoots, RootsAre
  <2>6. Roots' = Roots
    BY <2>5
  <2>7. Spaces(mem', Roots') /\ mem'.alloc \subseteq Mapped' \cup lost'
    BY <2>2, <2>6 DEF SpaceInv, Mapped, AllFrames
  <2>8. PlaceInv(t)'
    BY <2>1 DEF Gone, PlaceInv
  <2> QED
    BY <1>1, <2>1, <2>2, <2>3, <2>7, <2>8, StepOK DEF Gone
<1> QED
  BY <1>2, <1>3 DEF Remap

(* The program's frames are given back, but for the top table.             *)
LEMMA CleanOK ==
  ASSUME SpaceInv, NEW t \in Task, Clean(t)
  PROVE  SpaceInv' /\ OthersKept(t)
<1> PICK r, n : r = cr3[t] /\ n = mem'
  OBVIOUS
<1>1. /\ run[t].pc = "clean" /\ n = CleanPageMaps(mem, r) /\ Goto(t, "free")
      /\ app_loads' = app_loads /\ cr3' = cr3 /\ lost' = lost
  BY DEF Clean, At
<1>2. /\ PlaceInv(t) /\ cr3 \in [Task -> Frame \cup {NoFrame}] /\ run[t].app \in App
      /\ Spaces(mem, Roots)
  BY <1>1 DEF SpaceInv, TypeInv
<1>3. r # NoFrame /\ ~Image(r) /\ Shares(r)
  BY <1>1, <1>2 DEF PlaceInv
<1>4. Gone(t, "free", run[t].app, run[t].temp_pml4)
  BY <1>1, GotoIs DEF SpaceInv, PCs
<1>5. Growing(t)
  BY <1>1, <1>2, <1>3, <1>4 DEF Growing, Gone, Loading
<1>6. /\ r \in Roots /\ Roots' \subseteq Roots
      /\ \A x \in Roots : x \in Roots' \/ Left(x)
  BY <1>5, GrowingRoots
<1>7. r \in Frame /\ WellFormed(mem, r) /\ mem \in Memory
  BY <1>6, RootFrame
<1>8. Cleaned(mem, n, r)
  BY <1>1, <1>7, CleanPageMapsIs
<1>9. /\ Spaces(n, Roots) /\ \A s \in Roots \ {r} : SameSpace(mem, n, s)
      /\ Tables(n, r) = {r} /\ Pages(n, r) = {} /\ r \in n.alloc
  <2> PICK R : R = Roots
    OBVIOUS
  <2>1. Spaces(mem, R) /\ r \in R
    BY <1>2, <1>6
  <2>2. /\ Spaces(n, R) /\ \A s \in R \ {r} : SameSpace(mem, n, s)
        /\ Tables(n, r) = {r} /\ Pages(n, r) = {} /\ r \in n.alloc
    BY <1>7, <1>8, <2>1, CleanApart
  <2> QED
    BY <2>2
<1>10. /\ n \in Memory /\ n.table[r] = EmptyTable
       /\ n.alloc = mem.alloc \ (PrivatePages(mem, r) \cup (Tables(mem, r) \ {r}))
  BY <1>8 DEF Cleaned, Released
<1>11. Spaces(n, Roots')
  BY <1>6, <1>9, <1>10, SubSpaces
<1>12. OthersKept(t)
  BY <1>1, <1>3, <1>4, <1>9, <1>10 DEF OthersKept, Gone
<1>13. r \in Roots'
  BY <1>1, <1>3, NextRoots
<1>14. ASSUME NEW g \in n.alloc, g \notin lost
       PROVE  g \in Mapped'
  <2>1. g \in Mapped
    BY <1>10, <1>14 DEF SpaceInv
  <2>2. PICK x \in Roots : g \in Tables(mem, x) \cup Pages(mem, x)
    BY <2>1, MappedIs
  <2>3. CASE x # r
    <3>1. x \in Roots' /\ SameSpace(mem, n, x)
      BY <1>6, <1>9, <1>14, <2>2, <2>3 DEF Left
    <3> QED
      BY <2>2, <3>1, MappedBy DEF SameSpace
  <2>4. CASE x = r
    <3>1. CASE g = r
      BY <1>9, <1>13, <3>1, MappedBy
    <3>2. CASE g # r
      <4>1. g \in Pages(mem, r) /\ g \notin PrivatePages(mem, r)
        BY <1>10, <1>14, <2>2, <2>4, <3>2
      <4>2. Shared(g)
        BY <1>3, <4>1 DEF Shares
      <4>3. PICK y \in Frame : Image(y) /\ g \in Pages(mem, y)
        BY <1>14, <4>2 DEF Shared
      <4>4. y \in Roots /\ y # r
        BY <1>3, <4>3, ImageIsRoot
      <4>5. y \in Roots' /\ SameSpace(mem, n, y)
        BY <1>6, <1>9, <1>14, <4>3, <4>4 DEF Left
      <4> QED
        BY <4>3, <4>5, MappedBy DEF SameSpace
    <3> QED
      BY <3>1, <3>2
  <2> QED
    BY <2>3, <2>4
<1>15. PlaceInv(t)'
  BY <1>1, <1>3, <1>4, <1>10 DEF PlaceInv, Gone, Image
<1> QED
  BY <1>1, <1>2, <1>4, <1>11, <1>12, <1>14, <1>15, StepOK DEF Gone

(* The top table too.                                                      *)
LEMMA FreePML4OK ==
  ASSUME SpaceInv, NEW t \in Task, FreePML4(t)
  PROVE  SpaceInv' /\ OthersKept(t)
<1> PICK r, n : r = cr3[t] /\ n = mem'
  OBVIOUS
<1>1. /\ run[t].pc = "free" /\ n = FreePageMap(mem, r) /\ Return(t)
      /\ app_loads' = app_loads /\ cr3' = [cr3 EXCEPT ![t] = NoFrame] /\ lost' = lost
  BY DEF FreePML4, At, Kernel
<1>2. /\ PlaceInv(t) /\ cr3 \in [Task -> Frame \cup {NoFrame}] /\ mem \in Memory
      /\ Spaces(mem, Roots)
  BY DEF SpaceInv, TypeInv
<1>3. r # NoFrame /\ ~Image(r) /\ mem.table[r] = EmptyTable
  BY <1>1, <1>2 DEF PlaceInv
<1>4. Gone(t, "shell", "none", NoFrame)
  BY <1>1, ReturnIs DEF SpaceInv
<1>5. cr3'[t] = NoFrame /\ (\A u \in Task \ {t} : cr3'[u] = cr3[u])
      /\ cr3' \in [Task -> Frame \cup {NoFrame}]
  BY <1>1, <1>2
<1>6. r \in Roots /\ r \in Frame
  <2>1. r \in Roots
    BY <1>3, RootsAre
  <2> QED
    BY <2>1, RootFrame
<1>7. /\ n \in Memory /\ n.alloc = mem.alloc \ {r} /\ Spaces(n, Roots \ {r})
      /\ \A s \in Roots \ {r} : SameSpace(mem, n, s)
  <2> PICK R, S : R = Roots /\ S = R \ {r}
    OBVIOUS
  <2>1. Spaces(mem, R) /\ r \in R
    BY <1>2, <1>6
  <2>2. /\ n \in Memory /\ n.alloc = mem.alloc \ {r} /\ Spaces(n, S)
        /\ \A s \in S : SameSpace(mem, n, s)
    BY <1>1, <1>2, <2>1, FreeApart
  <2> QED
    BY <2>2
<1>8. Tables(mem, r) = {r} /\ Pages(mem, r) = {}
  BY <1>2, <1>3, <1>6, EmptySpace
<1>9. ASSUME NEW u \in Task, u # t, run[u].pc \in Loading
      PROVE  run[u].temp_pml4 # r
  <2>1. PlaceInv(u)
    BY DEF SpaceInv
  <2>2. cr3[u] # r
    BY <1>3, <1>9 DEF SpaceInv, OwnerInv
  <2> QED
    BY <1>9, <2>1, <2>2 DEF PlaceInv, Loading
<1>10. \A x : x \in Roots' <=> x \in Roots \ {r}
  <2>1. ASSUME NEW x \in Roots'
        PROVE  x \in Roots \ {r}
    <3>1. CASE \E u \in Task : x = cr3'[u]
      <4>1. PICK u \in Task : x = cr3'[u]
        BY <3>1
      <4>2. u # t /\ x = cr3[u] /\ x # NoFrame
        BY <1>5, <2>1, <4>1, NextRoots
      <4>3. x # r
        BY <1>3, <4>2 DEF SpaceInv, OwnerInv
      <4> QED
        BY <4>2, <4>3, RootsAre
    <3>2. CASE \E app \in App : x = app_loads'[app]
      <4>1. x # r
        BY <1>1, <1>3, <3>2 DEF Image
      <4> QED
        BY <1>1, <2>1, <3>2, <4>1, NextRoots, RootsAre
    <3>3. CASE \E u \in Task : run'[u].pc \in Loading /\ x = run'[u].temp_pml4
      <4>1. PICK u \in Task : run'[u].pc \in Loading /\ x = run'[u].temp_pml4
        BY <3>3
      <4>2. u # t
        BY <1>4, <4>1 DEF Gone, Loading
      <4>3. run[u].pc \in Loading /\ x = run[u].temp_pml4
        BY <1>4, <4>1, <4>2 DEF Gone
      <4> QED
        BY <1>9, <2>1, <4>2, <4>3, NextRoots, RootsAre
    <3> QED
      BY <2>1, <3>1, <3>2, <3>3, NextRoots
  <2>2. ASSUME NEW x \in Roots, x # r
        PROVE  x \in Roots'
    <3>1. CASE \E u \in Task : x = cr3[u]
      BY <1>5, <2>2, <3>1, NextRoots, RootsAre
    <3>2. CASE \E app \in App : x = app_loads[app]
      BY <1>1, <2>2, <3>2, NextRoots, RootsAre
    <3>3. CASE \E u \in Task : run[u].pc \in Loading /\ x = run[u].temp_pml4
      <4>1. PICK u \in Task : run[u].pc \in Loading /\ x = run[u].temp_pml4
        BY <3>3
      <4>2. u # t
        BY <1>1, <4>1 DEF Loading
      <4>3. run'[u] = run[u]
        BY <1>4, <4>2 DEF Gone
      <4> QED
        BY <2>2, <4>1, <4>3, NextRoots, RootsAre
    <3> QED
      BY <2>2, <3>1, <3>2, <3>3, RootsAre
  <2> QED
    BY <2>1, <2>2
<1>11. Roots' = Roots \ {r}
  BY <1>10
<1>12. Spaces(n, Roots')
  BY <1>7, <1>11
<1>13. ASSUME NEW g \in n.alloc, g \notin lost
       PROVE  g \in Mapped'
  <2>1. g \in Mapped
    BY <1>7, <1>13 DEF SpaceInv
  <2>2. PICK x \in Roots : g \in Tables(mem, x) \cup Pages(mem, x)
    BY <2>1, MappedIs
  <2>3. x # r
    BY <1>7, <1>8, <1>13, <2>2
  <2>4. x \in Roots' /\ SameSpace(mem, n, x)
    BY <1>7, <1>11, <2>3
  <2> QED
    BY <2>2, <2>4, MappedBy DEF SameSpace
<1>14. OthersKept(t)
  BY <1>1, <1>3, <1>4, <1>5, <1>7 DEF OthersKept, Gone
<1>15. PlaceInv(t)'
  BY <1>4 DEF PlaceInv, Gone
<1> QED
  BY <1>1, <1>4, <1>5, <1>12, <1>13, <1>14, <1>15, StepOK DEF Gone


(* The image that has been loaded becomes the application's, unless it has *)
(* one already.                                                            *)
LEMMA InsertImageOK ==
  ASSUME SpaceInv, NEW t \in Task, InsertImage(t)
  PROVE  SpaceInv' /\ OthersKept(t)
<1> PICK r, app : r = cr3[t] /\ app = run[t].app
  OBVIOUS
<1>1. /\ run[t].pc = "insert" /\ mem' = mem /\ cr3' = cr3 /\ Goto(t, "remap")
      /\ IF app_loads[app] = NoFrame
         THEN app_loads' = [app_loads EXCEPT ![app] = run[t].temp_pml4] /\ lost' = lost
         ELSE lost' = lost \cup AllFrames(run[t].temp_pml4) /\ app_loads' = app_loads
  BY DEF InsertImage, At
<1>2. /\ PlaceInv(t) /\ app \in App /\ mem \in Memory /\ Spaces(mem, Roots)
      /\ cr3 \in [Task -> Frame \cup {NoFrame}]
      /\ app_loads \in [App -> Frame \cup {NoFrame}]
  BY <1>1 DEF SpaceInv, TypeInv
<1>3. run[t].temp_pml4 = r /\ r # NoFrame /\ ~Image(r) /\ ImageLike(mem, r)
  BY <1>1, <1>2 DEF PlaceInv
<1>4. r \in Roots /\ r \in Frame
  <2>1. r \in Roots
    BY <1>3, RootsAre
  <2> QED
    BY <2>1, RootFrame
<1>5. Gone(t, "remap", app, r)
  BY <1>1, <1>3, GotoIs DEF SpaceInv, PCs
<1>6. /\ app_loads' \in [App -> Frame \cup {NoFrame}] /\ lost \subseteq lost'
      /\ \A x \in App : app_loads'[x] = app_loads[x]
                        \/ (x = app /\ app_loads[x] = NoFrame /\ app_loads'[x] = r)
      /\ app_loads'[app] = r \/ Tables(mem, r) \cup Pages(mem, r) \subseteq lost'
  BY <1>1, <1>2, <1>3, <1>4 DEF AllFrames
<1>7. OthersKept(t)
  BY <1>1, <1>2, <1>5, <1>6 DEF OthersKept, SameSpace, Gone
<1>8. \A x : x \in Roots' <=> x \in Roots
  <2>1. ASSUME NEW x, NEW u \in Task
        PROVE  /\ run'[u].pc \in Loading => run[u].pc \in Loading
               /\ run[u].pc \in Loading => run'[u].pc \in Loading
               /\ run'[u].temp_pml4 = run[u].temp_pml4
    BY <1>1, <1>3, <1>5 DEF Gone, Loading
  <2>2. ASSUME NEW x, x # NoFrame
        PROVE  (\E y \in App : x = app_loads'[y]) => x = r \/ \E y \in App : x = app_loads[y]
    BY <1>6
  <2>3. ASSUME NEW x, x # NoFrame
        PROVE  (\E y \in App : x = app_loads[y]) => \E y \in App : x = app_loads'[y]
    BY <1>6, <2>3
  <2>4. ASSUME NEW x \in Roots'
        PROVE  x \in Roots
    <3>1. CASE \E y \in App : x = app_loads'[y]
      BY <1>4, <2>2, <2>4, <3>1, NextRoots, RootsAre
    <3>2. CASE \E u \in Task : run'[u].pc \in Loading /\ x = run'[u].temp_pml4
      <4>1. PICK u \in Task : run'[u].pc \in Loading /\ x = run'[u].temp_pml4
        BY <3>2
      <4>2. run[u].pc \in Loading /\ x = run[u].temp_pml4
        BY <2>1, <4>1
      <4> QED
        BY <2>4, <4>2, NextRoots, RootsAre
    <3> QED
      BY <1>1, <2>4, <3>1, <3>2, NextRoots, RootsAre
  <2>5. ASSUME NEW x \in Roots
        PROVE  x \in Roots'
    <3>1. CASE \E y \in App : x = app_loads[y]
      BY <2>3, <2>5, <3>1, NextRoots, RootsAre
    <3>2. CASE \E u \in Task : run[u].pc \in Loading /\ x = run[u].temp_pml4
      <4>1. PICK u \in Task : run[u].pc \in Loading /\ x = run[u].temp_pml4
        BY <3>2
      <4>2. run'[u].pc \in Loading /\ x = run'[u].temp_pml4
        BY <2>1, <4>1
      <4> QED
        BY <2>5, <4>2, NextRoots, RootsAre
    <3> QED
      BY <1>1, <2>5, <3>1, <3>2, NextRoots, RootsAre
  <2> QED
    BY <2>4, <2>5
<1>9. Roots' = Roots
  BY <1>8
<1>10. Spaces(mem', Roots') /\ mem'.alloc \subseteq Mapped' \cup lost'
  <2>1. Mapped' = Mapped
    BY <1>1, <1>9 DEF Mapped, AllFrames
  <2> QED
    BY <1>1, <1>2, <1>6, <1>9, <2>1 DEF SpaceInv
<1>11. OwnerInv'
  <2>1. ASSUME NEW x \in App, NEW y \in App, app_loads'[x] = app_loads'[y],
               app_loads'[x] # NoFrame
        PROVE  x = y
    <3>1. \A z \in App : app_loads[z] # r
      BY <1>3 DEF Image
    <3> QED
      BY <1>3, <1>6, <2>1, <3>1 DEF SpaceInv, OwnerInv
  <2>2. ASSUME NEW x \in App, app_loads'[x] # NoFrame
        PROVE  ImageLike(mem, app_loads'[x])
    BY <1>3, <1>6, <2>2 DEF SpaceInv, OwnerInv
  <2> QED
    BY <1>1, <2>1, <2>2 DEF SpaceInv, OwnerInv
<1>12. TypeInv'
  BY <1>1, <1>2, <1>5, <1>6 DEF SpaceInv, TypeInv, Gone
<1>13. PlaceInv(t)'
  <2>1. Image(r)' \/ Left(r)'
    BY <1>1, <1>2, <1>3, <1>6 DEF Image, Left
  <2> QED
    BY <1>1, <1>3, <1>5, <2>1 DEF PlaceInv, Gone
<1>14. \A u \in Task : PlaceInv(u)'
  <2>1. \A u \in Task \ {t} : PlaceInv(u)'
    BY <1>7, OthersPlaces
  <2> QED
    BY <1>13, <2>1
<1> QED
  BY <1>7, <1>10, <1>11, <1>12, <1>14 DEF SpaceInv
-----------------------------------------------------------------------------
(* The theorems.                                                           *)

LEMMA SpaceInductive ==
  SpaceInv /\ [Next]_vars => SpaceInv'
<1> SUFFICES ASSUME SpaceInv, [Next]_vars
             PROVE  SpaceInv'
  OBVIOUS
<1>1. CASE Next
  <2>1. PICK t \in Task :
          \/ \E app \in App : ExecuteFile(t, app)
          \/ FindImage(t) \/ LoadELF(t) \/ InsertImage(t)
          \/ Remap(t) \/ CopyImage(t) \/ SetupStack(t)
          \/ \E a \in Address : WriteMemory(t, a) \/ ReadMemory(t, a) \/ SystemCallWrites(t, a)
          \/ Exit(t) \/ Clean(t) \/ FreePML4(t)
    BY <1>1 DEF Next
  <2> QED
    BY <2>1, ExecuteFileOK, FindImageOK, LoadELFOK, InsertImageOK, RemapOK, CopyImageOK,
       SetupStackOK, WriteMemoryOK, ReadMemoryOK, SystemCallWritesOK, ExitOK, CleanOK, FreePML4OK
<1>2. CASE UNCHANGED vars
  <2>1. /\ mem' = mem /\ app_loads' = app_loads /\ cr3' = cr3 /\ run' = run /\ lost' = lost
    BY <1>2 DEF vars
  <2>2. Roots' = Roots /\ Mapped' = Mapped
    BY <2>1 DEF Roots, Mapped, AllFrames
  <2>3. \A t \in Task : PlaceInv(t)'
    BY <2>1 DEF SpaceInv, PlaceInv, Image, Left, Shares, Shared
  <2> QED
    BY <2>1, <2>2, <2>3 DEF SpaceInv, TypeInv, OwnerInv
<1> QED
  BY <1>1, <1>2

LEMMA SpaceAlways ==
  Spec => []SpaceInv
  BY InitOK, SpaceInductive, PTL DEF Spec

(* No page map that somebody can still reach leads to a frame that has     *)
(* been given back: CleanPageMaps and FreePageMap never free what another  *)
(* program, an image or a start in progress still maps.                    *)
THEOREM FreedFramesAreUnmapped == Spec => []MappedIsAllocated
<1>1. SpaceInv => MappedIsAllocated
  BY DEF SpaceInv, MappedIsAllocated, Mapped, AllFrames, Spaces, WellFormed
<1> QED
  BY <1>1, SpaceAlways, PTL

(* Every frame in use is an image's, a program's, or among those that a    *)
(* failed or doubled load has lost: a program that ends gives its pages    *)
(* and page tables back, to the last one.                                  *)
THEOREM ProgramsGiveEverythingBack == Spec => []AllocatedIsMapped
<1>1. SpaceInv => AllocatedIsMapped
  BY DEF SpaceInv, AllocatedIsMapped
<1> QED
  BY <1>1, SpaceAlways, PTL

(* An address space has as many pages as addresses that are present.       *)
LEMMA PagesCounted ==
  ASSUME NEW m \in Memory, NEW r \in Frame, WellFormed(m, r)
  PROVE  Cardinality(Pages(m, r)) = Cardinality(Used(m, r))
<1> DEFINE A == Used(m, r)
           F == [a \in A |-> Lookup(m, r, a).frame]
<1>1. IsFiniteSet(A)
  <2>1. IsFiniteSet(Index)
    BY FS_Interval, SizeAssumption DEF Index
  <2>2. IsFiniteSet(Address)
    BY <2>1, FS_Product DEF Address
  <2>3. A \in SUBSET Address
    BY DEF Used
  <2> QED
    BY <2>2, <2>3, FS_Subset
<1>2. \A f : f \in Pages(m, r) <=> \E a \in A : f = Lookup(m, r, a).frame
  BY PagesAre DEF Used
<1>3. \A a, b \in A : Lookup(m, r, a).frame = Lookup(m, r, b).frame => a = b
  BY DEF Used, WellFormed
<1> HIDE DEF A
<1>4. F \in [A -> Pages(m, r)]
  BY <1>2
<1>5. F \in Injection(A, Pages(m, r))
  BY <1>3, <1>4 DEF Injection, IsInjective
<1>6. F \in Surjection(A, Pages(m, r))
  BY <1>2, <1>4 DEF Surjection
<1>7. ExistsBijection(A, Pages(m, r))
  BY <1>5, <1>6 DEF ExistsBijection, Bijection
<1>8. Cardinality(Pages(m, r)) = Cardinality(A)
  BY <1>1, <1>7, FS_Bijection
<1> QED
  BY <1>8 DEF A

(* A page that a program may write to is mapped at one address of one      *)
(* address space, and no page table is a page or another one's table:      *)
(* what SetupPageMaps, CopyPageMaps and CopyOnePage hand out is nobody     *)
(* else's.                                                                 *)
THEOREM WritablePagesHaveOneOwner == Spec => []NoAliasing
<1>1. SpaceInv => NoAliasing
  <2> SUFFICES ASSUME SpaceInv, NEW r \in Roots
               PROVE  /\ Tables(mem, r) \cap Pages(mem, r) = {}
                      /\ Cardinality(Pages(mem, r))
                           = Cardinality({a \in Address : Present(Lookup(mem, r, a))})
                      /\ \A s \in Roots \ {r} :
                           /\ Tables(mem, r) \cap AllFrames(s) = {}
                           /\ PrivatePages(mem, r) \cap Pages(mem, s) = {}
    BY DEF NoAliasing
  <2>1. WellFormed(mem, r) /\ mem \in Memory /\ r \in Frame
    BY RootFrame
  <2>2. Cardinality(Pages(mem, r)) = Cardinality({a \in Address : Present(Lookup(mem, r, a))})
    BY <2>1, PagesCounted DEF Used
  <2>3. \A s \in Roots \ {r} : Apart(mem, r, s)
    BY DEF SpaceInv, Spaces
  <2> QED
    BY <2>1, <2>2, <2>3 DEF WellFormed, Apart, AllFrames
<1> QED
  BY <1>1, SpaceAlways, PTL
-----------------------------------------------------------------------------
(* What programs read.  ContentInv says what the pages of the images and of*)
(* a program that is starting hold; each step of a program keeps it, and is*)
(* a step of PrivateMemory, since it writes to no page of another page map.*)

(* What is read where no page is, and through the page map r.              *)
Unread(a) == IF a \in FilePages THEN [base |-> "file", by |-> {}] ELSE Zero

View(m, r, a) ==
  IF Present(Lookup(m, r, a)) THEN m.page[Lookup(m, r, a).frame] ELSE Unread(a)

(* The image of app is there, as the file has it.                          *)
Loaded(m, r, app) ==
  \A a \in Range(ImagePages) :
    Present(Lookup(m, r, a)) /\ m.page[Lookup(m, r, a).frame] = [base |-> app, by |-> {}]

(* The pages that are copied when they are written to are the image's.     *)
OnlyImageReadOnly(m, r) ==
  \A a \in Address : Present(Lookup(m, r, a)) /\ ~Lookup(m, r, a).writable => a \in Range(ImagePages)

(* What ExecuteFile knows at each place about the contents.                *)
ContentPlace(t) ==
  LET pc == run[t].pc
      app == run[t].app
  IN  /\ pc \in Loading => app \notin NotElf /\ Loaded(mem, run[t].temp_pml4, app)
      /\ pc = "args" => app \notin NotElf /\ Loaded(mem, cr3[t], app)
      /\ pc = "run" => OnlyImageReadOnly(mem, cr3[t])

(* Every image holds its file.                                             *)
ImagesInv ==
  \A app \in App : app_loads[app] # NoFrame =>
    app \notin NotElf /\ Loaded(mem, app_loads[app], app)

ContentInv == ImagesInv /\ \A t \in Task : ContentPlace(t)

(* The pages in use that n has with other contents than m are those in S.  *)
Rewrites(m, n, S) == \A f \in m.alloc \ S : n.page[f] = m.page[f]

(* Frames that a step of t may write to.                                   *)
Own(t) == IF cr3[t] = NoFrame THEN {} ELSE Tables(mem, cr3[t]) \cup PrivatePages(mem, cr3[t])

(* Whoever reads through r reads the same in n as in m.                    *)
SameReads(m, n, r) ==
  SameSpace(m, n, r) /\ \A f \in Pages(m, r) : n.page[f] = m.page[f]

LEMMA SameReadsAre ==
  ASSUME NEW m \in Memory, NEW n \in Memory, NEW r \in Frame, SameReads(m, n, r)
  PROVE  /\ \A a \in Address : View(n, r, a) = View(m, r, a)
         /\ \A app : Loaded(m, r, app) => Loaded(n, r, app)
         /\ OnlyImageReadOnly(m, r) => OnlyImageReadOnly(n, r)
<1>1. \A a \in Address : /\ Lookup(n, r, a) = Lookup(m, r, a)
                         /\ Present(Lookup(m, r, a)) =>
                              n.page[Lookup(m, r, a).frame] = m.page[Lookup(m, r, a).frame]
  BY PagesAre DEF SameReads, SameSpace
<1>2. \A a \in Address : View(n, r, a) = View(m, r, a)
  BY <1>1 DEF View
<1>3. ASSUME NEW app, Loaded(m, r, app)
      PROVE  Loaded(n, r, app)
  <2> SUFFICES ASSUME NEW a \in Range(ImagePages)
               PROVE  /\ Present(Lookup(n, r, a))
                      /\ n.page[Lookup(n, r, a).frame] = [base |-> app, by |-> {}]
    BY DEF Loaded
  <2>1. a \in Address
    BY SpacesAssumption DEF Range
  <2> QED
    BY <1>1, <1>3, <2>1 DEF Loaded
<1>4. OnlyImageReadOnly(m, r) => OnlyImageReadOnly(n, r)
  BY <1>1 DEF OnlyImageReadOnly
<1> QED
  BY <1>2, <1>3, <1>4

(* What others read stays.                                                 *)
LEMMA OthersReads ==
  ASSUME SpaceInv, NEW t \in Task, OthersKept(t), Rewrites(mem, mem', Own(t)),
         NEW s \in Roots, s # cr3[t] \/ Image(s)
  PROVE  SameReads(mem, mem', s) /\ s \in Frame
<1>1. s \in Frame /\ WellFormed(mem, s) /\ mem \in Memory
  BY RootFrame
<1>2. SameSpace(mem, mem', s)
  BY DEF OthersKept
<1>3. Pages(mem, s) \cap Own(t) = {}
  <2>1. CASE cr3[t] = NoFrame
    BY <2>1 DEF Own
  <2>2. CASE cr3[t] # NoFrame /\ s # cr3[t]
    <3>1. cr3[t] \in Roots
      BY <2>2, RootsAre
    <3>2. Apart(mem, cr3[t], s)
      BY <2>2, <3>1 DEF SpaceInv, Spaces
    <3> QED
      BY <2>2, <3>2 DEF Apart, Own
  <2>3. CASE cr3[t] # NoFrame /\ s = cr3[t]
    <3>1. ImageLike(mem, s)
      BY <2>3, ImageIsRoot
    <3>2. \A f : f \notin PrivatePages(mem, s)
      BY <1>1, <3>1, PagesAre DEF ImageLike
    <3> QED
      BY <1>1, <2>3, <3>2 DEF Own, WellFormed
  <2> QED
    BY <2>1, <2>2, <2>3
<1>4. ASSUME NEW f \in Pages(mem, s)
      PROVE  mem'.page[f] = mem.page[f]
  <2>1. f \in mem.alloc \ Own(t)
    BY <1>1, <1>3 DEF WellFormed
  <2> QED
    BY <2>1 DEF Rewrites
<1> QED
  BY <1>1, <1>2, <1>4 DEF SameReads

(* The memory of t's program.                                              *)
Reading(t) == IF run[t].pc = "run" THEN [a \in Address |-> Reads(t, a)] ELSE NotRunning

LEMMA OthersContents ==
  ASSUME SpaceInv, ContentInv, NEW t \in Task, OthersKept(t), Rewrites(mem, mem', Own(t)),
         NEW u \in Task \ {t}
  PROVE  ContentPlace(u)' /\ Reading(u)' = Reading(u)
<1>1. CASE run[u].pc = "shell"
  BY <1>1 DEF OthersKept, ContentPlace, Loading, Reading
<1>2. CASE run[u].pc # "shell"
  <2>0. PICK pc, app, temp, root :
          pc = run[u].pc /\ app = run[u].app /\ temp = run[u].temp_pml4 /\ root = cr3[u]
    OBVIOUS
  <2>1. /\ run'[u].pc = pc /\ run'[u].app = app /\ run'[u].temp_pml4 = temp /\ cr3'[u] = root
        /\ PlaceInv(u) /\ ContentPlace(u) /\ mem \in Memory /\ mem' \in Memory
    BY <2>0 DEF OthersKept, SpaceInv, TypeInv, ContentInv
  <2>2. root # cr3[t] /\ root \in Roots
    BY <2>0, <1>2, <2>1, RootsAre DEF PlaceInv, SpaceInv, OwnerInv
  <2>3. SameReads(mem, mem', root) /\ root \in Frame
    BY <2>0, <2>2, OthersReads
  <2>4. ASSUME pc \in Loading
        PROVE  SameReads(mem, mem', temp) /\ temp \in Frame
    <3>1. temp # NoFrame /\ temp # cr3[t]
      BY <2>0, <1>2, <2>1, <2>2, <2>4 DEF PlaceInv, Loading
    <3>2. temp \in Roots
      BY <2>0, <2>4, <3>1, RootsAre
    <3> QED
      BY <2>0, <3>1, <3>2, OthersReads
  <2>5. pc \in Loading => app \notin NotElf /\ Loaded(mem', temp, app)
    BY <2>0, <2>1, <2>4, SameReadsAre DEF ContentPlace
  <2>6. pc = "args" => app \notin NotElf /\ Loaded(mem', root, app)
    BY <2>0, <2>1, <2>3, SameReadsAre DEF ContentPlace
  <2>7. pc = "run" => OnlyImageReadOnly(mem', root)
    BY <2>0, <2>1, <2>3, SameReadsAre DEF ContentPlace
  <2>8. ContentPlace(u)'
    BY <2>1, <2>5, <2>6, <2>7 DEF ContentPlace
  <2>9. \A a \in Address : Reads(u, a)' = Reads(u, a)
    <3>1. \A a \in Address : View(mem', root, a) = View(mem, root, a)
      BY <2>1, <2>3, SameReadsAre
    <3>2. \A a \in Address : Reads(u, a) = View(mem, root, a) /\ Reads(u, a)' = View(mem', root, a)
      BY <2>0, <2>1 DEF Reads, View, Unread
    <3> QED
      BY <3>1, <3>2
  <2>10. Reading(u)' = Reading(u)
    BY <2>0, <2>1, <2>9 DEF Reading, NotRunning
  <2> QED
    BY <2>8, <2>10
<1> QED
  BY <1>1, <1>2


(* What a step does to the memory of its program, and to nobody else's.    *)
Stored(R, a, t) == [R EXCEPT ![a] = [R[a] EXCEPT !.by = @ \cup {t}]]

Moves(t) ==
  \/ Reading(t)' = Reading(t)
  \/ Reading(t) = NotRunning /\ \E app \in App \ NotElf : Reading(t)' = StartMemory(app)
  \/ Reading(t) # NotRunning /\ Reading(t)' = NotRunning
  \/ /\ Reading(t) # NotRunning
     /\ \E a \in Address : Reading(t)' = Stored(Reading(t), a, t)

LEMMA MemoriesAre ==
  Memories = [t \in Task |-> Reading(t)] /\ Memories' = [t \in Task |-> Reading(t)']
BY DEF Memories, Reading

LEMMA AbstractStep ==
  ASSUME NEW t \in Task, Moves(t), \A u \in Task \ {t} : Reading(u)' = Reading(u)
  PROVE  [Private!Next]_Memories
<1> PICK M, N : M = Memories /\ N = Memories'
  OBVIOUS
<1>1. /\ M = [u \in Task |-> M[u]] /\ N = [u \in Task |-> N[u]]
      /\ \A u \in Task : M[u] = Reading(u) /\ N[u] = Reading(u)'
  BY MemoriesAre
<1>2. \A u \in Task \ {t} : N[u] = M[u]
  BY <1>1
<1>3. CASE Reading(t)' = Reading(t)
  <2>1. \A u \in Task : N[u] = M[u]
    BY <1>1, <1>3
  <2>2. N = M
    BY <1>1, <2>1
  <2> QED
    BY <2>2
<1>4. N = [M EXCEPT ![t] = N[t]]
  BY <1>1, <1>2
<1>5. CASE Reading(t) = NotRunning /\ \E app \in App \ NotElf : Reading(t)' = StartMemory(app)
  <2>1. PICK app \in App \ NotElf : N[t] = StartMemory(app)
    BY <1>1, <1>5
  <2>2. Private!Begin(t)
    BY <1>1, <1>4, <1>5, <2>1 DEF Private!Begin
  <2> QED
    BY <2>2 DEF Private!Next
<1>6. CASE Reading(t) # NotRunning /\ Reading(t)' = NotRunning
  <2>1. Private!End(t)
    BY <1>1, <1>4, <1>6 DEF Private!End
  <2> QED
    BY <2>1 DEF Private!Next
<1>7. CASE /\ Reading(t) # NotRunning
           /\ \E a \in Address : Reading(t)' = Stored(Reading(t), a, t)
  <2>1. PICK a \in Address : N[t] = Stored(M[t], a, t)
    BY <1>1, <1>7
  <2>2. N = [M EXCEPT ![t][a] = [M[t][a] EXCEPT !.by = M[t][a].by \cup {t}]]
    BY <1>1, <1>4, <2>1 DEF Stored
  <2>3. Private!Write(t)
    BY <1>1, <1>7, <2>2 DEF Private!Write
  <2> QED
    BY <2>3 DEF Private!Next
<1> QED
  BY <1>3, <1>5, <1>6, <1>7 DEF Moves

(* A running program has a memory.                                         *)
LEMMA RunningReads ==
  ASSUME TypeInv, NEW t \in Task, run[t].pc = "run", cr3[t] \in Frame
  PROVE  Reading(t) # NotRunning
<1>1. PICK a \in Address : TRUE
  <2>1. StackPages[1] \in Address
    BY SpacesAssumption
  <2> QED
    BY <2>1
<1>2. Reads(t, a).base # "none"
  <2>1. CASE Present(Lookup(mem, cr3[t], a))
    <3>1. PICK f : f = Lookup(mem, cr3[t], a).frame
      OBVIOUS
    <3>2. mem \in Memory
      BY DEF TypeInv
    <3>3. f \in Frame
      BY <2>1, <3>1, <3>2, LookupIs, EntryIs
    <3>4. mem.page[f] \in Content
      BY <3>2, <3>3 DEF Memory
    <3>5. Reads(t, a) = mem.page[f]
      BY <2>1, <3>1 DEF Reads
    <3> QED
      BY <3>4, <3>5, SpacesAssumption DEF Content
  <2>2. CASE ~Present(Lookup(mem, cr3[t], a))
    BY <2>2 DEF Reads, Zero
  <2> QED
    BY <2>1, <2>2
<1>3. NotRunning[a].base = "none" /\ Reading(t)[a] = Reads(t, a)
  BY DEF NotRunning, Reading
<1> QED
  BY <1>2, <1>3

(* The step lemma: the parts that are shown for each action.               *)
LEMMA ContentStep ==
  ASSUME SpaceInv, ContentInv, NEW t \in Task, OthersKept(t), Rewrites(mem, mem', Own(t)),
         ContentPlace(t)', Moves(t),
         \A app \in App : app_loads[app] = NoFrame /\ app_loads'[app] # NoFrame =>
           app \notin NotElf /\ Loaded(mem', app_loads'[app], app)
  PROVE  ContentInv' /\ [Private!Next]_Memories
<1>1. \A u \in Task \ {t} : ContentPlace(u)' /\ Reading(u)' = Reading(u)
  BY OthersContents
<1>2. [Private!Next]_Memories
  BY <1>1, AbstractStep
<1>3. ASSUME NEW app \in App, app_loads'[app] # NoFrame
      PROVE  app \notin NotElf /\ Loaded(mem', app_loads'[app], app)
  <2>1. CASE app_loads[app] = NoFrame
    BY <1>3, <2>1
  <2>2. CASE app_loads[app] # NoFrame
    <3>1. PICK x : x = app_loads[app]
      OBVIOUS
    <3>2. Image(x) /\ app_loads'[app] = x /\ app \notin NotElf /\ Loaded(mem, x, app)
      BY <2>2, <3>1 DEF Image, OthersKept, ContentInv, ImagesInv
    <3>3. x \in Roots
      BY <3>2, ImageIsRoot
    <3>4. SameReads(mem, mem', x) /\ x \in Frame
      BY <3>2, <3>3, OthersReads
    <3>5. Loaded(mem', x, app)
      BY <3>2, <3>4, SameReadsAre DEF SpaceInv, TypeInv, OthersKept
    <3> QED
      BY <3>2, <3>5
  <2> QED
    BY <2>1, <2>2
<1> QED
  BY <1>1, <1>2, <1>3 DEF ContentInv, ImagesInv


-----------------------------------------------------------------------------
(* What page maps do to the memory that is read through them.              *)

LEMMA ViewIs ==
  ASSUME NEW m \in Memory, NEW r \in Frame, WellFormed(m, r), NEW a \in Address
  PROVE  \/ /\ Present(Lookup(m, r, a)) /\ Lookup(m, r, a).frame \in m.alloc
            /\ View(m, r, a) = m.page[Lookup(m, r, a).frame]
         \/ ~Present(Lookup(m, r, a)) /\ View(m, r, a) = Unread(a)
  BY PagesAre DEF View, WellFormed

(* Nothing that r reads has changed.                                       *)
Quiet(m, n, r) ==
  /\ Rewrites(m, n, {})
  /\ \A a \in Address : View(n, r, a) = View(m, r, a)
  /\ OnlyImageReadOnly(m, r) => OnlyImageReadOnly(n, r)

LEMMA QuietItself ==
  ASSUME NEW m, NEW r
  PROVE  Quiet(m, m, r)
  BY DEF Quiet, Rewrites

LEMMA ExtendsKeeps ==
  ASSUME NEW m \in Memory, NEW n, NEW r \in Frame, WellFormed(m, r), NEW w, NEW P, NEW X,
         Extends(m, n, r, w, P, X)
  PROVE  /\ Rewrites(m, n, {})
         /\ \A app : Loaded(m, r, app) => Loaded(n, r, app)
<1>1. Rewrites(m, n, {})
  BY DEF Extends, Rewrites
<1>2. ASSUME NEW app, Loaded(m, r, app), NEW a \in Range(ImagePages)
      PROVE  /\ Present(Lookup(n, r, a))
             /\ n.page[Lookup(n, r, a).frame] = [base |-> app, by |-> {}]
  <2>1. a \in Address
    BY SpacesAssumption DEF Range
  <2>2. Present(Lookup(m, r, a)) /\ Lookup(m, r, a).frame \in m.alloc
    BY <1>2, <2>1, ViewIs DEF Loaded
  <2>3. Lookup(n, r, a) = Lookup(m, r, a)
    BY <2>1, <2>2 DEF Extends
  <2> QED
    BY <1>1, <1>2, <2>2, <2>3 DEF Loaded, Rewrites
<1> QED
  BY <1>1, <1>2 DEF Loaded

LEMMA ExtendsQuiet ==
  ASSUME NEW m \in Memory, NEW n, NEW r \in Frame, WellFormed(m, r), NEW P, P \cap FilePages = {},
         Extends(m, n, r, TRUE, P, {})
  PROVE  Quiet(m, n, r)
<1> PICK w, X : w = TRUE /\ X = {}
  OBVIOUS
<1>0. Extends(m, n, r, w, P, X)
  OBVIOUS
<1>1. Rewrites(m, n, {}) /\ n \in Memory /\ WellFormed(n, r)
  <2>1. Rewrites(m, n, {})
    BY <1>0, ExtendsKeeps
  <2> QED
    BY <2>1 DEF Extends
<1>2. ASSUME NEW a \in Address
      PROVE  /\ View(n, r, a) = View(m, r, a)
             /\ Present(Lookup(n, r, a)) /\ ~Lookup(n, r, a).writable =>
                  Present(Lookup(m, r, a)) /\ ~Lookup(m, r, a).writable
  <2>1. CASE Present(Lookup(m, r, a))
    <3>1. Lookup(n, r, a) = Lookup(m, r, a)
      BY <2>1 DEF Extends
    <3> QED
      BY <1>1, <2>1, <3>1, ViewIs DEF Rewrites
  <2>2. CASE ~Present(Lookup(m, r, a)) /\ Present(Lookup(n, r, a))
    <3>1. a \in P /\ Lookup(n, r, a).writable = TRUE /\ Lookup(n, r, a).frame \in Fresh(m, n)
      BY <2>2 DEF Extends
    <3>2. n.page[Lookup(n, r, a).frame] = Zero
      BY <3>1 DEF Extends
    <3>3. Unread(a) = Zero
      BY <3>1 DEF Unread
    <3> QED
      BY <2>2, <3>1, <3>2, <3>3 DEF View
  <2>3. CASE ~Present(Lookup(m, r, a)) /\ ~Present(Lookup(n, r, a))
    BY <2>3 DEF View
  <2> QED
    BY <2>1, <2>2, <2>3
<1> QED
  BY <1>1, <1>2 DEF Quiet, OnlyImageReadOnly

(* One page: it is there, or it is not.                                    *)
LEMMA OneStep ==
  ASSUME NEW m, NEW r, NEW s, NEW w, Len(s) = 1, NEW res, res = SetupPageMaps(m, r, s, w)
  PROVE  res = SetupPage(m, r, s[1], w)
<1>1. Len(s) \in Nat
  OBVIOUS
<1>2. PICK f : SetupUpTo(f, Len(s), m, r, s, w) /\ res = f[Len(s)]
  BY <1>1, SetupPageMapsAre
<1>3. SetupUpTo(f, 1, m, r, s, w) /\ res = f[1]
  BY <1>2
<1>4. f[0] = [mem |-> m, ok |-> TRUE] /\ f[1] = SetupOn(f[0], r, s[1], w)
  <2>1. \A k \in 0 .. 1 : f[k] = IF k = 0 THEN [mem |-> m, ok |-> TRUE]
                                 ELSE SetupOn(f[k - 1], r, s[k], w)
    BY <1>3 DEF SetupUpTo
  <2>2. 0 \in 0 .. 1 /\ 1 \in 0 .. 1 /\ 1 - 1 = 0
    OBVIOUS
  <2> QED
    BY <2>1, <2>2
<1>5. f[0].ok = TRUE /\ f[0].mem = m
  BY <1>4
<1> QED
  BY <1>3, <1>4, <1>5 DEF SetupOn

LEMMA AbsentReady ==
  ASSUME NEW m, NEW r, NEW a \in Address, ~Present(Lookup(m, r, a)), NEW P, P = {a}, NEW w
  PROVE  P \in SUBSET Address /\ a \in P /\ Ready(m, r, w, P)
  BY DEF Ready

LEMMA OnePageReads ==
  ASSUME NEW m \in Memory, NEW r \in Frame, WellFormed(m, r), NEW a \in Address,
         ~Present(Lookup(m, r, a)), NEW res, res = SetupPageMaps(m, r, <<a>>, TRUE)
  PROVE  /\ Extends(m, res.mem, r, TRUE, {a}, {})
         /\ res.ok \in BOOLEAN
         /\ res.ok => Present(Lookup(res.mem, r, a)) /\ Lookup(res.mem, r, a).writable
         /\ ~res.ok => ~Present(Lookup(res.mem, r, a))
<1>1. res = SetupPage(m, r, a, TRUE)
  <2> PICK s : s = <<a>>
    OBVIOUS
  <2>1. Len(s) = 1 /\ s[1] = a /\ res = SetupPageMaps(m, r, s, TRUE)
    OBVIOUS
  <2> QED
    BY <2>1, OneStep
<1>2. {a} \in SUBSET Address /\ a \in {a} /\ Ready(m, r, TRUE, {a})
  BY AbsentReady
<1>3. /\ Extends(m, res.mem, r, TRUE, {a}, {})
      /\ res.ok \in BOOLEAN
      /\ res.ok => Present(Lookup(res.mem, r, a))
      /\ ~res.ok => Lookup(res.mem, r, a) = Lookup(m, r, a)
  <2> PICK P, w : P = {a} /\ w = TRUE
    OBVIOUS
  <2>1. P \in SUBSET Address /\ a \in P /\ Ready(m, r, w, P) /\ w \in BOOLEAN
        /\ res = SetupPage(m, r, a, w)
    BY <1>1, <1>2
  <2>2. /\ Extends(m, res.mem, r, w, P, {})
        /\ res.ok \in BOOLEAN
        /\ res.ok => Present(Lookup(res.mem, r, a))
    BY <2>1, SetupPageIs
  <2>3. ASSUME ~res.ok
        PROVE  Lookup(res.mem, r, a) = Lookup(m, r, a)
    <3>1. Lookup(SetupPage(m, r, a, w).mem, r, a) = Lookup(m, r, a)
      <4>1. ~SetupPage(m, r, a, w).ok
        BY <2>1, <2>3
      <4> QED
        BY <2>1, <4>1, SetupPageIs, ZenonT(30)
    <3> QED
      BY <2>1, <3>1
  <2> QED
    BY <2>2, <2>3
<1>4. Present(Lookup(res.mem, r, a)) => Lookup(res.mem, r, a).writable = TRUE
  BY <1>3 DEF Extends
<1> QED
  BY <1>3, <1>4

LEMMA PreparePageCacheReads ==
  ASSUME mem \in Memory, NEW r \in Frame, WellFormed(mem, r), NEW a \in FilePages,
         ~Present(Lookup(mem, r, a)), NEW res, res = PreparePageCache(r, a)
  PROVE  /\ Quiet(mem, res.mem, r)
         /\ res.ok => Lookup(res.mem, r, a).writable
<1>0. a \in Address
  BY SpacesAssumption
<1>1. PICK q : q = SetupPageMaps(mem, r, <<a>>, TRUE)
  OBVIOUS
<1>2. /\ Extends(mem, q.mem, r, TRUE, {a}, {})
      /\ q.ok => Present(Lookup(q.mem, r, a)) /\ Lookup(q.mem, r, a).writable
      /\ ~q.ok => ~Present(Lookup(q.mem, r, a))
      /\ q.ok \in BOOLEAN
  BY <1>0, <1>1, OnePageReads
<1> PICK m1, P : m1 = q.mem /\ P = {a}
  OBVIOUS
<1>3. /\ Extends(mem, m1, r, TRUE, P, {}) /\ m1 \in Memory /\ WellFormed(m1, r)
      /\ Rewrites(mem, m1, {})
  BY <1>2, ExtendsKeeps DEF Extends
<1>4. ASSUME NEW b \in Address, b # a
      PROVE  /\ Lookup(m1, r, b) = Lookup(mem, r, b)
             /\ View(m1, r, b) = View(mem, r, b)
  <2>1. Lookup(m1, r, b) = Lookup(mem, r, b)
    <3>1. CASE Present(Lookup(mem, r, b))
      BY <1>3, <3>1 DEF Extends
    <3>2. CASE ~Present(Lookup(mem, r, b))
      <4>1. ~Present(Lookup(m1, r, b))
        BY <1>3, <1>4, <3>2 DEF Extends
      <4> QED
        BY <1>3, <3>2, <4>1, LookupIs, EntryIs
    <3> QED
      BY <3>1, <3>2
  <2> QED
    BY <1>3, <2>1, ViewIs DEF Rewrites, View
<1>5. CASE ~q.ok
  <2>1. res = q
    BY <1>1, <1>5 DEF PreparePageCache
  <2>2. View(m1, r, a) = View(mem, r, a)
    BY <1>2, <1>5 DEF View
  <2>3. \A b \in Address : View(m1, r, b) = View(mem, r, b)
    BY <1>4, <2>2
  <2>4. OnlyImageReadOnly(mem, r) => OnlyImageReadOnly(m1, r)
    BY <1>2, <1>4, <1>5 DEF OnlyImageReadOnly
  <2> QED
    BY <1>3, <1>5, <2>1, <2>3, <2>4 DEF Quiet
<1>6. CASE q.ok
  <2>1. PICK f, c : f = Lookup(m1, r, a).frame /\ c = [base |-> "file", by |-> {}]
    OBVIOUS
  <2>2. f \in Frame /\ c \in Content /\ Present(Lookup(m1, r, a)) /\ Lookup(m1, r, a).writable
    BY <1>0, <1>2, <1>3, <1>6, <2>1, LookupIs, EntryIs DEF Content
  <2>3. PICK o : o = [m1 EXCEPT !.page[f] = c]
    OBVIOUS
  <2>4. Filled(m1, o, f, c)
    BY <1>3, <2>2, <2>3, FilledIs
  <2>5. res.mem = o /\ res.ok = TRUE
    BY <1>1, <1>6, <2>1, <2>3 DEF PreparePageCache
  <2>6. /\ o \in Memory /\ \A b \in Address : Lookup(o, r, b) = Lookup(m1, r, b)
        /\ o.page = [m1.page EXCEPT ![f] = c] /\ m1.page \in [Frame -> Content]
    BY <1>3, <2>4 DEF Filled, Lookup, Memory
  <2>7. f \in Fresh(mem, m1)
    BY <1>0, <1>3, <2>1, <2>2 DEF Extends
  <2>8. Rewrites(mem, o, {})
    BY <1>3, <2>6, <2>7 DEF Rewrites, Fresh
  <2>9. ASSUME NEW b \in Address
        PROVE  View(o, r, b) = View(mem, r, b)
    <3>1. CASE b = a
      <4>1. View(o, r, a) = c
        BY <2>1, <2>2, <2>6, <3>1 DEF View
      <4>2. View(mem, r, a) = c
        BY <2>1 DEF View, Unread
      <4> QED
        BY <3>1, <4>1, <4>2
    <3>2. CASE b # a
      <4>1. Present(Lookup(m1, r, b)) => Lookup(m1, r, b).frame # f
        BY <1>0, <1>3, <2>1, <2>2, <3>2 DEF WellFormed
      <4>2. Present(Lookup(m1, r, b)) => Lookup(m1, r, b).frame \in Frame
        BY <1>3, LookupIs, EntryIs
      <4>3. View(o, r, b) = View(m1, r, b)
        BY <2>6, <4>1, <4>2 DEF View
      <4> QED
        BY <1>4, <3>2, <4>3
    <3> QED
      BY <3>1, <3>2
  <2>10. OnlyImageReadOnly(mem, r) => OnlyImageReadOnly(o, r)
    BY <1>4, <2>2, <2>6 DEF OnlyImageReadOnly
  <2> QED
    BY <1>0, <2>2, <2>5, <2>6, <2>8, <2>9, <2>10 DEF Quiet
<1> QED
  BY <1>2, <1>5, <1>6

LEMMA CopiedPageQuiet ==
  ASSUME NEW m \in Memory, NEW n, NEW r \in Frame, WellFormed(m, r), NEW a \in Address,
         Present(Lookup(m, r, a)), NEW f, CopiedPage(m, n, r, a, f)
  PROVE  Quiet(m, n, r) /\ Lookup(n, r, a).writable
<1> PICK e : e = [frame |-> f, writable |-> TRUE]
  OBVIOUS
<1>1. e.frame = f /\ e.writable
  OBVIOUS
<1>2. /\ WellFormed(n, r) /\ n \in Memory /\ f \in Frame \ m.alloc /\ Present(e)
      /\ \A b \in Address : Lookup(n, r, b) = IF b = a THEN e ELSE Lookup(m, r, b)
      /\ \A g \in Frame : n.page[g] = IF g = f THEN m.page[Lookup(m, r, a).frame] ELSE m.page[g]
      /\ m.alloc \subseteq Frame
  BY DEF CopiedPage, HasPut, Memory
<1>3. Rewrites(m, n, {})
  BY <1>2 DEF Rewrites
<1>4. ASSUME NEW b \in Address
      PROVE  View(n, r, b) = View(m, r, b)
  <2>1. CASE b = a
    BY <1>1, <1>2, <2>1 DEF View
  <2>2. CASE b # a
    <3>1. Lookup(n, r, b) = Lookup(m, r, b)
      BY <1>2, <2>2
    <3> QED
      BY <1>3, <3>1, ViewIs DEF View, Rewrites
  <2> QED
    BY <2>1, <2>2
<1>5. OnlyImageReadOnly(m, r) => OnlyImageReadOnly(n, r)
  BY <1>1, <1>2 DEF OnlyImageReadOnly
<1> QED
  BY <1>1, <1>2, <1>3, <1>4, <1>5 DEF Quiet

LEMMA HandlePageFaultReads ==
  ASSUME mem \in Memory, NEW t \in Task, NEW r \in Frame, r = cr3[t], WellFormed(mem, r),
         NEW a \in Address, NEW res, res = HandlePageFault(t, a)
  PROVE  /\ Quiet(mem, res.mem, r)
         /\ res.ok => Lookup(res.mem, r, a).writable
<1>1. CASE Present(Lookup(mem, r, a))
  <2>1. res = CopyOnePage(mem, r, a)
    BY <1>1 DEF HandlePageFault
  <2>2. PICK o : o = res.mem
    OBVIOUS
  <2>3. \/ res.ok = FALSE /\ o = mem
        \/ res.ok = TRUE /\ \E f : CopiedPage(mem, o, r, a, f)
    BY <1>1, <2>1, <2>2, CopyOnePageIs
  <2> QED
    BY <1>1, <2>2, <2>3, CopiedPageQuiet, QuietItself
<1>2. CASE ~Present(Lookup(mem, r, a))
  <2>1. CASE a \in HeapPages
    <3>1. a \notin FilePages
      BY <2>1, SpacesAssumption
    <3>2. res = SetupPageMaps(mem, r, <<a>>, TRUE)
      BY <1>2, <2>1, <3>1 DEF HandlePageFault
    <3>3. /\ Extends(mem, res.mem, r, TRUE, {a}, {})
          /\ res.ok => Lookup(res.mem, r, a).writable
      BY <1>2, <3>2, OnePageReads
    <3> PICK P, o : P = {a} /\ o = res.mem
      OBVIOUS
    <3>4. P \cap FilePages = {} /\ Extends(mem, o, r, TRUE, P, {})
      BY <3>1, <3>3
    <3>5. Quiet(mem, o, r)
      BY <3>4, ExtendsQuiet
    <3> QED
      BY <3>3, <3>5
  <2>2. CASE a \in FilePages
    <3>1. a \notin HeapPages
      BY <2>2, SpacesAssumption
    <3>2. res = PreparePageCache(r, a)
      BY <1>2, <2>2, <3>1 DEF HandlePageFault
    <3> QED
      BY <1>2, <2>2, <3>2, PreparePageCacheReads
  <2>3. CASE a \notin HeapPages /\ a \notin FilePages
    <3>1. res.mem = mem /\ res.ok = FALSE
      BY <1>2, <2>3 DEF HandlePageFault
    <3> QED
      BY <3>1, QuietItself
  <2> QED
    BY <2>1, <2>2, <2>3
<1> QED
  BY <1>1, <1>2

(* A store changes what is read at one address.                            *)
LEMMA StoreReads ==
  ASSUME NEW m \in Memory, NEW t \in Task, NEW r \in Frame, r = cr3[t], WellFormed(m, r),
         NEW a \in Address, Lookup(m, r, a).writable, NEW n, n = Store(m, t, a)
  PROVE  /\ Rewrites(m, n, PrivatePages(m, r))
         /\ \A b \in Address : Lookup(n, r, b) = Lookup(m, r, b)
         /\ View(n, r, a) = [View(m, r, a) EXCEPT !.by = @ \cup {t}]
         /\ \A b \in Address \ {a} : View(n, r, b) = View(m, r, b)
<1>1. Present(Lookup(m, r, a))
  <2>1. NotPresent.writable = FALSE
    BY DEF NotPresent
  <2> QED
    BY <2>1, LookupIs, EntryIs
<1> PICK f : f = Lookup(m, r, a).frame
  OBVIOUS
<1>2. f \in Frame /\ f \in PrivatePages(m, r)
  BY <1>1, LookupIs, EntryIs, PagesAre
<1> PICK c, p : c = [m.page[f] EXCEPT !.by = @ \cup {t}] /\ p = [m.page EXCEPT ![f] = c]
  OBVIOUS
<1>3. n = [m EXCEPT !.page = p]
  BY DEF Store
<1>4. n.alloc = m.alloc /\ n.table = m.table /\ n.page = p
  BY <1>3 DEF Memory
<1>5. m.page \in [Frame -> Content] /\ m.alloc \subseteq Frame
  BY DEF Memory
<1>6. \A b \in Address : Lookup(n, r, b) = Lookup(m, r, b)
  BY <1>4 DEF Lookup
<1>7. Rewrites(m, n, PrivatePages(m, r))
  BY <1>2, <1>4, <1>5 DEF Rewrites
<1>8. View(n, r, a) = [View(m, r, a) EXCEPT !.by = @ \cup {t}]
  <2>1. View(m, r, a) = m.page[f] /\ View(n, r, a) = p[f]
    BY <1>1, <1>4, <1>6 DEF View
  <2> QED
    BY <1>2, <1>5, <2>1
<1>9. ASSUME NEW b \in Address \ {a}
      PROVE  View(n, r, b) = View(m, r, b)
  <2>1. Present(Lookup(m, r, b)) => Lookup(m, r, b).frame # f /\ Lookup(m, r, b).frame \in Frame
    BY <1>1, LookupIs, EntryIs DEF WellFormed
  <2> QED
    BY <1>4, <1>5, <1>6, <2>1 DEF View
<1> QED
  BY <1>6, <1>7, <1>8, <1>9


-----------------------------------------------------------------------------
(* Each step keeps ContentInv, and is a step or a stutter of PrivateMemory.*)

LEMMA SameLoadsStep ==
  ASSUME SpaceInv, ContentInv, NEW t \in Task, OthersKept(t), app_loads' = app_loads,
         Rewrites(mem, mem', Own(t)), ContentPlace(t)', Moves(t)
  PROVE  ContentInv' /\ [Private!Next]_Memories
<1>1. \A app \in App : ~(app_loads[app] = NoFrame /\ app_loads'[app] # NoFrame)
  OBVIOUS
<1> QED
  BY <1>1, ContentStep

LEMMA FewerRewrites ==
  ASSUME NEW m, NEW n, NEW S, Rewrites(m, n, {})
  PROVE  Rewrites(m, n, S)
  BY DEF Rewrites

LEMMA Elsewhere ==
  ASSUME NEW t \in Task, run[t].pc # "run", run'[t].pc \notin Loading \cup {"args", "run"}
  PROVE  ContentPlace(t)' /\ Moves(t)
<1>1. ContentPlace(t)'
  BY DEF ContentPlace, Loading
<1>2. Reading(t) = NotRunning /\ Reading(t)' = NotRunning
  BY DEF Reading, NotRunning
<1> QED
  BY <1>1, <1>2 DEF Moves

(* The image's pages are new ones, and are filled with the file.           *)
LEMMA CopyLoadSegmentsReads ==
  ASSUME mem \in Memory, NEW r \in Frame, WellFormed(mem, r), mem.table[r] = EmptyTable,
         NEW app \in App, NEW res, res = CopyLoadSegments(r, app)
  PROVE  /\ Rewrites(mem, res.mem, {})
         /\ res.ok => Loaded(res.mem, r, app)
<1> PICK P, q, w, X : /\ P = Range(ImagePages) /\ q = SetupPageMaps(mem, r, ImagePages, FALSE)
                      /\ w = FALSE /\ X = {}
  OBVIOUS
<1>1. \A a \in Address : ~Present(Lookup(mem, r, a))
  BY EmptySpace
<1>2. P \in SUBSET Address /\ ImagePages \in Seq(P)
  <2>1. ImagePages \in Seq(Address)
    BY SpacesAssumption
  <2>2. \A i \in 1 .. Len(ImagePages) : ImagePages[i] \in P
    BY <2>1 DEF Range
  <2>3. ImagePages = [i \in 1 .. Len(ImagePages) |-> ImagePages[i]] /\ Len(ImagePages) \in Nat
    BY <2>1
  <2> QED
    BY <2>1, <2>2, <2>3 DEF Range
<1>3. Ready(mem, r, FALSE, P)
  BY <1>1, <1>2 DEF Ready
<1>4. /\ Extends(mem, q.mem, r, w, P, X)
      /\ q.ok => \A a \in P : Present(Lookup(q.mem, r, a))
  <2>1. /\ Extends(mem, q.mem, r, FALSE, P, {})
        /\ q.ok => \A a \in Range(ImagePages) : Present(Lookup(q.mem, r, a))
    BY <1>2, <1>3, SetupPagesIs
  <2> QED
    BY <2>1
<1> PICK m : m = q.mem
  OBVIOUS
<1>5. Extends(mem, m, r, w, P, X) /\ m \in Memory
  BY <1>4 DEF Extends
<1>6. Rewrites(mem, m, {})
  BY <1>5, ExtendsKeeps
<1>7. CASE ~q.ok
  BY <1>6, <1>7 DEF CopyLoadSegments
<1>8. CASE q.ok
  <2>1. PICK image, c : /\ image = {Lookup(q.mem, r, a).frame : a \in Range(ImagePages)}
                        /\ c = [base |-> app, by |-> {}]
    OBVIOUS
  <2>2. PICK p : p = [f \in Frame |-> IF f \in image THEN c ELSE m.page[f]]
    OBVIOUS
  <2>3. PICK o : o = [m EXCEPT !.page = p]
    OBVIOUS
  <2>4. o.alloc = m.alloc /\ o.table = m.table /\ o.page = p
    BY <1>5, <2>3 DEF Memory
  <2>5. res.mem = o
    BY <1>8, <2>1, <2>2, <2>3 DEF CopyLoadSegments
  <2>6. \A f \in Frame : p[f] = IF f \in image THEN c ELSE m.page[f]
    BY <2>2
  <2>7. ASSUME NEW a \in P
        PROVE  /\ a \in Address /\ Present(Lookup(m, r, a))
               /\ Lookup(m, r, a).frame \in Fresh(mem, m)
               /\ Lookup(m, r, a).frame \in Frame
    <3>1. a \in Address /\ Present(Lookup(m, r, a))
      BY <1>2, <1>4, <1>8
    <3>2. ~Present(Lookup(mem, r, a))
      BY <1>1, <3>1
    <3>3. Lookup(m, r, a).frame \in Fresh(mem, m)
      BY <1>5, <3>1, <3>2 DEF Extends
    <3> QED
      BY <1>5, <3>1, <3>3, LookupIs, EntryIs
  <2>8. image \cap mem.alloc = {}
    BY <2>1, <2>7 DEF Fresh
  <2>9. Rewrites(mem, o, {})
    <3>1. \A f \in mem.alloc : f \in Frame /\ m.page[f] = mem.page[f]
      BY <1>6 DEF Rewrites, Memory
    <3>2. \A f \in mem.alloc : p[f] = m.page[f]
      BY <2>6, <2>8, <3>1
    <3> QED
      BY <2>4, <3>1, <3>2 DEF Rewrites
  <2>10. Loaded(o, r, app)
    <3>1. ASSUME NEW a \in P
          PROVE  Present(Lookup(o, r, a)) /\ o.page[Lookup(o, r, a).frame] = c
      <4>1. Lookup(o, r, a) = Lookup(m, r, a)
        BY <2>4 DEF Lookup
      <4>2. Lookup(m, r, a).frame \in image
        BY <2>1
      <4> QED
        BY <2>4, <2>6, <2>7, <4>1, <4>2
    <3> QED
      BY <2>1, <3>1 DEF Loaded
  <2> QED
    BY <2>5, <2>9, <2>10
<1> QED
  BY <1>7, <1>8

LEMMA LoadELFReads ==
  ASSUME SpaceInv, ContentInv, NEW t \in Task, LoadELF(t)
  PROVE  ContentInv' /\ [Private!Next]_Memories
<1> PICK r, app, loaded : /\ r = cr3[t] /\ app = run[t].app
                          /\ loaded = CopyLoadSegments(run[t].temp_pml4, run[t].app)
  OBVIOUS
<1>1. /\ run[t].pc = "find" /\ app_loads' = app_loads
      /\ \/ mem' = mem /\ Return(t)
         \/ /\ mem' = loaded.mem /\ app \notin NotElf
            /\ IF loaded.ok THEN Goto(t, "insert") ELSE Return(t)
  BY DEF LoadELF, At
<1>2. /\ app \in App /\ run[t].temp_pml4 = r /\ mem.table[r] = EmptyTable
      /\ mem \in Memory /\ r # NoFrame
  BY <1>1 DEF SpaceInv, TypeInv, PlaceInv
<1>3. r \in Frame /\ WellFormed(mem, r)
  BY <1>2, RootsAre, RootFrame
<1>4. Rewrites(mem, loaded.mem, {}) /\ (loaded.ok => Loaded(loaded.mem, r, app))
  BY <1>2, <1>3, CopyLoadSegmentsReads
<1>5. Rewrites(mem, mem', Own(t))
  BY <1>1, <1>4 DEF Rewrites
<1>6. ContentPlace(t)' /\ Moves(t)
  <2>1. CASE Return(t)
    <3>1. run'[t].pc = "shell"
      BY <2>1, ReturnIs DEF SpaceInv, Gone
    <3> QED
      BY <1>1, <3>1, Elsewhere DEF Loading
  <2>2. CASE /\ mem' = loaded.mem /\ app \notin NotElf
             /\ loaded.ok /\ Goto(t, "insert")
    <3>1. "insert" \in PCs
      BY DEF PCs
    <3>2. run'[t].pc = "insert" /\ run'[t].app = app /\ run'[t].temp_pml4 = r
      BY <1>2, <2>2, <3>1, GotoIs DEF SpaceInv, Gone
    <3>3. ContentPlace(t)'
      BY <1>4, <2>2, <3>2 DEF ContentPlace, Loading
    <3>4. Reading(t) = NotRunning /\ Reading(t)' = NotRunning
      BY <1>1, <3>2 DEF Reading, NotRunning
    <3> QED
      BY <3>3, <3>4 DEF Moves
  <2> QED
    BY <1>1, <2>1, <2>2
<1>7. OthersKept(t)
  BY LoadELFOK
<1> QED
  BY <1>1, <1>5, <1>6, <1>7, SameLoadsStep


LEMMA CopiedImage ==
  ASSUME NEW m, NEW n, NEW r, NEW src, Copying(m, r, src), Rewrites(m, n, {}),
         SameSpace(m, n, src), Copied(n, r, src, TableSize), CopiedAll(n, r, src, TableSize),
         NEW app, Loaded(m, src, app)
  PROVE  Loaded(n, r, app)
<1>1. m \in Memory /\ src \in Frame /\ WellFormed(m, src)
  BY DEF Copying, Spaces
<1> SUFFICES ASSUME NEW a \in Range(ImagePages)
             PROVE  /\ Present(Lookup(n, r, a))
                    /\ n.page[Lookup(n, r, a).frame] = [base |-> app, by |-> {}]
  BY DEF Loaded
<1>2. a \in Address /\ a[1] < TableSize
  BY SpacesAssumption, SizeAssumption DEF Range, Address, Index
<1> PICK f : f = Lookup(m, src, a).frame
  OBVIOUS
<1>3. Present(Lookup(m, src, a)) /\ f \in m.alloc /\ m.page[f] = [base |-> app, by |-> {}]
  BY <1>1, <1>2, ViewIs DEF Loaded
<1>4. Lookup(n, src, a) = Lookup(m, src, a)
  BY <1>2 DEF SameSpace
<1>5. Present(Lookup(n, r, a))
  BY <1>2, <1>3, <1>4 DEF CopiedAll
<1>6. Lookup(n, r, a).frame = f
  BY <1>2, <1>4, <1>5, EntryOf DEF Copied
<1>7. n.page[f] = m.page[f]
  BY <1>3 DEF Rewrites
<1> QED
  BY <1>3, <1>5, <1>6, <1>7

LEMMA CopyStepReads ==
  ASSUME SpaceInv, ContentInv, NEW t \in Task, OthersKept(t), run[t].pc \in {"find", "copy"},
         UNCHANGED <<app_loads, cr3>>,
         NEW src \in Roots, src # cr3[t], ImageLike(mem, src),
         NEW app, app = run[t].app, app \notin NotElf, Loaded(mem, src, app),
         NEW copy, copy = CopyPageMaps(mem, cr3[t], src), mem' = copy.mem,
         IF copy.ok THEN Goto(t, "args") ELSE Return(t)
  PROVE  ContentInv' /\ [Private!Next]_Memories
<1> PICK r, n, w, P, X : /\ r = cr3[t] /\ n = copy.mem /\ w = FALSE
                         /\ P = Used(mem, src) /\ X = Pages(mem, src)
  OBVIOUS
<1>1. Copying(mem, r, src) /\ mem.table[r] = EmptyTable
  BY CopyingIs
<1>2. /\ Extends(mem, copy.mem, r, FALSE, Used(mem, src), Pages(mem, src))
      /\ SameSpace(mem, copy.mem, src)
      /\ Copied(copy.mem, r, src, TableSize)
      /\ copy.ok => CopiedAll(copy.mem, r, src, TableSize)
  BY <1>1, CopyPageMapsIs
<1>3. mem \in Memory /\ r \in Frame /\ WellFormed(mem, r)
  BY <1>1 DEF Copying, Spaces
<1>4. Rewrites(mem, n, {})
  <2>1. Extends(mem, n, r, w, P, X)
    BY <1>2
  <2> QED
    BY <1>3, <2>1, ExtendsKeeps
<1>5. Rewrites(mem, mem', Own(t))
  BY <1>4 DEF Rewrites
<1>6. ContentPlace(t)' /\ Moves(t)
  <2>1. CASE ~copy.ok
    <3>1. run'[t].pc = "shell"
      BY <2>1, ReturnIs DEF SpaceInv, Gone
    <3> QED
      BY <3>1, Elsewhere DEF Loading
  <2>2. CASE copy.ok
    <3>1. "args" \in PCs /\ Goto(t, "args")
      BY <2>2 DEF PCs
    <3>2. run'[t].pc = "args" /\ run'[t].app = app
      BY <3>1, GotoIs DEF SpaceInv, Gone
    <3>3. CopiedAll(n, r, src, TableSize) /\ Copied(n, r, src, TableSize) /\ SameSpace(mem, n, src)
      BY <1>2, <2>2
    <3>4. Loaded(n, r, app)
      BY <1>1, <1>4, <3>3, CopiedImage
    <3>5. ContentPlace(t)'
      BY <3>2, <3>4 DEF ContentPlace, Loading
    <3>6. Reading(t) = NotRunning /\ Reading(t)' = NotRunning
      BY <3>2 DEF Reading, NotRunning
    <3> QED
      BY <3>5, <3>6 DEF Moves
  <2> QED
    BY <2>1, <2>2
<1> QED
  BY <1>5, <1>6, SameLoadsStep

LEMMA FindImageReads ==
  ASSUME SpaceInv, ContentInv, NEW t \in Task, FindImage(t)
  PROVE  ContentInv' /\ [Private!Next]_Memories
<1> PICK app, src, copy : /\ app = run[t].app /\ src = app_loads[run[t].app]
                          /\ copy = CopyPageMaps(mem, run[t].temp_pml4, app_loads[run[t].app])
  OBVIOUS
<1>1. /\ run[t].pc = "find" /\ app_loads' = app_loads /\ cr3' = cr3
      /\ src # NoFrame /\ mem' = copy.mem
      /\ IF copy.ok THEN Goto(t, "args") ELSE Return(t)
  BY DEF FindImage, At
<1>2. app \in App /\ PlaceInv(t)
  BY <1>1 DEF SpaceInv, TypeInv
<1>3. Image(src) /\ app \notin NotElf /\ Loaded(mem, src, app)
  BY <1>1, <1>2 DEF Image, ContentInv, ImagesInv
<1>4. run[t].temp_pml4 = cr3[t] /\ ~Image(cr3[t])
  BY <1>1, <1>2 DEF PlaceInv
<1>5. src \in Roots /\ ImageLike(mem, src) /\ src # cr3[t]
  BY <1>3, <1>4, ImageIsRoot
<1>6. copy = CopyPageMaps(mem, cr3[t], src)
  BY <1>4
<1>7. OthersKept(t)
  BY FindImageOK
<1> QED
  BY <1>1, <1>3, <1>5, <1>6, <1>7, CopyStepReads

LEMMA CopyImageReads ==
  ASSUME SpaceInv, ContentInv, NEW t \in Task, CopyImage(t)
  PROVE  ContentInv' /\ [Private!Next]_Memories
<1> PICK app, src, copy : /\ app = run[t].app /\ src = run[t].temp_pml4
                          /\ copy = CopyPageMaps(mem, cr3[t], run[t].temp_pml4)
  OBVIOUS
<1>1. /\ run[t].pc = "copy" /\ app_loads' = app_loads /\ cr3' = cr3
      /\ mem' = copy.mem
      /\ IF copy.ok THEN Goto(t, "args") ELSE Return(t)
  BY DEF CopyImage, At
<1>2. PlaceInv(t) /\ ContentPlace(t)
  BY DEF SpaceInv, ContentInv
<1>3. src # NoFrame /\ ImageLike(mem, src) /\ src # cr3[t]
  BY <1>1, <1>2 DEF PlaceInv
<1>4. src \in Roots
  BY <1>1, <1>3, RootsAre DEF Loading
<1>5. app \notin NotElf /\ Loaded(mem, src, app)
  BY <1>1, <1>2 DEF ContentPlace, Loading
<1>6. OthersKept(t)
  BY CopyImageOK
<1> QED
  BY <1>1, <1>3, <1>4, <1>5, <1>6, CopyStepReads


LEMMA TakesKeeps ==
  ASSUME NEW m \in Memory, NEW n, NEW f, Takes(m, n, f)
  PROVE  /\ Rewrites(m, n, {})
         /\ \A r \in Frame : WellFormed(m, r) => SameReads(m, n, r)
<1>1. /\ f \in Frame \ m.alloc /\ n \in Memory /\ m.alloc \subseteq Frame
      /\ \A g \in Frame \ {f} : n.table[g] = m.table[g] /\ n.page[g] = m.page[g]
  BY DEF Takes, Memory
<1>2. ASSUME NEW r \in Frame, WellFormed(m, r)
      PROVE  SameReads(m, n, r)
  <2>1. Tables(m, r) \subseteq Frame \ {f} /\ Pages(m, r) \subseteq Frame \ {f}
    BY <1>1, <1>2 DEF WellFormed
  <2>2. SameSpace(m, n, r)
    BY <1>1, <2>1, SameView
  <2> QED
    BY <1>1, <2>1, <2>2 DEF SameReads
<1> QED
  BY <1>1, <1>2 DEF Rewrites

LEMMA SetupPML4Takes ==
  ASSUME mem \in Memory, NEW t \in Task, SetupPML4(t)
  PROVE  \E f : Takes(mem, mem', f)
<1> PICK new : new = NewPageMap(mem)
  OBVIOUS
<1>1. new.frame # NoFrame /\ mem' = new.mem
  BY DEF SetupPML4
<1>2. Takes(mem, new.mem, new.frame)
  BY <1>1, NewPageMapIs
<1> QED
  BY <1>1, <1>2

LEMMA ExecuteFileReads ==
  ASSUME SpaceInv, ContentInv, NEW t \in Task, NEW app \in App, ExecuteFile(t, app)
  PROVE  ContentInv' /\ [Private!Next]_Memories
<1>1. /\ run[t].pc = "shell" /\ SetupPML4(t) /\ app_loads' = app_loads
      /\ run' = [run EXCEPT ![t] = [pc |-> "find", app |-> app, temp_pml4 |-> cr3'[t]]]
  BY DEF ExecuteFile, At
<1>2. mem \in Memory /\ run \in [Task -> Place]
  BY DEF SpaceInv, TypeInv
<1>3. run'[t].pc = "find"
  BY <1>1, <1>2
<1>4. Rewrites(mem, mem', Own(t))
  <2>1. Rewrites(mem, mem', {})
    BY <1>1, <1>2, SetupPML4Takes, TakesKeeps
  <2> QED
    BY <2>1 DEF Rewrites
<1>5. ContentPlace(t)' /\ Moves(t)
  BY <1>1, <1>3, Elsewhere DEF Loading
<1>6. OthersKept(t)
  BY ExecuteFileOK
<1> QED
  BY <1>1, <1>4, <1>5, <1>6, SameLoadsStep

LEMMA RemapReads ==
  ASSUME SpaceInv, ContentInv, NEW t \in Task, Remap(t)
  PROVE  ContentInv' /\ [Private!Next]_Memories
<1>1. run[t].pc = "remap" /\ app_loads' = app_loads
  BY DEF Remap, At
<1>2. mem \in Memory /\ PlaceInv(t) /\ ContentPlace(t)
  BY DEF SpaceInv, TypeInv, ContentInv
<1>3. OthersKept(t)
  BY RemapOK
<1>4. CASE Return(t) /\ mem' = mem
  <2>1. run'[t].pc = "shell"
    BY <1>4, ReturnIs DEF SpaceInv, Gone
  <2>2. Rewrites(mem, mem', Own(t))
    BY <1>4 DEF Rewrites
  <2>3. ContentPlace(t)' /\ Moves(t)
    BY <1>1, <2>1, Elsewhere DEF Loading
  <2> QED
    BY <1>1, <1>3, <2>2, <2>3, SameLoadsStep
<1>5. CASE SetupPML4(t) /\ Goto(t, "copy")
  <2> PICK app, r : app = run[t].app /\ r = run[t].temp_pml4
    OBVIOUS
  <2>1. "copy" \in PCs
    BY DEF PCs
  <2>2. run'[t].pc = "copy" /\ run'[t].app = app /\ run'[t].temp_pml4 = r
    BY <1>5, <2>1, GotoIs DEF SpaceInv, Gone
  <2>3. r \in Frame /\ WellFormed(mem, r)
    <3>1. r # NoFrame
      BY <1>1, <1>2 DEF PlaceInv
    <3> QED
      BY <1>1, <3>1, RootsAre, RootFrame DEF Loading
  <2>4. Rewrites(mem, mem', {}) /\ SameReads(mem, mem', r)
    BY <1>2, <1>5, <2>3, SetupPML4Takes, TakesKeeps
  <2>5. app \notin NotElf /\ Loaded(mem, r, app)
    BY <1>1, <1>2 DEF ContentPlace, Loading
  <2>6. mem' \in Memory
    BY <1>3 DEF OthersKept
  <2>7. Loaded(mem', r, app)
    BY <1>2, <2>3, <2>4, <2>5, <2>6, SameReadsAre
  <2>8. ContentPlace(t)'
    BY <2>2, <2>5, <2>7 DEF ContentPlace
  <2>9. Reading(t) = NotRunning /\ Reading(t)' = NotRunning
    BY <1>1, <2>2 DEF Reading, NotRunning
  <2>10. Rewrites(mem, mem', Own(t))
    BY <2>4 DEF Rewrites
  <2> QED
    BY <1>1, <1>3, <2>8, <2>9, <2>10, SameLoadsStep DEF Moves
<1> QED
  BY <1>4, <1>5 DEF Remap

LEMMA InsertImageReads ==
  ASSUME SpaceInv, ContentInv, NEW t \in Task, InsertImage(t)
  PROVE  ContentInv' /\ [Private!Next]_Memories
<1> PICK r, app : r = run[t].temp_pml4 /\ app = run[t].app
  OBVIOUS
<1>1. /\ run[t].pc = "insert" /\ mem' = mem /\ Goto(t, "remap")
      /\ app_loads' = [app_loads EXCEPT ![app] = r] \/ app_loads' = app_loads
  BY DEF InsertImage, At
<1>2. ContentPlace(t) /\ app_loads \in [App -> Frame \cup {NoFrame}]
  BY DEF ContentInv, SpaceInv, TypeInv
<1>3. app \notin NotElf /\ Loaded(mem, r, app)
  BY <1>1, <1>2 DEF ContentPlace, Loading
<1>4. run'[t].pc = "remap" /\ run'[t].app = app /\ run'[t].temp_pml4 = r
  BY <1>1, GotoIs DEF SpaceInv, Gone, PCs
<1>5. ContentPlace(t)'
  BY <1>1, <1>3, <1>4 DEF ContentPlace
<1>6. Reading(t) = NotRunning /\ Reading(t)' = NotRunning
  BY <1>1, <1>4 DEF Reading, NotRunning
<1>7. \A x \in App : app_loads[x] = NoFrame /\ app_loads'[x] # NoFrame =>
        x \notin NotElf /\ Loaded(mem', app_loads'[x], x)
  BY <1>1, <1>2, <1>3
<1>8. Rewrites(mem, mem', Own(t))
  BY <1>1 DEF Rewrites
<1>9. OthersKept(t) /\ Moves(t)
  BY <1>6, InsertImageOK DEF Moves
<1> QED
  BY <1>5, <1>7, <1>8, <1>9, ContentStep

(* The program starts: its image, and zeros where the stack is.            *)
LEMMA SetupStackReads ==
  ASSUME SpaceInv, ContentInv, NEW t \in Task, SetupStack(t)
  PROVE  ContentInv' /\ [Private!Next]_Memories
<1> PICK r, n, S, w, X : r = cr3[t] /\ n = mem' /\ S = Range(StackPages) /\ w = TRUE /\ X = {}
  OBVIOUS
<1>1. /\ run[t].pc = "args" /\ Growing(t) /\ r \in Frame /\ WellFormed(mem, r)
      /\ Extends(mem, n, r, w, S, X)
  <2>1. /\ run[t].pc = "args" /\ Growing(t) /\ cr3[t] \in Frame /\ WellFormed(mem, cr3[t])
        /\ Extends(mem, mem', cr3[t], TRUE, Range(StackPages), {})
    BY SetupStackIs
  <2> QED
    BY <2>1
<1>2. /\ mem \in Memory /\ PlaceInv(t) /\ ContentPlace(t) /\ app_loads' = app_loads
      /\ cr3' = cr3 /\ OthersKept(t) /\ n \in Memory
  BY <1>1, SetupStackOK DEF SpaceInv, TypeInv, ContentInv, Growing, OthersKept
<1>3. PICK app, temp : \/ Gone(t, "shell", app, temp)
                       \/ Gone(t, "run", app, temp) /\ app = run[t].app /\ app \in App
  BY SetupStackIs
<1>4. Rewrites(mem, n, {})
  BY <1>1, <1>2, ExtendsKeeps
<1>5. Rewrites(mem, mem', Own(t))
  BY <1>4 DEF Rewrites
<1>6. CASE Gone(t, "shell", app, temp)
  <2>1. run'[t].pc = "shell"
    BY <1>6 DEF Gone
  <2>2. ContentPlace(t)' /\ Moves(t)
    BY <1>1, <2>1, Elsewhere DEF Loading
  <2> QED
    BY <1>2, <1>5, <2>2, SameLoadsStep
<1>7. CASE Gone(t, "run", app, temp) /\ app = run[t].app /\ app \in App
  <2>1. app \notin NotElf /\ Loaded(mem, r, app)
    BY <1>1, <1>2, <1>7 DEF ContentPlace, Loading
  <2>2. Loaded(n, r, app)
    BY <1>1, <1>2, <2>1, ExtendsKeeps
  <2>3. \A a \in Address : Present(Lookup(mem, r, a)) => a \in Range(ImagePages)
    BY <1>1, <1>2 DEF PlaceInv
  <2>4. S \cap (Range(ImagePages) \cup FilePages) = {}
    BY SpacesAssumption
  <2>5. ASSUME NEW a \in Address, a \notin Range(ImagePages)
        PROVE  /\ View(n, r, a) = Unread(a)
               /\ Present(Lookup(n, r, a)) => Lookup(n, r, a).writable
    <3>1. CASE ~Present(Lookup(n, r, a))
      BY <3>1 DEF View
    <3>2. CASE Present(Lookup(n, r, a))
      <4>1. ~Present(Lookup(mem, r, a))
        BY <2>3, <2>5
      <4>2. /\ a \in S /\ Lookup(n, r, a).writable = w
            /\ Lookup(n, r, a).frame \in Fresh(mem, n)
        BY <1>1, <3>2, <4>1 DEF Extends
      <4>3. n.page[Lookup(n, r, a).frame] = Zero
        BY <1>1, <4>2 DEF Extends
      <4>4. Unread(a) = Zero
        BY <2>4, <4>2 DEF Unread
      <4> QED
        BY <3>2, <4>2, <4>3, <4>4 DEF View
    <3> QED
      BY <3>1, <3>2
  <2>6. OnlyImageReadOnly(n, r)
    BY <2>5 DEF OnlyImageReadOnly
  <2>7. run'[t].pc = "run" /\ cr3'[t] = r
    BY <1>2, <1>7 DEF Gone
  <2>8. ContentPlace(t)'
    BY <2>6, <2>7 DEF ContentPlace, Loading
  <2>9. ASSUME NEW a \in Address
        PROVE  Reads(t, a)' = StartMemory(app)[a]
    <3>1. Reads(t, a)' = View(n, r, a)
      BY <2>7 DEF Reads, View, Unread
    <3>2. CASE a \in Range(ImagePages)
      <4>1. View(n, r, a) = [base |-> app, by |-> {}]
        BY <2>2, <3>2 DEF Loaded, View
      <4> QED
        BY <3>1, <3>2, <4>1 DEF StartMemory
    <3>3. CASE a \notin Range(ImagePages)
      BY <2>5, <3>1, <3>3 DEF StartMemory, Unread
    <3> QED
      BY <3>2, <3>3
  <2>10. Reading(t)' = StartMemory(app)
    <3>1. StartMemory(app) = [a \in Address |-> StartMemory(app)[a]]
      BY DEF StartMemory
    <3>2. Reading(t)' = [a \in Address |-> Reads(t, a)']
      BY <2>7 DEF Reading
    <3> QED
      BY <2>9, <3>1, <3>2
  <2>11. Reading(t) = NotRunning
    BY <1>1 DEF Reading
  <2>12. Moves(t)
    BY <1>7, <2>1, <2>10, <2>11 DEF Moves
  <2> QED
    BY <1>2, <1>5, <2>8, <2>12, SameLoadsStep
<1> QED
  BY <1>3, <1>6, <1>7


(* A running program runs on, stores something, or stops.                  *)
LEMMA ReadingIs ==
  ASSUME NEW t \in Task
  PROVE  /\ run[t].pc = "run" => Reading(t) = [a \in Address |-> View(mem, cr3[t], a)]
         /\ run'[t].pc = "run" => Reading(t)' = [a \in Address |-> View(mem', cr3'[t], a)]
<1>1. \A a \in Address : Reads(t, a) = View(mem, cr3[t], a) /\ Reads(t, a)' = View(mem', cr3'[t], a)
  BY DEF Reads, View, Unread
<1> QED
  BY <1>1 DEF Reading

LEMMA RunsOn ==
  ASSUME NEW t \in Task, NEW r, r = cr3[t], run[t].pc = "run", run' = run, cr3' = cr3,
         OnlyImageReadOnly(mem', r), \A a \in Address : View(mem', r, a) = View(mem, r, a)
  PROVE  ContentPlace(t)' /\ Moves(t)
<1>1. run'[t].pc = "run" /\ cr3'[t] = r
  OBVIOUS
<1>2. ContentPlace(t)'
  BY <1>1 DEF ContentPlace, Loading
<1>3. Reading(t)' = Reading(t)
  <2>1. /\ Reading(t) = [a \in Address |-> View(mem, r, a)]
        /\ Reading(t)' = [a \in Address |-> View(mem', r, a)]
    BY <1>1, ReadingIs
  <2> QED
    BY <2>1
<1> QED
  BY <1>2, <1>3 DEF Moves

LEMMA Stops ==
  ASSUME SpaceInv, NEW t \in Task, run[t].pc = "run", Goto(t, "clean")
  PROVE  ContentPlace(t)' /\ Moves(t)
<1>1. TypeInv /\ cr3[t] \in Frame
  <2>1. cr3[t] # NoFrame
    BY DEF SpaceInv, PlaceInv
  <2> QED
    BY <2>1, RootsAre, RootFrame DEF SpaceInv
<1>2. run'[t].pc = "clean"
  BY <1>1, GotoIs DEF Gone, PCs
<1>3. ContentPlace(t)'
  BY <1>2 DEF ContentPlace, Loading
<1>4. Reading(t) # NotRunning /\ Reading(t)' = NotRunning
  BY <1>1, <1>2, RunningReads DEF Reading, NotRunning
<1> QED
  BY <1>3, <1>4 DEF Moves

LEMMA StoreStep ==
  ASSUME SpaceInv, ContentInv, NEW t \in Task, run[t].pc = "run", run' = run, cr3' = cr3,
         NEW r \in Frame, r = cr3[t], NEW a \in Address,
         NEW m, NEW X, Grows(mem, m, r, X), Quiet(mem, m, r), Lookup(m, r, a).writable,
         mem' = Store(m, t, a)
  PROVE  Rewrites(mem, mem', Own(t)) /\ ContentPlace(t)' /\ Moves(t)
<1> PICK n : n = mem'
  OBVIOUS
<1>1. m \in Memory /\ WellFormed(m, r)
  BY DEF Grows
<1>2. /\ Rewrites(m, n, PrivatePages(m, r))
      /\ \A b \in Address : Lookup(n, r, b) = Lookup(m, r, b)
      /\ View(n, r, a) = [View(m, r, a) EXCEPT !.by = @ \cup {t}]
      /\ \A b \in Address \ {a} : View(n, r, b) = View(m, r, b)
  BY <1>1, StoreReads
<1>3. Rewrites(mem, n, Own(t))
  <2> SUFFICES ASSUME NEW f \in mem.alloc \ Own(t)
               PROVE  n.page[f] = mem.page[f]
    BY DEF Rewrites
  <2>1. m.page[f] = mem.page[f] /\ f \in m.alloc
    BY DEF Quiet, Rewrites, Grows
  <2>2. r # NoFrame
    BY SizeAssumption DEF Frame, NoFrame
  <2>3. f \notin PrivatePages(m, r)
    BY <2>2 DEF Own, Grows, Fresh
  <2> QED
    BY <1>2, <2>1, <2>3 DEF Rewrites
<1>4. run'[t].pc = "run" /\ cr3'[t] = r
  OBVIOUS
<1>5. ContentPlace(t)'
  <2>1. OnlyImageReadOnly(mem, r)
    BY DEF ContentInv, ContentPlace
  <2>2. OnlyImageReadOnly(m, r)
    BY <2>1 DEF Quiet
  <2>3. OnlyImageReadOnly(n, r)
    BY <1>2, <2>2 DEF OnlyImageReadOnly
  <2> QED
    BY <1>4, <2>3 DEF ContentPlace, Loading
<1>6. Moves(t)
  <2> PICK R, Q : R = Reading(t) /\ Q = Reading(t)'
    OBVIOUS
  <2>1. R = [b \in Address |-> View(mem, r, b)] /\ Q = [b \in Address |-> View(n, r, b)]
    BY <1>4, ReadingIs
  <2>2. \A b \in Address : View(m, r, b) = View(mem, r, b)
    BY DEF Quiet
  <2> PICK c : c = [R[a] EXCEPT !.by = @ \cup {t}]
    OBVIOUS
  <2>3. Q[a] = c
    BY <1>2, <2>1, <2>2
  <2>4. \A b \in Address : b # a => Q[b] = R[b]
    BY <1>2, <2>1, <2>2
  <2>5. Q = [R EXCEPT ![a] = c]
    BY <2>1, <2>3, <2>4
  <2>6. Q = Stored(R, a, t)
    BY <2>5 DEF Stored
  <2>7. R # NotRunning
    BY RunningReads DEF SpaceInv
  <2> QED
    BY <2>6, <2>7 DEF Moves
<1> QED
  BY <1>3, <1>5, <1>6

LEMMA QuietStep ==
  ASSUME SpaceInv, ContentInv, NEW t \in Task, run[t].pc = "run", cr3' = cr3,
         run' = run \/ Goto(t, "clean"),
         NEW r \in Frame, r = cr3[t], Quiet(mem, mem', r)
  PROVE  Rewrites(mem, mem', Own(t)) /\ ContentPlace(t)' /\ Moves(t)
<1>1. Rewrites(mem, mem', Own(t))
  BY DEF Quiet, Rewrites
<1>2. CASE Goto(t, "clean")
  BY <1>1, <1>2, Stops
<1>3. CASE run' = run
  <2> PICK n : n = mem'
    OBVIOUS
  <2>1. OnlyImageReadOnly(mem, r)
    BY DEF ContentInv, ContentPlace
  <2>2. OnlyImageReadOnly(n, r) /\ \A a \in Address : View(n, r, a) = View(mem, r, a)
    BY <2>1 DEF Quiet
  <2>3. ContentPlace(t)' /\ Moves(t)
    BY <1>3, <2>2, RunsOn
  <2> QED
    BY <1>1, <2>3
<1> QED
  BY <1>2, <1>3

(* The page map of a running program, and a fault in it.                   *)
LEMMA RunsIn ==
  ASSUME SpaceInv, NEW t \in Task, run[t].pc = "run"
  PROVE  cr3[t] \in Frame /\ WellFormed(mem, cr3[t]) /\ mem \in Memory
<1>1. cr3[t] # NoFrame
  BY DEF SpaceInv, PlaceInv
<1> QED
  BY <1>1, RootsAre, RootFrame

LEMMA FaultReads ==
  ASSUME SpaceInv, NEW t \in Task, run[t].pc = "run", NEW r, r = cr3[t], NEW a \in Address,
         ~Lookup(mem, r, a).writable, NEW fault, fault = HandlePageFault(t, a)
  PROVE  /\ Quiet(mem, fault.mem, r) /\ fault.ok \in BOOLEAN
         /\ fault.ok => Lookup(fault.mem, r, a).writable
         /\ \E X : Grows(mem, fault.mem, r, X)
<1>1. r \in Frame /\ WellFormed(mem, r) /\ mem \in Memory
  BY RunsIn
<1>2. /\ Quiet(mem, fault.mem, r)
      /\ fault.ok => Lookup(fault.mem, r, a).writable
  BY <1>1, HandlePageFaultReads
<1>3. Faulted(mem, fault.mem, r) /\ fault.ok \in BOOLEAN
  BY <1>1, HandlePageFaultIs
<1> QED
  BY <1>2, <1>3 DEF Faulted, Added

LEMMA WriteMemoryReads ==
  ASSUME SpaceInv, ContentInv, NEW t \in Task, NEW a \in Address, WriteMemory(t, a)
  PROVE  ContentInv' /\ [Private!Next]_Memories
<1> PICK r, fault : r = cr3[t] /\ fault = HandlePageFault(t, a)
  OBVIOUS
<1>1. run[t].pc = "run" /\ app_loads' = app_loads /\ cr3' = cr3
  BY DEF WriteMemory, At
<1>2. IF Lookup(mem, r, a).writable
      THEN mem' = Store(mem, t, a) /\ run' = run
      ELSE IF fault.ok THEN mem' = Store(fault.mem, t, a) /\ run' = run
           ELSE mem' = fault.mem /\ Goto(t, "clean")
  BY DEF WriteMemory
<1>3. r \in Frame /\ WellFormed(mem, r) /\ mem \in Memory
  BY <1>1, RunsIn
<1>4. Rewrites(mem, mem', Own(t)) /\ ContentPlace(t)' /\ Moves(t)
  <2>1. CASE Lookup(mem, r, a).writable
    <3>1. Quiet(mem, mem, r)
      BY QuietItself
    <3>2. \E X : Grows(mem, mem, r, X)
      BY <1>3, AddedNothing DEF Added
    <3> QED
      BY <1>1, <1>2, <1>3, <2>1, <3>1, <3>2, StoreStep
  <2>2. CASE ~Lookup(mem, r, a).writable
    <3> PICK m : m = fault.mem
      OBVIOUS
    <3>1. /\ Quiet(mem, m, r) /\ fault.ok \in BOOLEAN
          /\ fault.ok => Lookup(m, r, a).writable
          /\ \E X : Grows(mem, m, r, X)
      BY <1>1, <2>2, FaultReads
    <3>2. CASE fault.ok
      <4>1. mem' = Store(m, t, a) /\ run' = run /\ Lookup(m, r, a).writable
        BY <1>2, <2>2, <3>1, <3>2
      <4> QED
        BY <1>1, <1>3, <3>1, <4>1, StoreStep
    <3>3. CASE ~fault.ok
      <4>1. mem' = m /\ Goto(t, "clean")
        BY <1>2, <2>2, <3>3
      <4> QED
        BY <1>1, <1>3, <3>1, <4>1, QuietStep
    <3> QED
      BY <3>2, <3>3
  <2> QED
    BY <2>1, <2>2
<1>5. OthersKept(t)
  BY WriteMemoryOK
<1> QED
  BY <1>1, <1>4, <1>5, SameLoadsStep

LEMMA AbsentIs ==
  ASSUME NEW m \in Memory, NEW r \in Frame, NEW a \in Address, ~Present(Lookup(m, r, a))
  PROVE  ~Lookup(m, r, a).writable
<1>1. Lookup(m, r, a) = NotPresent
  BY LookupIs, EntryIs
<1>2. NotPresent.writable = FALSE
  BY DEF NotPresent
<1> QED
  BY <1>1, <1>2

LEMMA ReadMemoryReads ==
  ASSUME SpaceInv, ContentInv, NEW t \in Task, NEW a \in Address, ReadMemory(t, a)
  PROVE  ContentInv' /\ [Private!Next]_Memories
<1> PICK r, fault : r = cr3[t] /\ fault = HandlePageFault(t, a)
  OBVIOUS
<1>1. /\ run[t].pc = "run" /\ app_loads' = app_loads /\ cr3' = cr3
      /\ mem' = fault.mem /\ (run' = run \/ Goto(t, "clean"))
      /\ ~Present(Lookup(mem, r, a))
  BY DEF ReadMemory, At
<1>2. r \in Frame /\ WellFormed(mem, r) /\ mem \in Memory
  BY <1>1, RunsIn
<1>3. ~Lookup(mem, r, a).writable
  BY <1>1, <1>2, AbsentIs
<1>4. Quiet(mem, fault.mem, r)
  BY <1>1, <1>3, FaultReads
<1>5. Quiet(mem, mem', r)
  BY <1>1, <1>4
<1>6. Rewrites(mem, mem', Own(t)) /\ ContentPlace(t)' /\ Moves(t)
  BY <1>1, <1>2, <1>5, QuietStep
<1>7. OthersKept(t)
  BY ReadMemoryOK
<1> QED
  BY <1>1, <1>6, <1>7, SameLoadsStep

(* A buffer that is there may be written to, when it is not in the image:  *)
(* then the kernel, which ignores that bit, does what the program could.   *)
LEMMA SystemCallWritesReads ==
  ASSUME SpaceInv, ContentInv, NEW t \in Task, NEW a \in Address, SystemCallWrites(t, a),
         KernelBuffers \cap Range(ImagePages) = {}
  PROVE  ContentInv' /\ [Private!Next]_Memories
<1> PICK r, fault : r = cr3[t] /\ fault = HandlePageFault(t, a)
  OBVIOUS
<1>1. /\ run[t].pc = "run" /\ app_loads' = app_loads /\ cr3' = cr3 /\ run' = run
      /\ a \in KernelBuffers
  BY DEF SystemCallWrites, At
<1>2. IF Present(Lookup(mem, r, a)) THEN mem' = Store(mem, t, a)
      ELSE IF fault.ok THEN mem' = Store(fault.mem, t, a) ELSE mem' = fault.mem
  BY DEF SystemCallWrites
<1>3. r \in Frame /\ WellFormed(mem, r) /\ mem \in Memory
  BY <1>1, RunsIn
<1>4. Rewrites(mem, mem', Own(t)) /\ ContentPlace(t)' /\ Moves(t)
  <2>1. CASE Present(Lookup(mem, r, a))
    <3>1. OnlyImageReadOnly(mem, r) /\ a \notin Range(ImagePages)
      BY <1>1 DEF ContentInv, ContentPlace
    <3>2. Lookup(mem, r, a).writable
      BY <2>1, <3>1 DEF OnlyImageReadOnly
    <3>3. Quiet(mem, mem, r)
      BY QuietItself
    <3>4. \E X : Grows(mem, mem, r, X)
      BY <1>3, AddedNothing DEF Added
    <3> QED
      BY <1>1, <1>2, <1>3, <2>1, <3>2, <3>3, <3>4, StoreStep
  <2>2. CASE ~Present(Lookup(mem, r, a))
    <3>0. ~Lookup(mem, r, a).writable
      BY <1>3, <2>2, AbsentIs
    <3> PICK m : m = fault.mem
      OBVIOUS
    <3>1. /\ Quiet(mem, m, r) /\ fault.ok \in BOOLEAN
          /\ fault.ok => Lookup(m, r, a).writable
          /\ \E X : Grows(mem, m, r, X)
      BY <1>1, <3>0, FaultReads
    <3>2. CASE fault.ok
      <4>1. mem' = Store(m, t, a) /\ Lookup(m, r, a).writable
        BY <1>2, <2>2, <3>1, <3>2
      <4> QED
        BY <1>1, <1>3, <3>1, <4>1, StoreStep
    <3>3. CASE ~fault.ok
      <4>1. mem' = m
        BY <1>2, <2>2, <3>3
      <4> QED
        BY <1>1, <1>3, <3>1, <4>1, QuietStep
    <3> QED
      BY <3>2, <3>3
  <2> QED
    BY <2>1, <2>2
<1>5. OthersKept(t)
  BY SystemCallWritesOK
<1> QED
  BY <1>1, <1>4, <1>5, SameLoadsStep


LEMMA ExitReads ==
  ASSUME SpaceInv, ContentInv, NEW t \in Task, Exit(t)
  PROVE  ContentInv' /\ [Private!Next]_Memories
<1>1. run[t].pc = "run" /\ Goto(t, "clean") /\ mem' = mem /\ app_loads' = app_loads
  BY DEF Exit, At
<1>2. Rewrites(mem, mem', Own(t))
  BY <1>1 DEF Rewrites
<1>3. ContentPlace(t)' /\ Moves(t) /\ OthersKept(t)
  BY <1>1, Stops, ExitOK
<1> QED
  BY <1>1, <1>2, <1>3, SameLoadsStep

(* A page map that is cleaned up was nobody else's.                        *)
LEMMA ReleasedRewrites ==
  ASSUME NEW m \in Memory, NEW n, NEW F, Released(m, n, F), NEW S, F \subseteq S
  PROVE  Rewrites(m, n, S)
<1>1. m.alloc \subseteq Frame
  BY DEF Memory
<1> QED
  BY <1>1 DEF Released, Rewrites

LEMMA CleanReads ==
  ASSUME SpaceInv, ContentInv, NEW t \in Task, Clean(t)
  PROVE  ContentInv' /\ [Private!Next]_Memories
<1> PICK r, n, F : r = cr3[t] /\ n = mem' /\ F = PrivatePages(mem, r) \cup (Tables(mem, r) \ {r})
  OBVIOUS
<1>1. /\ run[t].pc = "clean" /\ n = CleanPageMaps(mem, r) /\ Goto(t, "free")
      /\ app_loads' = app_loads
  BY DEF Clean, At
<1>2. r # NoFrame
  BY <1>1 DEF SpaceInv, PlaceInv
<1>3. r \in Frame /\ WellFormed(mem, r) /\ mem \in Memory
  BY <1>2, RootsAre, RootFrame
<1>4. Released(mem, n, F)
  BY <1>1, <1>3, CleanPageMapsIs DEF Cleaned
<1>5. F \subseteq Own(t)
  BY <1>2 DEF Own
<1>6. Rewrites(mem, mem', Own(t))
  BY <1>3, <1>4, <1>5, ReleasedRewrites
<1>7. run'[t].pc = "free"
  BY <1>1, GotoIs DEF SpaceInv, Gone, PCs
<1>8. ContentPlace(t)' /\ Moves(t) /\ OthersKept(t)
  BY <1>1, <1>7, Elsewhere, CleanOK DEF Loading
<1> QED
  BY <1>1, <1>6, <1>8, SameLoadsStep

LEMMA FreePML4Reads ==
  ASSUME SpaceInv, ContentInv, NEW t \in Task, FreePML4(t)
  PROVE  ContentInv' /\ [Private!Next]_Memories
<1> PICK r, n, F : r = cr3[t] /\ n = mem' /\ F = {r}
  OBVIOUS
<1>1. /\ run[t].pc = "free" /\ n = FreePageMap(mem, r) /\ Return(t) /\ app_loads' = app_loads
  BY DEF FreePML4, At
<1>2. r # NoFrame
  BY <1>1 DEF SpaceInv, PlaceInv
<1>3. r \in Frame /\ WellFormed(mem, r) /\ mem \in Memory
  BY <1>2, RootsAre, RootFrame
<1>4. Released(mem, n, F)
  <2>1. n = Release(mem, F)
    BY <1>1 DEF FreePageMap
  <2> QED
    BY <1>3, <2>1, ReleaseIs
<1>5. F \subseteq Own(t)
  BY <1>2, <1>3, TablesAre DEF Own
<1>6. Rewrites(mem, mem', Own(t))
  BY <1>3, <1>4, <1>5, ReleasedRewrites
<1>7. run'[t].pc = "shell"
  BY <1>1, ReturnIs DEF SpaceInv, Gone
<1>8. ContentPlace(t)' /\ Moves(t) /\ OthersKept(t)
  BY <1>1, <1>7, Elsewhere, FreePML4OK DEF Loading
<1> QED
  BY <1>1, <1>6, <1>8, SameLoadsStep

LEMMA ContentInit ==
  Init => ContentInv /\ Private!Init
<1> SUFFICES ASSUME Init
             PROVE  ContentInv /\ Private!Init
  OBVIOUS
<1>1. \A t \in Task : run[t].pc = "shell"
  BY DEF Init, Shell
<1>2. \A app \in App : app_loads[app] = NoFrame
  BY DEF Init
<1>3. ContentInv
  BY <1>1, <1>2 DEF ContentInv, ImagesInv, ContentPlace, Loading
<1>4. Private!Init
  BY <1>1 DEF Private!Init, Memories
<1> QED
  BY <1>3, <1>4

LEMMA ContentNext ==
  ASSUME KernelBuffers \cap Range(ImagePages) = {}
  PROVE  SpaceInv /\ ContentInv /\ [Next]_vars => ContentInv' /\ [Private!Next]_Memories
<1> SUFFICES ASSUME SpaceInv, ContentInv, [Next]_vars
             PROVE  ContentInv' /\ [Private!Next]_Memories
  OBVIOUS
<1>1. CASE Next
  <2>1. PICK t \in Task :
          \/ \E app \in App : ExecuteFile(t, app)
          \/ FindImage(t) \/ LoadELF(t) \/ InsertImage(t)
          \/ Remap(t) \/ CopyImage(t) \/ SetupStack(t)
          \/ \E a \in Address : WriteMemory(t, a) \/ ReadMemory(t, a) \/ SystemCallWrites(t, a)
          \/ Exit(t) \/ Clean(t) \/ FreePML4(t)
    BY <1>1 DEF Next
  <2>2. ASSUME NEW a \in Address,
               WriteMemory(t, a) \/ ReadMemory(t, a) \/ SystemCallWrites(t, a)
        PROVE  ContentInv' /\ [Private!Next]_Memories
    BY <2>2, WriteMemoryReads, ReadMemoryReads, SystemCallWritesReads
  <2> QED
    BY <2>1, <2>2, ExecuteFileReads, FindImageReads, LoadELFReads, InsertImageReads, RemapReads,
       CopyImageReads, SetupStackReads, ExitReads, CleanReads, FreePML4Reads
<1>2. CASE UNCHANGED vars
  <2>1. mem' = mem /\ app_loads' = app_loads /\ cr3' = cr3 /\ run' = run
    BY <1>2 DEF vars
  <2>2. ContentInv'
    BY <2>1 DEF ContentInv, ImagesInv, ContentPlace
  <2>3. \A t \in Task : Reading(t)' = Reading(t)
    BY <2>1 DEF Reading, Reads, NotRunning
  <2>4. Memories' = Memories
    BY <2>3, MemoriesAre
  <2> QED
    BY <2>2, <2>4
<1> QED
  BY <1>1, <1>2

(* Every program has its memory to itself: it starts with what its file    *)
(* holds and zeros, and reads what it has stored itself and nothing else,  *)
(* however the starts, faults and ends of other programs interleave - as   *)
(* long as no system call stores into the pages of a segment, which are    *)
(* shared until they are written to, and which the kernel, with CR0.WP     *)
(* clear, does not copy.                                                   *)
THEOREM ProgramsHaveTheirMemory ==
  ASSUME KernelBuffers \cap Range(ImagePages) = {}
  PROVE  Spec => ImplementsPrivateMemory
<1>1. Init => ContentInv /\ Private!Init
  BY ContentInit
<1>2. SpaceInv /\ ContentInv /\ [Next]_vars => ContentInv' /\ [Private!Next]_Memories
  BY ContentNext
<1> QED
  BY <1>1, <1>2, SpaceAlways, PTL DEF Spec, ImplementsPrivateMemory, Private!Spec

(* terminal.cpp:105 under the same condition: an image keeps what the file *)
(* holds, for every later start of the application.                        *)
THEOREM ImagesStayIntact ==
  ASSUME KernelBuffers \cap Range(ImagePages) = {}
  PROVE  Spec => []ImagesIntact
<1>1. Init => ContentInv
  BY ContentInit
<1>2. SpaceInv /\ ContentInv /\ [Next]_vars => ContentInv'
  BY ContentNext
<1>3. ContentInv => ImagesIntact
  BY DEF ContentInv, ImagesInv, ImagesIntact, Loaded
<1> QED
  BY <1>1, <1>2, <1>3, SpaceAlways, PTL DEF Spec
=============================================================================
