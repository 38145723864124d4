-------------------------------- MODULE Fat --------------------------------
(***************************************************************************)
(* The FAT32 volume in memory (src/kernel/io/fat.cpp): the table of        *)
(* cluster links, directories that grow by a cluster when they are full,   *)
(* and descriptors that read and write files through cluster chains.       *)
(*                                                                         *)
(* A task that is inside a call may be preempted by another one: a Write   *)
(* is a step per cluster it touches, and steps of Writes to one file mix.  *)
(* Each step, and each of the other calls, is one action; in the code they *)
(* can be preempted as well (see the hazard at fat.cpp:199).               *)
(*                                                                         *)
(* A file name is the sequence of its characters after the last '/'.  None *)
(* of them is '/' or 0xe5, which AllocateEntry takes for an unused entry   *)
(* when it is the first.                                                   *)
(***************************************************************************)
EXTENDS Integers, Sequences, FiniteSets

CONSTANTS Clusters,           \* the number of clusters of the volume
          bytes_per_cluster,
          EntriesPerCluster,  \* directory entries in a cluster
          Directory,          \* first clusters of the directories of the image
          Char,               \* characters
          Dot, Space,         \* '.' and ' '
          Upper,              \* toupper
          Name,               \* file names the tasks use
          NoName,             \* name[0] = 0: a directory entry not in use
          Fd,                 \* descriptors
          Byte,               \* values of a byte
          Blank,              \* a byte nobody has written
          Buffer,             \* what the callers write
          Count,              \* how many bytes the callers ask for
          PageOffset,         \* where the page fault handler loads from
          MaxBytes,           \* bound: the size of each file
          MaxOffset,          \* bound: the largest of them
          MaxOpens,           \* bound: how often files are opened
          Readers,            \* bound: the descriptors their tasks read from
          Closed,             \* no descriptor
          NoCall              \* no Write of the descriptor is under way

Cluster == 2 .. Clusters + 1
Free == 0
kEndOfClusterchain == Clusters + 2   \* 0x0fffffff
Slot == 0 .. EntriesPerCluster - 1
Path == Directory \X Name
File == Cluster \X Slot

ASSUME ClustersAssumption == Clusters \in Nat
ASSUME SizesAssumption ==
  bytes_per_cluster \in Nat \ {0} /\ EntriesPerCluster \in Nat \ {0} /\
  MaxOffset \in Nat /\ MaxBytes \in [Name -> 0 .. MaxOffset]
ASSUME DirectoryAssumption == Directory \subseteq Cluster
ASSUME CharAssumption == Space \in Char /\ Upper \in [Char -> Char]
ASSUME NameAssumption == Name \subseteq Seq(Char) /\ NoName \notin Name \cup [1 .. 11 -> Char]
ASSUME BufferAssumption == Buffer \subseteq Seq(Byte) /\ NoCall \notin Seq(Byte)
ASSUME TasksAssumption == MaxOpens \in Nat /\ Readers \subseteq Fd
ASSUME CountAssumption ==
  Count \subseteq Nat /\ PageOffset \subseteq 0 .. MaxOffset - 1
ASSUME ClosedAssumption ==
  /\ Closed \notin [fat_entry : File, rd_off : Nat, rd_cluster : Nat, rd_cluster_off : Nat,
                    wr_off : Nat, wr_cluster : Nat, wr_cluster_off : Nat,
                    buf : Buffer \cup {NoCall}, total : Nat]
  /\ Closed \notin [file : File, rd : Nat, wr : Nat, todo : Seq(Byte) \cup {NoCall},
                    lost : BOOLEAN]

VARIABLES
  fat,     \* GetFAT()
  sector,  \* the bytes of each cluster
  dir,     \* the directory entries of each cluster of a directory
  fds,     \* FileDescriptor objects, and the Write each of them executes
  out,     \* the bytes the call that was just made returned
  opens,   \* how many descriptors have been made: bound of the model
  holed    \* history: the files whose chain has a cluster a Write skipped

vars == <<fat, sector, dir, fds, out, opens, holed>>

(* `asked` is history: the name the entry was made for.                    *)
NoEntry == [name |-> NoName, asked |-> NoName, first |-> 0, size |-> 0]

(* The volume as it is made: directories of one cluster, and free ones.    *)
Init ==
  /\ fat = [c \in Cluster |-> IF c \in Directory THEN kEndOfClusterchain ELSE Free]
  /\ sector = [c \in Cluster |-> [i \in 0 .. bytes_per_cluster - 1 |-> Blank]]
  /\ dir = [c \in Cluster |-> [i \in Slot |-> NoEntry]]
  /\ fds = [d \in Fd |-> Closed]
  /\ out = <<>>
  /\ opens = 0
  /\ holed = {}
-----------------------------------------------------------------------------
(* Cluster chains.                                                         *)

(* The code also looks up the successor of the end of a chain, outside of  *)
(* the table; what it finds is not in the volume.                          *)
NextCluster(c) == IF c \in Cluster THEN fat[c] ELSE kEndOfClusterchain

(* The cluster n links behind c.                                           *)
Behind(c, n) ==
  LET at[k \in Nat] == IF k = 0 THEN c ELSE NextCluster(at[k - 1])
  IN  at[n]

(* The clusters a search that starts at cluster 2 takes one after the      *)
(* other: the n lowest free ones.  The search does not end if there are    *)
(* too few; the volume is assumed to be large enough.                      *)
FreeClusters(n) ==
  {s \in [1 .. n -> {c \in Cluster : fat[c] = Free}] :
     /\ \A i, j \in 1 .. n : i < j => s[i] < s[j]
     /\ \A c \in Cluster : fat[c] = Free =>
          (\E i \in 1 .. n : s[i] = c) \/ \A i \in 1 .. n : s[i] < c}

(* Seeded fault: the last cluster is not marked as the end.                *)
LinkedWithoutEnd(s) ==
  [c \in Cluster |-> IF \E i \in 1 .. Len(s) - 1 : s[i] = c
                     THEN s[(CHOOSE i \in 1 .. Len(s) - 1 : s[i] = c) + 1] ELSE fat[c]]

(* The clusters of s in a row, the last of them the end of a chain.        *)
Linked(s) ==
  [c \in Cluster |->
     IF \E i \in DOMAIN s : s[i] = c
     THEN LET i == CHOOSE i \in DOMAIN s : s[i] = c
          IN  IF i = Len(s) THEN kEndOfClusterchain ELSE s[i + 1]
     ELSE fat[c]]

(* ExtendCluster, which every caller hands the last cluster of a chain.    *)
ExtendCluster(eoc_cluster, s) == [Linked(s) EXCEPT ![eoc_cluster] = s[1]]

NumCluster(bytes) == (bytes + bytes_per_cluster - 1) \div bytes_per_cluster

(* The byte of cluster chain c at offset i.                                *)
ByteAt(c, i) ==
  LET k == Behind(c, i \div bytes_per_cluster)
  IN  IF k \in Cluster THEN sector[k][i % bytes_per_cluster] ELSE Blank
-----------------------------------------------------------------------------
(* Names.                                                                  *)

Dots(name) == {i \in DOMAIN name : name[i] = Dot}

(* The last dot, or the end of the name.                                   *)
DotPosition(name) ==
  IF Dots(name) = {} THEN Len(name) + 1
  ELSE CHOOSE i \in Dots(name) : \A j \in Dots(name) : j <= i

(* Eight characters of what is before the last dot, three of what is       *)
(* behind it, in upper case; what is too long is cut off.                  *)
SetFileName(name) ==
  [i \in 1 .. 11 |->
     LET at == IF i <= 8 THEN i ELSE DotPosition(name) + i - 8
     IN  IF at <= Len(name) /\ (i <= 8 => i < DotPosition(name))
         THEN Upper[name[at]] ELSE Space]

(* An element of a path.                                                   *)
NextPathElement(name) == IF Len(name) > 12 THEN <<>> ELSE name

Is83(name) ==
  /\ \A i, j \in Dots(name) : i = j
  /\ DotPosition(name) <= 9
  /\ Len(name) <= DotPosition(name) + 3

(* Nothing is cut off here: a name that is no 8.3 name is refused.         *)
NameIsEqual(stored, name) == Is83(name) /\ stored = SetFileName(name)
-----------------------------------------------------------------------------
(* Directories.  A DirectoryEntry pointer is the pair of its cluster and   *)
(* its index.                                                              *)

Entry(e) == dir[e[1]][e[2]]

(* A scan of the directory that starts at cluster d: place <<n, i>> is the *)
(* entry i of its cluster n.                                               *)
Places(d) == {p \in (0 .. Clusters - 1) \X Slot : Behind(d, p[1]) \in Cluster}
EntryAt(d, p) == <<Behind(d, p[1]), p[2]>>
NameAt(d, p) == Entry(EntryAt(d, p)).name
Before(q, p) == q[1] < p[1] \/ (q[1] = p[1] /\ q[2] < p[2])

(* Seeded fault: FindFile does not go on to the directory's next cluster.  *)
FindFileInFirstCluster(path) ==
  {e \in {path[1]} \X Slot :
     /\ NameIsEqual(Entry(e).name, NextPathElement(path[2]))
     /\ \A i \in 0 .. e[2] - 1 :
          LET stored == Entry(<<path[1], i>>).name
          IN  stored # NoName /\ ~NameIsEqual(stored, NextPathElement(path[2]))}

(* Whether the search stops at an entry: it is unused, or it is the one.   *)
Stops(stored, path) == stored = NoName \/ NameIsEqual(stored, NextPathElement(path[2]))

(* The entry FindFile finds: the first of that name, if no unused entry    *)
(* comes before it.                                                        *)
FindFile(path) ==
  {EntryAt(path[1], p) : p \in {p \in Places(path[1]) :
     /\ NameIsEqual(NameAt(path[1], p), NextPathElement(path[2]))
     /\ \A q \in Places(path[1]) : Before(q, p) => ~Stops(NameAt(path[1], q), path)}}

(* AllocateEntry: the first unused one ...                                 *)
UnusedEntry(d) ==
  {EntryAt(d, p) : p \in {p \in Places(d) :
     /\ NameAt(d, p) = NoName
     /\ \A q \in Places(d) : Before(q, p) => NameAt(d, q) # NoName}}

NewEntry(path) == [NoEntry EXCEPT !.name = SetFileName(path[2]), !.asked = path[2]]

(* CreateFile in a directory that has an unused entry,                     *)
CreateInPlace(path, e) ==
  /\ e \in UnusedEntry(path[1])
  /\ dir' = [dir EXCEPT ![e[1]][e[2]] = NewEntry(path)]
  /\ UNCHANGED fat

(* ... and in a full one, which is extended by a zeroed cluster.           *)
CreateInNewCluster(path, e) ==
  /\ UnusedEntry(path[1]) = {}
  /\ e[2] = 0
  /\ \E eoc \in Cluster, s \in FreeClusters(1) :
       /\ \E n \in 0 .. Clusters - 1 : Behind(path[1], n) = eoc
       /\ fat[eoc] = kEndOfClusterchain
       /\ e[1] = s[1]
       /\ fat' = ExtendCluster(eoc, s)
       /\ dir' = [dir EXCEPT ![s[1]] = [i \in Slot |-> IF i = 0 THEN NewEntry(path) ELSE NoEntry]]
-----------------------------------------------------------------------------
(* Calls of the tasks.                                                     *)

Idle(d) == fds[d] # Closed /\ fds[d].buf = NoCall
Writing(d) == fds[d] # Closed /\ fds[d].buf # NoCall

NewDescriptor(e) ==
  [fat_entry |-> e, rd_off |-> 0, rd_cluster |-> 0, rd_cluster_off |-> 0,
   wr_off |-> 0, wr_cluster |-> 0, wr_cluster_off |-> 0, buf |-> NoCall, total |-> 0]

(* OpenFile with O_CREAT, and a redirection to a file: an existing file    *)
(* keeps its contents and its size.  A name that is no 8.3 name finds no   *)
(* file (or one without a name) and makes another entry each time.         *)
OpenFile(d, path) ==
  /\ fds[d] = Closed
  /\ opens < MaxOpens
  /\ opens' = opens + 1
  /\ \E e \in File :
       /\ \/ e \in FindFile(path) /\ UNCHANGED <<fat, dir>>
          \/ FindFile(path) = {} /\ (CreateInPlace(path, e) \/ CreateInNewCluster(path, e))
       /\ fds' = [fds EXCEPT ![d] = NewDescriptor(e)]
  /\ out' = <<>>
  /\ UNCHANGED <<sector, holed>>

(* The program ends, or the command that was redirected: the shared_ptr    *)
(* is reset.                                                               *)
Close(d) ==
  /\ Idle(d)
  /\ opens < MaxOpens
  /\ fds' = [fds EXCEPT ![d] = Closed]
  /\ out' = <<>>
  /\ UNCHANGED <<fat, sector, dir, opens, holed>>

(* The beginning of Write: the first Write of the descriptor finds the     *)
(* file's first cluster, or allocates a chain.                             *)
BeginWrite(d, buf) ==
  LET e       == fds[d].fat_entry
      cluster == IF fds[d].wr_cluster = 0 THEN Entry(e).first ELSE fds[d].wr_cluster
      n       == IF buf = <<>> THEN 1 ELSE NumCluster(Len(buf))
  IN  /\ Idle(d)
      /\ fds[d].wr_off + Len(buf) <= MaxBytes[Entry(e).asked]
      /\ \/ /\ cluster # 0
            /\ fds' = [fds EXCEPT ![d].wr_cluster = cluster, ![d].buf = buf]
            /\ UNCHANGED <<fat, dir>>
         \/ /\ cluster = 0
            /\ \E s \in FreeClusters(n) :
                 /\ fat' = Linked(s)
                 /\ dir' = [dir EXCEPT ![e[1]][e[2]].first = s[1]]
                 /\ fds' = [fds EXCEPT ![d].wr_cluster = s[1], ![d].buf = buf]
      /\ out' = <<>>
      /\ UNCHANGED <<sector, opens, holed>>

(* A pass of the loop of Write, from offset `off` of cluster c: what fits. *)
Store(d, c, off) ==
  LET left == Len(fds[d].buf) - fds[d].total
      n    == IF left < bytes_per_cluster - off THEN left ELSE bytes_per_cluster - off
  IN  /\ sector' = [sector EXCEPT ![c] =
           [i \in DOMAIN @ |-> IF i \in off .. off + n - 1
                               THEN fds[d].buf[fds[d].total + i - off + 1] ELSE @[i]]]
      /\ fds' = [fds EXCEPT ![d].wr_cluster = c, ![d].wr_cluster_off = off + n,
                            ![d].total = @ + n]

WriteChunk(d) ==
  LET left == Len(fds[d].buf) - fds[d].total
      next == NextCluster(fds[d].wr_cluster)
  IN  /\ Writing(d)
      /\ left > 0
      /\ \/ /\ fds[d].wr_cluster_off < bytes_per_cluster
            /\ Store(d, fds[d].wr_cluster, fds[d].wr_cluster_off)
            /\ UNCHANGED <<fat, holed>>
         \/ /\ fds[d].wr_cluster_off = bytes_per_cluster
            /\ next # kEndOfClusterchain
            /\ Store(d, next, 0)
            /\ UNCHANGED <<fat, holed>>
         \* ExtendCluster returns the last cluster it has added.
         \/ /\ fds[d].wr_cluster_off = bytes_per_cluster
            /\ next = kEndOfClusterchain
            /\ \E s \in FreeClusters(NumCluster(left)) :
                 /\ fat' = ExtendCluster(fds[d].wr_cluster, s)
                 /\ Store(d, s[Len(s)], 0)
                 /\ holed' = IF Len(s) > 1 THEN holed \cup {fds[d].fat_entry} ELSE holed
      /\ out' = <<>>
      /\ UNCHANGED <<dir, opens>>

EndWrite(d) ==
  LET e   == fds[d].fat_entry
      end == fds[d].wr_off + fds[d].total
  IN  /\ Writing(d)
      /\ fds[d].total = Len(fds[d].buf)
      /\ fds' = [fds EXCEPT ![d].wr_off = end, ![d].buf = NoCall, ![d].total = 0]
      /\ dir' = [dir EXCEPT ![e[1]][e[2]].size = end]
      /\ out' = <<>>
      /\ UNCHANGED <<fat, sector, opens, holed>>

(* min(len, file_size - rd_off_) of unsigned numbers: past the end of the  *)
(* file the difference wraps around.                                       *)
Length(e, offset, len) ==
  IF offset > Entry(e).size \/ len <= Entry(e).size - offset THEN len
  ELSE Entry(e).size - offset

(* Seeded fault: a full cluster is left one byte late.                     *)
ReadLeavesClusterLate(d, len) ==
  LET e       == fds[d].fat_entry
      cluster == IF fds[d].rd_cluster = 0 THEN Entry(e).first ELSE fds[d].rd_cluster
      n       == Length(e, fds[d].rd_off, len)
      off     == fds[d].rd_cluster_off + n
      links   == IF off = 0 THEN 0 ELSE (off - 1) \div bytes_per_cluster
  IN  /\ Idle(d)
      /\ fds[d].rd_off <= MaxOffset
      /\ out' = [i \in 1 .. n |-> ByteAt(cluster, fds[d].rd_cluster_off + i - 1)]
      /\ fds' = [fds EXCEPT ![d].rd_off = @ + n,
                            ![d].rd_cluster = Behind(cluster, links),
                            ![d].rd_cluster_off = off % bytes_per_cluster]
      /\ UNCHANGED <<fat, sector, dir, opens, holed>>

(* Bound: a descriptor past the end of its file reads on until MaxOffset.  *)
Read(d, len) ==
  LET e       == fds[d].fat_entry
      cluster == IF fds[d].rd_cluster = 0 THEN Entry(e).first ELSE fds[d].rd_cluster
      n       == Length(e, fds[d].rd_off, len)
      off     == fds[d].rd_cluster_off + n
  IN  /\ Idle(d)
      /\ fds[d].rd_off <= MaxOffset
      /\ out' = [i \in 1 .. n |-> ByteAt(cluster, fds[d].rd_cluster_off + i - 1)]
      /\ fds' = [fds EXCEPT ![d].rd_off = @ + n,
                            ![d].rd_cluster = Behind(cluster, off \div bytes_per_cluster),
                            ![d].rd_cluster_off = off % bytes_per_cluster]
      /\ UNCHANGED <<fat, sector, dir, opens, holed>>

(* Load, for the page fault handler: a Read of a copy of the descriptor.   *)
Load(d, len, offset) ==
  LET e == fds[d].fat_entry
  IN  /\ Idle(d)
      /\ out' = [i \in 1 .. Length(e, offset, len) |-> ByteAt(Entry(e).first, offset + i - 1)]
      /\ UNCHANGED <<fat, sector, dir, fds, opens, holed>>
-----------------------------------------------------------------------------
Next ==
  \E d \in Fd :
    \/ \E path \in Path : OpenFile(d, path)
    \/ Close(d)
    \/ \E buf \in Buffer : BeginWrite(d, buf)
    \/ WriteChunk(d)
    \/ EndWrite(d)
    \/ d \in Readers /\ \E len \in Count : Read(d, len)
    \/ d \in Readers /\ \E len \in Count, offset \in PageOffset : Load(d, len, offset)

Spec == Init /\ [][Next]_vars
-----------------------------------------------------------------------------
(* A chain begins in a directory entry or is a directory.                  *)
StartsChain(c) == c \in Directory \/ \E e \in File : Entry(e).first = c

(* No cluster belongs to two files, or twice to one, and none is lost: a   *)
(* cluster in use is the successor of exactly one cluster or the beginning *)
(* of exactly one chain; free clusters are neither (AllocateClusterChain   *)
(* and ExtendCluster build chains of free clusters, fat.hpp:197).          *)
ClustersOwnedOnce ==
  /\ \A c \in Cluster : fat[c] # Free <=> StartsChain(c) \/ \E b \in Cluster : fat[b] = c
  /\ \A b, c \in Cluster : fat[b] = fat[c] /\ fat[b] \in Cluster => b = c
  /\ \A b \in Cluster : fat[b] \in Cluster => ~StartsChain(fat[b])
  /\ \A e, f \in File :
       Entry(e).first = Entry(f).first /\ Entry(e).first # 0 =>
         e = f /\ Entry(e).first \notin Directory

(* A file made for an 8.3 name is what FindFile finds under that name, and *)
(* the only thing it finds: no other entry hides it, made before or after  *)
(* for whatever name (SetFileName may cut another one to the same eleven   *)
(* characters), in whatever cluster of the directory.  Open descriptors    *)
(* refer to entries in use.                                                *)
FilesAreFound ==
  /\ \A e \in File :
       Entry(e).asked # NoName /\ Is83(Entry(e).asked) =>
         \E d \in Directory : FindFile(<<d, Entry(e).asked>>) = {e}
  /\ \A d \in Fd : fds[d] # Closed => Entry(fds[d].fat_entry).name # NoName

(* The bytes of a file, as Files sees them.                                *)
Body(e) ==
  [i \in 0 .. MaxOffset - 1 |->
     IF e \in holed \/ Entry(e).first = 0 THEN Blank ELSE ByteAt(Entry(e).first, i)]

(* A descriptor, as Files sees it.                                         *)
Seen(descriptor) ==
  IF descriptor = Closed THEN Closed
  ELSE [file |-> descriptor.fat_entry,
        rd   |-> descriptor.rd_off,
        wr   |-> descriptor.wr_off + descriptor.total,
        todo |-> IF descriptor.buf = NoCall THEN NoCall
                 ELSE SubSeq(descriptor.buf, descriptor.total + 1, Len(descriptor.buf)),
        lost |-> descriptor.rd_cluster = kEndOfClusterchain]

Bodies      == [e \in File |-> Body(e)]
Sizes       == [e \in File |-> Entry(e).size]
Descriptors == [d \in Fd |-> Seen(fds[d])]

Promise ==
  INSTANCE Files WITH
    Offset <- 0 .. MaxOffset - 1, Burst <- bytes_per_cluster,
    body <- Bodies, size <- Sizes, desc <- Descriptors

(* Whatever the calls of several descriptors do, chunk by chunk, a read    *)
(* returns the bytes written at its position, with Files' exceptions.      *)
ImplementsFiles == Promise!Spec
=============================================================================
