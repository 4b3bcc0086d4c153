------------------------------- MODULE FileProofs -------------------------------
(***************************************************************************)
(* Proofs about the calls on a mounted file system (Fat32): opening,       *)
(* listing and reading, for every volume that is laid out as FAT32 has it  *)
(* (Volumes) and whatever the controller does.                             *)
(***************************************************************************)
EXTENDS DiskProofs

-------------------------------------------------------------------------------
(***************************************************************************)
(* Opening and listing: the walk through the directory.                    *)
(***************************************************************************)

\* A cluster of the directory was read, and the walk goes on or ends.
LEMMA WalksOn ==
  ASSUME Still, FileInv, UNCHANGED fat32_files, result = NO_RESULT,
         NEW i \in DOMAIN Directory, call.cluster = Directory[i],
         NEW next, NEW end, WalkOn(EntriesIn(i), next, end),
         next.at = "walk", "at" \in DOMAIN next, "cluster" \in DOMAIN next,
         \A m : m = [next EXCEPT !.cluster = Directory[i + 1]] /\ call' = m =>
                  OpenWalk(i + 1)' \/ ListWalk(i + 1)',
         i = Len(Directory) /\ Return(end) => OpensNamed' /\ ListsRoot' /\ ReadsContent'
  PROVE  CallInv'
<1>1. PICK c \in Follow(Directory[i]) :
        IF ~Ended(EntriesIn(i)) /\ IsCluster(c)
        THEN ReadCluster([next EXCEPT !.cluster = c]) /\ UNCHANGED result
        ELSE Return(end) /\ ReadDone
  BY Zenon DEF WalkOn
<1>2. IF ~Ended(EntriesIn(i)) /\ IsCluster(c)
      THEN i < Len(Directory) /\ i + 1 \in DOMAIN Directory /\ c = Directory[i + 1]
      ELSE i = Len(Directory)
  BY WalkGoes, Zenon DEF Still
<1>3. CASE ~Ended(EntriesIn(i)) /\ IsCluster(c)
  <2>1. PICK m : m = [next EXCEPT !.cluster = c]
    BY Zenon
  <2>2. ReadCluster(m) /\ result' = NO_RESULT /\ c = Directory[i + 1] /\ i + 1 \in DOMAIN Directory
    BY <1>1, <1>2, <1>3, <2>1, Zenon
  <2>3. m.at = "walk" /\ m.cluster = Directory[i + 1]
    BY <2>1, <2>2, Zenon
  <2>4. call' = m => OpenWalk(i + 1)' \/ ListWalk(i + 1)'
    BY <2>1, <2>2, Zenon
  <2> DEFINE j == i + 1
  <2> HIDE DEF j
  <2>5. /\ j \in DOMAIN Directory /\ m.cluster = Directory[j]
        /\ call' = m => OpenWalk(j)' \/ ListWalk(j)'
    BY <2>2, <2>3, <2>4, Zenon DEF j
  <2> QED
    BY <2>2, <2>3, <2>5, Walks, Zenon
<1>4. CASE ~(~Ended(EntriesIn(i)) /\ IsCluster(c))
  <2>1. Return(end) /\ i = Len(Directory)
    BY <1>1, <1>2, <1>4, Zenon
  <2> QED
    BY <2>1, FilesKept, Answers, Zenon
<1> QED
  BY <1>3, <1>4, Zenon

\* fat32_open looks through a cluster.
LEMMA Finds ==
  ASSUME Still, CallInv, result = NO_RESULT,
         NEW i \in DOMAIN Directory, call.cluster = Directory[i], OpenWalk(i), Find(EntriesIn(i))
  PROVE  CallInv'
<1> DEFINE E == EntriesIn(i)
           named == {k \in Shown(E) : E[k].name = call.name}
<1>1. /\ call = [at |-> "walk", cluster |-> call.cluster, of |-> "open", name |-> call.name, fd |-> call.fd]
      /\ call.fd \in Handles
      /\ \A f \in DOMAIN Files : Files[f].part < i => Files[f].name # call.name
  BY Zenon DEF OpenWalk
<1>2. IsVolume /\ FileInv /\ Files' = Files /\ i \in Nat /\ Len(Directory) \in Nat
  BY StillIs, DirectoryIs DEF Still, CallInv
<1>3. CASE /\ named = {} /\ UNCHANGED fat32_files
           /\ WalkOn(E, call, [of |-> "open", name |-> call.name, fd |-> -1, sure |-> TRUE])
  <2>1. ASSUME NEW f \in DOMAIN Files, Files[f].part < i + 1
        PROVE  Files[f].name # call.name
    <3>1. CASE Files[f].part = i
      <4>1. /\ Files[f].entry \in DOMAIN E /\ IsFile(E, Files[f].entry)
            /\ E[Files[f].entry].name = Files[f].name
        BY <1>2, <3>1, FileEntry, Zenon
      <4>2. Files[f].entry \in Shown(E)
        BY <4>1, ShownIs, Zenon
      <4> QED
        BY <1>3, <4>1, <4>2, Zenon
    <3>2. CASE Files[f].part # i
      <4>1. Files[f].part \in Nat
        BY <1>2, FilesAre, Zenon
      <4> QED
        BY <1>1, <1>2, <2>1, <3>2, <4>1
    <3> QED
      BY <3>1, <3>2, Zenon
  <2> HIDE DEF E, named
  <2>2. PICK end : end = [of |-> "open", name |-> call.name, fd |-> -1, sure |-> TRUE]
    BY Zenon
  <2>3. WalkOn(EntriesIn(i), call, end)
    BY <1>3, <2>2, Zenon DEF E
  <2>4. call.at = "walk" /\ "at" \in DOMAIN call /\ "cluster" \in DOMAIN call
    BY <1>1
  <2>5. ASSUME NEW m, m = [call EXCEPT !.cluster = Directory[i + 1]], call' = m
        PROVE  OpenWalk(i + 1)'
    <3>1. m = [at |-> "walk", cluster |-> Directory[i + 1], of |-> "open", name |-> call.name, fd |-> call.fd]
      BY <1>1, <2>5
    <3> QED
      BY <1>1, <1>2, <2>1, <2>5, <3>1, Zenon DEF OpenWalk
  <2>6. ASSUME i = Len(Directory), Return(end)
        PROVE  OpensNamed' /\ ListsRoot' /\ ReadsContent'
    <3>1. result'.of = "open" /\ result'.fd = -1 /\ result'.name = call.name
      BY <2>2, <2>6, Zenon DEF Return
    <3>2. \A f \in DOMAIN Files : Files[f].part < i + 1
      BY <1>2, <2>6, FilesFrom
    <3>3. {k \in DOMAIN Files' : Files'[k].name = result'.name} = {}
      BY <1>2, <2>1, <3>1, <3>2, Zenon
    <3> QED
      BY <3>1, <3>3, Zenon DEF OpensNamed, ListsRoot, ReadsContent
  <2> QED
    BY <1>2, <1>3, <2>3, <2>4, <2>5, <2>6, WalksOn, Zenon
<1>4. ASSUME NEW k \in named,
             fat32_files' = [fat32_files EXCEPT ![call.fd] = Opened(call.name, E[k])],
             Return([of |-> "open", name |-> call.name, fd |-> call.fd, sure |-> TRUE])
      PROVE  CallInv'
  <2>1. PICK f \in DOMAIN Files : Files[f].part = i /\ Files[f].entry = k
    BY <1>2, EntryFile, Zenon
  <2>2. /\ E[k].name = Files[f].name /\ E[k].name = call.name
        /\ E[k].first = First(Files[f]) /\ E[k].size = Len(Files[f].bytes)
    BY <1>2, <2>1, FileEntry, Zenon
  <2>3. Len(Files[f].bytes) \in Nat
    BY <1>2, FilesAre
  <2> HIDE DEF E, named
  <2> DEFINE o == Opened(call.name, E[k])
  <2>4. o = [open |-> TRUE, name |-> Files[f].name, first |-> First(Files[f]),
             size |-> Len(Files[f].bytes), position |-> 0]
    BY <2>2, Zenon DEF Opened
  <2> HIDE DEF o
  <2>5. IsHandle(o) /\ OnFile(o, f)
    BY <2>3, <2>4 DEF IsHandle, OnFile
  <2>6. fat32_files' = [fat32_files EXCEPT ![call.fd] = o]
    BY <1>4, Zenon DEF o
  <2>7. FileInv' /\ fat32_files'[call.fd] = o
    BY <1>1, <1>2, <2>5, <2>6, FileChanges, Zenon
  <2>8. result' = [of |-> "open", name |-> call.name, fd |-> call.fd, sure |-> TRUE]
    BY <1>4, Zenon DEF Return
  <2>9. call.fd # -1
    BY <1>1 DEF Handles
  <2>10. OpensNamed'
    <3>1. fat32_files'[result'.fd] = o /\ result'.fd # -1
      BY <2>7, <2>8, <2>9, Zenon
    <3>2. f \in {g \in DOMAIN Files' : Files'[g].name = result'.name}
      BY <1>2, <2>2, <2>8, Zenon
    <3>3. o.size = Len(Files'[f].bytes) /\ o.first = First(Files'[f])
      BY <1>2, <2>4, Zenon
    <3> QED
      BY <3>1, <3>2, <3>3, Zenon DEF OpensNamed
  <2>11. ListsRoot' /\ ReadsContent'
    BY <2>8, Zenon DEF ListsRoot, ReadsContent
  <2> QED
    BY <1>4, <2>7, <2>10, <2>11, Answers, Zenon
<1> QED
  BY <1>3, <1>4, Zenon DEF Find

\* fat32_enumerate_root reports what is in a cluster.
LEMMA Lists ==
  ASSUME Still, CallInv, result = NO_RESULT,
         NEW i \in DOMAIN Directory, call.cluster = Directory[i], ListWalk(i), List(EntriesIn(i))
  PROVE  CallInv'
<1>1. /\ call = [at |-> "walk", cluster |-> call.cluster, of |-> "list", names |-> call.names]
      /\ UNCHANGED fat32_files
  BY Zenon DEF ListWalk, List
<1>2. PICK n : Passed(n, i) /\ call.names = Reports(n)
  BY Zenon DEF ListWalk
<1>3. IsVolume /\ FileInv /\ Files' = Files /\ i \in Nat /\ Len(Directory) \in Nat
  BY StillIs, DirectoryIs DEF Still, CallInv
<1>4. PICK m : Passed(m, i + 1) /\ Reports(n) \o Listed(EntriesIn(i)) = Reports(m)
  BY <1>2, <1>3, ListedIs, Zenon
<1>5. /\ m \in Nat /\ m <= MaxNames /\ MaxNames \in Nat
      /\ Len(Files) \in Nat /\ DOMAIN Files = 1 .. Len(Files) /\ m \in 0 .. Len(Files)
  <2>1. /\ m \in 0 .. Len(Files) /\ Len(Files) <= MaxNames /\ MaxNames \in Nat
        /\ Len(Files) \in Nat /\ DOMAIN Files = 1 .. Len(Files)
    BY <1>3, <1>4, FilesAre, DiskAssumption, Zenon DEF Passed
  <2> QED
    BY <2>1
<1>6. FirstN(call.names \o Listed(EntriesIn(i)), MaxNames) = Reports(m)
  <2>1. Len(Reports(m)) = m
    BY <1>3, <1>5, ReportsTyped, Zenon
  <2>2. Len(Reports(m)) <= MaxNames
    BY <1>5, <2>1, Zenon
  <2> QED
    BY <1>2, <1>4, <2>2, Zenon DEF FirstN
<1>7. PICK names : names = Reports(m)
  BY Zenon
<1>8. PICK next, end : /\ next = [call EXCEPT !.names = names]
                       /\ end = [of |-> "list", ok |-> TRUE, names |-> names]
                       /\ WalkOn(EntriesIn(i), next, end)
  BY <1>6, <1>7, Zenon DEF List
<1>9. next = [at |-> "walk", cluster |-> call.cluster, of |-> "list", names |-> names]
  BY <1>1, <1>8
<1>10. ASSUME NEW c, c = [next EXCEPT !.cluster = Directory[i + 1]], call' = c
       PROVE  ListWalk(i + 1)'
  <2>1. call' = [at |-> "walk", cluster |-> Directory[i + 1], of |-> "list", names |-> names]
    BY <1>9, <1>10, Zenon
  <2>2. Passed(m, i + 1)'
    BY <1>3, <1>4, Zenon DEF Passed
  <2>3. names = Reports(m)'
    BY <1>3, <1>7, Zenon DEF Reports
  <2> QED
    BY <2>1, <2>2, <2>3, Zenon DEF ListWalk
<1>11. ASSUME i = Len(Directory), Return(end)
       PROVE  OpensNamed' /\ ListsRoot' /\ ReadsContent'
  <2>1. \A f \in DOMAIN Files : Files[f].part < i + 1
    BY <1>3, <1>11, FilesFrom
  <2>2. m = Len(Files)
    <3>1. \A f \in DOMAIN Files : f <= m
      BY <1>4, <2>1, Zenon DEF Passed
    <3>2. PICK l : l = Len(Files)
      BY Zenon
    <3>3. l \in Nat /\ m \in 0 .. l /\ (l # 0 => l \in DOMAIN Files)
      BY <1>5, <3>2
    <3>4. l # 0 => l <= m
      BY <3>1, <3>3, Zenon
    <3>5. m = l
      BY <3>3, <3>4
    <3> QED
      BY <3>2, <3>5, Zenon
  <2>3. result'.of = "list" /\ result'.names = names
    BY <1>8, <1>11, Zenon DEF Return
  <2>4. \A k \in DOMAIN Files : names[k] = Report(Files[k])
    BY <1>5, <1>7, <2>2, Zenon DEF Reports
  <2>5. \A k \in DOMAIN Files : NormalizeName(ExtractName(Files[k].name)) = Files[k].name
    <3> SUFFICES ASSUME NEW k \in DOMAIN Files
                 PROVE  NormalizeName(ExtractName(Files[k].name)) = Files[k].name
      BY Zenon
    <3>1. Files[k].name \in Seq(STRING)
      BY <1>3, FilesAre, Zenon
    <3>2. IsShortName(Files[k].name)
      BY <1>3, Zenon DEF IsVolume, ContentStored
    <3> QED
      BY <3>1, <3>2, NameBack, Zenon
  <2>6. Len(names) = Len(Files)
    BY <1>3, <1>5, <1>7, <2>2, ReportsTyped, Zenon
  <2>7. \A k \in DOMAIN Files : /\ NormalizeName(names[k].name) = Files[k].name
                               /\ names[k].size = Len(Files[k].bytes)
    <3> SUFFICES ASSUME NEW k \in DOMAIN Files
                 PROVE  NormalizeName(names[k].name) = Files[k].name /\ names[k].size = Len(Files[k].bytes)
      BY Zenon
    <3>1. names[k] = Report(Files[k])
      BY <2>4, Zenon
    <3>2. names[k].name = ExtractName(Files[k].name) /\ names[k].size = Len(Files[k].bytes)
      BY <3>1 DEF Report
    <3> QED
      BY <2>5, <3>2, Zenon
  <2>8. ListsRoot'
    BY <1>3, <2>3, <2>6, <2>7, Zenon DEF ListsRoot
  <2> QED
    BY <2>3, <2>8, Zenon DEF OpensNamed, ReadsContent
<1>12. next.at = "walk" /\ "at" \in DOMAIN next /\ "cluster" \in DOMAIN next
  BY <1>9, Zenon
<1> QED
  BY <1>1, <1>3, <1>8, <1>10, <1>11, <1>12, WalksOn, Zenon

LEMMA WalkGives ==
  ASSUME Still, CallInv, PlaceInv, NEW rest_, Walk(rest_)
  PROVE  CallInv'
<1>1. call.at = "walk" /\ Read /\ result = NO_RESULT
  BY Zenon DEF Walk, Ready, PlaceInv
<1>2. PICK i \in DOMAIN Directory :
        /\ call.cluster = Directory[i] /\ ReadsFrom(call.cluster)
        /\ OpenWalk(i) \/ ListWalk(i)
  BY <1>1, Zenon DEF CallInv, WalkInv
<1>3. ClusterBuffer(rest_) = EntriesIn(i)
  BY <1>1, <1>2, BufferIs, Zenon DEF Still, EntriesIn
<1>4. Find(EntriesIn(i)) \/ List(EntriesIn(i))
  BY <1>3, Zenon DEF Walk
<1>5. CASE Find(EntriesIn(i))
  <2>1. OpenWalk(i)
    BY <1>2, <1>5, Zenon DEF Find, ListWalk
  <2> QED
    BY <1>1, <1>2, <1>5, <2>1, Finds, Zenon
<1>6. CASE List(EntriesIn(i))
  <2>1. ListWalk(i)
    BY <1>2, <1>6, Zenon DEF List, OpenWalk
  <2> QED
    BY <1>1, <1>2, <1>6, <2>1, Lists, Zenon
<1> QED
  BY <1>4, <1>5, <1>6, Zenon

-------------------------------------------------------------------------------
(*****************************************************************************)
(* Reading a file: its bytes are those of its clusters one after the other.  *)
(*****************************************************************************)

\* Places in a file by clusters and places in them.
LEMMA DivMod ==
  ASSUME NEW a \in Nat, NEW s \in Nat \ {0}
  PROVE  /\ a \div s \in Nat /\ a % s \in 0 .. s - 1
         /\ a = (a \div s) * s + (a % s)
OBVIOUS

LEMMA Factor ==
  ASSUME NEW s \in Nat \ {0}, NEW p \in Nat, NEW q \in Nat, p < q
  PROVE  p * s + s <= q * s
<1>1. q - p - 1 \in Nat /\ (q - p - 1) * s >= 0
  OBVIOUS
<1>2. (q - p - 1) * s = q * s - p * s - s
  OBVIOUS
<1> QED
  BY <1>1, <1>2

LEMMA DivUnique ==
  ASSUME NEW s \in Nat \ {0}, NEW q \in Nat, NEW r \in 0 .. s - 1, NEW a, a = q * s + r
  PROVE  a \div s = q /\ a % s = r
<1>1. a \in Nat
  OBVIOUS
<1> DEFINE p == a \div s
           t == a % s
<1>2. p \in Nat /\ t \in 0 .. s - 1 /\ a = p * s + t
  BY <1>1, DivMod, Zenon
<1> HIDE DEF p, t
<1>3. ~(p < q)
  <2> SUFFICES ASSUME p < q PROVE FALSE
    BY Zenon
  <2>1. p * s + s <= q * s
    BY <1>2, Factor, Zenon
  <2> QED
    BY <1>2, <2>1
<1>4. ~(q < p)
  <2> SUFFICES ASSUME q < p PROVE FALSE
    BY Zenon
  <2>1. q * s + s <= p * s
    BY <1>2, Factor, Zenon
  <2> QED
    BY <1>2, <2>1
<1>5. p = q
  BY <1>2, <1>3, <1>4
<1> QED
  BY <1>2, <1>5 DEF p, t

\* A place that is before the end of l clusters is in one of them.
LEMMA DivBelow ==
  ASSUME NEW s \in Nat \ {0}, NEW a \in Nat, NEW l \in Nat, a < l * s
  PROVE  a \div s < l
<1> DEFINE p == a \div s
<1>1. p \in Nat /\ a % s \in Nat /\ a = p * s + (a % s)
  BY DivMod
<1> HIDE DEF p
<1> SUFFICES ASSUME ~(p < l) PROVE FALSE
  BY Zenon DEF p
<1>2. CASE l = p
  BY <1>1, <1>2
<1>3. CASE l < p
  <2>1. l * s + s <= p * s
    BY <1>1, <1>3, Factor, Zenon
  <2> QED
    BY <1>1, <2>1
<1> QED
  BY <1>1, <1>2, <1>3

\* fat32_read goes down the chain to the cluster that it starts in.
IsLink(f, c, n) == f = [i \in 0 .. n |-> IF i = 0 THEN {c} ELSE UNION {Follow(d) : d \in f[i - 1]}]

LEMMA SkipIs ==
  ASSUME IsVolume, NEW chain, IsChain(hw, Place, chain), NEW n \in Nat, n < Len(chain)
  PROVE  Skip(chain[1], n) = {chain[n + 1]}
<1> DEFINE g == [i \in 0 .. n |-> {chain[i + 1]}]
           c == chain[1]
<1>1. Len(chain) \in Nat /\ DOMAIN chain = 1 .. Len(chain)
  BY DEF IsChain
<1>2. ASSUME NEW i \in 0 .. n, i # 0
      PROVE  Follow(chain[i]) = {chain[i + 1]}
  <2>1. i \in DOMAIN chain /\ i < Len(chain)
    BY <1>1, <1>2
  <2> QED
    BY <2>1, ChainIs, Zenon
<1>3. IsLink(g, c, n)
  <2>1. \A i \in 0 .. n : g[i] = IF i = 0 THEN {c} ELSE UNION {Follow(d) : d \in g[i - 1]}
    <3> SUFFICES ASSUME NEW i \in 0 .. n
                 PROVE  g[i] = IF i = 0 THEN {c} ELSE UNION {Follow(d) : d \in g[i - 1]}
      BY Zenon
    <3>1. CASE i = 0
      BY <3>1
    <3>2. CASE i # 0
      <4>1. i - 1 \in 0 .. n /\ (i - 1) + 1 = i
        BY <3>2
      <4>2. g[i - 1] = {chain[i]} /\ g[i] = {chain[i + 1]}
        BY <4>1, Zenon
      <4>3. UNION {Follow(d) : d \in {chain[i]}} = {chain[i + 1]}
        BY <1>2, <3>2, Zenon
      <4> QED
        BY <3>2, <4>2, <4>3, Zenon
    <3> QED
      BY <3>1, <3>2, Zenon
  <2> QED
    BY <2>1, Zenon DEF IsLink
<1> DEFINE f == CHOOSE h : IsLink(h, c, n)
<1>4. IsLink(f, c, n)
  BY <1>3, Zenon
<1>5. Skip(c, n) = f[n]
  BY Zenon DEF Skip, IsLink
<1> HIDE DEF f, g
<1>6. \A i \in 0 .. n : f[i] = IF i = 0 THEN {c} ELSE UNION {Follow(d) : d \in f[i - 1]}
  BY <1>4, Zenon DEF IsLink
<1> DEFINE T == {i \in 0 .. n : f[i] = {chain[i + 1]}}
<1>7. 0 \in T
  <2>1. 0 \in 0 .. n /\ 0 + 1 = 1
    OBVIOUS
  <2> QED
    BY <1>6, <2>1, Zenon
<1>8. ASSUME NEW i \in 0 .. n - 1, i \in T PROVE i + 1 \in T
  <2>1. i + 1 \in 0 .. n /\ i + 1 # 0 /\ (i + 1) - 1 = i
    OBVIOUS
  <2>2. f[i + 1] = UNION {Follow(d) : d \in f[i]}
    BY <1>6, <2>1, Zenon
  <2>3. f[i] = {chain[i + 1]} /\ Follow(chain[i + 1]) = {chain[(i + 1) + 1]}
    BY <1>2, <1>8, <2>1, Zenon
  <2>4. f[i + 1] = {chain[(i + 1) + 1]}
    BY <2>2, <2>3, Zenon
  <2> QED
    BY <2>1, <2>4, Zenon
<1> HIDE DEF T
<1>9. n \in T
  <2>1. \A i \in 0 .. n : i \in T
    BY <1>7, <1>8, Upward, Zenon
  <2> QED
    BY <2>1
<1> QED
  BY <1>5, <1>9, Zenon DEF T

LEMMA SizeIs == ASSUME IsVolume PROVE ClusterSize \in Nat \ {0}
<1>1. ClusterSize = BUFFER_SECTORS * SECTOR_SIZE
  BY Zenon DEF ClusterSize, IsVolume
<1>2. BUFFER_SECTORS \in Nat \ {0} /\ SECTOR_SIZE \in Nat \ {0}
  BY DiskAssumption, Zenon
<1>3. \A a, b \in Nat \ {0} : a * b \in Nat \ {0}
  OBVIOUS
<1> QED
  BY <1>1, <1>2, <1>3, Zenon

\* What is stored of a file.
LEMMA ContentIs ==
  ASSUME IsVolume, NEW k \in DOMAIN Files
  PROVE  /\ Files[k].bytes \in Seq(0 .. 255) /\ Len(Files[k].bytes) \in Nat
         /\ IsChain(hw, Place, Files[k].clusters) /\ Len(Files[k].clusters) \in Nat
         /\ Len(Files[k].bytes) <= Len(Files[k].clusters) * ClusterSize
         /\ \A j \in 0 .. Len(Files[k].bytes) - 1 :
              Files[k].bytes[j + 1]
                = BytesOf(hw, Place, Files[k].clusters[j \div ClusterSize + 1])[(j % ClusterSize) + 1]
<1>1. Files[k].bytes \in Seq(0 .. 255) /\ Files[k].clusters \in Seq(Nat)
  BY FilesAre, Zenon
<1>2. ContentStored(hw, Place, Files[k]) /\ BootSector(hw, Place).spc * SECTOR_SIZE = ClusterSize
  BY Zenon DEF IsVolume, ClusterSize
<1> HIDE DEF ClusterSize
<1> QED
  BY <1>1, <1>2 DEF ContentStored

\* Where a place in a file is.
LEMMA InCluster ==
  ASSUME IsVolume, NEW k \in DOMAIN Files, NEW a \in Nat, a < Len(Files[k].bytes)
  PROVE  LET q == a \div ClusterSize
         IN  /\ q \in Nat /\ q < Len(Files[k].clusters) /\ q + 1 \in DOMAIN Files[k].clusters
             /\ IsCluster(Files[k].clusters[q + 1])
             /\ Skip(First(Files[k]), q) = {Files[k].clusters[q + 1]}
<1>1. PICK q : q = a \div ClusterSize
  BY Zenon
<1>2. PICK chain, s : chain = Files[k].clusters /\ s = ClusterSize
  BY Zenon
<1>3. /\ s \in Nat \ {0} /\ IsChain(hw, Place, chain) /\ Len(chain) \in Nat
      /\ Len(Files[k].bytes) \in Nat /\ Len(Files[k].bytes) <= Len(chain) * s
  BY <1>2, SizeIs, ContentIs, Zenon
<1>4. Len(chain) * s \in Nat /\ a < Len(chain) * s
  BY <1>3
<1>5. q \in Nat /\ q < Len(chain)
  BY <1>1, <1>2, <1>3, <1>4, DivMod, DivBelow, Zenon
<1>6. q + 1 \in DOMAIN chain
  BY <1>3, <1>5 DEF IsChain
<1>7. IsCluster(chain[q + 1])
  BY <1>3, <1>6, ChainIs, Zenon
<1>8. Skip(chain[1], q) = {chain[q + 1]}
  BY <1>3, <1>5, SkipIs, Zenon
<1>9. First(Files[k]) = chain[1]
  <2>1. chain # << >>
    BY <1>3, <1>5
  <2> QED
    BY <1>2, <2>1, Zenon DEF First
<1> QED
  BY <1>1, <1>2, <1>5, <1>6, <1>7, <1>8, <1>9, Zenon

\* What is copied from a cluster is that part of the file.
LEMMA Copies ==
  ASSUME IsVolume, NEW k \in DOMAIN Files, NEW a \in Nat, NEW n \in Nat,
         a + n <= Len(Files[k].bytes), (a % ClusterSize) + n <= ClusterSize
  PROVE  LET start == a % ClusterSize
             buffer == BytesOf(hw, Place, Files[k].clusters[a \div ClusterSize + 1])
         IN  SubSeq(buffer, start + 1, start + n) = SubSeq(Files[k].bytes, a + 1, a + n)
<1>1. PICK bytes, s, q, start, buffer :
        /\ bytes = Files[k].bytes /\ s = ClusterSize /\ q = a \div s /\ start = a % s
        /\ buffer = BytesOf(hw, Place, Files[k].clusters[q + 1])
  BY Zenon
<1>2. s \in Nat \ {0} /\ start \in 0 .. s - 1 /\ q \in Nat /\ a = q * s + start /\ start + n <= s
  BY <1>1, SizeIs, DivMod, Zenon
<1>3. buffer \in Seq(0 .. 255) /\ Len(buffer) = s
  BY <1>1, BytesTyped, Zenon DEF IsVolume, hw, ClusterSize
<1>4. bytes \in Seq(0 .. 255) /\ Len(bytes) \in Nat /\ a + n <= Len(bytes)
  BY <1>1, ContentIs, Zenon
<1>5. ASSUME NEW x \in 1 .. n
      PROVE  buffer[start + x] = bytes[a + x]
  <2>1. PICK j, r : j = a + x - 1 /\ r = start + x - 1
    BY Zenon
  <2>2. j \in 0 .. Len(bytes) - 1 /\ r \in 0 .. s - 1 /\ j = q * s + r
    <3>1. q * s \in Nat
      BY <1>2
    <3> QED
      BY <1>2, <1>4, <2>1, <3>1
  <2>3. j \div s = q /\ j % s = r
    BY <1>2, <2>2, DivUnique, Zenon
  <2>4. bytes[j + 1] = BytesOf(hw, Place, Files[k].clusters[j \div s + 1])[(j % s) + 1]
    BY <1>1, <2>2, ContentIs, Zenon
  <2>5. bytes[j + 1] = buffer[r + 1]
    BY <1>1, <2>3, <2>4, Zenon
  <2>6. j + 1 = a + x /\ r + 1 = start + x
    BY <1>2, <2>1
  <2> QED
    BY <2>5, <2>6, Zenon
<1>6. start \in Nat /\ start + n <= Len(buffer)
  BY <1>2, <1>3
<1>7. SubSeq(buffer, start + 1, start + n) = Prefix(buffer, start, n)
  BY <1>3, <1>6, SubSeqIs, Zenon
<1>8. SubSeq(bytes, a + 1, a + n) = Prefix(bytes, a, n)
  BY <1>4, SubSeqIs, Zenon
<1>9. Prefix(buffer, start, n) = Prefix(bytes, a, n)
  BY <1>5, Zenon DEF Prefix
<1> QED
  BY <1>1, <1>7, <1>8, <1>9, Zenon

\* From one cluster to the next.
LEMMA NextCluster ==
  ASSUME IsVolume, NEW k \in DOMAIN Files, NEW a \in Nat,
         a + (ClusterSize - (a % ClusterSize)) < Len(Files[k].bytes)
  PROVE  LET b == a + (ClusterSize - (a % ClusterSize))
         IN  /\ TurnsPage(b)
             /\ Follow(Files[k].clusters[a \div ClusterSize + 1]) = {Files[k].clusters[b \div ClusterSize + 1]}
<1>1. PICK chain, s, q, b :
        /\ chain = Files[k].clusters /\ s = ClusterSize /\ q = a \div s /\ b = a + (s - (a % s))
  BY Zenon
<1>2. s \in Nat \ {0} /\ a % s \in 0 .. s - 1 /\ q \in Nat /\ a = q * s + (a % s)
  BY <1>1, SizeIs, DivMod, Zenon
<1>3. b = (q + 1) * s + 0 /\ b \in Nat
  <2>1. (q + 1) * s = q * s + s /\ q * s \in Nat
    BY <1>2
  <2> QED
    BY <1>1, <1>2, <2>1
<1>4. b \div s = q + 1 /\ b % s = 0
  <2>1. PICK p, r : p = q + 1 /\ r = 0
    BY Zenon
  <2>2. p \in Nat /\ r \in 0 .. s - 1 /\ b = p * s + r
    BY <1>2, <1>3, <2>1
  <2>3. b \div s = p /\ b % s = r
    BY <1>2, <2>2, DivUnique, Zenon
  <2> QED
    BY <2>1, <2>3, Zenon
<1>5. q + 1 < Len(chain) /\ IsChain(hw, Place, chain) /\ Len(chain) \in Nat
  <2>1. b < Len(Files[k].bytes)
    BY <1>1, Zenon
  <2> QED
    BY <1>1, <1>3, <1>4, <2>1, InCluster, ContentIs, Zenon
<1>6. q + 1 \in DOMAIN chain
  BY <1>2, <1>5 DEF IsChain
<1>7. Follow(chain[q + 1]) = {chain[(q + 1) + 1]}
  BY <1>5, <1>6, ChainIs, Zenon
<1> QED
  BY <1>1, <1>4, <1>7, Zenon DEF TurnsPage

\* What fat32_read is to read in all is within the file.
LEMMA WantedIs ==
  ASSUME NEW size \in Nat, NEW from \in 0 .. size, NEW asked \in Nat
  PROVE  Wanted(from, asked, size) \in 0 .. size - from
BY DEF Wanted

\* Where fat32_read is: while it has bytes to read it is inside the file, and
\* afterwards it has read what it was to.
LEMMA ReadBounds ==
  ASSUME NEW size \in Nat, NEW offset \in 0 .. size, NEW from \in 0 .. offset, NEW asked \in Nat,
         NEW count \in Nat, offset + count = from + Wanted(from, asked, size)
  PROVE  /\ count # 0 => offset < size
         /\ count = 0 => offset - from = Wanted(from, asked, size)
BY DEF Wanted

LEMMA SliceLength ==
  ASSUME NEW S, NEW s \in Seq(S), NEW from \in Nat, NEW offset \in Nat, from <= offset, offset <= Len(s)
  PROVE  Len(SubSeq(s, from + 1, offset)) = offset - from
<1>1. PICK n \in Nat : n = offset - from
  OBVIOUS
<1>2. SubSeq(s, from + 1, from + n) = Prefix(s, from, n) /\ Len(Prefix(s, from, n)) = n
  BY <1>1, SubSeqIs, PrefixOf
<1> QED
  BY <1>1, <1>2

\* The test of the copying loop: another cluster is asked for, or all is read.
LEMMA ReadGoes ==
  ASSUME Still, FileInv', NEW k \in DOMAIN Files,
         NEW fd \in Handles, NEW offset, NEW from \in 0 .. offset, NEW asked \in Nat, NEW count \in Nat,
         NEW cluster, NEW bytes,
         ReadOn([at |-> "read", fd |-> fd, from |-> from, asked |-> asked, count |-> count,
                 cluster |-> cluster, offset |-> offset, bytes |-> bytes]),
         OnFile(fat32_files'[fd], k), offset = fat32_files'[fd].position,
         offset + count = from + Wanted(from, asked, Len(Files[k].bytes)),
         bytes = SubSeq(Files[k].bytes, from + 1, offset),
         count # 0 => cluster = Files[k].clusters[offset \div ClusterSize + 1]
  PROVE  CallInv'
<1>1. PICK file, size, content : file = fat32_files'[fd] /\ content = Files[k].bytes /\ size = Len(content)
  BY Zenon
<1>2. /\ IsVolume /\ Files' = Files /\ ClusterSize' = ClusterSize
      /\ content \in Seq(0 .. 255) /\ size \in Nat
  BY <1>1, StillIs, ContentIs, Zenon DEF Still
<1>3. /\ file.name = Files[k].name /\ file.first = First(Files[k]) /\ file.size = size
      /\ file.position = offset /\ offset \in 0 .. size /\ from \in 0 .. size
  BY <1>1, <1>2 DEF OnFile
<1>4. offset + count = from + Wanted(from, asked, size) /\ bytes = SubSeq(content, from + 1, offset)
  BY <1>1, Zenon
<1>5. CASE count # 0
  <2>1. PICK c : c = [at |-> "read", fd |-> fd, from |-> from, asked |-> asked, count |-> count,
                      cluster |-> cluster, offset |-> offset, bytes |-> bytes]
    BY Zenon
  <2>2. offset \in Nat /\ offset < size
    <3>1. offset \in 0 .. size /\ from \in 0 .. offset
      BY <1>3, Zenon
    <3>2. count # 0 => offset < size
      BY <1>2, <1>4, <3>1, ReadBounds, Zenon
    <3> QED
      BY <1>2, <1>5, <3>1, <3>2
  <2>3. IsCluster(cluster)
    BY <1>1, <1>2, <1>5, <2>2, InCluster, Zenon
  <2>4. ReadCluster(c) /\ result' = NO_RESULT
    BY <1>5, <2>1, <2>3 DEF ReadOn
  <2>5. call' = c /\ ReadsFrom(c.cluster)'
    BY <1>2, <2>1, <2>3, <2>4, ClusterAsked, StillIs, Zenon DEF Still
  <2>6. ReadsFrom(call.cluster)'
    BY <2>5, Zenon
  <2>7. Reading(fat32_files[call.fd], k)'
    <3>1. OnFile(fat32_files[call.fd], k)'
      BY <1>2, <2>1, <2>5, Zenon DEF OnFile
    <3>2. /\ call'.fd = fd /\ call'.from = from /\ call'.asked = asked /\ call'.count = count
          /\ call'.cluster = cluster /\ call'.offset = offset /\ call'.bytes = bytes
      BY <2>1, <2>5, Zenon
    <3>3. fat32_files'[fd].size = size
      BY <1>1, <1>3, Zenon
    <3> QED
      BY <1>1, <1>2, <1>3, <1>4, <1>5, <2>6, <3>1, <3>2, <3>3, Zenon DEF Reading
  <2>8. ReadInv'
    BY <1>2, <2>1, <2>5, <2>7, Zenon DEF ReadInv
  <2>9. WalkInv'
    BY <2>1, <2>5, Zenon DEF WalkInv
  <2>10. OpensNamed' /\ ListsRoot' /\ ReadsContent'
    BY <2>4, NoAnswer, Zenon DEF NO_RESULT
  <2> QED
    BY <2>8, <2>9, <2>10, Zenon DEF CallInv
<1>6. CASE count = 0
  <2>1. PICK n : n = Len(bytes)
    BY Zenon
  <2>2. n = offset - from /\ n = Wanted(from, asked, size)
    <3>1. offset \in 0 .. size /\ from \in 0 .. offset
      BY <1>3
    <3>2. count = 0 => offset - from = Wanted(from, asked, size)
      BY <1>2, <1>4, <3>1, ReadBounds, Zenon
    <3>3. from \in Nat /\ offset \in Nat /\ from <= offset /\ offset <= Len(content)
      BY <1>1, <1>2, <3>1
    <3>4. Len(SubSeq(content, from + 1, offset)) = offset - from
      BY <1>2, <3>3, SliceLength, Zenon
    <3> QED
      BY <1>4, <1>6, <2>1, <3>2, <3>4, Zenon
  <2>3. offset = from + n
    BY <1>3, <2>2
  <2>4. PICK r : /\ r = [of |-> "read", fd |-> fd, from |-> from, asked |-> asked, n |-> n, bytes |-> bytes]
                 /\ Return(r)
    <3>1. PICK c : /\ c = [at |-> "read", fd |-> fd, from |-> from, asked |-> asked, count |-> count,
                           cluster |-> cluster, offset |-> offset, bytes |-> bytes]
                   /\ ReadOn(c) /\ ~(c.count > 0)
      BY <1>6
    <3>2. ReadReturns(c.fd, c.from, c.asked, Len(c.bytes), c.bytes)
      BY ONLY <3>1, Zenon DEF ReadOn
    <3>3. ReadReturns(fd, from, asked, n, bytes)
      BY <2>1, <3>1, <3>2, Zenon
    <3> QED
      BY <3>3, Zenon DEF ReadReturns
  <2>5. result' = r
    BY <2>4, Zenon DEF Return
  <2>6. OpensNamed' /\ ListsRoot'
    BY <2>4, <2>5, Zenon DEF OpensNamed, ListsRoot
  <2>7. ReadsContent'
    <3>1. fat32_files'[result'.fd] = file
      BY <1>1, <2>4, <2>5, Zenon
    <3>2. result'.n = IF result'.asked > file.size - result'.from THEN file.size - result'.from ELSE result'.asked
      BY <1>3, <2>2, <2>4, <2>5, Zenon DEF Wanted
    <3>3. result'.bytes = SubSeq(Files'[k].bytes, result'.from + 1, result'.from + result'.n)
      BY <1>1, <1>2, <2>3, <2>4, <2>5, Zenon
    <3>4. file.position = result'.from + result'.n
      BY <1>3, <2>3, <2>4, <2>5, Zenon
    <3> QED
      BY <1>2, <1>3, <3>1, <3>2, <3>3, <3>4, Zenon DEF ReadsContent
  <2> QED
    BY <2>4, <2>6, <2>7, Answers, Zenon
<1> QED
  BY <1>5, <1>6, Zenon

LEMMA ReadBegins ==
  ASSUME Still, CallInv, NEW fd \in Handles, NEW size \in Sizes, ReadBegin(fd, size)
  PROVE  CallInv'
<1>1. PICK file : file = fat32_files[fd] /\ file = fat32_files'[fd]
  BY Zenon DEF ReadBegin
<1>2. FileInv' /\ IsVolume /\ Files' = Files /\ size \in Nat
  BY FilesKept, StillIs, DiskAssumption, Zenon DEF Still, CallInv, ReadBegin
<1>3. CASE ~file.open
  <2>1. ReadReturns(fd, file.position, size, -1, << >>)
    BY <1>1, <1>3, Zenon DEF ReadBegin
  <2>2. result'.of = "read" /\ result'.n = -1 /\ \E r : Return(r)
    BY <2>1, Zenon DEF ReadReturns, Return
  <2>3. OpensNamed' /\ ListsRoot' /\ ReadsContent'
    BY <2>2 DEF OpensNamed, ListsRoot, ReadsContent
  <2> QED
    BY <1>2, <2>2, <2>3, Answers, Zenon
<1>4. CASE file.open
  <2>1. PICK k : OnFile(file, k)
    BY <1>1, <1>4, Zenon DEF CallInv, FileInv
  <2>2. /\ k \in DOMAIN Files /\ file.name = Files[k].name /\ file.first = First(Files[k])
        /\ file.size = Len(Files[k].bytes) /\ file.size \in Nat /\ file.position \in 0 .. file.size
        /\ Files[k].bytes \in Seq(0 .. 255)
    BY <1>2, <2>1, ContentIs, Zenon DEF OnFile
  <2>3. PICK left : left = file.size - file.position
    BY Zenon
  <2>4. CASE left <= 0
    <3>1. ReadReturns(fd, file.position, size, 0, << >>)
      BY <1>1, <1>4, <2>3, <2>4, Zenon DEF ReadBegin
    <3>2. PICK r : /\ r = [of |-> "read", fd |-> fd, from |-> file.position, asked |-> size, n |-> 0, bytes |-> << >>]
                   /\ Return(r) /\ result' = r
      BY <3>1, Zenon DEF ReadReturns, Return
    <3>3. left = 0
      BY <2>2, <2>3, <2>4
    <3>4. 0 = IF size > left THEN left ELSE size
      BY <1>2, <3>3
    <3>5. << >> = SubSeq(Files[k].bytes, file.position + 1, file.position + 0)
      BY <2>2, SubSeqEmpty
    <3>6. file.position = file.position + 0
      BY <2>2
    <3>7. ReadsContent'
      BY <1>1, <1>2, <2>2, <2>3, <3>2, <3>4, <3>5, <3>6, ZenonT(30) DEF ReadsContent
    <3>8. OpensNamed' /\ ListsRoot'
      BY <3>2, Zenon DEF OpensNamed, ListsRoot
    <3> QED
      BY <1>2, <3>2, <3>7, <3>8, Answers, Zenon
  <2>5. CASE ~(left <= 0)
    <3>1. fat32_fs.spc # 0
      BY <1>2, DiskAssumption, Zenon DEF IsVolume
    <3>2. PICK a, q : a = file.position /\ q = a \div ClusterSize
      BY Zenon
    <3>3. a \in Nat /\ a < Len(Files[k].bytes)
      BY <2>2, <2>3, <2>5, <3>2
    <3>4. Skip(file.first, q) = {Files[k].clusters[q + 1]}
      BY <1>2, <2>2, <3>2, <3>3, InCluster, Zenon
    <3>5. PICK count : count = IF size > left THEN left ELSE size
      BY Zenon
    <3>6. ReadOn([at |-> "read", fd |-> fd, from |-> a, asked |-> size, count |-> count,
                  cluster |-> Files[k].clusters[q + 1], offset |-> a, bytes |-> << >>])
      BY <1>1, <1>4, <2>3, <2>5, <3>1, <3>2, <3>4, <3>5, Zenon DEF ReadBegin
    <3>7. count \in Nat /\ a + count = a + Wanted(a, size, Len(Files[k].bytes))
      BY <1>2, <2>2, <2>3, <2>5, <3>2, <3>5 DEF Wanted
    <3>8. << >> = SubSeq(Files[k].bytes, a + 1, a)
      BY <3>3, SubSeqEmpty
    <3>9. OnFile(fat32_files'[fd], k) /\ a = fat32_files'[fd].position /\ a \in 0 .. a
      BY <1>1, <2>1, <3>2, <3>3
    <3> QED
      BY <1>2, <2>2, <3>2, <3>6, <3>7, <3>8, <3>9, ReadGoes, Zenon
  <2> QED
    BY <2>4, <2>5, Zenon
<1> QED
  BY <1>3, <1>4, Zenon

LEMMA ReadStops ==
  ASSUME Still, CallInv, ReadFails
  PROVE  CallInv'
<1>1. FileInv'
  BY FilesKept, Zenon DEF ReadFails, CallInv
<1>2. ReadReturns(call.fd, call.from, call.asked, -1, << >>)
  BY Zenon DEF ReadFails
<1>3. result'.of = "read" /\ result'.n = -1 /\ \E r : Return(r)
  BY <1>2, Zenon DEF ReadReturns, Return
<1>4. OpensNamed' /\ ListsRoot' /\ ReadsContent'
  BY <1>3 DEF OpensNamed, ListsRoot, ReadsContent
<1> QED
  BY <1>1, <1>3, <1>4, Answers, Zenon

\* How far one turn goes: to the end of the cluster or of what is asked for.
LEMMA TurnBounds ==
  ASSUME NEW s \in Nat \ {0}, NEW start \in 0 .. s - 1, NEW count \in Nat \ {0}
  PROVE  LET n == IF s - start > count THEN count ELSE s - start
         IN  /\ n \in Nat /\ n <= count /\ start + n <= s /\ count - n \in Nat
             /\ count - n # 0 => n = s - start
OBVIOUS

\* The parts that two turns copied lie one behind the other in the file.
LEMMA PartsJoin ==
  ASSUME NEW S, NEW content \in Seq(S), NEW from \in Nat, NEW offset \in Nat, NEW n \in Nat,
         from <= offset, offset + n <= Len(content)
  PROVE  SubSeq(content, from + 1, offset) \o SubSeq(content, offset + 1, offset + n)
           = SubSeq(content, from + 1, offset + n)
<1>1. Len(content) \in Nat
  OBVIOUS
<1>2. /\ from + 1 \in 1 .. Len(content) + 1 /\ offset \in (from + 1) - 1 .. Len(content)
      /\ offset + n \in offset .. Len(content)
  BY <1>1
<1> QED
  BY <1>2, ConcatAdjacentSubSeq, Zenon

LEMMA ReadTurns ==
  ASSUME Still, CallInv, ReadCopies
  PROVE  CallInv'
<1>1. IsVolume /\ FileInv /\ ReadInv /\ call.at = "read" /\ Read
  BY StillIs, Zenon DEF Still, CallInv, ReadCopies, Ready
<1>2. PICK k : Reading(fat32_files[call.fd], k)
  BY <1>1, Zenon DEF ReadInv
<1>3. PICK fd, from, asked, count, cluster, offset, bytes :
        /\ fd = call.fd /\ from = call.from /\ asked = call.asked /\ count = call.count
        /\ cluster = call.cluster /\ offset = call.offset /\ bytes = call.bytes
  BY Zenon
<1>4. call = [at |-> "read", fd |-> fd, from |-> from, asked |-> asked, count |-> count,
              cluster |-> cluster, offset |-> offset, bytes |-> bytes]
  BY <1>1, <1>3, Zenon DEF ReadInv
<1>5. PICK file, content, size : file = fat32_files[fd] /\ content = Files[k].bytes /\ size = Len(content)
  BY Zenon
<1>6. fd \in Handles /\ asked \in Nat /\ IsHandle(file)
  BY <1>1, <1>3, <1>5, Zenon DEF ReadInv, FileInv
<1>7. OnFile(file, k) /\ k \in DOMAIN Files /\ file.size = size /\ file.position = offset
  BY <1>2, <1>3, <1>5, Zenon DEF Reading, OnFile
<1>8. content \in Seq(0 .. 255) /\ size \in Nat
  BY <1>1, <1>5, <1>7, ContentIs, Zenon
<1>9. offset \in 0 .. size
  BY <1>7, Zenon DEF OnFile
<1>10. from \in 0 .. offset /\ count \in Nat \ {0} /\ offset + count = from + Wanted(from, asked, size)
  BY <1>2, <1>3, <1>5, <1>7, Zenon DEF Reading
<1>11. bytes = SubSeq(content, from + 1, offset)
  BY <1>2, <1>3, <1>5, Zenon DEF Reading
<1>12. cluster = Files[k].clusters[offset \div ClusterSize + 1] /\ ReadsFrom(cluster)
  BY <1>2, <1>3, Zenon DEF Reading
<1>13. offset + count <= size
  <2>1. from \in 0 .. size
    BY <1>8, <1>9, <1>10
  <2>2. Wanted(from, asked, size) \in 0 .. size - from
    BY <1>6, <1>8, <2>1, WantedIs, Zenon
  <2> QED
    BY <1>8, <1>9, <1>10, <2>1, <2>2
<1>14. PICK s, start, n : /\ s = ClusterSize /\ start = offset % s
                          /\ n = IF s - start > count THEN count ELSE s - start
  BY Zenon
<1>15. s \in Nat \ {0} /\ start \in 0 .. s - 1
  <2>1. s \in Nat \ {0} /\ offset \in Nat
    BY <1>1, <1>8, <1>9, <1>14, SizeIs
  <2> QED
    BY <1>14, <2>1
<1>16. /\ n \in Nat /\ n <= count /\ start + n <= s /\ count - n \in Nat
       /\ count - n # 0 => n = s - start
  BY <1>10, <1>14, <1>15, TurnBounds, Zenon
<1>17. offset \in Nat /\ from \in Nat /\ offset + n <= size /\ offset + n \in Nat /\ from \in 0 .. offset + n
  BY <1>8, <1>9, <1>10, <1>13, <1>16
<1>18. PICK buffer, part :
         /\ buffer = FlattenSeq([i \in DOMAIN transfer.got |-> Sector(transfer.got[i]).bytes])
         /\ part = SubSeq(buffer, start + 1, start + n)
  BY Zenon
<1>19. part = SubSeq(content, offset + 1, offset + n)
  <2>1. buffer = BytesOf(hw, Place, cluster)
    BY <1>1, <1>12, <1>18, BytesIs, Zenon
  <2>2. offset + n <= Len(Files[k].bytes) /\ (offset % ClusterSize) + n <= ClusterSize
    BY <1>5, <1>14, <1>16, <1>17, Zenon
  <2>3. SubSeq(BytesOf(hw, Place, Files[k].clusters[offset \div ClusterSize + 1]),
               (offset % ClusterSize) + 1, (offset % ClusterSize) + n)
          = SubSeq(Files[k].bytes, offset + 1, offset + n)
    BY <1>1, <1>7, <1>16, <1>17, <2>2, Copies, Zenon
  <2> QED
    BY <1>5, <1>12, <1>14, <1>18, <2>1, <2>3, Zenon
<1>20. bytes \o part = SubSeq(Files[k].bytes, from + 1, offset + n)
  <2>1. from <= offset /\ offset + n <= Len(content)
    BY <1>5, <1>10, <1>17
  <2>2. SubSeq(content, from + 1, offset) \o SubSeq(content, offset + 1, offset + n)
          = SubSeq(content, from + 1, offset + n)
    BY <1>8, <1>16, <1>17, <2>1, PartsJoin
  <2> QED
    BY <1>5, <1>11, <1>19, <2>2, Zenon
<1>21. /\ fat32_files' = [fat32_files EXCEPT ![fd].position = @ + n]
       /\ \E next \in IF TurnsPage(offset + n) THEN Follow(cluster) ELSE {cluster} :
            ReadOn([call EXCEPT !.count = count - n, !.offset = offset + n, !.cluster = next,
                                !.bytes = bytes \o part])
  BY <1>3, <1>14, <1>18, Zenon DEF ReadCopies
<1>22. PICK next \in IF TurnsPage(offset + n) THEN Follow(cluster) ELSE {cluster} :
         ReadOn([call EXCEPT !.count = count - n, !.offset = offset + n, !.cluster = next,
                             !.bytes = bytes \o part])
  BY <1>21, Zenon
<1>23. ReadOn([at |-> "read", fd |-> fd, from |-> from, asked |-> asked, count |-> count - n,
               cluster |-> next, offset |-> offset + n, bytes |-> bytes \o part])
  <2>1. [call EXCEPT !.count = count - n, !.offset = offset + n, !.cluster = next, !.bytes = bytes \o part]
          = [at |-> "read", fd |-> fd, from |-> from, asked |-> asked, count |-> count - n,
             cluster |-> next, offset |-> offset + n, bytes |-> bytes \o part]
    <3>1. PICK r, c, o, b : r = call /\ c = count - n /\ o = offset + n /\ b = bytes \o part
      BY Zenon
    <3>2. r = [at |-> "read", fd |-> fd, from |-> from, asked |-> asked, count |-> count,
               cluster |-> cluster, offset |-> offset, bytes |-> bytes]
      BY <1>4, <3>1, Zenon
    <3>3. [r EXCEPT !.count = c, !.offset = o, !.cluster = next, !.bytes = b]
            = [at |-> "read", fd |-> fd, from |-> from, asked |-> asked, count |-> c,
               cluster |-> next, offset |-> o, bytes |-> b]
      <4>1. PICK r1 : r1 = [r EXCEPT !.count = c]
        BY Zenon
      <4>2. PICK r2 : r2 = [r1 EXCEPT !.offset = o]
        BY Zenon
      <4>3. PICK r3 : r3 = [r2 EXCEPT !.cluster = next]
        BY Zenon
      <4>4. [r EXCEPT !.count = c, !.offset = o, !.cluster = next, !.bytes = b] = [r3 EXCEPT !.bytes = b]
        BY ONLY <4>1, <4>2, <4>3, Zenon
      <4>5. r1 = [at |-> "read", fd |-> fd, from |-> from, asked |-> asked, count |-> c,
                  cluster |-> cluster, offset |-> offset, bytes |-> bytes]
        BY <3>2, <4>1, Zenon
      <4>6. r2 = [at |-> "read", fd |-> fd, from |-> from, asked |-> asked, count |-> c,
                  cluster |-> cluster, offset |-> o, bytes |-> bytes]
        BY ONLY <4>2, <4>5, Zenon
      <4>7. r3 = [at |-> "read", fd |-> fd, from |-> from, asked |-> asked, count |-> c,
                  cluster |-> next, offset |-> o, bytes |-> bytes]
        BY ONLY <4>3, <4>6, Zenon
      <4>8. [r3 EXCEPT !.bytes = b] = [at |-> "read", fd |-> fd, from |-> from, asked |-> asked, count |-> c,
                  cluster |-> next, offset |-> o, bytes |-> b]
        BY ONLY <4>7
      <4> QED
        BY ONLY <4>4, <4>8, Zenon
    <3> QED
      BY ONLY <3>1, <3>3, Zenon
  <2> QED
    BY <1>22, <2>1, Zenon
<1>24. PICK moved : moved = [file EXCEPT !.position = offset + n]
  BY Zenon
<1>25. /\ IsHandle(moved) /\ moved.position = offset + n /\ moved.size = file.size
       /\ moved.name = file.name /\ moved.first = file.first
  BY <1>6, <1>24, Zenon DEF IsHandle
<1>26. OnFile(moved, k)
  BY <1>5, <1>7, <1>17, <1>25 DEF OnFile
<1>27. fat32_files' = [fat32_files EXCEPT ![fd] = moved]
  BY <1>5, <1>7, <1>21, <1>24, Zenon
<1>28. FileInv' /\ fat32_files'[fd] = moved
  BY <1>1, <1>6, <1>25, <1>26, <1>27, FileChanges, Zenon
<1>29. (offset + n) + (count - n) = from + Wanted(from, asked, Len(Files[k].bytes))
  BY <1>5, <1>10, <1>16, <1>17
<1>30. count - n # 0 => next = Files[k].clusters[(offset + n) \div ClusterSize + 1]
  <2> SUFFICES ASSUME count - n # 0
               PROVE  next = Files[k].clusters[(offset + n) \div ClusterSize + 1]
    BY Zenon
  <2>1. n = s - start /\ offset + n < size
    BY <1>8, <1>10, <1>13, <1>16, <1>17
  <2>2. offset + n = offset + (ClusterSize - (offset % ClusterSize)) /\ offset + n < Len(Files[k].bytes)
    BY <1>5, <1>14, <2>1, Zenon
  <2>3. TurnsPage(offset + n) /\ Follow(cluster) = {Files[k].clusters[(offset + n) \div ClusterSize + 1]}
    BY <1>1, <1>7, <1>12, <1>17, <2>2, NextCluster, Zenon
  <2> QED
    BY <1>22, <2>3, Zenon
<1>31. OnFile(fat32_files'[fd], k) /\ offset + n = fat32_files'[fd].position
  BY <1>25, <1>26, <1>28, Zenon
<1>32. PICK o, c, b : o = offset + n /\ c = count - n /\ b = bytes \o part
  BY Zenon
<1>33. /\ from \in 0 .. o /\ c \in Nat /\ o + c = from + Wanted(from, asked, Len(Files[k].bytes))
       /\ b = SubSeq(Files[k].bytes, from + 1, o)
  BY <1>16, <1>17, <1>20, <1>29, <1>32, Zenon
<1>34. ReadOn([at |-> "read", fd |-> fd, from |-> from, asked |-> asked, count |-> c,
               cluster |-> next, offset |-> o, bytes |-> b])
  BY <1>23, <1>32, Zenon
<1>35. /\ OnFile(fat32_files'[fd], k) /\ o = fat32_files'[fd].position
       /\ c # 0 => next = Files[k].clusters[o \div ClusterSize + 1]
  BY <1>30, <1>31, <1>32, Zenon
<1> QED
  BY <1>6, <1>7, <1>28, <1>33, <1>34, <1>35, ReadGoes, Zenon

\* Every step keeps what DiskInv says.
LEMMA AnyStep ==
  ASSUME MountInv, PlaceInv, DiskInv, [Next]_vars
  PROVE  DiskInv'
<1>1. CASE Driver \/ Hba \/ Stopped \/ UNCHANGED vars
  BY <1>1, DiskMoves, Zenon DEF Stopped
<1>2. CASE Boot \/ MountLba0 \/ MountMbr \/ MountPartition \/ MountFat
  BY <1>2, Mounts, Zenon
<1>3. ASSUME UNCHANGED <<machine, fat32_fs, fat_table>>, Still => CallInv'
      PROVE  DiskInv'
  <2> SUFFICES ASSUME Sound' PROVE CallInv'
    BY Zenon DEF DiskInv
  <2>1. Sound
    BY <1>3, Zenon DEF Sound
  <2>2. Still
    BY <1>3, <2>1, SoundIs, Zenon DEF Still
  <2> QED
    BY <1>3, <2>2, Zenon
<1>4. ASSUME Still PROVE CallInv
  BY <1>4, Zenon DEF DiskInv, Still
<1>5. CASE WalkFails
  BY <1>3, <1>4, <1>5, WalkStops, Zenon DEF WalkFails, disk
<1>6. ASSUME NEW rest_ \in Rests, Walk(rest_) PROVE DiskInv'
  <2>1. UNCHANGED <<machine, fat32_fs, fat_table>>
    BY <1>6, Zenon DEF Walk, disk
  <2> QED
    BY <1>3, <1>4, <1>6, <2>1, WalkGives, Zenon
<1>7. CASE ReadCopies
  <2>1. UNCHANGED <<machine, fat32_fs, fat_table>>
    BY <1>7, Zenon DEF ReadCopies, disk
  <2> QED
    BY <1>3, <1>4, <1>7, <2>1, ReadTurns, Zenon
<1>8. CASE ReadFails
  BY <1>3, <1>4, <1>8, ReadStops, Zenon DEF ReadFails, disk
<1>9. ASSUME NEW name \in Names, Open(name) PROVE DiskInv'
  <2>1. UNCHANGED <<machine, fat32_fs, fat_table>>
    BY <1>9, Zenon DEF Open, disk
  <2> QED
    BY <1>3, <1>4, <1>9, <2>1, Opens, Zenon
<1>10. CASE EnumerateRoot
  BY <1>3, <1>4, <1>10, Enumerates, Zenon DEF EnumerateRoot, disk
<1>11. ASSUME NEW fd \in Handles, Close(fd) \/ Write(fd) PROVE DiskInv'
  <2>1. UNCHANGED <<machine, fat32_fs, fat_table>>
    BY <1>11, Zenon DEF Close, Write, disk, ahciVars
  <2> QED
    BY <1>3, <1>4, <1>11, <2>1, ClosesOrWrites, Zenon
<1>12. ASSUME NEW fd \in Handles, NEW size \in Sizes, ReadBegin(fd, size) PROVE DiskInv'
  <2>1. UNCHANGED <<machine, fat32_fs, fat_table>>
    BY <1>12, Zenon DEF ReadBegin, disk
  <2> QED
    BY <1>3, <1>4, <1>12, <2>1, ReadBegins, Zenon
<1> QED
  BY <1>1, <1>2, <1>5, <1>6, <1>7, <1>8, <1>9, <1>10, <1>11, <1>12, Zenon DEF Next, Step, Callers

LEMMA DiskAlways == Spec => [](PlaceInv /\ DiskInv)
<1>1. Init => PlaceInv /\ DiskInv
  <2>1. Init => PlaceInv
    BY DEF Init, PlaceInv
  <2>2. Init => ~Sound
    BY DEF Init, Sound
  <2> QED
    BY <2>1, <2>2, Zenon DEF DiskInv
<1>2. MountInv /\ PlaceInv /\ DiskInv /\ [Next]_vars => (PlaceInv /\ DiskInv)'
  <2> SUFFICES ASSUME MountInv, PlaceInv, DiskInv, [Next]_vars
               PROVE  PlaceInv' /\ DiskInv'
    BY Zenon
  <2> QED
    BY StepPlaces, AnyStep, Zenon
<1> QED
  BY <1>1, <1>2, MountAlways, PTL DEF Spec

\* On every disk laid out as Volumes has it, and whatever the controller does,
\* fat32_open gives a handle on the file of that name, and says that there is
\* none only when there is none.
THEOREM OpenCorrect == Spec => []OpensNamed
<1>1. DiskInv => OpensNamed
  BY Zenon DEF DiskInv, CallInv, OpensNamed
<1> QED
  BY <1>1, DiskAlways, PTL

\* What fat32_enumerate_root reports when it succeeds are the files, each once
\* and in order, by names under which fat32_open finds them.
THEOREM ListCorrect == Spec => []ListsRoot
<1>1. DiskInv => ListsRoot
  BY Zenon DEF DiskInv, CallInv, ListsRoot
<1> QED
  BY <1>1, DiskAlways, PTL

\* What fat32_read returns are the bytes of the file from the position, as many
\* as were asked for or are left, wherever clusters begin and end, whatever
\* failed before, and the position moves by as many.
THEOREM ReadCorrect == Spec => []ReadsContent
<1>1. DiskInv => ReadsContent
  BY Zenon DEF DiskInv, CallInv, ReadsContent
<1> QED
  BY <1>1, DiskAlways, PTL

===============================================================================
