----------------------------------- MODULE Fat32 -----------------------------------
(***************************************************************************)
(* The FAT32 driver (fat32.c) on the SATA driver: mounting, the open files *)
(* and the root directory.  Everything is read sector by sector through    *)
(* Ahci and may fail at each.  Nothing yields in between, so there is one  *)
(* call at a time; its local variables are in call.                        *)
(*                                                                         *)
(* A sector is a record of all that it may be taken for:                   *)
(*   bpb          [bytes_ok, spc, reserved, num_fats, fat_size, root]      *)
(*   partitions   the four entries [fat32, start] of a partition table     *)
(*   fat          entries of the table                                     *)
(*   entries      directory entries [kind, name, first, size]              *)
(*   bytes        SECTOR_SIZE bytes                                        *)
(***************************************************************************)
EXTENDS Ahci, Flatten

CONSTANTS
  FAT32_MAX_FILES,
  SECTOR_SIZE,        \* FAT32_SECTOR_SIZE
  BUFFER_SECTORS,     \* sectors in a cluster_buffer: FAT32_CLUSTER_SIZE / FAT32_SECTOR_SIZE
  ZEROS,              \* a sector of nothing but zeros
  FAT32_EOC,
  BASE, EXT,          \* characters of a name and of its extension
  Names,              \* what callers ask for
  Sizes,              \* how much callers read at a time
  MaxNames,           \* bound on the listed names that are remembered
  Rests               \* what may be left in a buffer behind a cluster: directory entries

SectorType ==
  [bpb        : [bytes_ok : BOOLEAN, spc : Nat, reserved : Nat, num_fats : Nat, fat_size : Nat, root : Nat],
   partitions : Seq([fat32 : BOOLEAN, start : Nat]),
   fat        : Seq(Nat),
   entries    : Seq([kind : STRING, name : Seq(STRING), first : Nat, size : Nat]),
   bytes      : [1 .. SECTOR_SIZE -> 0 .. 255]]

ASSUME DiskAssumption ==
  /\ FAT32_MAX_FILES \in Nat /\ SECTOR_SIZE \in Nat \ {0} /\ BUFFER_SECTORS \in Nat \ {0}
  /\ FAT32_EOC \in Nat /\ BASE \in Nat /\ EXT \in Nat
  /\ Sizes \subseteq Nat /\ MaxNames \in Nat
  /\ ZEROS \in SectorType
  /\ \A m \in DOMAIN Machines : \A lba \in DOMAIN Machines[m].image :
       Machines[m].image[lba] \in SectorType

VARIABLES
  fat32_fs,       \* [bpb, partition_lba, fat_offset, data_offset, spc, root, whole]
  fat_table,      \* NULL, or as much of the table as was read
  fat32_files,    \* per handle, with the name it was opened for
  call,           \* what the running call is at
  result          \* how the last call ended

fatVars == <<fat32_fs, fat_table, fat32_files, call, result>>
vars == <<ahciVars, fatVars>>

\* Behind its last sector a disk reads as zeros.
SectorOf(m, lba) == IF lba \in DOMAIN m.image THEN m.image[lba] ELSE ZEROS
Sector(lba) == SectorOf(hw, lba)

NULL == << "NULL" >>
Handles == 0 .. FAT32_MAX_FILES - 1
CLOSED == [open |-> FALSE, name |-> << >>, first |-> 0, size |-> 0, position |-> 0]
NO_BPB == [bytes_ok |-> FALSE, spc |-> 0, reserved |-> 0, num_fats |-> 0, fat_size |-> 0, root |-> 0]

IDLE == [at |-> "idle"]
NO_RESULT == [of |-> "nothing"]

Init ==
  /\ AhciInit
  /\ fat32_fs = [bpb |-> NO_BPB, partition_lba |-> 0, fat_offset |-> 0, data_offset |-> 0,
                 spc |-> 0, root |-> 0, whole |-> FALSE]
  /\ fat_table = NULL
  /\ fat32_files = [h \in Handles |-> CLOSED]
  /\ call = [at |-> "boot"] /\ result = NO_RESULT

Return(r) == call' = IDLE /\ result' = r

\* Where the call is, and that the sectors it waits for are there or have failed.
Ready(at) == call.at = at /\ transfer.status \in {"done", "failed"}
Read == transfer.status = "done"
disk == <<machine, ahci_hba, ahci_ports, port>>

-------------------------------------------------------------------------------
(***************************************************************************)
(* fat32_initialize                                                        *)
(***************************************************************************)

\* Called by kernel_main right after ahci_initialize.
Boot ==
  /\ call.at = "boot"
  /\ AhciInitialize
  /\ IF AhciReturns THEN ReadSectors(<<0>>) /\ call' = [at |-> "lba0"]
     ELSE call' = [at |-> "rebase"] /\ UNCHANGED transfer
  /\ UNCHANGED <<machine, fat32_fs, fat_table, fat32_files, result>>

\* fat32_read_boot_sector's test.
Valid(bpb) == bpb.bytes_ok /\ bpb.spc # 0 /\ bpb.fat_size # 0

\* Mutant: the copy of a boot sector that was refused is not looked at again.
AcceptableAlways(bpb) == bpb.fat_size # 0

\* What is asked of the last boot sector that was copied, whether it was
\* accepted or not.
Acceptable(bpb) == bpb.bytes_ok /\ bpb.fat_size # 0

Sectors(from, n) == [k \in 1 .. n |-> from + k - 1]

\* The end of fat32_initialize from the last test on, up to reading the table.
Mount(bpb, lba) ==
  IF ~Acceptable(bpb)
  THEN /\ fat32_fs' = [fat32_fs EXCEPT !.bpb = bpb, !.partition_lba = lba]
       /\ Return([of |-> "mount"]) /\ ReadDone /\ UNCHANGED fat_table
  ELSE /\ fat32_fs' = [bpb |-> bpb, partition_lba |-> lba, fat_offset |-> lba + bpb.reserved,
                       data_offset |-> lba + bpb.reserved + bpb.num_fats * bpb.fat_size,
                       spc |-> bpb.spc, root |-> bpb.root, whole |-> FALSE]
       /\ \/ /\ fat_table' = NULL     \* kmalloc fails
             /\ Return([of |-> "mount"]) /\ ReadDone
          \/ /\ fat_table' = << >>
             /\ ReadSectors(Sectors(lba + bpb.reserved, bpb.fat_size))
             /\ call' = [at |-> "fat"] /\ UNCHANGED result

\* The boot sector of the next FAT32 partition from the i-th on, or none is left.
TryPartitions(bpb, partitions, i) ==
  LET fat32 == {k \in i .. Len(partitions) : partitions[k].fat32}
  IN  \/ fat32 = {} /\ Mount(bpb, 0)
      \/ \E k \in fat32 :
           /\ \A j \in fat32 : k <= j
           /\ fat32_fs' = [fat32_fs EXCEPT !.bpb = bpb]
           /\ ReadSectors(<<partitions[k].start>>)
           /\ call' = [at |-> "partition", partitions |-> partitions, i |-> k]
           /\ UNCHANGED <<fat_table, result>>

\* fat32_read_boot_sector copies before it tests.
Copied == IF Read THEN Sector(transfer.got[1]).bpb ELSE fat32_fs.bpb

MountLba0 ==
  /\ Ready("lba0")
  /\ IF Read /\ Valid(Copied) THEN Mount(Copied, 0)
     ELSE /\ fat32_fs' = [fat32_fs EXCEPT !.bpb = Copied]
          /\ ReadSectors(<<0>>)
          /\ call' = [at |-> "mbr"]
          /\ UNCHANGED <<fat_table, result>>
  /\ UNCHANGED <<disk, fat32_files>>

MountMbr ==
  /\ Ready("mbr")
  /\ IF ~Read THEN Return([of |-> "mount"]) /\ ReadDone /\ UNCHANGED <<fat32_fs, fat_table>>
     ELSE TryPartitions(fat32_fs.bpb, Sector(transfer.got[1]).partitions, 1)
  /\ UNCHANGED <<disk, fat32_files>>

MountPartition ==
  /\ Ready("partition")
  /\ IF Read /\ Valid(Copied) THEN Mount(Copied, call.partitions[call.i].start)
     ELSE TryPartitions(Copied, call.partitions, call.i + 1)
  /\ UNCHANGED <<disk, fat32_files>>

\* The rest of fat32_load_fat.  The message after it divides by the sectors per
\* cluster, which is zero in a boot sector that was copied but refused.
MountFat ==
  /\ Ready("fat")
  /\ LET sectors == fat32_fs.bpb.fat_size - Len(transfer.todo)
     IN  fat_table' = FlattenSeq([k \in 1 .. sectors |-> Sector(transfer.got[k]).fat])
  /\ fat32_fs' = [fat32_fs EXCEPT !.whole = Read]
  /\ IF Read /\ fat32_fs.spc = 0 THEN call' = [at |-> "fault"] /\ UNCHANGED result
     ELSE Return([of |-> "mount"])
  /\ ReadDone
  /\ UNCHANGED <<disk, fat32_files>>

-------------------------------------------------------------------------------
(***************************************************************************)
(* The table and the clusters                                              *)
(***************************************************************************)

\* What fat32_get_fat_entry may give: where the table was not read, or ends,
\* whatever lies in memory.
FatEntries(cluster) ==
  IF fat_table = NULL THEN {FAT32_EOC}
  ELSE IF cluster < Len(fat_table) THEN {fat_table[cluster + 1]}
  ELSE {0, 2, FAT32_EOC}

\* fat32_follow_cluster_chain.
Follow(cluster) == {IF next >= FAT32_EOC THEN 0 ELSE next : next \in FatEntries(cluster)}

\* The clusters n links down the chain.
Skip(cluster, n) ==
  LET link[i \in 0 .. n] == IF i = 0 THEN {cluster} ELSE UNION {Follow(c) : c \in link[i - 1]}
  IN  link[n]

ClusterLba(cluster) == fat32_fs.data_offset + (cluster - 2) * fat32_fs.spc

IsCluster(cluster) == cluster >= 2 /\ cluster < FAT32_EOC

\* A cluster is read into a buffer of fixed size on the stack; one that is
\* larger overwrites the return address.
ReadCluster(next) ==
  IF fat32_fs.spc > BUFFER_SECTORS
  THEN call' = [at |-> "fault"] /\ ReadDone
  ELSE call' = next /\ ReadSectors(Sectors(ClusterLba(next.cluster), fat32_fs.spc))

-------------------------------------------------------------------------------
(***************************************************************************)
(* Names.  Characters are one-letter strings.                              *)
(***************************************************************************)
UPPER == [c \in {"a", "b"} |-> IF c = "a" THEN "A" ELSE "B"]
Upper(c) == IF c \in DOMAIN UPPER THEN UPPER[c] ELSE c

\* The first n characters, in capitals, filled up with blanks.
Field(chars, n) == [k \in 1 .. n |-> IF k <= Len(chars) THEN Upper(chars[k]) ELSE " "]

\* The characters before the first that is in stop.
UpTo(chars, stop) ==
  LET at == {k \in DOMAIN chars : \A j \in 1 .. k : chars[j] \notin stop}
  IN  [k \in at |-> chars[k]]

\* fat32_normalize_name.  What does not fit the name goes into the extension.
NormalizeName(name) ==
  LET base == UpTo(name, {"."})
      used == IF Len(base) < BASE THEN Len(base) ELSE BASE
      dot == IF used < Len(name) /\ name[used + 1] = "." THEN 1 ELSE 0
  IN  Field(SubSeq(base, 1, used), BASE) \o Field(SubSeq(name, used + dot + 1, Len(name)), EXT)

\* Mutant: the dot is left out.
ExtractNameNoDot(name) == UpTo(SubSeq(name, 1, BASE), {" "}) \o UpTo(SubSeq(name, BASE + 1, BASE + EXT), {" "})

\* fat32_extract_entry_name.
ExtractName(name) ==
  LET ext == UpTo(SubSeq(name, BASE + 1, BASE + EXT), {" "})
  IN  UpTo(SubSeq(name, 1, BASE), {" "}) \o (IF ext = << >> THEN << >> ELSE <<".">> \o ext)

-------------------------------------------------------------------------------
(***************************************************************************)
(* The root directory                                                      *)
(***************************************************************************)

\* Mutant: entries of deleted files count.
VisibleDeleted(entry) == entry.kind \in {"file", "deleted"}

\* Not deleted, no part of a long name, no label.
Visible(entry) == entry.kind = "file"

\* The buffer after a cluster of the directory was read: the entries of its
\* sectors, and what is left behind them when clusters are smaller than it.
ClusterBuffer(rest) ==
  FlattenSeq([k \in DOMAIN transfer.got |-> Sector(transfer.got[k]).entries])
  \o (IF fat32_fs.spc < BUFFER_SECTORS THEN rest ELSE << >>)

\* The entries that are looked at: visible ones before the end of the directory.
Shown(entries) == {k \in DOMAIN entries : Visible(entries[k]) /\ \A j \in 1 .. k : entries[j].kind # "end"}
Ended(entries) == \E k \in DOMAIN entries : entries[k].kind = "end"

\* fat32_open as far as the search: no handle is free, or there is no root.
Open(name) ==
  /\ call = IDLE
  /\ LET free == {h \in Handles : ~fat32_files[h].open}
     IN  IF free = {} \/ ~IsCluster(fat32_fs.root)
         THEN /\ Return([of |-> "open", name |-> NormalizeName(name), fd |-> -1, sure |-> free # {}])
              /\ UNCHANGED transfer
         ELSE /\ ReadCluster([at |-> "walk", cluster |-> fat32_fs.root,
                              of |-> "open", name |-> NormalizeName(name),
                              fd |-> CHOOSE h \in free : \A g \in free : h <= g])
              /\ result' = NO_RESULT
  /\ UNCHANGED <<disk, fat32_fs, fat_table, fat32_files>>

EnumerateRoot ==
  /\ call = IDLE
  /\ IF ~IsCluster(fat32_fs.root)
     THEN Return([of |-> "list", ok |-> fat32_fs.root >= 2, names |-> << >>]) /\ UNCHANGED transfer
     ELSE /\ ReadCluster([at |-> "walk", cluster |-> fat32_fs.root, of |-> "list", names |-> << >>])
          /\ result' = NO_RESULT
  /\ UNCHANGED <<disk, fat32_fs, fat_table, fat32_files>>

WalkFails ==
  /\ Ready("walk") /\ ~Read
  /\ Return(IF call.of = "open" THEN [of |-> "open", name |-> call.name, fd |-> -1, sure |-> FALSE]
            ELSE [of |-> "list", ok |-> FALSE, names |-> call.names])
  /\ ReadDone
  /\ UNCHANGED <<disk, fat32_fs, fat_table, fat32_files>>

FirstN(s, n) == IF Len(s) <= n THEN s ELSE SubSeq(s, 1, n)

\* The next cluster of the directory, or the end of the walk.
WalkOn(entries, next, end) ==
  \E cluster \in Follow(call.cluster) :
    IF ~Ended(entries) /\ IsCluster(cluster)
    THEN ReadCluster([next EXCEPT !.cluster = cluster]) /\ UNCHANGED result
    ELSE Return(end) /\ ReadDone

Opened(name, entry) ==
  [open |-> TRUE, name |-> name, first |-> entry.first, size |-> entry.size, position |-> 0]

\* A cluster is searched for a name; the rest of fat32_open when it is there.
Find(entries) ==
  LET named == {k \in Shown(entries) : entries[k].name = call.name}
  IN  /\ call.of = "open"
      /\ \/ /\ named = {}
            /\ WalkOn(entries, call, [of |-> "open", name |-> call.name, fd |-> -1, sure |-> TRUE])
            /\ UNCHANGED fat32_files
         \/ \E k \in named :
              /\ \A j \in named : k <= j
              /\ fat32_files' = [fat32_files EXCEPT ![call.fd] = Opened(call.name, entries[k])]
              /\ Return([of |-> "open", name |-> call.name, fd |-> call.fd, sure |-> TRUE])
              /\ ReadDone

\* What is reported of a cluster's files, entry by entry.
Listed(entries) ==
  FlattenSeq([k \in DOMAIN entries |->
    IF k \in Shown(entries) THEN << [name |-> ExtractName(entries[k].name), size |-> entries[k].size] >>
    ELSE << >>])

List(entries) ==
  LET names == FirstN(call.names \o Listed(entries), MaxNames)
  IN  /\ call.of = "list"
      /\ WalkOn(entries, [call EXCEPT !.names = names], [of |-> "list", ok |-> TRUE, names |-> names])
      /\ UNCHANGED fat32_files

Walk(rest) ==
  /\ Ready("walk") /\ Read
  /\ \E entries \in {ClusterBuffer(rest)} : Find(entries) \/ List(entries)
  /\ UNCHANGED <<disk, fat32_fs, fat_table>>

-------------------------------------------------------------------------------
(***************************************************************************)
(* Files                                                                   *)
(***************************************************************************)

\* What else a closed entry holds is written before it is read again.
Close(fd) ==
  /\ call = IDLE
  /\ fat32_files' = [fat32_files EXCEPT ![fd] = CLOSED]
  /\ Return([of |-> "close"])
  /\ UNCHANGED <<ahciVars, fat32_fs, fat_table>>

\* fat32_write does nothing and reports success.
Write(fd) ==
  /\ call = IDLE
  /\ Return([of |-> "write", ok |-> fat32_files[fd].open])
  /\ UNCHANGED <<ahciVars, fat32_fs, fat_table, fat32_files>>

ReadReturns(fd, from, size, n, bytes) ==
  Return([of |-> "read", fd |-> fd, from |-> from, asked |-> size, n |-> n, bytes |-> bytes])

\* The test of the copying loop, and its next cluster.
ReadOn(c) ==
  IF c.count > 0 /\ IsCluster(c.cluster) THEN ReadCluster(c) /\ result' = NO_RESULT
  ELSE ReadReturns(c.fd, c.from, c.asked, Len(c.bytes), c.bytes) /\ ReadDone

ClusterSize == fat32_fs.spc * SECTOR_SIZE

\* Up to the first cluster.
ReadBegin(fd, size) ==
  LET file == fat32_files[fd]
      left == file.size - file.position
  IN  /\ call = IDLE
      /\ IF ~file.open THEN ReadReturns(fd, file.position, size, -1, << >>) /\ UNCHANGED transfer
         ELSE IF left <= 0 THEN ReadReturns(fd, file.position, size, 0, << >>) /\ UNCHANGED transfer
         ELSE IF fat32_fs.spc = 0 THEN call' = [at |-> "fault"] /\ result' = NO_RESULT /\ UNCHANGED transfer
         ELSE \E cluster \in Skip(file.first, file.position \div ClusterSize) :
                ReadOn([at |-> "read", fd |-> fd, from |-> file.position, asked |-> size,
                        count |-> IF size > left THEN left ELSE size,
                        cluster |-> cluster, offset |-> file.position, bytes |-> << >>])
      /\ UNCHANGED <<disk, fat32_fs, fat_table, fat32_files>>

\* Mutant: the next cluster is taken only when the file goes on past it.
TurnsPageLate(offset) == offset % ClusterSize = 1

TurnsPage(offset) == offset % ClusterSize = 0

\* One turn of the loop.
ReadCopies ==
  LET start == call.offset % ClusterSize
      n == IF ClusterSize - start > call.count THEN call.count ELSE ClusterSize - start
      offset == call.offset + n
      buffer == FlattenSeq([k \in DOMAIN transfer.got |-> Sector(transfer.got[k]).bytes])
  IN  /\ Ready("read") /\ Read
      /\ fat32_files' = [fat32_files EXCEPT ![call.fd].position = @ + n]
      /\ \E cluster \in IF TurnsPage(offset) THEN Follow(call.cluster) ELSE {call.cluster} :
           ReadOn([call EXCEPT !.count = @ - n, !.offset = offset, !.cluster = cluster,
                               !.bytes = @ \o SubSeq(buffer, start + 1, start + n)])
      /\ UNCHANGED <<disk, fat32_fs, fat_table>>

\* The position keeps what the turns before the failure added.
ReadFails ==
  /\ Ready("read") /\ ~Read
  /\ ReadReturns(call.fd, call.from, call.asked, -1, << >>)
  /\ ReadDone
  /\ UNCHANGED <<disk, fat32_fs, fat_table, fat32_files>>

-------------------------------------------------------------------------------
Step ==
  \/ Boot \/ MountLba0 \/ MountMbr \/ MountPartition \/ MountFat
  \/ WalkFails \/ \E rest \in Rests : Walk(rest)
  \/ ReadCopies \/ ReadFails

Callers ==
  \/ \E name \in Names : Open(name)
  \/ EnumerateRoot
  \/ \E fd \in Handles : Close(fd) \/ Write(fd)
  \/ \E fd \in Handles, size \in Sizes : ReadBegin(fd, size)

Driver == (DoTransfer \/ WaitCompletion) /\ UNCHANGED fatVars
Hba == (HbaCompletes \/ \E clears \in BOOLEAN : HbaFails(clears)) /\ UNCHANGED fatVars

\* A fault and the waits that never end repeat themselves.
Faulted == call.at = "fault" \/ transfer.status = "fault"
Stopped == (Faulted \/ Hung \/ call.at = "rebase") /\ UNCHANGED vars

Next == Step \/ Callers \/ Driver \/ Hba \/ Stopped

\* The processor executes the call it is in, and a drive ends every command in
\* one way or the other.
Spec == Init /\ [][Next]_vars /\ WF_vars(Step \/ Driver) /\ WF_vars(Hba)

-------------------------------------------------------------------------------
(***************************************************************************)
(* Properties.  hw.volumes is what was put on the disk: per place of a     *)
(* boot sector the files of the volume, in the order of their entries, as  *)
(* [name, clusters, bytes] and where the entry is (Volumes).               *)
(***************************************************************************)

Files == hw.volumes[fat32_fs.partition_lba].files
First(file) == IF file.clusters = << >> THEN 0 ELSE file.clusters[1]

\* A file system that fat32_initialize has mounted is one: its parameters and
\* its table are those of a valid boot sector at the place it says, whatever
\* copies of other boot sectors and failures of the disk came before.
MountsRight ==
  fat32_fs.whole /\ call.at # "fault" =>
    LET bpb == Sector(fat32_fs.partition_lba).bpb
        from == fat32_fs.partition_lba + bpb.reserved
    IN  /\ Valid(bpb)
        /\ fat32_fs.spc = bpb.spc /\ fat32_fs.root = bpb.root
        /\ fat32_fs.data_offset = from + bpb.num_fats * bpb.fat_size
        /\ fat_table = FlattenSeq([k \in 1 .. bpb.fat_size |-> Sector(from + k - 1).fat])

\* The buffer is as large as a cluster and the table is there.
Sound == fat32_fs.whole /\ fat32_fs.spc = BUFFER_SECTORS

\* fat32_open gives a handle on the file of that name, and says that there is
\* none only when there is none, when no handle is free or when the disk failed:
\* deleted files, labels and what is behind the end of the directory are never
\* found, and files in its later clusters are.
OpensNamed ==
  Sound /\ result.of = "open" =>
    LET named == {k \in DOMAIN Files : Files[k].name = result.name}
    IN  IF result.fd = -1 THEN result.sure => named = {}
        ELSE \E k \in named :
               /\ fat32_files[result.fd].size = Len(Files[k].bytes)
               /\ fat32_files[result.fd].first = First(Files[k])

\* fat32_enumerate_root, when it says that it succeeded, has named every file
\* once, in order, with its size, by a name under which fat32_open finds it.
ListsRoot ==
  Sound /\ result.of = "list" /\ result.ok =>
    /\ Len(result.names) = Len(Files)
    /\ \A k \in DOMAIN Files :
         /\ NormalizeName(result.names[k].name) = Files[k].name
         /\ result.names[k].size = Len(Files[k].bytes)

\* A read that succeeds returns the file's bytes from where it began, as many
\* as it was asked for or all that are left, wherever clusters begin and end
\* and whatever was read, failed or open before; the position moves by as many.
ReadsContent ==
  Sound /\ result.of = "read" /\ result.n >= 0 =>
    \E k \in DOMAIN Files :
      LET file == fat32_files[result.fd]
          left == file.size - result.from
      IN  /\ Files[k].name = file.name
          /\ result.n = IF result.asked > left THEN left ELSE result.asked
          /\ result.bytes = SubSeq(Files[k].bytes, result.from + 1, result.from + result.n)
          /\ file.position = result.from + result.n

\* The chain of the root directory ends, as far as the table was read.
RootEnds == \E n \in 0 .. Len(fat_table) : \A c \in Skip(fat32_fs.root, n) : ~IsCluster(c)

\* Nothing went wrong that the driver has no answer to: a port that does not
\* stop, a command that failed and keeps its bit, a drive at another port only,
\* clusters larger than the buffer, a directory whose chain runs in a circle or
\* leaves the table.
Orderly ==
  /\ ~Hung /\ ~Faulted /\ call.at # "rebase"
  /\ call.at = "walk" => RootEnds

\* Then every call comes back, the mounting included, whatever sectors fail and
\* however much of the table was read; a read does on circular chains of files
\* too.
CallsReturn == []Orderly => (call.at # "idle" ~> call.at = "idle")

===============================================================================
