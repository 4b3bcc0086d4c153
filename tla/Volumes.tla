---------------------------------- MODULE Volumes ----------------------------------
(***************************************************************************)
(* What it means that files were put on a disk: how a FAT32 volume lays    *)
(* them out.  A machine m has a volume at lba p when there is a boot       *)
(* sector; m.volumes[p] is                                                 *)
(*   directory   the clusters of the root directory, up to the one where   *)
(*               it ends                                                   *)
(*   files       [name, part, entry, clusters, bytes]: the file's entry is *)
(*               that one in the part-th cluster of the directory          *)
(* This is what the driver relies on, written without its operators.       *)
(***************************************************************************)
EXTENDS Fat32

BootSector(m, p) == SectorOf(m, p).bpb

TableOf(m, p) ==
  LET bpb == BootSector(m, p)
  IN  FlattenSeq([k \in 1 .. bpb.fat_size |-> SectorOf(m, p + bpb.reserved + k - 1).fat])

\* The first sector of a cluster, the directory entries in it and its bytes.
FirstSector(m, p, c) ==
  LET bpb == BootSector(m, p)
  IN  p + bpb.reserved + bpb.num_fats * bpb.fat_size + (c - 2) * bpb.spc

EntriesOf(m, p, c) ==
  FlattenSeq([k \in 1 .. BootSector(m, p).spc |-> SectorOf(m, FirstSector(m, p, c) + k - 1).entries])

BytesOf(m, p, c) ==
  FlattenSeq([k \in 1 .. BootSector(m, p).spc |-> SectorOf(m, FirstSector(m, p, c) + k - 1).bytes])

\* Clusters that the table links one to the next.
IsChain(m, p, chain) ==
  /\ chain \in Seq(Nat)
  /\ \A i \in DOMAIN chain :
       chain[i] >= 2 /\ chain[i] < FAT32_EOC /\ chain[i] < Len(TableOf(m, p))
  /\ \A i \in 1 .. Len(chain) - 1 : TableOf(m, p)[chain[i] + 1] = chain[i + 1]

HasEnd(entries) == \E k \in DOMAIN entries : entries[k].kind = "end"

\* The k-th entry is one of a file.
IsFile(entries, k) == entries[k].kind = "file" /\ \A j \in 1 .. k : entries[j].kind # "end"

\* The directory ends with its end mark or with the chain, and not before.
DirectoryStored(m, p) ==
  LET dir == m.volumes[p].directory
      last == dir[Len(dir)]
      next == TableOf(m, p)[last + 1]
  IN  /\ IsChain(m, p, dir) /\ dir # << >> /\ dir[1] = BootSector(m, p).root
      /\ \A i \in 1 .. Len(dir) - 1 : ~HasEnd(EntriesOf(m, p, dir[i]))
      /\ HasEnd(EntriesOf(m, p, last)) \/ next < 2 \/ next >= FAT32_EOC

\* The files' entries are the directory's, in this order.
EntriesStored(m, p) ==
  LET dir == m.volumes[p].directory
      files == m.volumes[p].files
  IN  /\ files \in Seq([name : Seq(STRING), part : Nat, entry : Nat, clusters : Seq(Nat), bytes : Seq(0 .. 255)])
      /\ \A f \in DOMAIN files :
           LET entries == EntriesOf(m, p, dir[files[f].part])
               entry == entries[files[f].entry]
           IN  /\ files[f].part \in DOMAIN dir /\ files[f].entry \in DOMAIN entries
               /\ IsFile(entries, files[f].entry)
               /\ entry.name = files[f].name
               /\ entry.first = First(files[f]) /\ entry.size = Len(files[f].bytes)
      /\ \A i \in DOMAIN dir : \A k \in DOMAIN EntriesOf(m, p, dir[i]) :
           IsFile(EntriesOf(m, p, dir[i]), k) =>
             \E f \in DOMAIN files : files[f].part = i /\ files[f].entry = k
      /\ \A f, g \in DOMAIN files : f < g =>
           \/ files[f].part < files[g].part
           \/ files[f].part = files[g].part /\ files[f].entry < files[g].entry

\* A name is two fields of capitals, each filled up with blanks.
IsField(chars) ==
  \E n \in 0 .. Len(chars) : \A k \in DOMAIN chars :
    IF k <= n THEN chars[k] \notin {" ", "."} \cup DOMAIN UPPER ELSE chars[k] = " "

IsShortName(name) ==
  Len(name) = BASE + EXT /\ IsField(SubSeq(name, 1, BASE)) /\ IsField(SubSeq(name, BASE + 1, BASE + EXT))

\* A file's bytes are those of its clusters, as far as it goes.
ContentStored(m, p, file) ==
  LET size == BootSector(m, p).spc * SECTOR_SIZE
  IN  /\ IsShortName(file.name)
      /\ IsChain(m, p, file.clusters)
      /\ Len(file.bytes) <= Len(file.clusters) * size
      /\ \A j \in 0 .. Len(file.bytes) - 1 :
           file.bytes[j + 1] = BytesOf(m, p, file.clusters[j \div size + 1])[(j % size) + 1]

\* Where a machine may have a volume: at the beginning of its disk, or in a partition.
Places(m) == {0} \cup {SectorOf(m, 0).partitions[k].start : k \in DOMAIN SectorOf(m, 0).partitions}

\* Every volume whose clusters are as large as the buffer is laid out like this;
\* the names of one directory are few enough to be remembered.
ASSUME VolumeAssumption ==
  \A i \in DOMAIN Machines : \A p \in Places(Machines[i]) :
    LET m == Machines[i]
        bpb == BootSector(m, p)
    IN  bpb.bytes_ok /\ bpb.spc = BUFFER_SECTORS /\ bpb.fat_size # 0 =>
          /\ p \in DOMAIN m.volumes
          /\ DirectoryStored(m, p) /\ EntriesStored(m, p)
          /\ \A f \in DOMAIN m.volumes[p].files : ContentStored(m, p, m.volumes[p].files[f])
          /\ Len(m.volumes[p].files) <= MaxNames

===============================================================================
