----------------------------------- MODULE MCDisk ----------------------------------
(***************************************************************************)
(* Small disks: one with the file system from its first sector on, one     *)
(* with partitions of which the first is no file system and two are, one   *)
(* that is not formatted at all; a cluster as large as the buffer, a       *)
(* smaller and a larger one; a directory and a file whose chains run in a  *)
(* circle; a port that does not stop.  The first disk's directory takes    *)
(* two clusters, has a fragmented file that ends inside its last cluster,  *)
(* a file that ends with a cluster, an empty one, a deleted one, a label,  *)
(* and rests behind its end.                                               *)
(***************************************************************************)
EXTENDS Volumes, TLC

EOC == 99

Zeros == [bpb |-> NO_BPB, partitions |-> << >>, fat |-> <<0, 0, 0, 0>>,
          entries |-> << [kind |-> "end", name |-> << >>, first |-> 0, size |-> 0] >>,
          bytes |-> << 0 >>]

Entry(kind, name, first, size) == [kind |-> kind, name |-> name, first |-> first, size |-> size]
LONG == <<"A", "B", "A">>
FULL == <<"A", " ", " ">>
VOID == <<"B", " ", "B">>

Bpb(spc) == [bytes_ok |-> TRUE, spc |-> spc, reserved |-> 1, num_fats |-> 1, fat_size |-> 2, root |-> 2]
Fat(entries) == [Zeros EXCEPT !.fat = entries]
Dir(entries) == [Zeros EXCEPT !.entries = entries]
Byte(b) == [Zeros EXCEPT !.bytes = <<b>>]

\* Clusters of two sectors: the directory in 2 and 6, LONG in 3, 5, FULL in 4.
Volume ==
  << [Zeros EXCEPT !.bpb = Bpb(2)],
     Fat(<<EOC, EOC, 6, 5>>), Fat(<<EOC, EOC, EOC, 0>>),
     Dir(<<Entry("label", LONG, 0, 0), Entry("deleted", VOID, 4, 1)>>), Dir(<<Entry("file", LONG, 3, 3)>>),
     Byte(10), Byte(11), Byte(20), Byte(21), Byte(12), Byte(99),
     Dir(<<Entry("file", FULL, 4, 2), Entry("file", VOID, 0, 0)>>),
     Dir(<<Entry("end", << >>, 0, 0), Entry("file", <<"B", "A", " ">>, 3, 1)>>) >>

\* A directory without files.
Empty(spc) ==
  << [Zeros EXCEPT !.bpb = Bpb(spc)], Fat(<<EOC, EOC, 3, EOC>>), Fat(<<0, 0, 0, 0>>),
     Dir(<<Entry("label", LONG, 0, 0)>>), Dir(<<Entry("deleted", VOID, 4, 1)>>), Zeros, Zeros >>

\* The same with a circle, and a file that is a circle of one cluster.
Circle == [Empty(1) EXCEPT ![2] = Fat(<<EOC, EOC, 3, 2>>)]
OwnNext ==
  [Empty(1) EXCEPT ![2] = Fat(<<EOC, EOC, EOC, 3>>), ![4] = Dir(<<Entry("file", FULL, 3, 3)>>)]

\* One file, in cluster 3.
Single ==
  << [Zeros EXCEPT !.bpb = Bpb(2)], Fat(<<EOC, EOC, EOC, EOC>>), Fat(<<0, 0, 0, 0>>),
     Dir(<<Entry("file", FULL, 3, 1)>>), Zeros, Byte(30), Byte(31) >>

Held(directory, files) == [directory |-> directory, files |-> files]
File(name, part, entry, clusters, bytes) ==
  [name |-> name, part |-> part, entry |-> entry, clusters |-> clusters, bytes |-> bytes]

InVolume ==
  Held(<<2, 6>>, << File(LONG, 1, 3, <<3, 5>>, <<10, 11, 12>>), File(FULL, 2, 1, <<4>>, <<20, 21>>),
                    File(VOID, 2, 2, << >>, << >>) >>)
InEmpty == Held(<<2, 3>>, << >>)
InSingle == Held(<<2>>, << File(FULL, 1, 1, <<3>>, <<30>>) >>)

At(lba, sectors) == [s \in lba .. lba + Len(sectors) - 1 |-> sectors[s - lba + 1]]

Part(fat32, start) == [fat32 |-> fat32, start |-> start]
Table(starts) == [Zeros EXCEPT !.partitions = <<Part(FALSE, 1)>> \o starts, !.bpb.fat_size = 7]

Plain == At(0, Volume)
Partitioned ==
  At(0, <<Table(<<Part(TRUE, 1), Part(TRUE, 2), Part(TRUE, 9)>>), Zeros>>) @@ At(2, Empty(2)) @@ At(9, Single)
Unformatted == At(0, <<Table(<<Part(TRUE, 1)>>), [Zeros EXCEPT !.bpb = [Bpb(2) EXCEPT !.bytes_ok = FALSE]]>>)
NoClusters == At(0, <<Table(<<Part(TRUE, 1)>>), [Zeros EXCEPT !.bpb = Bpb(0)]>>)
Ata == [p \in 0 .. 1 |-> IF p = 0 THEN "ata" ELSE "none"]
Machine(image, volumes) ==
  [controller |-> TRUE, ports |-> Ata, lba_bit |-> FALSE, image |-> image, volumes |-> volumes]
OnPlain == Machine(Plain, 0 :> InVolume)
None(image) == Machine(image, << >>)

MCMachines ==
  [plain |-> OnPlain, partitioned |-> Machine(Partitioned, 2 :> InEmpty @@ 9 :> InSingle),
   unformatted |-> None(Unformatted), no_clusters |-> None(NoClusters),
   small |-> None(At(0, Empty(1))), large |-> None(At(0, Empty(3))),
   circle |-> None(At(0, Circle)), own_next |-> None(At(0, OwnNext)),
   bare |-> [OnPlain EXCEPT !.controller = FALSE],
   chs |-> [OnPlain EXCEPT !.lba_bit = TRUE],
   second |-> [OnPlain EXCEPT !.ports = [p \in 0 .. 1 |-> IF p = 0 THEN "none" ELSE "ata"]],
   cdrom |-> [OnPlain EXCEPT !.ports = [p \in 0 .. 1 |-> IF p = 0 THEN "atapi" ELSE "semb"]],
   busy |-> [OnPlain EXCEPT !.ports = [p \in 0 .. 1 |-> IF p = 0 THEN "ata" ELSE "busy"]]]

MCNames == { <<"a", "b", ".", "a">>, <<"a", "b", "a">>, <<"A", ".">>, <<"b", ".", "B">>, <<"b", "a">> }

MCRests == { << Entry("end", << >>, 0, 0) >>, << Entry("file", <<"B", "A", " ">>, 3, 1) >> }

===============================================================================
