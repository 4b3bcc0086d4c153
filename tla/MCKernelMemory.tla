----------------------------- MODULE MCKernelMemory -----------------------------
(***************************************************************************)
(* The kernel's memory in two parts that share nothing: the allocators,    *)
(* and the page tables with the calls of the virtual memory manager behind *)
(* them.                                                                   *)
(*                                                                         *)
(* Frames of 4 bytes, words of 4 bits; slabs from 4 to the end of the      *)
(* reserved range at 8, blocks behind them.  The maps have unaligned,      *)
(* empty, overlapping and reserved entries, one reaches past what the      *)
(* bitmap can describe, one has a tag with no entries and one is missing.  *)
(***************************************************************************)
EXTENDS KernelMemory, Boot

VARIABLE part

At(a, l, t) == [addr |-> a, len |-> l, type |-> t]

MCMaps ==
  {[found |-> FALSE, entries |-> << >>],
   [found |-> TRUE, entries |-> << >>],
   [found |-> TRUE, entries |-> <<At(0, 10, 1), At(10, 6, 2), At(16, 9, 1)>>],
   [found |-> TRUE, entries |-> <<At(5, 9, 1), At(11, 4, 1), At(22, 0, 1), At(18, 2, 3)>>],
   [found |-> TRUE, entries |-> <<At(12, 4, 1), At(36, 30, 1)>>]}

\* Objects of 1 and 2 bytes (SLAB_CACHE_16 and SLAB_CACHE_32).
MCLimit == [c \in Caches |-> c + 1]

\* The part that rests has the first of its starts.
MCInit ==
  /\ part \in {"allocators", "tables"}
  /\ Init /\ BootInit
  /\ part = "allocators" => info = CHOOSE i0 \in Infos : TRUE
  /\ part = "allocators" => magic = CHOOSE m \in Magics : TRUE
  /\ part = "tables" => map = CHOOSE m \in MemoryMaps : TRUE

MCNext ==
  /\ UNCHANGED part
  /\ \/ part = "allocators" /\ Next /\ UNCHANGED kernelVars
     \/ part = "tables" /\ BootNext /\ UNCHANGED vars

MCSpec == MCInit /\ [][MCNext]_<<part, vars, kernelVars>>

===============================================================================
