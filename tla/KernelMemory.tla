------------------------------ MODULE KernelMemory ------------------------------
(***************************************************************************)
(* The kernel's two allocators side by side: kernel_main sets up the       *)
(* physical memory manager (Pmm) and then the heap (Heap), whose slabs and *)
(* blocks lie at fixed addresses of the same memory.  A coalescing pass    *)
(* runs to its end before anybody calls either of them again.              *)
(***************************************************************************)
EXTENDS Pmm, Heap

\* The layout of the memory: the slabs end within the range kernel_main reserves.
ASSUME LayoutAssumption == SLAB_BASE + CACHES * SPAN <= RESERVED_END

vars == <<pmmVars, heapVars>>

Init == PmmInit /\ HeapInit

Next ==
  \/ index = BLOCKS /\ PmmNext /\ UNCHANGED heapVars
  \/ pc = "run" /\ HeapNext /\ UNCHANGED pmmVars

Spec == Init /\ [][Next]_vars

-------------------------------------------------------------------------------
\* No frame in use shares a byte with a small allocation in use, although
\* neither allocator knows of the other: the range kernel_main reserves
\* reaches to the end of the slabs.
SmallApartFromFrames ==
  \A frame \in HeldFrames, x \in LiveSlabs : HA!Disjoint(frame, SlabRegion(x[1], x[2]))

===============================================================================
