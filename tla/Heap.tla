--------------------------------- MODULE Heap ---------------------------------
(***************************************************************************)
(* The kernel heap (heap.c): slab caches of equal objects for the small    *)
(* sizes, a row of blocks for the others and for a full cache, and the     *)
(* coalescing pass.  The tasks are cooperative and no interrupt handler    *)
(* calls the heap, so a call of kmalloc or kfree is one step; the          *)
(* coalescing loop is stepped one block at a time, with no other call in   *)
(* between.  Calls that fail, kfree of an address no live allocation       *)
(* starts at included, change nothing.                                     *)
(***************************************************************************)
EXTENDS Naturals, FiniteSets

CONSTANTS
  CACHES, SLOTS,           \* slab caches, SLAB_OBJECTS_PER_CACHE
  Limit,                   \* SLAB_CACHE_16 ... SLAB_CACHE_256 by cache index
  SLAB_BASE, SPAN, STRIDE, \* first slab address, from cache to cache, from
                           \* object to object
  BLOCKS,                  \* BUDDY_BLOCKS_MAX
  BUDDY_BASE, BLOCK,       \* first block's address, size and distance of blocks
  Requests                 \* sizes clients ask for

Caches == 0 .. CACHES - 1
Slots == 0 .. SLOTS - 1
Blocks == 0 .. BLOCKS - 1

\* The layout init_slab_caches and init_buddy_blocks build: every object has
\* room for its cache's largest request, the slabs end below the blocks.
ASSUME HeapAssumption ==
  /\ CACHES \in Nat /\ SLOTS \in Nat /\ BLOCKS \in Nat \ {0}
  /\ SLAB_BASE \in Nat \ {0} /\ SPAN \in Nat /\ STRIDE \in Nat
  /\ BUDDY_BASE \in Nat /\ BLOCK \in Nat \ {0}
  /\ Limit \in [Caches -> Nat]
  /\ \A c \in Caches : Limit[c] <= STRIDE
  /\ SLOTS * STRIDE <= SPAN
  /\ SLAB_BASE + CACHES * SPAN <= BUDDY_BASE
  /\ Requests \subseteq Nat

VARIABLES
  slab_used, slab_size,    \* objects[i].used and .size of every cache
  free_count,
  buddy_used, buddy_size,
  index                    \* heap_coalesce's loop variable, BLOCKS when no
                           \* pass is under way

slabVars == <<slab_used, slab_size, free_count>>
buddyVars == <<buddy_used, buddy_size>>
heapVars == <<slabVars, buddyVars, index>>

SlabAddress(c, i) == SLAB_BASE + c * SPAN + i * STRIDE
BuddyAddress(i) == BUDDY_BASE + i * BLOCK

-------------------------------------------------------------------------------
HeapInit ==
  /\ slab_used = [c \in Caches |-> [i \in Slots |-> FALSE]]
  /\ slab_size = [c \in Caches |-> [i \in Slots |-> 0]]
  /\ free_count = [c \in Caches |-> SLOTS]
  /\ buddy_used = [i \in Blocks |-> FALSE]
  /\ buddy_size = [i \in Blocks |-> BLOCK]
  /\ index = BLOCKS

\* The cache kmalloc routes n bytes to: the first whose limit admits them.
Routes(n, c) == n <= Limit[c] /\ \A d \in Caches : d < c => n > Limit[d]

\* The first free object of the cache.
KmallocSlab(n, c, i) ==
  /\ index = BLOCKS
  /\ n # 0 /\ Routes(n, c)
  /\ ~slab_used[c][i]
  /\ \A j \in Slots : j < i => slab_used[c][j]
  /\ slab_used' = [slab_used EXCEPT ![c][i] = TRUE]
  /\ slab_size' = [slab_size EXCEPT ![c][i] = n]
  /\ free_count' = [free_count EXCEPT ![c] = @ - 1]
  /\ UNCHANGED <<buddyVars, index>>

\* Mutant of Fits: the block's size is not compared with the request.
FitsAnySize(n, i) == ~buddy_used[i]

Fits(n, i) == ~buddy_used[i] /\ buddy_size[i] >= n

\* No cache, or a full one: the first block that is large enough.  The block
\* takes the size of the request.
KmallocBuddy(n, i) ==
  /\ index = BLOCKS
  /\ n # 0
  /\ \A c \in Caches : Routes(n, c) => \A j \in Slots : slab_used[c][j]
  /\ Fits(n, i)
  /\ \A j \in Blocks : j < i => ~Fits(n, j)
  /\ buddy_used' = [buddy_used EXCEPT ![i] = TRUE]
  /\ buddy_size' = [buddy_size EXCEPT ![i] = n]
  /\ UNCHANGED <<slabVars, index>>

KfreeSlab(c, i) ==
  /\ index = BLOCKS
  /\ slab_used[c][i]
  /\ slab_used' = [slab_used EXCEPT ![c][i] = FALSE]
  /\ slab_size' = [slab_size EXCEPT ![c][i] = 0]
  /\ free_count' = [free_count EXCEPT ![c] = @ + 1]
  /\ UNCHANGED <<buddyVars, index>>

\* The size is left as it is: a freed block stays as small as its last use.
KfreeBuddy(i) ==
  /\ index = BLOCKS
  /\ buddy_used[i]
  /\ buddy_used' = [buddy_used EXCEPT ![i] = FALSE]
  /\ UNCHANGED <<slabVars, buddy_size, index>>

CoalesceBegin ==
  /\ index = BLOCKS
  /\ index' = 0
  /\ UNCHANGED <<slabVars, buddyVars>>

Mergeable(i) ==
  /\ ~buddy_used[i] /\ ~buddy_used[i + 1]
  /\ buddy_size[i] = buddy_size[i + 1]
  /\ BuddyAddress(i) + buddy_size[i] = BuddyAddress(i + 1)

CoalesceStep ==
  /\ index < BLOCKS - 1
  /\ buddy_size' = IF Mergeable(index)
                   THEN [buddy_size EXCEPT ![index] = 2 * @, ![index + 1] = 0]
                   ELSE buddy_size
  /\ index' = index + 1
  /\ UNCHANGED <<slabVars, buddy_used>>

CoalesceEnd ==
  /\ index = BLOCKS - 1
  /\ index' = BLOCKS
  /\ UNCHANGED <<slabVars, buddyVars>>

HeapNext ==
  \/ \E n \in Requests, c \in Caches, i \in Slots : KmallocSlab(n, c, i)
  \/ \E n \in Requests, i \in Blocks : KmallocBuddy(n, i)
  \/ \E c \in Caches, i \in Slots : KfreeSlab(c, i)
  \/ \E i \in Blocks : KfreeBuddy(i)
  \/ CoalesceBegin \/ CoalesceStep \/ CoalesceEnd

HeapSpec == HeapInit /\ [][HeapNext]_heapVars

-------------------------------------------------------------------------------
(***************************************************************************)
(* Properties                                                              *)
(***************************************************************************)

\* Every field keeps its type; no block outgrows two blocks.
HeapTypeOK ==
  /\ slab_used \in [Caches -> [Slots -> BOOLEAN]]
  /\ slab_size \in [Caches -> [Slots -> Nat]]
  /\ free_count \in [Caches -> Nat]
  /\ buddy_used \in [Blocks -> BOOLEAN]
  /\ buddy_size \in [Blocks -> 0 .. 2 * BLOCK]
  /\ index \in 0 .. BLOCKS

\* The regions kmalloc has handed out and kfree has not taken back.
SlabRegion(c, i) == [addr |-> SlabAddress(c, i), len |-> slab_size[c][i]]
BuddyRegion(i) == [addr |-> BuddyAddress(i), len |-> buddy_size[i]]

LiveSlabs == {x \in Caches \X Slots : slab_used[x[1]][x[2]]}
LiveBlocks == {i \in Blocks : buddy_used[i]}

LiveRegions == {SlabRegion(x[1], x[2]) : x \in LiveSlabs}
          \cup {BuddyRegion(i) : i \in LiveBlocks}

HA == INSTANCE Allocator WITH live <- LiveRegions

\* Through every mix of small and large requests, fallbacks out of a full
\* cache, releases, merges of blocks and reuse of merged blocks, no two live
\* allocations share a byte: every step is one of the abstract allocator.
HeapImplementsAllocator == HA!Spec

\* The objects of a cache, given by their used flags, that are free.
FreeSlots(used) == {i \in Slots : ~used[i]}

\* free_count tells how many objects of its cache kmalloc can still hand out.
FreeCountExact ==
  \A c \in Caches : free_count[c] = Cardinality(FreeSlots(slab_used[c]))

\* A block that may reach past its own megabyte has swallowed its neighbour,
\* and the neighbour is dead for good: kmalloc never hands it out again.
MergedOwnsNext ==
  \A i \in Blocks :
    buddy_size[i] > BLOCK =>
      i + 1 \in Blocks /\ buddy_size[i + 1] = 0 /\ ~buddy_used[i + 1]

===============================================================================
