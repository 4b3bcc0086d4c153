---------------------------------- MODULE Pmm ----------------------------------
(***************************************************************************)
(* The physical memory manager (pmm.c) and the boot code that fills it     *)
(* from the multiboot memory map (kernel.c).  The bitmap is the set of the *)
(* frame numbers whose bit is 1, which means free.  Everything runs on one *)
(* CPU and in no interrupt handler, so each call is one step.              *)
(*                                                                         *)
(* pmm_allocate_frame and pmm_free_frame trust their callers: held is the  *)
(* set of frames callers have and may give back, once each.                *)
(***************************************************************************)
EXTENDS Naturals, Sequences, FiniteSets

CONSTANTS
  FRAME_SIZE,
  WORD,             \* bits of a bitmap entry
  BITMAP_WORDS,     \* entries of bitmap_storage
  LOW_END,          \* 0x100000: where memory starts without a memory map
  RESERVED_END,     \* 0x200000: end of the range kernel_main reserves
  DEFAULT_TOP,      \* 0x180000000: top of memory without a memory map
  MemoryMaps        \* what the boot loader may pass: whether there is a memory
                    \* map tag, and its entries

Entry == [addr : Nat, len : Nat, type : Nat]

ASSUME PmmAssumption ==
  /\ FRAME_SIZE \in Nat \ {0} /\ WORD \in Nat \ {0} /\ BITMAP_WORDS \in Nat
  /\ LOW_END \in Nat /\ RESERVED_END \in Nat \ {0}
  /\ DEFAULT_TOP \in Nat /\ LOW_END <= DEFAULT_TOP
  /\ MemoryMaps \subseteq [found : BOOLEAN, entries : Seq(Entry)]
  /\ \A m \in MemoryMaps : ~m.found => m.entries = << >>

VARIABLES
  pc,               \* where kernel_main is: "size", "mark", "reserve", "run"
  map,              \* the memory map
  entry,            \* mark_multiboot_memory's position in it
  max_memory,
  total_frames,
  bitmap,
  free_frames,
  held

pmmVars == <<pc, map, entry, max_memory, total_frames, bitmap, free_frames, held>>

-------------------------------------------------------------------------------
\* Frames that [address, address + length) touches, below total_frames.
FramesOf(address, length) ==
  IF length = 0 THEN {}
  ELSE {f \in 0 .. total_frames - 1 :
          /\ address \div FRAME_SIZE <= f
          /\ f < (address + length + FRAME_SIZE - 1) \div FRAME_SIZE}

AddAvailableRange(address, length) ==
  /\ bitmap' = bitmap \cup FramesOf(address, length)
  /\ free_frames' = free_frames + Cardinality(FramesOf(address, length) \ bitmap)

ReserveRange(address, length) ==
  /\ bitmap' = bitmap \ FramesOf(address, length)
  /\ free_frames' = free_frames - Cardinality(FramesOf(address, length) \cap bitmap)

PmmInit ==
  /\ pc = "size"
  /\ map \in MemoryMaps
  /\ entry = 1
  /\ max_memory = 0 /\ total_frames = 0
  /\ bitmap = {} /\ free_frames = 0 /\ held = {}

\* Ends of the entries, of any type.
Ends == {0} \cup {map.entries[k].addr + map.entries[k].len : k \in DOMAIN map.entries}

\* Frames the bitmap can describe of a memory of the given size.
FramesFor(memory) ==
  LET frames == (memory + FRAME_SIZE - 1) \div FRAME_SIZE
  IN  IF (frames + WORD - 1) \div WORD > BITMAP_WORDS
      THEN BITMAP_WORDS * WORD ELSE frames

\* get_multiboot_memory_top, the default and pmm_initialize.
Initialize ==
  /\ pc = "size"
  /\ \E top \in Ends :
       /\ \A e \in Ends : e <= top
       /\ max_memory' = IF top = 0 THEN DEFAULT_TOP ELSE top
  /\ total_frames' = FramesFor(max_memory')
  /\ bitmap' = {} /\ free_frames' = 0
  /\ pc' = "mark"
  /\ UNCHANGED <<map, entry, held>>

\* mark_multiboot_memory, one entry: only type 1 is available memory.
MarkEntry ==
  /\ pc = "mark"
  /\ entry <= Len(map.entries)
  /\ IF map.entries[entry].type = 1
     THEN AddAvailableRange(map.entries[entry].addr, map.entries[entry].len)
     ELSE UNCHANGED <<bitmap, free_frames>>
  /\ entry' = entry + 1
  /\ UNCHANGED <<pc, map, max_memory, total_frames, held>>

\* No map found: everything from LOW_END up is taken for available.
MarkDone ==
  /\ pc = "mark"
  /\ entry > Len(map.entries)
  /\ IF map.found THEN UNCHANGED <<bitmap, free_frames>>
     ELSE AddAvailableRange(LOW_END, max_memory - LOW_END)
  /\ pc' = "reserve"
  /\ UNCHANGED <<map, entry, max_memory, total_frames, held>>

\* Mutant: reserves from LOW_END only.
ReserveFromLow ==
  /\ pc = "reserve"
  /\ ReserveRange(LOW_END, RESERVED_END - LOW_END)
  /\ pc' = "run"
  /\ UNCHANGED <<map, entry, max_memory, total_frames, held>>

\* Mutant: reserves up to LOW_END only.
ReserveBelowLow ==
  /\ pc = "reserve"
  /\ ReserveRange(0, LOW_END)
  /\ pc' = "run"
  /\ UNCHANGED <<map, entry, max_memory, total_frames, held>>

Reserve ==
  /\ pc = "reserve"
  /\ ReserveRange(0, RESERVED_END)
  /\ pc' = "run"
  /\ UNCHANGED <<map, entry, max_memory, total_frames, held>>

\* The first bit that is set.
AllocateFrame ==
  /\ pc = "run"
  /\ \E f \in bitmap :
       /\ \A g \in bitmap : f <= g
       /\ bitmap' = bitmap \ {f}
       /\ held' = held \cup {f}
  /\ free_frames' = free_frames - 1
  /\ UNCHANGED <<pc, map, entry, max_memory, total_frames>>

\* Out of memory: 0 is returned.
AllocateNothing ==
  /\ pc = "run"
  /\ bitmap = {}
  /\ UNCHANGED pmmVars

\* Words of the bitmap in use; a frame number is checked against these only.
BitmapEnd == (total_frames + WORD - 1) \div WORD

FreeFrame(f) ==
  /\ pc = "run"
  /\ f \div WORD < BitmapEnd
  /\ bitmap' = bitmap \cup {f}
  /\ free_frames' = free_frames + 1
  /\ held' = held \ {f}
  /\ UNCHANGED <<pc, map, entry, max_memory, total_frames>>

PmmNext ==
  \/ Initialize \/ MarkEntry \/ MarkDone \/ Reserve
  \/ AllocateFrame \/ AllocateNothing
  \/ \E f \in held : FreeFrame(f)

PmmSpec == PmmInit /\ [][PmmNext]_pmmVars

-------------------------------------------------------------------------------
(***************************************************************************)
(* Properties                                                              *)
(***************************************************************************)

\* Every variable keeps its type; no bit is set for a frame that is not there.
PmmTypeOK ==
  /\ pc \in {"size", "mark", "reserve", "run"}
  /\ map \in MemoryMaps
  /\ entry \in 1 .. Len(map.entries) + 1
  /\ max_memory \in Nat
  /\ total_frames \in Nat
  /\ bitmap \subseteq 0 .. total_frames - 1
  /\ held \subseteq 0 .. total_frames - 1
  /\ free_frames \in Nat

\* pmm_get_available tells the truth: the counter that add, reserve, allocate
\* and free each adjust is the number of bits set, overlapping map entries and
\* a reservation of frames that were never available included.
CountExact == free_frames = Cardinality(bitmap)

\* Frames some available entry of the map touches, or all from LOW_END up
\* without a map.
Available ==
  {f \in 0 .. total_frames - 1 :
     IF map.found
     THEN \E k \in DOMAIN map.entries :
            /\ map.entries[k].type = 1
            /\ f \in FramesOf(map.entries[k].addr, map.entries[k].len)
     ELSE f \in FramesOf(LOW_END, max_memory - LOW_END)}

\* No frame is lost or made up: once kernel_main has set the manager up, the
\* free frames and the frames held are together exactly the available ones
\* outside the reserved range, and no frame is both.
Conserved ==
  pc = "run" =>
    /\ bitmap \cup held = Available \ FramesOf(0, RESERVED_END)
    /\ bitmap \cap held = {}

\* The frames in use, as the regions of an allocator.
HeldFrames == {[addr |-> f * FRAME_SIZE, len |-> FRAME_SIZE] : f \in held}

FA == INSTANCE Allocator WITH live <- HeldFrames

\* pmm_allocate_frame never hands out a frame that is in use, and never the
\* frame at address 0, so that 0 can mean that memory is out.
FramesImplementAllocator == FA!Spec

===============================================================================
