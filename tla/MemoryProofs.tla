------------------------------- MODULE MemoryProofs -------------------------------
(***************************************************************************)
(* Proofs about the kernel's memory: the physical memory manager for every *)
(* frame size, word width, bitmap size and set of memory maps; the heap    *)
(* for every number of caches, objects and blocks and every layout that    *)
(* satisfies HeapAssumption; and the two together, as kernel_main uses     *)
(* them.                                                                   *)
(***************************************************************************)
EXTENDS KernelMemory, FiniteSetTheorems, TLAPS

-------------------------------------------------------------------------------
(***************************************************************************)
(* The physical memory manager (Pmm)                                       *)
(***************************************************************************)

\* Frames of the entries mark_multiboot_memory has been through.
Marked ==
  {f \in 0 .. total_frames - 1 :
     \E k \in DOMAIN map.entries :
       /\ k < entry
       /\ map.entries[k].type = 1
       /\ f \in FramesOf(map.entries[k].addr, map.entries[k].len)}

\* What the boot sequence has established at each of its points.
Progress ==
  /\ pc # "run" => held = {}
  /\ pc = "size" => bitmap = {} /\ entry = 1
  /\ pc = "mark" => bitmap = Marked
  /\ pc = "reserve" => bitmap = Available

PmmInv == PmmTypeOK /\ CountExact /\ Progress /\ Conserved

-------------------------------------------------------------------------------
\* The frames of a range are frames of the machine.
LEMMA FramesReal ==
  ASSUME NEW a, NEW l
  PROVE  FramesOf(a, l) \subseteq 0 .. total_frames - 1
BY Zenon DEF FramesOf

LEMMA FramesKept ==
  ASSUME NEW a, NEW l, total_frames' = total_frames
  PROVE  FramesOf(a, l)' = FramesOf(a, l)
BY Zenon DEF FramesOf

\* A size in bytes gives a number of frames.
LEMMA RoundUpNat ==
  ASSUME NEW a \in Nat, NEW b \in Nat \ {0}
  PROVE  (a + b - 1) \div b \in Nat
<1>1. a + b - 1 \in Nat
  OBVIOUS
<1> QED
  BY <1>1

\* The reserved range holds the frame at address 0.
LEMMA ZeroReserved ==
  ASSUME total_frames \in Nat, 0 \in 0 .. total_frames - 1
  PROVE  0 \in FramesOf(0, RESERVED_END)
<1> USE PmmAssumption
<1>1. 0 \div FRAME_SIZE = 0
  OBVIOUS
<1>2. (0 + RESERVED_END + FRAME_SIZE - 1) \div FRAME_SIZE >= 1
  OBVIOUS
<1>3. (0 + RESERVED_END + FRAME_SIZE - 1) \div FRAME_SIZE \in Nat
  OBVIOUS
<1> QED
  BY <1>1, <1>2, <1>3 DEF FramesOf

\* Counting: frames added, frames taken away.
LEMMA CountAdd ==
  ASSUME NEW n \in Nat, NEW S \in SUBSET (0 .. n - 1), NEW T \in SUBSET (0 .. n - 1)
  PROVE  /\ Cardinality(S) \in Nat
         /\ Cardinality(T \ S) \in Nat
         /\ Cardinality(S \cup T) = Cardinality(S) + Cardinality(T \ S)
<1>1. IsFiniteSet(0 .. n - 1)
  BY FS_Interval
<1>2. IsFiniteSet(S) /\ IsFiniteSet(T \ S)
  BY <1>1, FS_Subset, Zenon
<1>3. S \cup T = S \cup (T \ S) /\ S \cap (T \ S) = {}
  BY Zenon
<1>4. Cardinality(S \cup (T \ S))
        = Cardinality(S) + Cardinality(T \ S) - Cardinality(S \cap (T \ S))
  BY <1>2, FS_Union, Zenon
<1>5. Cardinality({}) = 0
  BY FS_EmptySet, Zenon
<1>6. Cardinality(S) \in Nat /\ Cardinality(T \ S) \in Nat
  BY <1>2, FS_CardinalityType, Zenon
<1> DEFINE s == Cardinality(S)
           t == Cardinality(T \ S)
<1>7. Cardinality(S \cup T) = s + t - 0
  BY <1>3, <1>4, <1>5, Zenon
<1>8. s + t - 0 = s + t
  BY <1>6
<1> QED
  BY <1>6, <1>7, <1>8, Zenon

LEMMA CountTake ==
  ASSUME NEW n \in Nat, NEW S \in SUBSET (0 .. n - 1), NEW T \in SUBSET (0 .. n - 1)
  PROVE  /\ Cardinality(S \ T) \in Nat
         /\ Cardinality(S \ T) = Cardinality(S) - Cardinality(T \cap S)
<1>1. /\ Cardinality(S \ T) \in Nat
      /\ Cardinality((S \cap T) \ (S \ T)) \in Nat
      /\ Cardinality((S \ T) \cup (S \cap T))
           = Cardinality(S \ T) + Cardinality((S \cap T) \ (S \ T))
  BY CountAdd, Zenon
<1>2. (S \ T) \cup (S \cap T) = S /\ (S \cap T) \ (S \ T) = T \cap S
  BY Zenon
<1> DEFINE d == Cardinality(S \ T)
           t == Cardinality(T \cap S)
<1>3. d \in Nat /\ t \in Nat /\ Cardinality(S) = d + t
  BY <1>1, <1>2, Zenon
<1> HIDE DEF d, t
<1>4. d = Cardinality(S) - t
  BY <1>3
<1> QED
  BY <1>3, <1>4, Zenon DEF d, t

\* pmm_add_available_range and pmm_reserve_range keep the counter exact.
LEMMA AddKeepsCount ==
  ASSUME PmmTypeOK, CountExact, NEW a, NEW l, AddAvailableRange(a, l)
  PROVE  /\ bitmap' \subseteq 0 .. total_frames - 1
         /\ free_frames' \in Nat /\ CountExact'
<1> DEFINE R == FramesOf(a, l)
<1>1. /\ total_frames \in Nat /\ bitmap \in SUBSET (0 .. total_frames - 1)
      /\ R \in SUBSET (0 .. total_frames - 1)
  BY FramesReal, Zenon DEF PmmTypeOK
<1>2. bitmap' = bitmap \cup R /\ free_frames' = free_frames + Cardinality(R \ bitmap)
  BY Zenon DEF AddAvailableRange
<1>3. free_frames = Cardinality(bitmap)
  BY Zenon DEF CountExact
<1> HIDE DEF R
<1>4. /\ Cardinality(bitmap) \in Nat
      /\ Cardinality(R \ bitmap) \in Nat
      /\ Cardinality(bitmap \cup R) = Cardinality(bitmap) + Cardinality(R \ bitmap)
  BY <1>1, CountAdd, Zenon
<1>5. free_frames' = Cardinality(bitmap')
  BY <1>2, <1>3, <1>4, Zenon
<1>6. free_frames' \in Nat
  BY <1>2, <1>3, <1>4
<1> QED
  BY <1>1, <1>2, <1>5, <1>6, Zenon DEF CountExact

LEMMA ReserveKeepsCount ==
  ASSUME PmmTypeOK, CountExact, NEW a, NEW l, ReserveRange(a, l)
  PROVE  /\ bitmap' \subseteq 0 .. total_frames - 1
         /\ free_frames' \in Nat /\ CountExact'
<1> DEFINE R == FramesOf(a, l)
<1>1. /\ total_frames \in Nat /\ bitmap \in SUBSET (0 .. total_frames - 1)
      /\ R \in SUBSET (0 .. total_frames - 1)
  BY FramesReal DEF PmmTypeOK
<1>2. bitmap' = bitmap \ R /\ free_frames' = free_frames - Cardinality(R \cap bitmap)
  BY Zenon DEF ReserveRange
<1>3. free_frames = Cardinality(bitmap)
  BY DEF CountExact
<1> HIDE DEF R
<1>4. /\ Cardinality(bitmap \ R) \in Nat
      /\ Cardinality(bitmap \ R) = Cardinality(bitmap) - Cardinality(R \cap bitmap)
  BY <1>1, CountTake, Zenon
<1>5. free_frames' = Cardinality(bitmap') /\ free_frames' \in Nat
  BY <1>2, <1>3, <1>4, Zenon
<1> QED
  BY <1>1, <1>2, <1>5, Zenon DEF CountExact

-------------------------------------------------------------------------------
LEMMA InitPmmInv == PmmInit => PmmInv
<1> SUFFICES ASSUME PmmInit PROVE PmmInv
  BY Zenon
<1> USE PmmAssumption
<1>1. PmmTypeOK
  <2>1. Len(map.entries) \in Nat
    BY DEF PmmInit
  <2> QED
    BY <2>1 DEF PmmInit, PmmTypeOK
<1>2. CountExact
  BY FS_EmptySet, Zenon DEF PmmInit, CountExact
<1> QED
  BY <1>1, <1>2, Zenon DEF PmmInit, PmmInv, Progress, Conserved

LEMMA InitializeStep == PmmInv /\ Initialize => PmmInv'
<1> SUFFICES ASSUME PmmInv, Initialize PROVE PmmInv'
  BY Zenon
<1> USE PmmAssumption
<1>1. /\ map' = map /\ entry' = 1 /\ bitmap' = {} /\ free_frames' = 0 /\ held' = {}
      /\ pc' = "mark" /\ total_frames' = FramesFor(max_memory')
  BY Zenon DEF Initialize, PmmInv, Progress
<1>2. map \in [found : BOOLEAN, entries : Seq(Entry)]
  BY Zenon DEF PmmInv, PmmTypeOK
<1>3. \A e \in Ends : e \in Nat
  <2>1. \A k \in DOMAIN map.entries :
          map.entries[k].addr \in Nat /\ map.entries[k].len \in Nat
    <3>1. map.entries \in Seq(Entry)
      BY <1>2, Zenon
    <3>2. \A k \in DOMAIN map.entries : map.entries[k] \in Entry
      BY <3>1
    <3> QED
      BY <3>2, Zenon DEF Entry
  <2> QED
    BY <2>1 DEF Ends
<1>4. max_memory' \in Nat
  BY <1>3, Zenon DEF Initialize
<1>5. total_frames' \in Nat
  <2>1. (max_memory' + FRAME_SIZE - 1) \div FRAME_SIZE \in Nat
    BY <1>4, RoundUpNat, Zenon
  <2>2. BITMAP_WORDS * WORD \in Nat
    OBVIOUS
  <2> QED
    BY <1>1, <2>1, <2>2, Zenon DEF FramesFor
<1>6. PmmTypeOK'
  <2>1. Len(map.entries) \in Nat
    BY <1>2
  <2> QED
    BY <1>1, <1>4, <1>5, <2>1 DEF PmmInv, PmmTypeOK
<1>7. CountExact'
  BY <1>1, FS_EmptySet, Zenon DEF CountExact
<1>8. Marked' = {}
  <2>1. \A k \in DOMAIN map.entries : ~(k < 1)
    BY <1>2
  <2> QED
    BY <1>1, <2>1, Zenon DEF Marked
<1> QED
  BY <1>1, <1>6, <1>7, <1>8, Zenon DEF PmmInv, Progress, Conserved

LEMMA MarkEntryStep == PmmInv /\ MarkEntry => PmmInv'
<1> SUFFICES ASSUME PmmInv, MarkEntry PROVE PmmInv'
  OBVIOUS
<1> USE PmmAssumption
<1>1. /\ UNCHANGED <<pc, map, max_memory, total_frames, held>> /\ pc = "mark"
      /\ entry' = entry + 1 /\ entry <= Len(map.entries)
      /\ bitmap = Marked /\ held = {}
  BY Zenon DEF MarkEntry, PmmInv, Progress
<1>2. map \in [found : BOOLEAN, entries : Seq(Entry)] /\ entry \in Nat \ {0}
  BY DEF PmmInv, PmmTypeOK
<1>3. entry \in DOMAIN map.entries /\ \A k \in DOMAIN map.entries : k \in Nat
  BY <1>1, <1>2
<1> DEFINE F(k) == FramesOf(map.entries[k].addr, map.entries[k].len)
           e == map.entries[entry]
<1>4. /\ bitmap' \subseteq 0 .. total_frames - 1 /\ free_frames' \in Nat /\ CountExact'
      /\ bitmap' = IF e.type = 1 THEN bitmap \cup F(entry) ELSE bitmap
  <2>1. CASE e.type = 1
    BY <2>1, AddKeepsCount, Zenon DEF MarkEntry, AddAvailableRange, PmmInv
  <2>2. CASE e.type # 1
    BY <2>2, Zenon DEF MarkEntry, PmmInv, PmmTypeOK, CountExact
  <2> QED
    BY <2>1, <2>2, Zenon
<1>5. PmmTypeOK'
  BY <1>1, <1>2, <1>4 DEF PmmInv, PmmTypeOK
<1>6. \A k \in DOMAIN map.entries : F(k)' = F(k)
  BY <1>1, Zenon DEF FramesOf
<1>7. \A k \in DOMAIN map.entries : k < entry + 1 <=> k < entry \/ k = entry
  BY <1>2, <1>3
<1>8. F(entry) \subseteq 0 .. total_frames - 1
  BY FramesReal, Zenon
<1>9. Marked' = bitmap'
  <2>1. Marked' = {f \in 0 .. total_frames - 1 :
                     \E k \in DOMAIN map.entries :
                       k < entry + 1 /\ map.entries[k].type = 1 /\ f \in F(k)}
    BY <1>1, <1>6 DEF Marked
  <2>2. Marked = {f \in 0 .. total_frames - 1 :
                    \E k \in DOMAIN map.entries :
                      k < entry /\ map.entries[k].type = 1 /\ f \in F(k)}
    BY Zenon DEF Marked
  <2> HIDE DEF F
  <2> QED
    BY <1>1, <1>3, <1>4, <1>7, <1>8, <2>1, <2>2, Zenon
<1> QED
  BY <1>1, <1>4, <1>5, <1>9, Zenon DEF PmmInv, Progress, Conserved

LEMMA MarkDoneStep == PmmInv /\ MarkDone => PmmInv'
<1> SUFFICES ASSUME PmmInv, MarkDone PROVE PmmInv'
  OBVIOUS
<1> USE PmmAssumption
<1>1. /\ UNCHANGED <<map, entry, max_memory, total_frames, held>>
      /\ pc = "mark" /\ pc' = "reserve" /\ entry > Len(map.entries)
      /\ bitmap = Marked /\ held = {}
  BY Zenon DEF MarkDone, PmmInv, Progress
<1>2. map \in MemoryMaps /\ entry \in Nat
  BY DEF PmmInv, PmmTypeOK
<1>3. map.entries \in Seq(Entry) /\ map.found \in BOOLEAN
  BY <1>2, Zenon
<1>4. \A k \in DOMAIN map.entries : k < entry
  BY <1>1, <1>2, <1>3
<1> DEFINE low == FramesOf(LOW_END, max_memory - LOW_END)
<1>5. /\ bitmap' \subseteq 0 .. total_frames - 1 /\ free_frames' \in Nat /\ CountExact'
      /\ bitmap' = IF map.found THEN bitmap ELSE bitmap \cup low
  <2>1. CASE map.found
    BY <2>1, Zenon DEF MarkDone, PmmInv, PmmTypeOK, CountExact
  <2>2. CASE ~map.found
    BY <2>2, AddKeepsCount, Zenon DEF MarkDone, AddAvailableRange, PmmInv
  <2> QED
    BY <2>1, <2>2, Zenon
<1>6. PmmTypeOK'
  BY <1>1, <1>5, Zenon DEF PmmInv, PmmTypeOK
<1>7. Available' = Available
  BY <1>1, Zenon DEF Available, FramesOf
<1>8. bitmap' = Available
  <2>1. CASE map.found
    BY <1>1, <1>4, <1>5, <2>1, Zenon DEF Marked, Available
  <2>2. CASE ~map.found
    <3>1. map.entries = << >>
      BY <1>2, <2>2, Zenon
    <3>2. Marked = {}
      BY <3>1 DEF Marked
    <3>3. low \subseteq 0 .. total_frames - 1
      BY FramesReal, Zenon
    <3>4. Available = low
      BY <2>2, <3>3, Zenon DEF Available
    <3> QED
      BY <1>1, <1>5, <2>2, <3>2, <3>4, Zenon
  <2> QED
    BY <2>1, <2>2, Zenon
<1> QED
  BY <1>1, <1>5, <1>6, <1>7, <1>8, Zenon DEF PmmInv, Progress, Conserved

LEMMA ReserveStep == PmmInv /\ Reserve => PmmInv'
<1> SUFFICES ASSUME PmmInv, Reserve PROVE PmmInv'
  OBVIOUS
<1>1. /\ UNCHANGED <<map, entry, max_memory, total_frames, held>>
      /\ pc = "reserve" /\ pc' = "run" /\ bitmap = Available /\ held = {}
      /\ ReserveRange(0, RESERVED_END)
  BY Zenon DEF Reserve, PmmInv, Progress
<1>2. /\ bitmap' \subseteq 0 .. total_frames - 1 /\ free_frames' \in Nat /\ CountExact'
      /\ bitmap' = Available \ FramesOf(0, RESERVED_END)
  BY <1>1, ReserveKeepsCount, Zenon DEF PmmInv, ReserveRange
<1>3. PmmTypeOK'
  BY <1>1, <1>2, Zenon DEF PmmInv, PmmTypeOK
<1>4. Available' = Available /\ FramesOf(0, RESERVED_END)' = FramesOf(0, RESERVED_END)
  BY <1>1, Zenon DEF Available, FramesOf
<1>5. Conserved'
  BY <1>1, <1>2, <1>4, Zenon DEF Conserved
<1> QED
  BY <1>1, <1>2, <1>3, <1>5, Zenon DEF PmmInv, Progress

LEMMA AllocateStep == PmmInv /\ AllocateFrame => PmmInv'
<1> SUFFICES ASSUME PmmInv, AllocateFrame PROVE PmmInv'
  OBVIOUS
<1>1. PICK f \in bitmap : bitmap' = bitmap \ {f} /\ held' = held \cup {f}
  BY Zenon DEF AllocateFrame
<1>2. /\ UNCHANGED <<pc, map, entry, max_memory, total_frames>> /\ pc = "run"
      /\ free_frames' = free_frames - 1
  BY Zenon DEF AllocateFrame
<1>3. IsFiniteSet(bitmap)
  <2>1. total_frames \in Nat /\ bitmap \subseteq 0 .. total_frames - 1
    BY Zenon DEF PmmInv, PmmTypeOK
  <2>2. IsFiniteSet(0 .. total_frames - 1)
    BY <2>1, FS_Interval
  <2> QED
    BY <2>1, <2>2, FS_Subset, Zenon
<1>4. Cardinality(bitmap) \in Nat /\ Cardinality(bitmap \ {f}) = Cardinality(bitmap) - 1
  BY <1>3, FS_RemoveElement, FS_CardinalityType, Zenon
<1>5. Cardinality(bitmap \ {f}) \in Nat
  <2>1. IsFiniteSet(bitmap \ {f})
    BY <1>3, FS_RemoveElement, Zenon
  <2> QED
    BY <2>1, FS_CardinalityType, Zenon
<1>6. CountExact' /\ free_frames' \in Nat
  BY <1>1, <1>2, <1>4, <1>5, Zenon DEF PmmInv, CountExact
<1>7. PmmTypeOK'
  BY <1>1, <1>2, <1>6, Zenon DEF PmmInv, PmmTypeOK
<1>8. Available' = Available /\ FramesOf(0, RESERVED_END)' = FramesOf(0, RESERVED_END)
  BY <1>2, Zenon DEF Available, FramesOf
<1>9. Conserved'
  BY <1>1, <1>2, <1>8, Zenon DEF PmmInv, Conserved
<1> QED
  BY <1>2, <1>6, <1>7, <1>9, Zenon DEF PmmInv, Progress

LEMMA FreeStep == ASSUME PmmInv, NEW f \in held, FreeFrame(f) PROVE PmmInv'
<1>1. /\ bitmap' = bitmap \cup {f} /\ held' = held \ {f} /\ pc = "run"
      /\ free_frames' = free_frames + 1
      /\ UNCHANGED <<pc, map, entry, max_memory, total_frames>>
  BY Zenon DEF FreeFrame
<1>2. f \notin bitmap
  BY <1>1, Zenon DEF PmmInv, Conserved
<1>3. IsFiniteSet(bitmap)
  <2>1. total_frames \in Nat /\ bitmap \subseteq 0 .. total_frames - 1
    BY Zenon DEF PmmInv, PmmTypeOK
  <2>2. IsFiniteSet(0 .. total_frames - 1)
    BY <2>1, FS_Interval
  <2> QED
    BY <2>1, <2>2, FS_Subset, Zenon
<1>4. Cardinality(bitmap \cup {f}) = Cardinality(bitmap) + 1
  BY <1>2, <1>3, FS_AddElement, Zenon
<1>5. CountExact'
  BY <1>1, <1>4, Zenon DEF PmmInv, CountExact
<1>6. PmmTypeOK'
  BY <1>1 DEF PmmInv, PmmTypeOK
<1>7. Available' = Available /\ FramesOf(0, RESERVED_END)' = FramesOf(0, RESERVED_END)
  BY <1>1 DEF Available, FramesOf
<1>8. Conserved'
  BY <1>1, <1>2, <1>7, Zenon DEF PmmInv, Conserved
<1> QED
  BY <1>1, <1>5, <1>6, <1>8, Zenon DEF PmmInv, Progress

LEMMA StutterStep == PmmInv /\ UNCHANGED pmmVars => PmmInv'
<1> SUFFICES ASSUME PmmInv, UNCHANGED pmmVars PROVE PmmInv'
  BY Zenon
<1>1. /\ Available' = Available /\ Marked' = Marked
      /\ FramesOf(0, RESERVED_END)' = FramesOf(0, RESERVED_END)
  BY DEF pmmVars, Available, Marked, FramesOf
<1> QED
  BY <1>1, Zenon DEF pmmVars, PmmInv, PmmTypeOK, CountExact, Progress, Conserved

\* The memory manager's invariant, from the first look at the memory map to
\* any number of allocations and releases.
THEOREM PmmInvariance == PmmSpec => []PmmInv
<1>1. PmmInv /\ [PmmNext]_pmmVars => PmmInv'
  BY InitializeStep, MarkEntryStep, MarkDoneStep, ReserveStep, AllocateStep, FreeStep,
     StutterStep, Zenon DEF PmmNext, AllocateNothing
<1> QED
  BY InitPmmInv, <1>1, PTL DEF PmmSpec

\* No bit is ever set for a frame past the end of memory.
THEOREM PmmTypeCorrect == PmmSpec => []PmmTypeOK
<1>1. PmmInv => PmmTypeOK
  BY Zenon DEF PmmInv
<1> QED
  BY PmmInvariance, <1>1, PTL

\* free_frames is the number of free frames.
THEOREM CountCorrect == PmmSpec => []CountExact
<1>1. PmmInv => CountExact
  BY Zenon DEF PmmInv
<1> QED
  BY PmmInvariance, <1>1, PTL

\* The free and the held frames are exactly the usable memory.
THEOREM ConservedCorrect == PmmSpec => []Conserved
<1>1. PmmInv => Conserved
  BY Zenon DEF PmmInv
<1> QED
  BY PmmInvariance, <1>1, PTL

-------------------------------------------------------------------------------
\* Different frames share no byte, and only frame 0 is at address 0.
LEMMA FramesApart ==
  ASSUME NEW f \in Nat, NEW g \in Nat, f < g
  PROVE  f * FRAME_SIZE + FRAME_SIZE <= g * FRAME_SIZE /\ g * FRAME_SIZE # 0
<1> USE PmmAssumption
<1>1. PICK k \in Nat : g = f + 1 + k
  <2>1. g - (f + 1) \in Nat /\ g = f + 1 + (g - (f + 1))
    OBVIOUS
  <2> QED
    BY <2>1, Zenon
<1>2. g * FRAME_SIZE = f * FRAME_SIZE + FRAME_SIZE + k * FRAME_SIZE
  BY <1>1
<1>3. f * FRAME_SIZE \in Nat /\ k * FRAME_SIZE \in Nat
  BY <1>1
<1> QED
  BY <1>2, <1>3

\* pmm_allocate_frame and pmm_free_frame implement the abstract allocator: a
\* frame handed out overlaps none in use, and is never the one at address 0.
THEOREM PmmRefinement == PmmSpec => FramesImplementAllocator
<1>1. PmmInit => FA!Init
  BY Zenon DEF PmmInit, FA!Init, HeldFrames
<1>2. PmmInv /\ [PmmNext]_pmmVars => [FA!Next]_HeldFrames
  <2> SUFFICES ASSUME PmmInv, [PmmNext]_pmmVars PROVE [FA!Next]_HeldFrames
    BY Zenon
  <2> USE PmmAssumption
  <2>1. ASSUME held' = held PROVE HeldFrames' = HeldFrames
    BY <2>1, Zenon DEF HeldFrames
  <2>2. CASE AllocateFrame
    <3>1. PICK f \in bitmap : held' = held \cup {f}
      BY <2>2, Zenon DEF AllocateFrame
    <3>2. f \in 0 .. total_frames - 1 /\ total_frames \in Nat /\ f \in Nat
          /\ held \subseteq Nat /\ f \notin held /\ f \notin FramesOf(0, RESERVED_END)
      BY <2>2 DEF AllocateFrame, PmmInv, PmmTypeOK, Conserved
    <3>3. f # 0
      BY <3>2, ZeroReserved, Zenon
    <3> DEFINE r == [addr |-> f * FRAME_SIZE, len |-> FRAME_SIZE]
    <3>4. r.addr # 0 /\ r.len # 0
      BY <3>2, <3>3, FramesApart
    <3>5. \A s \in HeldFrames : FA!Disjoint(r, s) /\ s # r
      <4> SUFFICES ASSUME NEW g \in held
                   PROVE  LET s == [addr |-> g * FRAME_SIZE, len |-> FRAME_SIZE]
                          IN  FA!Disjoint(r, s) /\ s # r
        BY Zenon DEF HeldFrames
      <4>1. g \in Nat /\ g # f
        BY <3>2, Zenon
      <4>2. \/ f * FRAME_SIZE + FRAME_SIZE <= g * FRAME_SIZE
            \/ g * FRAME_SIZE + FRAME_SIZE <= f * FRAME_SIZE
        BY <3>2, <4>1, FramesApart
      <4>3. f * FRAME_SIZE \in Nat /\ g * FRAME_SIZE \in Nat
        BY <3>2, <4>1
      <4>4. f * FRAME_SIZE # g * FRAME_SIZE
        BY <4>2, <4>3
      <4> QED
        BY <4>2, <4>4, Zenon DEF FA!Disjoint
    <3>6. HeldFrames' = HeldFrames \cup {r}
      BY <3>1, Zenon DEF HeldFrames
    <3> HIDE DEF r
    <3>7. r \in HeldFrames' \ HeldFrames
      BY <3>5, <3>6, Zenon
    <3> QED
      BY <3>4, <3>5, <3>6, <3>7, Zenon DEF FA!Next, FA!Allocate
  <2>3. ASSUME NEW f \in held, FreeFrame(f) PROVE FA!Next
    <3>1. held' = held \ {f} /\ held \subseteq Nat
      BY <2>3 DEF FreeFrame, PmmInv, PmmTypeOK
    <3> DEFINE r == [addr |-> f * FRAME_SIZE, len |-> FRAME_SIZE]
    <3>2. \A g \in held : g # f => g * FRAME_SIZE # f * FRAME_SIZE
      <4> SUFFICES ASSUME NEW g \in held, g # f PROVE g * FRAME_SIZE # f * FRAME_SIZE
        BY Zenon
      <4>1. g \in Nat /\ f \in Nat /\ f * FRAME_SIZE \in Nat /\ g * FRAME_SIZE \in Nat
        BY <3>1
      <4> QED
        BY <4>1, FramesApart
    <3>3. r \in HeldFrames
      BY Zenon DEF HeldFrames
    <3>4. HeldFrames' = HeldFrames \ {r}
      BY <3>1, <3>2 DEF HeldFrames
    <3> QED
      BY <3>3, <3>4, Zenon DEF FA!Next, FA!Release
  <2> QED
    BY <2>1, <2>2, <2>3, Zenon DEF PmmNext, pmmVars, Initialize, MarkEntry, MarkDone, Reserve, AllocateNothing
<1> QED
  BY <1>1, <1>2, PmmInvariance, PTL DEF PmmSpec, FramesImplementAllocator, FA!Spec

-------------------------------------------------------------------------------
(***************************************************************************)
(* The heap (Heap)                                                         *)
(***************************************************************************)

\* A live object is no larger than its cache admits, a live block not empty.
SizesFit ==
  /\ \A c \in Caches, i \in Slots :
       slab_used[c][i] => slab_size[c][i] \in 1 .. Limit[c]
  /\ \A i \in Blocks : buddy_used[i] => buddy_size[i] # 0

HeapInv == HeapTypeOK /\ SizesFit /\ MergedOwnsNext /\ FreeCountExact

-------------------------------------------------------------------------------
(***************************************************************************)
(* The layout: objects and blocks lie apart.                               *)
(***************************************************************************)

\* Places w apart hold w units each.
LEMMA Spacing ==
  ASSUME NEW i \in Nat, NEW j \in Nat, NEW w \in Nat, i < j
  PROVE  i * w \in Nat /\ j * w \in Nat /\ i * w + w <= j * w
<1>1. PICK k \in Nat : j = i + 1 + k
  <2>1. j - (i + 1) \in Nat /\ j = i + 1 + (j - (i + 1))
    OBVIOUS
  <2> QED
    BY <2>1, Zenon
<1>2. j * w = i * w + w + k * w
  BY <1>1
<1>3. i * w \in Nat /\ k * w \in Nat /\ j * w \in Nat
  BY <1>1
<1> QED
  BY <1>2, <1>3

\* Two objects of the slabs are at least STRIDE apart.
LEMMA SlabsApart ==
  ASSUME NEW c \in Caches, NEW i \in Slots, NEW d \in Caches, NEW j \in Slots,
         c # d \/ i # j
  PROVE  /\ SlabAddress(c, i) \in Nat /\ SlabAddress(d, j) \in Nat
         /\ \/ SlabAddress(c, i) + STRIDE <= SlabAddress(d, j)
            \/ SlabAddress(d, j) + STRIDE <= SlabAddress(c, i)
<1> USE HeapAssumption DEF Caches, Slots
<1>1. /\ c * SPAN \in Nat /\ d * SPAN \in Nat /\ i * STRIDE \in Nat /\ j * STRIDE \in Nat
      /\ SLOTS * STRIDE \in Nat
  OBVIOUS
<1>2. i * STRIDE + STRIDE <= SLOTS * STRIDE /\ j * STRIDE + STRIDE <= SLOTS * STRIDE
  <2>1. i < SLOTS /\ j < SLOTS /\ i \in Nat /\ j \in Nat
    OBVIOUS
  <2> QED
    BY <2>1, Spacing, Zenon
<1>3. /\ c < d => c * SPAN + SPAN <= d * SPAN
      /\ d < c => d * SPAN + SPAN <= c * SPAN
      /\ i < j => i * STRIDE + STRIDE <= j * STRIDE
      /\ j < i => j * STRIDE + STRIDE <= i * STRIDE
  BY Spacing
<1>4. c = d => c * SPAN = d * SPAN
  BY Zenon
<1> DEFINE cs == c * SPAN  ds == d * SPAN  is == i * STRIDE  js == j * STRIDE
           room == SLOTS * STRIDE
<1>5. /\ SlabAddress(c, i) = SLAB_BASE + cs + is /\ SlabAddress(d, j) = SLAB_BASE + ds + js
      /\ cs \in Nat /\ ds \in Nat /\ is \in Nat /\ js \in Nat /\ room \in Nat
      /\ is + STRIDE <= room /\ js + STRIDE <= room /\ room <= SPAN
      /\ (c < d => cs + SPAN <= ds) /\ (d < c => ds + SPAN <= cs) /\ (c = d => cs = ds)
      /\ (i < j => is + STRIDE <= js) /\ (j < i => js + STRIDE <= is)
  BY <1>1, <1>2, <1>3, <1>4, Zenon DEF SlabAddress
<1>6. c < d \/ d < c \/ (c = d /\ i < j) \/ (c = d /\ j < i)
  OBVIOUS
<1> HIDE DEF cs, ds, is, js, room
<1> QED
  BY <1>5, <1>6

\* The slabs end below the first block.
LEMMA SlabsBelowBlocks ==
  ASSUME NEW c \in Caches, NEW i \in Slots, NEW j \in Blocks
  PROVE  /\ SlabAddress(c, i) \in Nat \ {0} /\ BuddyAddress(j) \in Nat
         /\ SlabAddress(c, i) + STRIDE <= BuddyAddress(j)
<1> USE HeapAssumption DEF Caches, Slots, Blocks
<1>1. /\ c * SPAN \in Nat /\ CACHES * SPAN \in Nat /\ i * STRIDE \in Nat
      /\ SLOTS * STRIDE \in Nat /\ j * BLOCK \in Nat
  OBVIOUS
<1>2. i * STRIDE + STRIDE <= SLOTS * STRIDE
  <2>1. i < SLOTS /\ i \in Nat
    OBVIOUS
  <2> QED
    BY <2>1, Spacing, Zenon
<1>3. c * SPAN + SPAN <= CACHES * SPAN
  <2>1. c < CACHES /\ c \in Nat
    OBVIOUS
  <2> QED
    BY <2>1, Spacing, Zenon
<1> DEFINE cs == c * SPAN  all == CACHES * SPAN  is == i * STRIDE
           room == SLOTS * STRIDE  bj == j * BLOCK
<1>4. /\ SlabAddress(c, i) = SLAB_BASE + cs + is /\ BuddyAddress(j) = BUDDY_BASE + bj
      /\ cs \in Nat /\ all \in Nat /\ is \in Nat /\ room \in Nat /\ bj \in Nat
      /\ is + STRIDE <= room /\ room <= SPAN
      /\ cs + SPAN <= all /\ SLAB_BASE + all <= BUDDY_BASE
  BY <1>1, <1>2, <1>3, Zenon DEF SlabAddress, BuddyAddress
<1> HIDE DEF cs, all, is, room, bj
<1> QED
  BY <1>4

\* A block has its own room, and a block and the dead one behind it two.
LEMMA BlocksApart ==
  ASSUME NEW i \in Blocks, NEW j \in Blocks, i < j
  PROVE  /\ BuddyAddress(i) \in Nat /\ BuddyAddress(j) \in Nat
         /\ BuddyAddress(i) + BLOCK <= BuddyAddress(j)
         /\ i + 1 # j => BuddyAddress(i) + 2 * BLOCK <= BuddyAddress(j)
<1> USE HeapAssumption DEF Blocks, BuddyAddress
<1>1. i * BLOCK \in Nat /\ j * BLOCK \in Nat /\ i * BLOCK + BLOCK <= j * BLOCK
  BY Spacing
<1>2. CASE i + 1 # j
  <2>1. (i + 1) * BLOCK + BLOCK <= j * BLOCK
    BY <1>2, Spacing
  <2>2. (i + 1) * BLOCK = i * BLOCK + BLOCK
    OBVIOUS
  <2> QED
    BY <1>1, <1>2, <2>1, <2>2
<1> QED
  BY <1>1, <1>2

\* Coalescing only ever joins two blocks that still have their full size.
LEMMA MergeableFull ==
  ASSUME NEW i \in Blocks, i + 1 \in Blocks, HeapTypeOK, Mergeable(i)
  PROVE  buddy_size[i] = BLOCK /\ buddy_size[i + 1] = BLOCK
<1> USE HeapAssumption DEF Blocks
<1>1. (i + 1) * BLOCK = i * BLOCK + BLOCK /\ i * BLOCK \in Nat
  OBVIOUS
<1>2. buddy_size[i] \in Nat
  BY DEF HeapTypeOK
<1> QED
  BY <1>1, <1>2 DEF Mergeable, BuddyAddress

-------------------------------------------------------------------------------
(***************************************************************************)
(* The invariant.                                                          *)
(***************************************************************************)

\* Taking one object from a cache, or giving it back, moves the number of
\* free objects by one.
LEMMA CountFree ==
  ASSUME NEW f \in [Slots -> BOOLEAN], NEW g \in [Slots -> BOOLEAN], NEW i \in Slots,
         ~f[i], g[i], \A j \in Slots : j # i => f[j] = g[j]
  PROVE  /\ Cardinality(FreeSlots(f)) \in Nat \ {0}
         /\ Cardinality(FreeSlots(g)) \in Nat
         /\ Cardinality(FreeSlots(f)) = Cardinality(FreeSlots(g)) + 1
<1> DEFINE F == FreeSlots(f)
           G == FreeSlots(g)
<1>1. IsFiniteSet(Slots)
  BY FS_Interval, HeapAssumption DEF Slots
<1>2. IsFiniteSet(F) /\ IsFiniteSet(G)
  BY <1>1, FS_Subset, Zenon DEF FreeSlots
<1>3. F = G \cup {i} /\ i \notin G
  BY Zenon DEF FreeSlots
<1>4. Cardinality(F) = Cardinality(G) + 1
  BY <1>2, <1>3, FS_AddElement, Zenon
<1>5. Cardinality(G) \in Nat
  BY <1>2, FS_CardinalityType, Zenon
<1> QED
  BY <1>4, <1>5

LEMMA InitHeapInv == HeapInit => HeapInv
<1> SUFFICES ASSUME HeapInit PROVE HeapInv
  OBVIOUS
<1> USE HeapAssumption
<1>1. HeapTypeOK
  BY DEF HeapInit, HeapTypeOK
<1>2. SizesFit /\ MergedOwnsNext
  BY DEF HeapInit, SizesFit, MergedOwnsNext
<1>3. FreeCountExact
  <2>1. Cardinality(Slots) = SLOTS
    BY FS_Interval DEF Slots
  <2>2. \A c \in Caches : FreeSlots(slab_used[c]) = Slots
    BY Zenon DEF HeapInit, FreeSlots
  <2> QED
    BY <2>1, <2>2, Zenon DEF HeapInit, FreeCountExact
<1> QED
  BY <1>1, <1>2, <1>3, Zenon DEF HeapInv

LEMMA KmallocSlabStep ==
  ASSUME HeapInv, NEW n \in Requests, NEW c \in Caches, NEW i \in Slots, KmallocSlab(n, c, i)
  PROVE  HeapInv'
<1> USE HeapAssumption
<1>1. /\ slab_used' = [slab_used EXCEPT ![c][i] = TRUE]
      /\ slab_size' = [slab_size EXCEPT ![c][i] = n]
      /\ free_count' = [free_count EXCEPT ![c] = @ - 1]
      /\ UNCHANGED <<buddy_used, buddy_size, index>>
      /\ ~slab_used[c][i] /\ n \in 1 .. Limit[c]
  BY DEF KmallocSlab, buddyVars, Routes
<1>2. /\ slab_used \in [Caches -> [Slots -> BOOLEAN]]
      /\ slab_size \in [Caches -> [Slots -> Nat]]
      /\ free_count \in [Caches -> Nat]
  BY Zenon DEF HeapInv, HeapTypeOK
<1>3. /\ slab_used' \in [Caches -> [Slots -> BOOLEAN]]
      /\ slab_size' \in [Caches -> [Slots -> Nat]]
      /\ slab_used'[c][i] /\ slab_size'[c][i] = n
      /\ \A d \in Caches, j \in Slots :
           d # c \/ j # i => /\ slab_used'[d][j] = slab_used[d][j]
                            /\ slab_size'[d][j] = slab_size[d][j]
      /\ \A d \in Caches : d # c => slab_used'[d] = slab_used[d]
  BY <1>1, <1>2, Zenon
<1>4. /\ Cardinality(FreeSlots(slab_used[c])) \in Nat \ {0}
      /\ Cardinality(FreeSlots(slab_used[c]))
           = Cardinality(FreeSlots(slab_used'[c])) + 1
      /\ Cardinality(FreeSlots(slab_used'[c])) \in Nat
  <2> DEFINE f == slab_used[c]
             g == slab_used'[c]
  <2>1. /\ f \in [Slots -> BOOLEAN] /\ g \in [Slots -> BOOLEAN] /\ ~f[i] /\ g[i]
        /\ \A j \in Slots : j # i => f[j] = g[j]
    BY <1>1, <1>2, <1>3, Zenon
  <2> HIDE DEF f, g
  <2>2. /\ Cardinality(FreeSlots(f)) \in Nat \ {0}
        /\ Cardinality(FreeSlots(g)) \in Nat
        /\ Cardinality(FreeSlots(f)) = Cardinality(FreeSlots(g)) + 1
    BY <2>1, CountFree
  <2> QED
    BY <2>2, Zenon DEF f, g
<1>5. free_count[c] = Cardinality(FreeSlots(slab_used[c]))
  BY Zenon DEF HeapInv, FreeCountExact
<1>6. HeapTypeOK'
  BY <1>1, <1>2, <1>3, <1>4, <1>5 DEF HeapInv, HeapTypeOK
<1>7. SizesFit' /\ MergedOwnsNext'
  BY <1>1, <1>3 DEF HeapInv, SizesFit, MergedOwnsNext
<1>8. FreeCountExact'
  <2> SUFFICES ASSUME NEW d \in Caches
               PROVE  free_count'[d] = Cardinality(FreeSlots(slab_used'[d]))
    BY Zenon DEF FreeCountExact
  <2>1. CASE d = c
    BY <1>1, <1>2, <1>4, <1>5, <2>1
  <2>2. CASE d # c
    <3>1. free_count'[d] = free_count[d] /\ slab_used'[d] = slab_used[d]
      BY <1>1, <1>2, <1>3, <2>2, Zenon
    <3> QED
      BY <3>1, Zenon DEF HeapInv, FreeCountExact
  <2> QED
    BY <2>1, <2>2, Zenon
<1> QED
  BY <1>6, <1>7, <1>8, Zenon DEF HeapInv

LEMMA KfreeSlabStep ==
  ASSUME HeapInv, NEW c \in Caches, NEW i \in Slots, KfreeSlab(c, i)
  PROVE  HeapInv'
<1> USE HeapAssumption
<1>1. /\ slab_used' = [slab_used EXCEPT ![c][i] = FALSE]
      /\ slab_size' = [slab_size EXCEPT ![c][i] = 0]
      /\ free_count' = [free_count EXCEPT ![c] = @ + 1]
      /\ UNCHANGED <<buddy_used, buddy_size, index>>
      /\ slab_used[c][i]
  BY Zenon DEF KfreeSlab, buddyVars
<1>2. /\ slab_used \in [Caches -> [Slots -> BOOLEAN]]
      /\ slab_size \in [Caches -> [Slots -> Nat]]
      /\ free_count \in [Caches -> Nat]
  BY Zenon DEF HeapInv, HeapTypeOK
<1>3. /\ slab_used' \in [Caches -> [Slots -> BOOLEAN]]
      /\ slab_size' \in [Caches -> [Slots -> Nat]]
      /\ ~slab_used'[c][i]
      /\ \A d \in Caches, j \in Slots :
           d # c \/ j # i => /\ slab_used'[d][j] = slab_used[d][j]
                            /\ slab_size'[d][j] = slab_size[d][j]
      /\ \A d \in Caches : d # c => slab_used'[d] = slab_used[d]
  BY <1>1, <1>2, Zenon
<1>4. /\ Cardinality(FreeSlots(slab_used'[c]))
           = Cardinality(FreeSlots(slab_used[c])) + 1
      /\ Cardinality(FreeSlots(slab_used[c])) \in Nat
  <2> DEFINE f == slab_used'[c]
             g == slab_used[c]
  <2>1. /\ f \in [Slots -> BOOLEAN] /\ g \in [Slots -> BOOLEAN] /\ ~f[i] /\ g[i]
        /\ \A j \in Slots : j # i => f[j] = g[j]
    BY <1>1, <1>2, <1>3, Zenon
  <2> HIDE DEF f, g
  <2>2. /\ Cardinality(FreeSlots(f)) \in Nat \ {0}
        /\ Cardinality(FreeSlots(g)) \in Nat
        /\ Cardinality(FreeSlots(f)) = Cardinality(FreeSlots(g)) + 1
    BY <2>1, CountFree
  <2> QED
    BY <2>2, Zenon DEF f, g
<1>5. free_count[c] = Cardinality(FreeSlots(slab_used[c]))
  BY Zenon DEF HeapInv, FreeCountExact
<1>6. HeapTypeOK'
  BY <1>1, <1>2, <1>3 DEF HeapInv, HeapTypeOK
<1>7. SizesFit' /\ MergedOwnsNext'
  BY <1>1, <1>3 DEF HeapInv, SizesFit, MergedOwnsNext
<1>8. FreeCountExact'
  <2> SUFFICES ASSUME NEW d \in Caches
               PROVE  free_count'[d] = Cardinality(FreeSlots(slab_used'[d]))
    BY Zenon DEF FreeCountExact
  <2>1. CASE d = c
    BY <1>1, <1>2, <1>4, <1>5, <2>1, Zenon
  <2>2. CASE d # c
    <3>1. free_count'[d] = free_count[d] /\ slab_used'[d] = slab_used[d]
      BY <1>1, <1>2, <1>3, <2>2
    <3> QED
      BY <3>1, Zenon DEF HeapInv, FreeCountExact
  <2> QED
    BY <2>1, <2>2, Zenon
<1> QED
  BY <1>6, <1>7, <1>8, Zenon DEF HeapInv

\* Steps that leave the slabs alone.
LEMMA SlabsUnchanged ==
  ASSUME HeapInv, UNCHANGED slabVars
  PROVE  /\ FreeCountExact'
         /\ \A c \in Caches, i \in Slots :
              slab_used'[c][i] => slab_size'[c][i] \in 1 .. Limit[c]
BY Zenon DEF HeapInv, SizesFit, FreeCountExact, slabVars, FreeSlots

LEMMA KmallocBuddyStep ==
  ASSUME HeapInv, NEW n \in Requests, NEW i \in Blocks, KmallocBuddy(n, i)
  PROVE  HeapInv'
<1> USE HeapAssumption
<1>1. /\ buddy_used' = [buddy_used EXCEPT ![i] = TRUE]
      /\ buddy_size' = [buddy_size EXCEPT ![i] = n]
      /\ UNCHANGED slabVars /\ index' = index
      /\ n \in Nat /\ n # 0 /\ ~buddy_used[i] /\ n <= buddy_size[i]
  BY Zenon DEF KmallocBuddy, Fits, HeapInv, HeapTypeOK
<1>2. /\ buddy_used'[i] /\ buddy_size'[i] = n
      /\ \A j \in Blocks : j # i => /\ buddy_used'[j] = buddy_used[j]
                                    /\ buddy_size'[j] = buddy_size[j]
  BY <1>1, Zenon DEF HeapInv, HeapTypeOK
<1>3. HeapTypeOK'
  BY <1>1 DEF HeapInv, HeapTypeOK, slabVars
<1>4. MergedOwnsNext'
  <2> SUFFICES ASSUME NEW j \in Blocks, buddy_size'[j] > BLOCK
               PROVE  j + 1 \in Blocks /\ buddy_size'[j + 1] = 0 /\ ~buddy_used'[j + 1]
    BY Zenon DEF MergedOwnsNext
  <2>1. buddy_size[j] > BLOCK
    BY <1>1, <1>2 DEF HeapInv, HeapTypeOK
  <2>2. j + 1 \in Blocks /\ buddy_size[j + 1] = 0 /\ ~buddy_used[j + 1]
    BY <2>1, Zenon DEF HeapInv, MergedOwnsNext
  <2>3. j + 1 # i
    BY <1>1, <2>2
  <2> QED
    BY <1>2, <2>2, <2>3, Zenon
<1>5. SizesFit'
  BY <1>1, <1>2, SlabsUnchanged, Zenon DEF HeapInv, SizesFit
<1> QED
  BY <1>1, <1>3, <1>4, <1>5, SlabsUnchanged DEF HeapInv

LEMMA KfreeBuddyStep ==
  ASSUME HeapInv, NEW i \in Blocks, KfreeBuddy(i)
  PROVE  HeapInv'
<1> USE HeapAssumption
<1>1. /\ buddy_used' = [buddy_used EXCEPT ![i] = FALSE]
      /\ UNCHANGED slabVars /\ buddy_size' = buddy_size /\ index' = index
  BY Zenon DEF KfreeBuddy
<1>2. /\ ~buddy_used'[i]
      /\ \A j \in Blocks : j # i => buddy_used'[j] = buddy_used[j]
  BY <1>1, Zenon DEF HeapInv, HeapTypeOK
<1>3. HeapTypeOK'
  BY <1>1, Zenon DEF HeapInv, HeapTypeOK, slabVars
<1>4. MergedOwnsNext'
  BY <1>1, <1>2, Zenon DEF HeapInv, MergedOwnsNext
<1>5. SizesFit'
  BY <1>1, <1>2, SlabsUnchanged, Zenon DEF HeapInv, SizesFit
<1> QED
  BY <1>1, <1>3, <1>4, <1>5, SlabsUnchanged, Zenon DEF HeapInv

LEMMA CoalesceStepStep == HeapInv /\ CoalesceStep => HeapInv'
<1> SUFFICES ASSUME HeapInv, CoalesceStep PROVE HeapInv'
  OBVIOUS
<1> USE HeapAssumption
<1>1. /\ UNCHANGED slabVars /\ buddy_used' = buddy_used /\ index' = index + 1
      /\ index \in Blocks /\ index + 1 \in Blocks /\ index + 1 # index
      /\ index' \in 0 .. BLOCKS
  BY DEF CoalesceStep, HeapInv, HeapTypeOK, Blocks
<1>2. CASE ~Mergeable(index)
  <2>1. buddy_size' = buddy_size
    BY <1>2, Zenon DEF CoalesceStep
  <2>2. HeapTypeOK' /\ MergedOwnsNext'
    BY <1>1, <2>1, Zenon DEF HeapInv, HeapTypeOK, MergedOwnsNext, slabVars, Blocks
  <2>3. SizesFit'
    BY <1>1, <2>1, SlabsUnchanged, Zenon DEF HeapInv, SizesFit
  <2> QED
    BY <1>1, <2>2, <2>3, SlabsUnchanged, Zenon DEF HeapInv
<1>3. CASE Mergeable(index)
  <2>1. /\ buddy_size[index] = BLOCK /\ buddy_size[index + 1] = BLOCK
        /\ ~buddy_used[index] /\ ~buddy_used[index + 1]
    BY <1>1, <1>3, MergeableFull, Zenon DEF HeapInv, Mergeable
  <2>2. /\ buddy_size' \in [Blocks -> 0 .. 2 * BLOCK]
        /\ buddy_size'[index] = 2 * BLOCK /\ buddy_size'[index + 1] = 0
        /\ \A j \in Blocks : j # index /\ j # index + 1 => buddy_size'[j] = buddy_size[j]
    BY <1>1, <1>3, <2>1 DEF CoalesceStep, HeapInv, HeapTypeOK
  <2>3. HeapTypeOK'
    BY <1>1, <2>2, Zenon DEF HeapInv, HeapTypeOK, slabVars
  <2>4. MergedOwnsNext'
    <3> SUFFICES ASSUME NEW j \in Blocks, buddy_size'[j] > BLOCK
                 PROVE  /\ j + 1 \in Blocks /\ buddy_size'[j + 1] = 0
                        /\ ~buddy_used'[j + 1]
      BY Zenon DEF MergedOwnsNext
    <3>1. CASE j = index
      BY <1>1, <2>1, <2>2, <3>1, Zenon
    <3>2. CASE j # index
      <4>1. j # index + 1
        BY <2>2
      <4>2. /\ j + 1 \in Blocks /\ buddy_size[j + 1] = 0
            /\ ~buddy_used[j + 1]
        BY <2>2, <3>2, <4>1, Zenon DEF HeapInv, MergedOwnsNext
      <4>3. j + 1 # index /\ j + 1 # index + 1
        BY <2>1, <4>2, Zenon
      <4> QED
        BY <1>1, <2>2, <4>2, <4>3
    <3> QED
      BY <3>1, <3>2, Zenon
  <2>5. SizesFit'
    BY <1>1, <2>1, <2>2, SlabsUnchanged, Zenon DEF HeapInv, SizesFit
  <2> QED
    BY <1>1, <2>3, <2>4, <2>5, SlabsUnchanged, Zenon DEF HeapInv
<1> QED
  BY <1>2, <1>3, Zenon

\* Steps that touch neither the slabs nor the blocks.
LEMMA IdleStep ==
  ASSUME HeapInv, UNCHANGED <<slabVars, buddyVars>>, index' \in 0 .. BLOCKS
  PROVE  HeapInv'
<1>1. HeapTypeOK' /\ MergedOwnsNext'
  BY Zenon DEF HeapInv, HeapTypeOK, MergedOwnsNext, slabVars, buddyVars
<1>2. SizesFit'
  BY Zenon DEF HeapInv, SizesFit, slabVars, buddyVars
<1> QED
  BY <1>1, <1>2, SlabsUnchanged, Zenon DEF HeapInv

\* The heap's bookkeeping stays consistent through any sequence of calls.
THEOREM HeapInvariance == HeapSpec => []HeapInv
<1>1. HeapInv /\ [HeapNext]_heapVars => HeapInv'
  <2> SUFFICES ASSUME HeapInv, [HeapNext]_heapVars PROVE HeapInv'
    BY Zenon
  <2> USE HeapAssumption
  <2>1. CASE UNCHANGED heapVars
    BY <2>1, IdleStep, Zenon DEF heapVars, HeapInv, HeapTypeOK
  <2>2. CASE CoalesceBegin \/ CoalesceEnd
    BY <2>2, IdleStep DEF CoalesceBegin, CoalesceEnd
  <2>3. CASE \E n \in Requests, c \in Caches, i \in Slots : KmallocSlab(n, c, i)
    BY <2>3, KmallocSlabStep, Zenon
  <2>4. CASE \E n \in Requests, i \in Blocks : KmallocBuddy(n, i)
    BY <2>4, KmallocBuddyStep, Zenon
  <2>5. CASE \E c \in Caches, i \in Slots : KfreeSlab(c, i)
    BY <2>5, KfreeSlabStep, Zenon
  <2>6. CASE \E i \in Blocks : KfreeBuddy(i)
    BY <2>6, KfreeBuddyStep, Zenon
  <2>7. CASE CoalesceStep
    BY <2>7, CoalesceStepStep, Zenon
  <2> QED
    BY <2>1, <2>2, <2>3, <2>4, <2>5, <2>6, <2>7, Zenon DEF HeapNext
<1> QED
  BY InitHeapInv, <1>1, PTL DEF HeapSpec

\* The heap's fields keep their types.
THEOREM HeapTypeCorrect == HeapSpec => []HeapTypeOK
<1>1. HeapInv => HeapTypeOK
  BY Zenon DEF HeapInv
<1> QED
  BY HeapInvariance, <1>1, PTL

\* free_count is exact after every kmalloc and kfree.
THEOREM FreeCountCorrect == HeapSpec => []FreeCountExact
<1>1. HeapInv => FreeCountExact
  BY Zenon DEF HeapInv
<1> QED
  BY HeapInvariance, <1>1, PTL

\* heap_coalesce never lets a merged block and its dead neighbour both be used.
THEOREM MergeCorrect == HeapSpec => []MergedOwnsNext
<1>1. HeapInv => MergedOwnsNext
  BY Zenon DEF HeapInv
<1> QED
  BY HeapInvariance, <1>1, PTL

-------------------------------------------------------------------------------
(***************************************************************************)
(* HeapRefinement.                                                             *)
(***************************************************************************)

\* LiveRegions regions of different places share no byte.
Apart ==
  /\ \A c, d \in Caches, i, j \in Slots :
       slab_used[c][i] /\ slab_used[d][j] /\ (c # d \/ i # j)
         => HA!Disjoint(SlabRegion(c, i), SlabRegion(d, j))
  /\ \A c \in Caches, i \in Slots, j \in Blocks :
       slab_used[c][i] => HA!Disjoint(SlabRegion(c, i), BuddyRegion(j))
  /\ \A i, j \in Blocks :
       buddy_used[i] /\ buddy_used[j] /\ i # j
         => HA!Disjoint(BuddyRegion(i), BuddyRegion(j))

\* Every live region is in the heap and not empty.
Sound ==
  /\ \A c \in Caches, i \in Slots :
       slab_used[c][i] => /\ SlabAddress(c, i) \in Nat \ {0}
                          /\ slab_size[c][i] \in Nat \ {0}
  /\ \A i \in Blocks :
       buddy_used[i] => /\ BuddyAddress(i) \in Nat \ {0}
                        /\ buddy_size[i] \in Nat \ {0}

LEMMA LiveApart == HeapInv => Apart /\ Sound
<1> SUFFICES ASSUME HeapInv PROVE Apart /\ Sound
  BY Zenon
<1> USE HeapAssumption
<1>1. \A c \in Caches, i \in Slots :
        slab_used[c][i] => slab_size[c][i] \in Nat \ {0} /\ slab_size[c][i] <= STRIDE
  BY DEF HeapInv, SizesFit
<1>2. ASSUME NEW c \in Caches, NEW d \in Caches, NEW i \in Slots, NEW j \in Slots,
             slab_used[c][i], slab_used[d][j], c # d \/ i # j
      PROVE  HA!Disjoint(SlabRegion(c, i), SlabRegion(d, j))
  <2>1. /\ SlabAddress(c, i) \in Nat /\ SlabAddress(d, j) \in Nat
        /\ \/ SlabAddress(c, i) + STRIDE <= SlabAddress(d, j)
           \/ SlabAddress(d, j) + STRIDE <= SlabAddress(c, i)
    BY <1>2, SlabsApart, Zenon
  <2> QED
    BY <1>1, <1>2, <2>1 DEF HA!Disjoint, SlabRegion
<1>3. ASSUME NEW c \in Caches, NEW i \in Slots, NEW j \in Blocks, slab_used[c][i]
      PROVE  HA!Disjoint(SlabRegion(c, i), BuddyRegion(j))
  BY <1>1, <1>3, SlabsBelowBlocks DEF HA!Disjoint, SlabRegion, BuddyRegion
<1>4. ASSUME NEW i \in Blocks, NEW j \in Blocks, buddy_used[i], buddy_used[j], i < j
      PROVE  HA!Disjoint(BuddyRegion(i), BuddyRegion(j))
  <2>1. buddy_size[i] \in Nat /\ buddy_size[i] <= 2 * BLOCK
    BY DEF HeapInv, HeapTypeOK
  <2>2. buddy_size[i] > BLOCK => i + 1 # j
    BY <1>4, Zenon DEF HeapInv, MergedOwnsNext
  <2>3. BuddyAddress(i) + buddy_size[i] <= BuddyAddress(j)
    BY <1>4, <2>1, <2>2, BlocksApart
  <2> QED
    BY <2>3, Zenon DEF HA!Disjoint, BuddyRegion
<1>5. Apart
  <2>1. ASSUME NEW i \in Blocks, NEW j \in Blocks, buddy_used[i], buddy_used[j], i # j
        PROVE  HA!Disjoint(BuddyRegion(i), BuddyRegion(j))
    <3>1. CASE i < j
      BY <1>4, <2>1, <3>1, Zenon
    <3>2. CASE j < i
      BY <1>4, <2>1, <3>2, Zenon DEF HA!Disjoint
    <3> QED
      BY <2>1, <3>1, <3>2 DEF Blocks
  <2> QED
    BY <1>2, <1>3, <2>1, Zenon DEF Apart
<1>6. Sound
  <2>1. ASSUME NEW c \in Caches, NEW i \in Slots
        PROVE  SlabAddress(c, i) \in Nat \ {0}
    <3>1. 0 \in Blocks
      BY DEF Blocks
    <3> QED
      BY <3>1, SlabsBelowBlocks, Zenon
  <2>2. ASSUME NEW i \in Blocks, buddy_used[i]
        PROVE  BuddyAddress(i) \in Nat \ {0} /\ buddy_size[i] \in Nat \ {0}
    <3>1. i * BLOCK \in Nat /\ CACHES * SPAN \in Nat
      BY DEF Blocks
    <3>2. BUDDY_BASE # 0
      BY <3>1
    <3> QED
      BY <2>2, <3>1, <3>2 DEF BuddyAddress, HeapInv, SizesFit, HeapTypeOK
  <2> QED
    BY <1>1, <2>1, <2>2, Zenon DEF Sound
<1> QED
  BY <1>5, <1>6, Zenon

\* What it is to be live.
LiveMeans ==
  \A r : r \in LiveRegions <=>
    \/ \E c \in Caches, i \in Slots : slab_used[c][i] /\ r = SlabRegion(c, i)
    \/ \E i \in Blocks : buddy_used[i] /\ r = BuddyRegion(i)

LEMMA InLive == LiveMeans
<1>1. ASSUME NEW r \in LiveRegions
      PROVE  \/ \E c \in Caches, i \in Slots : slab_used[c][i] /\ r = SlabRegion(c, i)
             \/ \E i \in Blocks : buddy_used[i] /\ r = BuddyRegion(i)
  <2>1. CASE \E i \in LiveBlocks : r = BuddyRegion(i)
    BY <2>1, Zenon DEF LiveBlocks
  <2>2. CASE \E x \in LiveSlabs : r = SlabRegion(x[1], x[2])
    <3>1. PICK x \in LiveSlabs : r = SlabRegion(x[1], x[2])
      BY <2>2, Zenon
    <3>2. x[1] \in Caches /\ x[2] \in Slots /\ slab_used[x[1]][x[2]]
      BY Zenon DEF LiveSlabs
    <3> QED
      BY <3>1, <3>2, Zenon
  <2> QED
    BY <2>1, <2>2, Zenon DEF LiveRegions
<1>2. ASSUME NEW c \in Caches, NEW i \in Slots, slab_used[c][i]
      PROVE  SlabRegion(c, i) \in LiveRegions
  <2>1. <<c, i>> \in LiveSlabs
    BY <1>2, Zenon DEF LiveSlabs
  <2>2. SlabRegion(<<c, i>>[1], <<c, i>>[2]) \in LiveRegions
    BY <2>1, Zenon DEF LiveRegions
  <2> QED
    BY <2>2, Zenon
<1>3. ASSUME NEW i \in Blocks, buddy_used[i]
      PROVE  BuddyRegion(i) \in LiveRegions
  BY <1>3, Zenon DEF LiveRegions, LiveBlocks
<1> QED
  BY <1>1, <1>2, <1>3, Zenon DEF LiveMeans

\* The heap implements the abstract allocator: each successful kmalloc adds
\* one region clear of all live ones, each kfree removes exactly the region
\* that starts at its address, and coalescing changes no live region.
THEOREM HeapRefinement == HeapSpec => HeapImplementsAllocator
<1>1. HeapInit => HA!Init
  BY HeapAssumption DEF HeapInit, HA!Init, LiveRegions, LiveSlabs, LiveBlocks
<1>2. (HeapInv' => Apart' /\ Sound') /\ LiveMeans'
  BY LiveApart, InLive, PTL
<1>3. HeapInv /\ HeapInv' /\ [HeapNext]_heapVars => [HA!Next]_LiveRegions
  <2> SUFFICES ASSUME HeapInv, HeapInv', [HeapNext]_heapVars PROVE [HA!Next]_LiveRegions
    BY Zenon
  <2> USE HeapAssumption
  <2>1. Apart /\ Sound /\ Apart' /\ Sound' /\ LiveMeans /\ LiveMeans'
    BY <1>2, LiveApart, InLive, Zenon
  <2>2. ASSUME UNCHANGED <<slab_used, slab_size, buddy_used>>,
               \A i \in Blocks : buddy_used[i] => buddy_size'[i] = buddy_size[i]
        PROVE  LiveRegions' = LiveRegions
    BY <2>1, <2>2 DEF LiveMeans, SlabRegion, BuddyRegion
  <2>3. CASE UNCHANGED heapVars
    BY <2>2, <2>3, Zenon DEF heapVars, slabVars, buddyVars
  <2>4. CASE CoalesceBegin \/ CoalesceEnd
    BY <2>2, <2>4, Zenon DEF CoalesceBegin, CoalesceEnd, slabVars, buddyVars
  <2>5. CASE CoalesceStep
    <3>1. index \in Blocks /\ index + 1 \in Blocks
      BY <2>5 DEF CoalesceStep, HeapInv, HeapTypeOK, Blocks
    <3>2. \A i \in Blocks : buddy_used[i] => buddy_size'[i] = buddy_size[i]
      BY <2>5, <3>1, Zenon DEF CoalesceStep, Mergeable, HeapInv, HeapTypeOK
    <3> QED
      BY <2>2, <2>5, <3>2, Zenon DEF CoalesceStep, slabVars
  <2>6. ASSUME NEW n \in Requests, NEW c \in Caches, NEW i \in Slots, KmallocSlab(n, c, i)
        PROVE  HA!Next
    <3> DEFINE r == SlabRegion(c, i)'
    <3>1. /\ slab_used'[c][i] /\ ~slab_used[c][i] /\ r = [addr |-> SlabAddress(c, i), len |-> n]
          /\ \A d \in Caches, j \in Slots :
               d # c \/ j # i => /\ slab_used'[d][j] = slab_used[d][j]
                                /\ SlabRegion(d, j)' = SlabRegion(d, j)
          /\ buddy_used' = buddy_used
          /\ \A j \in Blocks : BuddyRegion(j)' = BuddyRegion(j)
      BY <2>6, Zenon DEF KmallocSlab, buddyVars, HeapInv, HeapTypeOK, SlabRegion, BuddyRegion,
         SlabAddress
    <3>2. r.addr \in Nat \ {0} /\ r.len \in Nat \ {0}
      BY <2>1, <3>1, Zenon DEF Sound, SlabRegion, SlabAddress
    <3>3. \A s \in LiveRegions : HA!Disjoint(r, s) /\ s # r
      <4> SUFFICES ASSUME NEW s \in LiveRegions PROVE HA!Disjoint(r, s) /\ s # r
        BY Zenon
      <4>1. ASSUME NEW d \in Caches, NEW j \in Slots, slab_used[d][j], s = SlabRegion(d, j)
            PROVE  HA!Disjoint(r, s)
        <5>1. slab_used'[d][j] /\ SlabRegion(d, j)' = s /\ (c # d \/ i # j)
          BY <3>1, <4>1, Zenon
        <5> QED
          BY <2>1, <3>1, <5>1, Zenon DEF Apart, HA!Disjoint
      <4>2. ASSUME NEW j \in Blocks, buddy_used[j], s = BuddyRegion(j)
            PROVE  HA!Disjoint(r, s)
        BY <2>1, <3>1, <4>2, Zenon DEF Apart, HA!Disjoint
      <4>3. HA!Disjoint(r, s)
        BY <2>1, <4>1, <4>2, Zenon DEF LiveMeans
      <4> QED
        BY <3>2, <4>3 DEF HA!Disjoint
    <3>4. LiveRegions' = LiveRegions \cup {r}
      BY <2>1, <3>1, SMTT(30) DEF LiveMeans
    <3> QED
      BY <3>2, <3>3, <3>4, Zenon DEF HA!Next, HA!Allocate
  <2>7. ASSUME NEW n \in Requests, NEW i \in Blocks, KmallocBuddy(n, i)
        PROVE  HA!Next
    <3> DEFINE r == BuddyRegion(i)'
    <3>1. /\ buddy_used'[i] /\ ~buddy_used[i]
          /\ \A j \in Blocks : j # i => /\ buddy_used'[j] = buddy_used[j]
                                        /\ BuddyRegion(j)' = BuddyRegion(j)
          /\ slab_used' = slab_used
          /\ \A d \in Caches, j \in Slots : SlabRegion(d, j)' = SlabRegion(d, j)
      BY <2>7, Zenon DEF KmallocBuddy, Fits, slabVars, HeapInv, HeapTypeOK, SlabRegion, BuddyRegion
    <3>2. r.addr \in Nat \ {0} /\ r.len \in Nat \ {0}
      BY <2>1, <3>1, Zenon DEF Sound, BuddyRegion, BuddyAddress
    <3>3. \A s \in LiveRegions : HA!Disjoint(r, s) /\ s # r
      <4> SUFFICES ASSUME NEW s \in LiveRegions PROVE HA!Disjoint(r, s) /\ s # r
        BY Zenon
      <4>1. ASSUME NEW d \in Caches, NEW j \in Slots, slab_used[d][j], s = SlabRegion(d, j)
            PROVE  HA!Disjoint(r, s)
        BY <2>1, <3>1, <4>1, Zenon DEF Apart, HA!Disjoint
      <4>2. ASSUME NEW j \in Blocks, buddy_used[j], s = BuddyRegion(j)
            PROVE  HA!Disjoint(r, s)
        <5>1. buddy_used'[j] /\ BuddyRegion(j)' = s /\ i # j
          BY <3>1, <4>2, Zenon
        <5> QED
          BY <2>1, <3>1, <5>1, Zenon DEF Apart, HA!Disjoint
      <4>3. HA!Disjoint(r, s)
        BY <2>1, <4>1, <4>2, Zenon DEF LiveMeans
      <4> QED
        BY <3>2, <4>3 DEF HA!Disjoint
    <3>4. LiveRegions' = LiveRegions \cup {r}
      BY <2>1, <3>1, SMTT(30) DEF LiveMeans
    <3> QED
      BY <3>2, <3>3, <3>4, Zenon DEF HA!Next, HA!Allocate
  <2>8. ASSUME NEW c \in Caches, NEW i \in Slots, KfreeSlab(c, i)
        PROVE  HA!Next
    <3> DEFINE r == SlabRegion(c, i)
    <3>1. /\ ~slab_used'[c][i] /\ slab_used[c][i]
          /\ \A d \in Caches, j \in Slots :
               d # c \/ j # i => /\ slab_used'[d][j] = slab_used[d][j]
                                /\ SlabRegion(d, j)' = SlabRegion(d, j)
          /\ buddy_used' = buddy_used
          /\ \A j \in Blocks : BuddyRegion(j)' = BuddyRegion(j)
      BY <2>8 DEF KfreeSlab, buddyVars, HeapInv, HeapTypeOK, SlabRegion, BuddyRegion
    <3>2. r \in LiveRegions /\ r.addr \in Nat /\ r.len \in Nat \ {0}
      BY <2>1, <3>1, Zenon DEF LiveMeans, Sound, SlabRegion
    <3>3. \A s \in LiveRegions' : s # r
      <4> SUFFICES ASSUME NEW s \in LiveRegions' PROVE s # r
        BY Zenon
      <4>1. ASSUME NEW d \in Caches, NEW j \in Slots, slab_used'[d][j], s = SlabRegion(d, j)'
            PROVE  HA!Disjoint(r, s)
        <5>1. slab_used[d][j] /\ SlabRegion(d, j) = s /\ (c # d \/ i # j)
          BY <3>1, <4>1, Zenon
        <5> QED
          BY <2>1, <3>1, <5>1, Zenon DEF Apart, HA!Disjoint
      <4>2. ASSUME NEW j \in Blocks, buddy_used'[j], s = BuddyRegion(j)'
            PROVE  HA!Disjoint(r, s)
        BY <2>1, <3>1, <4>2, Zenon DEF Apart, HA!Disjoint
      <4>3. HA!Disjoint(r, s)
        BY <2>1, <4>1, <4>2, Zenon DEF LiveMeans
      <4> QED
        BY <3>2, <4>3 DEF HA!Disjoint
    <3>4. LiveRegions' = LiveRegions \ {r}
      BY <2>1, <3>1, <3>3 DEF LiveMeans
    <3> QED
      BY <3>2, <3>4, Zenon DEF HA!Next, HA!Release
  <2>9. ASSUME NEW i \in Blocks, KfreeBuddy(i)
        PROVE  HA!Next
    <3> DEFINE r == BuddyRegion(i)
    <3>1. /\ ~buddy_used'[i] /\ buddy_used[i]
          /\ \A j \in Blocks : j # i => /\ buddy_used'[j] = buddy_used[j]
                                        /\ BuddyRegion(j)' = BuddyRegion(j)
          /\ slab_used' = slab_used
          /\ \A d \in Caches, j \in Slots : SlabRegion(d, j)' = SlabRegion(d, j)
      BY <2>9, Zenon DEF KfreeBuddy, slabVars, HeapInv, HeapTypeOK, SlabRegion, BuddyRegion
    <3>2. r \in LiveRegions /\ r.addr \in Nat /\ r.len \in Nat \ {0}
      BY <2>1, <3>1, Zenon DEF LiveMeans, Sound, BuddyRegion
    <3>3. \A s \in LiveRegions' : s # r
      <4> SUFFICES ASSUME NEW s \in LiveRegions' PROVE s # r
        BY Zenon
      <4>1. ASSUME NEW d \in Caches, NEW j \in Slots, slab_used'[d][j], s = SlabRegion(d, j)'
            PROVE  HA!Disjoint(s, r)
        BY <2>1, <3>1, <4>1, Zenon DEF Apart, HA!Disjoint
      <4>2. ASSUME NEW j \in Blocks, buddy_used'[j], s = BuddyRegion(j)'
            PROVE  HA!Disjoint(s, r)
        <5>1. buddy_used[j] /\ BuddyRegion(j) = s /\ i # j
          BY <3>1, <4>2, Zenon
        <5> QED
          BY <2>1, <3>1, <5>1, Zenon DEF Apart, HA!Disjoint
      <4>3. HA!Disjoint(s, r)
        BY <2>1, <4>1, <4>2, Zenon DEF LiveMeans
      <4> QED
        BY <3>2, <4>3 DEF HA!Disjoint
    <3>4. LiveRegions' = LiveRegions \ {r}
      BY <2>1, <3>1, <3>3 DEF LiveMeans
    <3> QED
      BY <3>2, <3>4, Zenon DEF HA!Next, HA!Release
  <2> QED
    BY <2>3, <2>4, <2>5, <2>6, <2>7, <2>8, <2>9, Zenon DEF HeapNext
<1> QED
  BY HeapInvariance, <1>1, <1>3, PTL DEF HeapSpec, HeapImplementsAllocator, HA!Spec

-------------------------------------------------------------------------------
(***************************************************************************)
(* The two allocators together (KernelMemory)                              *)
(***************************************************************************)

\* A step of the kernel is one of each allocator or leaves it alone.
LEMMA StepOfEach == [Next]_vars => [PmmNext]_pmmVars /\ [HeapNext]_heapVars
BY Zenon DEF Next, vars

\* What is proved of an allocator alone holds of it beside the other.
LEMMA SpecOfEach == Spec => PmmSpec /\ HeapSpec
<1>1. Init => PmmInit /\ HeapInit
  BY Zenon DEF Init
<1> QED
  BY <1>1, StepOfEach, PTL DEF Spec, PmmSpec, HeapSpec

\* A frame outside the reserved range lies behind it.
LEMMA BehindReserved ==
  ASSUME total_frames \in Nat, NEW f \in 0 .. total_frames - 1, f \notin FramesOf(0, RESERVED_END)
  PROVE  f * FRAME_SIZE \in Nat /\ f * FRAME_SIZE >= RESERVED_END
<1> USE PmmAssumption
<1> DEFINE last == (RESERVED_END + FRAME_SIZE - 1) \div FRAME_SIZE
<1>1. 0 \div FRAME_SIZE = 0
  OBVIOUS
<1>2. last \in Nat
  BY RoundUpNat, Zenon
<1>3. f >= last
  BY <1>1, <1>2 DEF FramesOf
<1>4. last * FRAME_SIZE >= RESERVED_END
  <2>1. RESERVED_END + FRAME_SIZE - 1 \in Nat
    OBVIOUS
  <2>2. /\ RESERVED_END + FRAME_SIZE - 1 =
             FRAME_SIZE * last + ((RESERVED_END + FRAME_SIZE - 1) % FRAME_SIZE)
        /\ (RESERVED_END + FRAME_SIZE - 1) % FRAME_SIZE \in 0 .. FRAME_SIZE - 1
    BY <2>1
  <2>3. FRAME_SIZE * last = last * FRAME_SIZE /\ last * FRAME_SIZE \in Nat
    BY <1>2
  <2> QED
    BY <2>2, <2>3
<1> HIDE DEF last
<1>5. CASE f = last
  BY <1>2, <1>4, <1>5
<1>6. CASE f > last
  <2>1. last * FRAME_SIZE + FRAME_SIZE <= f * FRAME_SIZE
    BY <1>2, <1>6, FramesApart
  <2>2. last * FRAME_SIZE \in Nat /\ f * FRAME_SIZE \in Nat
    BY <1>2
  <2> QED
    BY <1>4, <2>1, <2>2
<1> QED
  BY <1>2, <1>3, <1>5, <1>6

\* A slab object ends before the slabs' area does.
LEMMA SlabsEnd ==
  ASSUME NEW c \in Caches, NEW i \in Slots
  PROVE  /\ SlabAddress(c, i) \in Nat
         /\ SlabAddress(c, i) + STRIDE <= SLAB_BASE + CACHES * SPAN
<1> USE HeapAssumption
<1>1. c * SPAN \in Nat /\ i * STRIDE \in Nat /\ CACHES * SPAN \in Nat /\ SLOTS * STRIDE \in Nat
  BY DEF Caches, Slots
<1>2. c * SPAN + SPAN <= CACHES * SPAN
  BY Spacing DEF Caches
<1>3. i * STRIDE + STRIDE <= SLOTS * STRIDE
  BY Spacing DEF Slots
<1> QED
  BY <1>1, <1>2, <1>3 DEF SlabAddress

\* The reservation kernel_main makes before anything else keeps every frame that
\* pmm_allocate_frame hands out clear of every small allocation of kmalloc.
THEOREM SmallApartCorrect == Spec => []SmallApartFromFrames
<1>1. PmmInv /\ HeapInv => SmallApartFromFrames
  <2> SUFFICES ASSUME PmmInv, HeapInv, NEW f \in held, NEW x \in LiveSlabs
               PROVE  HA!Disjoint([addr |-> f * FRAME_SIZE, len |-> FRAME_SIZE],
                                  SlabRegion(x[1], x[2]))
    BY Zenon DEF SmallApartFromFrames, HeldFrames
  <2>1. x[1] \in Caches /\ x[2] \in Slots /\ slab_used[x[1]][x[2]]
    BY Zenon DEF LiveSlabs
  <2>2. /\ slab_size[x[1]][x[2]] \in Nat
        /\ slab_size[x[1]][x[2]] <= STRIDE
    BY <2>1, HeapAssumption DEF HeapInv, SizesFit
  <2>3. /\ SlabAddress(x[1], x[2]) \in Nat
        /\ SlabAddress(x[1], x[2]) + STRIDE <= SLAB_BASE + CACHES * SPAN
    BY <2>1, SlabsEnd, Zenon
  <2>4. f * FRAME_SIZE \in Nat /\ f * FRAME_SIZE >= RESERVED_END
    <3>1. total_frames \in Nat /\ f \in 0 .. total_frames - 1
      BY Zenon DEF PmmInv, PmmTypeOK
    <3>2. pc = "run"
      BY Zenon DEF PmmInv, Progress
    <3>3. f \notin FramesOf(0, RESERVED_END)
      BY <3>2, Zenon DEF PmmInv, Conserved
    <3> QED
      BY <3>1, <3>3, BehindReserved, Zenon
  <2>5. CACHES * SPAN \in Nat
    BY HeapAssumption
  <2> QED
    BY <2>2, <2>3, <2>4, <2>5, LayoutAssumption, HeapAssumption, PmmAssumption
    DEF HA!Disjoint, SlabRegion
<1> QED
  BY <1>1, SpecOfEach, PmmInvariance, HeapInvariance, PTL

\* Side by side, each of the two still keeps its promise.
THEOREM BothImplementAllocator == Spec => FramesImplementAllocator /\ HeapImplementsAllocator
BY SpecOfEach, PmmRefinement, HeapRefinement, PTL

===============================================================================
