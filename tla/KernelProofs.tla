------------------------------ MODULE KernelProofs ------------------------------
(***************************************************************************)
(* Proofs about the way into the kernel, for every number of gigabytes     *)
(* that the loader and the kernel map, about the virtual memory manager,   *)
(* for every table size and set of pages, and about the scheduler, for     *)
(* every table size, number of services and set of applications.           *)
(***************************************************************************)
EXTENDS Boot, Scheduler, TLAPS

-------------------------------------------------------------------------------
(***************************************************************************)
(* The virtual memory manager (Vmm)                                        *)
(***************************************************************************)

USE VmmAssumption

VmmInv == VmmTypeOK /\ Unique

\* What vmm_translate returns when no page has two entries.
Meaning ==
  /\ \A v : ~Mapped(v) => Translate(v) = 0
  /\ \A e \in DOMAIN vmm_mappings : Translate(vmm_mappings[e].vaddr) = vmm_mappings[e].paddr

LEMMA UniqueMeaning == VmmTypeOK /\ Unique => Meaning
<1> SUFFICES ASSUME VmmTypeOK, Unique PROVE Meaning
  BY Zenon
<1>1. \A v : ~Mapped(v) => Translate(v) = 0
  BY Zenon DEF Translate
<1>2. ASSUME NEW e \in DOMAIN vmm_mappings
      PROVE  Translate(vmm_mappings[e].vaddr) = vmm_mappings[e].paddr
  <2> DEFINE v == vmm_mappings[e].vaddr
  <2>1. e \in 1 .. Len(vmm_mappings) /\ DOMAIN vmm_mappings = 1 .. Len(vmm_mappings)
    BY DEF VmmTypeOK
  <2>2. IsFirst(v, e)
    BY <2>1 DEF IsFirst, Unique
  <2>3. \A j \in DOMAIN vmm_mappings : IsFirst(v, j) => j = e
    BY Zenon DEF IsFirst, Unique
  <2>4. e = CHOOSE j \in DOMAIN vmm_mappings : IsFirst(v, j)
    BY <2>2, <2>3, Zenon
  <2>5. Mapped(v)
    BY Zenon DEF Mapped
  <2> QED
    BY <2>4, <2>5, Zenon DEF Translate
<1> QED
  BY <1>1, <1>2, Zenon DEF Meaning

\* The table after a removal.
LEMMA Removed ==
  ASSUME VmmTypeOK, NEW e \in DOMAIN vmm_mappings, vmm_mappings' = Without(e)
  PROVE  /\ VmmTypeOK'
         /\ DOMAIN vmm_mappings' = 1 .. Len(vmm_mappings) - 1
         /\ \A j \in DOMAIN vmm_mappings' :
              vmm_mappings'[j] = vmm_mappings[IF j < e THEN j ELSE j + 1]
<1> DEFINE n == Len(vmm_mappings) - 1
<1>1. /\ DOMAIN vmm_mappings = 1 .. n + 1 /\ n \in Nat /\ e \in 1 .. n + 1
      /\ vmm_mappings \in Seq(Mapping) /\ n + 1 <= VMM_MAX_MAPPINGS
  BY DEF VmmTypeOK
<1>2. \A j \in 1 .. n : vmm_mappings[IF j < e THEN j ELSE j + 1] \in Mapping
  BY <1>1
<1>3. vmm_mappings' = [j \in 1 .. n |-> vmm_mappings[IF j < e THEN j ELSE j + 1]]
  BY Zenon DEF Without
<1>4. vmm_mappings' \in Seq(Mapping) /\ Len(vmm_mappings') = n
  BY <1>1, <1>2, <1>3
<1> QED
  BY <1>1, <1>3, <1>4 DEF VmmTypeOK

LEMMA Added ==
  ASSUME VmmTypeOK, NEW v \in Pages, NEW p \in Frames, MapPage(v, p)
  PROVE  /\ VmmTypeOK'
         /\ DOMAIN vmm_mappings' = 1 .. Len(vmm_mappings) + 1
         /\ DOMAIN vmm_mappings = 1 .. Len(vmm_mappings) /\ Len(vmm_mappings) \in Nat
         /\ \A j \in DOMAIN vmm_mappings : vmm_mappings'[j] = vmm_mappings[j]
         /\ vmm_mappings'[Len(vmm_mappings) + 1] = [vaddr |-> v, paddr |-> p]
<1>1. [vaddr |-> v, paddr |-> p] \in Mapping
  BY Zenon DEF Mapping
<1>2. vmm_mappings \in Seq(Mapping)
  BY Zenon DEF VmmTypeOK
<1> HIDE DEF Mapping
<1> QED
  BY <1>1, <1>2 DEF MapPage, VmmTypeOK

-------------------------------------------------------------------------------
\* The table never outgrows its array and holds mappings only, whatever is
\* mapped, unmapped or mapped again.
THEOREM VmmTypeCorrect == VmmSpec => []VmmTypeOK
<1>1. VmmInit => VmmTypeOK
  BY DEF VmmInit, VmmTypeOK
<1>2. VmmTypeOK /\ [VmmNext]_vmm_mappings => VmmTypeOK'
  <2> SUFFICES ASSUME VmmTypeOK, [VmmNext]_vmm_mappings PROVE VmmTypeOK'
    BY Zenon
  <2>1. ASSUME NEW v \in Pages, UnmapPage(v) PROVE VmmTypeOK'
    BY <2>1, Removed, Zenon DEF UnmapPage
  <2>2. ASSUME NEW v \in Pages, NEW p \in Frames, MapPage(v, p) PROVE VmmTypeOK'
    BY <2>2, Added, Zenon
  <2> QED
    BY <2>1, <2>2, Zenon DEF VmmNext, VmmTypeOK
<1> QED
  BY <1>1, <1>2, PTL DEF VmmSpec

LEMMA UniqueKept == VmmInv /\ [CarefulNext]_vmm_mappings => VmmInv'
<1> SUFFICES ASSUME VmmInv, [CarefulNext]_vmm_mappings PROVE VmmInv'
  BY Zenon
<1>1. ASSUME NEW v \in Pages, UnmapPage(v) PROVE VmmInv'
  <2>1. PICK e \in DOMAIN vmm_mappings : vmm_mappings' = Without(e)
    BY <1>1, Zenon DEF UnmapPage
  <2>2. /\ VmmTypeOK' /\ DOMAIN vmm_mappings' = 1 .. Len(vmm_mappings) - 1
        /\ \A j \in DOMAIN vmm_mappings' :
             vmm_mappings'[j] = vmm_mappings[IF j < e THEN j ELSE j + 1]
    BY <2>1, Removed, Zenon DEF VmmInv
  <2>3. DOMAIN vmm_mappings = 1 .. Len(vmm_mappings) /\ Len(vmm_mappings) \in Nat
    BY DEF VmmInv, VmmTypeOK
  <2>4. Unique'
    <3> SUFFICES ASSUME NEW j \in DOMAIN vmm_mappings', NEW k \in DOMAIN vmm_mappings',
                        vmm_mappings'[j].vaddr = vmm_mappings'[k].vaddr
                 PROVE  j = k
      BY Zenon DEF Unique
    <3> DEFINE a == IF j < e THEN j ELSE j + 1
               b == IF k < e THEN k ELSE k + 1
    <3>1. a \in DOMAIN vmm_mappings /\ b \in DOMAIN vmm_mappings
      BY <2>2, <2>3
    <3>2. vmm_mappings[a].vaddr = vmm_mappings[b].vaddr
      BY <2>2
    <3>3. a = b
      BY <3>1, <3>2, Zenon DEF VmmInv, Unique
    <3> QED
      BY <2>2, <2>3, <3>3
  <2> QED
    BY <2>2, <2>4, Zenon DEF VmmInv
<1>2. ASSUME NEW v \in Pages, NEW p \in Frames, ~Mapped(v), MapPage(v, p) PROVE VmmInv'
  <2> DEFINE n == Len(vmm_mappings)
  <2>1. \A j \in DOMAIN vmm_mappings : vmm_mappings[j].vaddr # v
    BY <1>2, Zenon DEF Mapped
  <2>2. VmmTypeOK
    BY Zenon DEF VmmInv
  <2>3. /\ VmmTypeOK' /\ DOMAIN vmm_mappings' = 1 .. n + 1
        /\ DOMAIN vmm_mappings = 1 .. n /\ n \in Nat
        /\ \A j \in DOMAIN vmm_mappings : vmm_mappings'[j] = vmm_mappings[j]
        /\ vmm_mappings'[n + 1] = [vaddr |-> v, paddr |-> p]
    BY <1>2, <2>2, Added, Zenon
  <2>4. vmm_mappings'[n + 1].vaddr = v
    BY <2>3
  <2> HIDE DEF n
  <2> QED
    BY <2>1, <2>3, <2>4 DEF VmmInv, Unique
<1>3. CASE UNCHANGED vmm_mappings
  BY <1>3, Zenon DEF VmmInv, VmmTypeOK, Unique
<1> QED
  BY <1>1, <1>2, <1>3, Zenon DEF CarefulNext

\* As long as no page has two entries, a call does to the translations what
\* the abstract call does.
LEMMA CallCorrect == VmmInv => CallMatches
<1> DEFINE t == [v \in Pages |-> Translate(v)]
<1>0. VmmInv' => Meaning'
  BY UniqueMeaning, PTL DEF VmmInv
<1> SUFFICES ASSUME VmmInv PROVE CallMatches
  BY Zenon
<1>1. Meaning /\ (VmmInv' => Meaning')
  BY <1>0, UniqueMeaning, Zenon DEF VmmInv
<1>2. ASSUME NEW v \in Pages, UnmapPage(v) PROVE A!Unmap(v)
  <2>0. VmmInv' /\ Meaning'
    BY <1>1, <1>2, UniqueKept, Zenon DEF CarefulNext
  <2>1. PICK e \in DOMAIN vmm_mappings : IsFirst(v, e) /\ vmm_mappings' = Without(e)
    BY <1>2, Zenon DEF UnmapPage
  <2>2. /\ DOMAIN vmm_mappings' = 1 .. Len(vmm_mappings) - 1
        /\ \A j \in DOMAIN vmm_mappings' :
             vmm_mappings'[j] = vmm_mappings[IF j < e THEN j ELSE j + 1]
    BY <2>1, Removed, Zenon DEF VmmInv
  <2>3. DOMAIN vmm_mappings = 1 .. Len(vmm_mappings) /\ Len(vmm_mappings) \in Nat
    BY DEF VmmInv, VmmTypeOK
  <2>4. vmm_mappings[e].vaddr = v
    BY <2>1, Zenon DEF IsFirst
  <2>5. ~Mapped(v)'
    BY <2>2, <2>3, <2>4 DEF VmmInv, Unique, Mapped
  <2>6. ASSUME NEW u \in Pages, u # v PROVE Translate(u)' = Translate(u)
    <3>1. CASE Mapped(u)
      <4>1. PICK j \in DOMAIN vmm_mappings : vmm_mappings[j].vaddr = u
        BY <3>1, Zenon DEF Mapped
      <4> DEFINE k == IF j < e THEN j ELSE j - 1
      <4>2. j # e
        BY <2>4, <2>6, <4>1, Zenon
      <4>3. k \in DOMAIN vmm_mappings' /\ vmm_mappings'[k] = vmm_mappings[j]
        BY <2>2, <2>3, <4>2
      <4> HIDE DEF k
      <4>4. Translate(vmm_mappings[j].vaddr) = vmm_mappings[j].paddr
        BY <1>1, <2>0, Zenon DEF Meaning
      <4>5. \A m \in DOMAIN vmm_mappings' :
              Translate(vmm_mappings[m].vaddr)' = vmm_mappings'[m].paddr
        BY <1>1, <2>0, Zenon DEF Meaning
      <4> QED
        BY <4>1, <4>3, <4>4, <4>5, Zenon
    <3>2. CASE ~Mapped(u)
      <4>1. ~Mapped(u)'
        BY <2>2, <2>3, <3>2 DEF Mapped
      <4> QED
        BY <1>1, <2>0, <3>2, <4>1, Zenon DEF Meaning
    <3> QED
      BY <3>1, <3>2, Zenon
  <2>7. Translate(v)' = 0
    BY <1>1, <2>0, <2>5, Zenon DEF Meaning
  <2>8. t' = [t EXCEPT ![v] = 0]
    BY <2>6, <2>7, Zenon
  <2> QED
    BY <2>8, Zenon DEF A!Unmap
<1>3. ASSUME NEW v \in Pages, NEW p \in Frames, ~Mapped(v), MapPage(v, p) PROVE A!Map(v, p)
  <2>0. VmmInv' /\ Meaning'
    BY <1>1, <1>3, UniqueKept, Zenon DEF CarefulNext
  <2> DEFINE n == Len(vmm_mappings)
  <2>a. VmmTypeOK
    BY Zenon DEF VmmInv
  <2>b. /\ DOMAIN vmm_mappings' = 1 .. n + 1
        /\ DOMAIN vmm_mappings = 1 .. n /\ n \in Nat
        /\ \A j \in DOMAIN vmm_mappings : vmm_mappings'[j] = vmm_mappings[j]
        /\ vmm_mappings'[n + 1] = [vaddr |-> v, paddr |-> p]
    BY <1>3, <2>a, Added, Zenon
  <2>c. vmm_mappings'[n + 1].vaddr = v /\ vmm_mappings'[n + 1].paddr = p
    BY <2>b
  <2> HIDE DEF n
  <2>1. ASSUME NEW u \in Pages, u # v PROVE Translate(u)' = Translate(u)
    <3>1. CASE Mapped(u)
      <4>1. PICK j \in DOMAIN vmm_mappings : vmm_mappings[j].vaddr = u
        BY <3>1, Zenon DEF Mapped
      <4>2. j \in DOMAIN vmm_mappings' /\ vmm_mappings'[j] = vmm_mappings[j]
        BY <2>b
      <4>3. Translate(vmm_mappings[j].vaddr) = vmm_mappings[j].paddr
        BY <1>1, <2>0, Zenon DEF Meaning
      <4>4. \A m \in DOMAIN vmm_mappings' :
              Translate(vmm_mappings[m].vaddr)' = vmm_mappings'[m].paddr
        BY <1>1, <2>0, Zenon DEF Meaning
      <4> QED
        BY <4>1, <4>2, <4>3, <4>4, Zenon
    <3>2. CASE ~Mapped(u)
      <4>1. ~Mapped(u)'
        BY <2>1, <2>b, <2>c, <3>2 DEF Mapped
      <4> QED
        BY <1>1, <2>0, <3>2, <4>1, Zenon DEF Meaning
    <3> QED
      BY <3>1, <3>2, Zenon
  <2>2. Translate(v) = 0
    BY <1>1, <2>0, <1>3, Zenon DEF Meaning
  <2>3. Translate(v)' = p
    <3>1. n + 1 \in DOMAIN vmm_mappings'
      BY <2>b
    <3>2. \A m \in DOMAIN vmm_mappings' :
            Translate(vmm_mappings[m].vaddr)' = vmm_mappings'[m].paddr
      BY <1>1, <2>0, Zenon DEF Meaning
    <3> QED
      BY <2>c, <3>1, <3>2, Zenon
  <2>4. t' = [t EXCEPT ![v] = p] /\ t[v] = 0
    BY <2>1, <2>2, <2>3, Zenon
  <2> QED
    BY <2>4, Zenon DEF A!Map
<1> QED
  BY <1>2, <1>3, Zenon DEF CallMatches

\* The table does what vmm_map_page and vmm_unmap_page say as long as no page
\* has two entries, for tables of any size and any sequence of calls.
THEOREM ContractCorrect == VmmSpec => CallsTranslate
<1>1. VmmTypeOK => [Unique => CallMatches /\ (CarefulNext => Unique')]_vmm_mappings
  BY CallCorrect, UniqueKept, Zenon DEF VmmInv
<1> QED
  BY <1>1, VmmTypeCorrect, PTL DEF CallsTranslate

\* For callers that map no page twice, the table implements an address space
\* of any size: the shifting of entries never costs or changes a translation.
THEOREM VmmRefinement == CarefulSpec => ImplementsAddressSpace
<1> DEFINE t == [v \in Pages |-> Translate(v)]
<1>1. VmmInit => VmmInv /\ A!Init
  BY DEF VmmInit, VmmInv, VmmTypeOK, Unique, A!Init, Translate, Mapped
<1>2. VmmInv /\ [CarefulNext]_vmm_mappings => [A!Next]_t /\ [CallMatches]_vmm_mappings
  <2> SUFFICES ASSUME VmmInv, [CarefulNext]_vmm_mappings
               PROVE  [A!Next]_t /\ [CallMatches]_vmm_mappings
    BY Zenon
  <2>1. CallMatches
    BY CallCorrect, Zenon
  <2>2. ASSUME UNCHANGED vmm_mappings PROVE UNCHANGED t
    <3>1. \A v \in Pages : Translate(v)' = Translate(v)
      BY <2>2 DEF Translate, Mapped, IsFirst
    <3> QED
      BY <3>1, Zenon
  <2>3. CarefulNext => A!Next
    BY <2>1, Zenon DEF CallMatches, CarefulNext, A!Next
  <2> QED
    BY <2>1, <2>2, <2>3, Zenon
<1> QED
  BY <1>1, <1>2, UniqueKept, PTL DEF CarefulSpec, ImplementsAddressSpace, A!Spec

-------------------------------------------------------------------------------
(***************************************************************************)
(* The way into the kernel (Boot)                                          *)
(***************************************************************************)

\* A page directory pointer table with the first n gigabytes mapped to themselves.
SelfMapped(n) == [b \in Index |-> IF b < n THEN b ELSE ABSENT]

\* boot.asm's tables while and after it fills them.
BootTables ==
  /\ stage \in {"start", "tables"} => pdpt["boot"] = SelfMapped(0)
  /\ stage = "loop" => /\ ecx \in Nat /\ edi \in Nat /\ edi > 0 /\ ecx + edi = BOOT_GIGS
                    /\ ebx = ecx /\ pdpt["boot"] = SelfMapped(ecx)
  /\ stage \notin {"start", "tables", "loop"} => pdpt["boot"] = SelfMapped(BOOT_GIGS)
  /\ stage \notin {"start", "tables", "loop", "pml4"} => pml4["boot"][0] = 0

\* vmm_initialize's tables while and after it fills them.
KernelTables ==
  /\ stage = "link" => pdpt["kernel"] = SelfMapped(0)
  /\ stage = "fill" => i \in Nat /\ i < KERNEL_GIGS /\ pdpt["kernel"] = SelfMapped(i)
  /\ stage \in {"load", "done"} => pdpt["kernel"] = SelfMapped(KERNEL_GIGS)
  /\ stage \in {"fill", "load", "done"} => pml4["kernel"][0] = 0

BootInv ==
  /\ stage \in {"start", "tables", "loop", "pml4", "call", "clear", "link", "fill", "load", "done"}
  /\ DOMAIN pml4 = {"boot", "kernel"} /\ DOMAIN pdpt = {"boot", "kernel"}
  /\ DOMAIN pml4["boot"] = Index /\ DOMAIN pml4["kernel"] = Index
  /\ cr3 = (CASE stage \in {"start", "tables", "loop", "pml4"} -> "off"
              [] stage = "done" -> "kernel"
              [] OTHER -> "boot")
  /\ BootTables /\ KernelTables

\* One more gigabyte.
LEMMA MapOneMore ==
  ASSUME NEW n \in Nat, n < ENTRIES
  PROVE  [SelfMapped(n) EXCEPT ![n] = n] = SelfMapped(n + 1)
<1>1. n \in Index /\ \A b \in Index : b < n + 1 <=> b < n \/ b = n
  BY BootAssumption DEF Index
<1> QED
  BY <1>1, Zenon DEF SelfMapped

LEMMA EmptyMapsNothing == Empty = SelfMapped(0)
BY BootAssumption DEF Empty, SelfMapped, Index

LEMMA LoaderSteps ==
  ASSUME BootInv, SaveParameters \/ BeginTables \/ LongModePagingLoop
  PROVE  BootInv'
<1>1. CASE SaveParameters
  BY <1>1, Zenon DEF SaveParameters, BootInv, BootTables, KernelTables
<1>2. CASE BeginTables
  BY <1>2, BootAssumption DEF BeginTables, BootInv, BootTables, KernelTables
<1>3. CASE LongModePagingLoop
  <2>1. /\ stage = "loop" /\ ecx \in Nat /\ edi \in Nat /\ edi > 0 /\ ecx + edi = BOOT_GIGS
        /\ ebx = ecx /\ pdpt["boot"] = SelfMapped(ecx) /\ DOMAIN pdpt = {"boot", "kernel"}
    BY <1>3, Zenon DEF LongModePagingLoop, BootInv, BootTables
  <2>2. ecx < ENTRIES /\ ecx < WRAP /\ BOOT_GIGS <= WRAP /\ WRAP \in Nat /\ BOOT_GIGS \in Nat
    BY <2>1, BootAssumption
  <2>3. pdpt'["boot"] = SelfMapped(ecx + 1) /\ DOMAIN pdpt' = {"boot", "kernel"}
    <3>1. pdpt' = [pdpt EXCEPT !["boot"] = [SelfMapped(ecx) EXCEPT ![ecx] = ecx]]
      BY <1>3, <2>1, Zenon DEF LongModePagingLoop
    <3> QED
      BY <2>1, <2>2, <3>1, MapOneMore, Zenon
  <2>4. ecx' = ecx + 1 /\ edi' = edi - 1 /\ ebx' = (ecx + 1) % WRAP
    BY <1>3, <2>1, Zenon DEF LongModePagingLoop
  <2>5. ecx + 1 < WRAP => ebx' = ecx'
    BY <2>1, <2>2, <2>4
  <2>6. CASE edi - 1 = 0
    <3>1. stage' = "pml4" /\ ecx + 1 = BOOT_GIGS
      BY <1>3, <2>1, <2>2, <2>6 DEF LongModePagingLoop
    <3> QED
      BY <1>3, <2>1, <2>3, <3>1, Zenon DEF LongModePagingLoop, BootInv, BootTables, KernelTables
  <2>7. CASE edi - 1 # 0
    <3>1. stage' = "loop" /\ ecx + 1 < BOOT_GIGS /\ edi' > 0 /\ edi' \in Nat /\ ecx' \in Nat
      BY <1>3, <2>1, <2>2, <2>4, <2>7 DEF LongModePagingLoop
    <3>2. ebx' = ecx' /\ ecx' + edi' = BOOT_GIGS
      BY <2>1, <2>2, <2>4, <2>5, <3>1
    <3> QED
      BY <1>3, <2>1, <2>3, <2>4, <3>1, <3>2, Zenon
      DEF LongModePagingLoop, BootInv, BootTables, KernelTables
  <2> QED
    BY <2>6, <2>7, Zenon
<1> QED
  BY <1>1, <1>2, <1>3, Zenon

LEMMA KernelSteps ==
  ASSUME BootInv,
         EnterLongMode \/ CallKernelMain \/ ClearTables \/ LinkTables \/ FillTables \/ LoadCr3
  PROVE  BootInv'
<1>0. 0 \in Index /\ ALIAS \in Index /\ ALIAS # 0
  BY BootAssumption DEF Index
<1>1. CASE EnterLongMode
  <2>1. /\ pml4' = [pml4 EXCEPT !["boot"] = [pml4["boot"] EXCEPT ![0] = 0]]
        /\ DOMAIN pml4 = {"boot", "kernel"} /\ DOMAIN pml4["boot"] = Index
    BY <1>1, Zenon DEF EnterLongMode, BootInv
  <2>2. /\ DOMAIN pml4' = {"boot", "kernel"} /\ DOMAIN pml4'["boot"] = Index
        /\ pml4'["boot"][0] = 0 /\ pml4'["kernel"] = pml4["kernel"]
    BY <1>0, <2>1, Zenon
  <2> QED
    BY <1>1, <2>2, Zenon DEF EnterLongMode, BootInv, BootTables, KernelTables
<1>2. CASE CallKernelMain
  BY <1>2, Zenon DEF CallKernelMain, BootInv, BootTables, KernelTables
<1>3. CASE ClearTables
  <2>1. /\ pml4'["boot"] = pml4["boot"] /\ pml4'["kernel"] = Empty
        /\ pdpt'["boot"] = pdpt["boot"] /\ pdpt'["kernel"] = Empty
        /\ DOMAIN pml4' = {"boot", "kernel"} /\ DOMAIN pdpt' = {"boot", "kernel"}
    BY <1>3, Zenon DEF ClearTables, BootInv
  <2>2. DOMAIN pml4'["kernel"] = Index
    BY <2>1, Zenon DEF Empty
  <2> QED
    BY <1>3, <2>1, <2>2, EmptyMapsNothing, Zenon DEF ClearTables, BootInv, BootTables, KernelTables
<1>4. CASE LinkTables
  <2>1. /\ pml4' = [pml4 EXCEPT !["kernel"] = [[pml4["kernel"] EXCEPT ![0] = 0] EXCEPT ![ALIAS] = 0]]
        /\ DOMAIN pml4 = {"boot", "kernel"} /\ DOMAIN pml4["kernel"] = Index
    BY <1>4, Zenon DEF LinkTables, BootInv
  <2>2. /\ DOMAIN pml4' = {"boot", "kernel"} /\ DOMAIN pml4'["kernel"] = Index
        /\ pml4'["kernel"][0] = 0 /\ pml4'["boot"] = pml4["boot"]
    BY <1>0, <2>1, Zenon
  <2> QED
    BY <1>4, <2>2, BootAssumption DEF LinkTables, BootInv, BootTables, KernelTables
<1>5. CASE FillTables
  <2>1. /\ stage = "fill" /\ i \in Nat /\ i < KERNEL_GIGS /\ pdpt["kernel"] = SelfMapped(i)
        /\ DOMAIN pdpt = {"boot", "kernel"} /\ i < ENTRIES
    BY <1>5, BootAssumption DEF FillTables, BootInv, KernelTables
  <2>2. pdpt' = [pdpt EXCEPT !["kernel"] = [SelfMapped(i) EXCEPT ![i] = i]]
    BY <1>5, <2>1, Zenon DEF FillTables
  <2>3. /\ pdpt'["kernel"] = SelfMapped(i + 1) /\ pdpt'["boot"] = pdpt["boot"]
        /\ DOMAIN pdpt' = {"boot", "kernel"}
    BY <2>1, <2>2, MapOneMore, Zenon
  <2>4. CASE i + 1 = KERNEL_GIGS
    BY <1>5, <2>1, <2>3, <2>4, Zenon DEF FillTables, BootInv, BootTables, KernelTables
  <2>5. CASE i + 1 # KERNEL_GIGS
    <3>1. i + 1 \in Nat /\ i + 1 < KERNEL_GIGS
      BY <2>1, <2>5, BootAssumption
    <3> QED
      BY <1>5, <2>1, <2>3, <2>5, <3>1, Zenon DEF FillTables, BootInv, BootTables, KernelTables
  <2> QED
    BY <2>4, <2>5, Zenon
<1>6. CASE LoadCr3
  BY <1>6, Zenon DEF LoadCr3, BootInv, BootTables, KernelTables
<1> QED
  BY <1>1, <1>2, <1>3, <1>4, <1>5, <1>6, Zenon

THEOREM BootInvariance == BootSpec => []BootInv
<1>1. BootInit => BootInv
  <2> SUFFICES ASSUME BootInit PROVE BootInv
    BY Zenon
  <2>1. pml4["boot"] = Empty /\ pml4["kernel"] = Empty /\ pdpt["boot"] = Empty
    BY Zenon DEF BootInit
  <2>2. DOMAIN Empty = Index
    BY Zenon DEF Empty
  <2> QED
    BY <2>1, <2>2, EmptyMapsNothing, Zenon DEF BootInit, BootInv, BootTables, KernelTables
<1>2. BootInv /\ [BootNext]_kernelVars => BootInv'
  <2> SUFFICES ASSUME BootInv, [BootNext]_kernelVars PROVE BootInv'
    BY Zenon
  <2>1. CASE UNCHANGED bootVars
    BY <2>1, Zenon DEF bootVars, loader, regs, BootInv, BootTables, KernelTables
  <2> QED
    BY <2>1, LoaderSteps, KernelSteps, Zenon DEF BootNext, StartUp, kernelVars
<1> QED
  BY <1>1, <1>2, PTL DEF BootSpec

\* What the processor makes of a low address, in every state of the way.
LowAddress(tables, b) ==
  IF tables = "off" THEN b
  ELSE SelfMapped(IF tables = "boot" THEN BOOT_GIGS ELSE KERNEL_GIGS)[b]

LEMMA LowWalk == BootInv => \A b \in Index : Walk(0, b) = LowAddress(cr3, b)
<1> SUFFICES ASSUME BootInv, NEW b \in Index PROVE Walk(0, b) = LowAddress(cr3, b)
  BY Zenon
<1> USE DEF LowAddress
<1>1. CASE cr3 = "off"
  BY <1>1, Zenon DEF Walk
<1>2. CASE cr3 = "boot"
  <2>1. pml4["boot"][0] = 0 /\ pdpt["boot"] = SelfMapped(BOOT_GIGS)
    BY <1>2, Zenon DEF BootInv, BootTables
  <2> QED
    BY <1>2, <2>1 DEF Walk, ABSENT
<1>3. CASE cr3 = "kernel"
  <2>1. pml4["kernel"][0] = 0 /\ pdpt["kernel"] = SelfMapped(KERNEL_GIGS)
    BY <1>3, Zenon DEF BootInv, KernelTables
  <2> QED
    BY <1>3, <2>1 DEF Walk, ABSENT
<1> QED
  BY <1>1, <1>2, <1>3, Zenon DEF BootInv

\* However much memory boot.asm and vmm_initialize map, as long as the kernel maps
\* no less than the loader and the loader's counter does not wrap: at every step
\* an address below is mapped to itself or not at all, and the switch of tables
\* takes no mapping away.
THEOREM IdentityCorrect == BootSpec => IdentityKept
<1> DEFINE Step == \A b \in Index :
              /\ Walk(0, b)' \in IF b = 0 THEN {0} ELSE {ABSENT, b}
              /\ cr3 # "off" /\ Walk(0, b) # ABSENT => Walk(0, b)' = b
<1>1. BootInv' => \A b \in Index : Walk(0, b)' = LowAddress(cr3', b)
  <2>1. BootInv' => (\A b \in Index : Walk(0, b) = LowAddress(cr3, b))'
    BY LowWalk, PTL
  <2> QED
    BY <2>1, Zenon
<1>2. BootInv /\ BootInv' /\ [BootNext]_kernelVars => [Step]_kernelVars
  <2> SUFFICES ASSUME BootInv, BootInv', [BootNext]_kernelVars, NEW b \in Index
               PROVE  /\ Walk(0, b)' \in IF b = 0 THEN {0} ELSE {ABSENT, b}
                      /\ cr3 # "off" /\ Walk(0, b) # ABSENT => Walk(0, b)' = b
    BY Zenon
  <2>1. cr3 \in {"off", "boot", "kernel"} /\ cr3' \in {"off", "boot", "kernel"}
    BY Zenon DEF BootInv
  <2>2. /\ cr3 = "boot" => cr3' \in {"boot", "kernel"}
        /\ cr3 = "kernel" => cr3' = "kernel"
    BY Zenon DEF BootInv, BootNext, StartUp, SaveParameters, BeginTables, LongModePagingLoop, EnterLongMode,
           CallKernelMain, ClearTables, LinkTables, FillTables, LoadCr3, bootVars, kernelVars
  <2>3. /\ BOOT_GIGS \in Nat /\ KERNEL_GIGS \in Nat /\ 0 < BOOT_GIGS /\ BOOT_GIGS <= KERNEL_GIGS
        /\ b \in Nat
    BY BootAssumption DEF Index
  <2>4. /\ SelfMapped(BOOT_GIGS)[b] = IF b < BOOT_GIGS THEN b ELSE ABSENT
        /\ SelfMapped(KERNEL_GIGS)[b] = IF b < KERNEL_GIGS THEN b ELSE ABSENT
    BY Zenon DEF SelfMapped
  <2>5. Walk(0, b)' = LowAddress(cr3', b) /\ Walk(0, b) = LowAddress(cr3, b)
    BY <1>1, LowWalk, Zenon
  <2>6. Walk(0, b)' \in IF b = 0 THEN {0} ELSE {ABSENT, b}
    BY <2>1, <2>3, <2>4, <2>5 DEF LowAddress
  <2>7. cr3 # "off" /\ Walk(0, b) # ABSENT => Walk(0, b)' = b
    BY <2>1, <2>2, <2>3, <2>4, <2>5 DEF LowAddress
  <2> QED
    BY <2>6, <2>7, Zenon
<1> QED
  BY <1>2, BootInvariance, PTL DEF BootSpec, IdentityKept

\* The kernel's calls after the start are vmm.c's, so what holds of the table by
\* itself holds in the kernel.
THEOREM CallsCorrect == BootSpec => CallsTranslate
<1>1. BootInit => VmmInit
  BY Zenon DEF BootInit
<1>2. [BootNext]_kernelVars => [VmmNext]_vmm_mappings
  BY Zenon DEF BootNext, kernelVars
<1>3. BootSpec => VmmSpec
  BY <1>1, <1>2, PTL DEF BootSpec, VmmSpec
<1> QED
  BY <1>3, ContractCorrect, Zenon

HIDE VmmAssumption

-------------------------------------------------------------------------------
(***************************************************************************)
(* The scheduler (Scheduler)                                               *)
(***************************************************************************)

\* Which code the CPU can be in, given the stack it is on and the current task.
Control ==
  /\ cpu <= task_count
  /\ cpu # 1
  /\ pc \in {"boot", "check", "hlt", "halted"} => cpu = BootStack
  /\ pc \in {"entry", "loop", "exit", "kill", "dead"} => cpu # BootStack
  /\ cpu # BootStack /\ pc \in {"create", "append", "loop", "scan_next",
                                "scan_head", "switch"}
       => entry[cpu] \notin Apps
  /\ cpu # BootStack /\ pc = "yield"
       => (entry[cpu] \in Apps <=> current_task = NULL)
  /\ pc \in {"exit", "kill", "dead"} => entry[cpu] \in Apps
  /\ current_task # NULL => /\ current_task <= task_count
                            /\ cpu = StackOf(current_task)
                            /\ pc # "dead"
  /\ current_task = NULL =>
       \/ /\ task_count = 0
          /\ cpu = BootStack
          /\ pc \in {"boot", "create", "check", "hlt", "halted", "yield"}
       \/ /\ cpu # BootStack
          /\ state[cpu] = "ZOMBIE"
          /\ pc \in {"yield", "dead"}

\* What the control block of a waiting task holds.
Saved ==
  \A t \in Linked \ {current_task} :
    /\ stack_pointer[t].stack = StackOf(t)
    /\ t = 1 => stack_pointer[t].at = "yield"
    /\ stack_pointer[t].at = "yield" => t = 1 \/ entry[t] \notin Apps

\* The loops over the ready queue.
AppendLoop ==
  pc = "append" =>
    /\ task_count < MAX_TASKS
    /\ cursor \in Linked
    /\ state[task_count + 1] = "READY"
    /\ next[task_count + 1] = NULL
    /\ stack_pointer[task_count + 1] = [stack |-> task_count + 1, at |-> "entry"]

ScanLoops ==
  /\ pc = "scan_next" => cursor = next[current_task]
  /\ pc = "scan_head" => cursor = ready_queue_head /\ next[current_task] = NULL
  /\ pc = "switch" => RR!Follows(Linked, current_task, cursor)
  /\ pc \in {"scan_next", "scan_head", "switch"} =>
       current_task # NULL /\ state[current_task] = "READY"

KillLoop ==
  pc = "kill" =>
    /\ current_task # NULL
    /\ state[current_task] = "ZOMBIE"
    /\ cursor \in Linked
    /\ cursor <= current_task
    /\ \/ prev = NULL /\ cursor = ready_queue_head
       \/ prev \in Linked /\ next[prev] = cursor

\* An application's exit is only ever its own.
ExitPath == pc = "exit" => current_task # NULL

IInv == /\ TypeOK /\ QueueShape /\ StatesAgree /\ Control /\ Saved
        /\ AppendLoop /\ ScanLoops /\ KillLoop /\ ExitPath

-------------------------------------------------------------------------------
USE SchedulerAssumption DEF NULL, BootStack, Tasks, Pointers, Stacks

\* The invariant holds when kernel_main starts creating tasks.
LEMMA InitIInv == Init => IInv
<1> SUFFICES ASSUME Init PROVE IInv
  BY Zenon
<1>1. TypeOK
  BY DEF Init, TypeOK, States, Entries, SavedFrames, Labels
<1>2. Linked = {}
  BY DEF Init, Linked
<1> QED
  BY <1>1, <1>2 DEF Init, IInv, QueueShape, StatesAgree, Control, Saved,
     AppendLoop, ScanLoops, KillLoop, ExitPath

\* Steps that only move the program counter, the loop locals or the request
\* flag leave the queue alone.
LEMMA QueueUnchanged ==
  ASSUME UNCHANGED queueVars
  PROVE  /\ Linked' = Linked
         /\ QueueShape => QueueShape'
         /\ Saved => Saved'
BY Zenon DEF queueVars, Linked, QueueShape, Saved, StackOf

\* Boot and main loop.
LEMMA BootSteps ==
  ASSUME IInv, BootCreate \/ BootDone \/ CreateFull \/ MainCheck \/ MainHalt
  PROVE  IInv'
<1>1. UNCHANGED queueVars
  BY Zenon DEF BootCreate, BootDone, CreateFull, MainCheck, MainHalt
<1>2. Linked' = Linked /\ QueueShape' /\ Saved'
  BY <1>1, QueueUnchanged, Zenon DEF IInv
<1>3. TypeOK'
  <2>1. CASE BootCreate
    <3>1. created' \in 0 .. SERVICE_COUNT + 2
      BY <2>1 DEF IInv, TypeOK, BootCreate
    <3>2. arg' \in Entries /\ pc' \in Labels
      BY <2>1, Zenon DEF BootCreate, Labels, Entries, BootEntry
    <3> QED
      BY <1>1, <2>1, <3>1, <3>2, Zenon DEF IInv, TypeOK, queueVars, BootCreate
  <2>2. CASE BootDone \/ CreateFull \/ MainCheck \/ MainHalt
    <3>1. pc' \in Labels
      BY <2>2, Zenon DEF BootDone, CreateFull, MainCheck, MainHalt, Labels, CreateReturn
    <3> QED
      BY <1>1, <2>2, <3>1, Zenon DEF IInv, TypeOK, queueVars, BootDone, CreateFull, MainCheck, MainHalt
  <2> QED
    BY <2>1, <2>2, Zenon
<1>4. StatesAgree'
  BY <1>1, <1>2, Zenon DEF IInv, StatesAgree, queueVars, BootCreate, BootDone, CreateFull,
     MainCheck, MainHalt, CreateReturn
<1>5. Control'
  BY <1>1, Zenon DEF IInv, TypeOK, Control, queueVars, BootCreate, BootDone, CreateFull,
     MainCheck, MainHalt, CreateReturn, StackOf
<1> QED
  BY <1>1, <1>2, <1>3, <1>4, <1>5, Zenon DEF IInv, AppendLoop, ScanLoops, KillLoop,
     ExitPath, BootCreate, BootDone, CreateFull, MainCheck, MainHalt, CreateReturn

\* create_task, called with a free slot.
LEMMA CreateFirstStep == IInv /\ CreateFirst => IInv'
<1> SUFFICES ASSUME IInv, CreateFirst PROVE IInv'
  BY Zenon
<1> DEFINE new == task_count + 1
<1>1. new \in Tasks /\ task_count' = new /\ current_task' = new /\ ready_queue_head' = new
  BY DEF IInv, TypeOK, CreateFirst
<1>2. Linked = {} /\ task_count = 0
  <2>1. NULL \notin Linked
    BY DEF Linked
  <2>2. Linked = {}
    BY <2>1, Zenon DEF IInv, QueueShape, CreateFirst
  <2>3. current_task # NULL => current_task \in Linked
    BY DEF IInv, TypeOK, Control, Linked
  <2> QED
    BY <2>2, <2>3, Zenon DEF IInv, Control, CreateFirst
<1>3. /\ state' = [state EXCEPT ![new] = "RUNNING"]
      /\ next' = [next EXCEPT ![new] = NULL]
  BY Zenon DEF CreateFirst, FillSlot
<1>4. Linked' = {new}
  BY <1>1, <1>2 DEF Linked
<1>5. TypeOK'
  BY <1>1 DEF IInv, TypeOK, CreateFirst, FillSlot, Launched, States, SavedFrames, Labels,
     CreateReturn
<1>6. QueueShape'
  BY <1>1, <1>3, <1>4 DEF QueueShape, IInv, TypeOK
<1>7. StatesAgree'
  BY <1>1, <1>3, <1>4, Zenon DEF StatesAgree, IInv, TypeOK, CreateFirst, CreateReturn
<1>8. Control'
  BY <1>1, <1>2 DEF Control, IInv, TypeOK, CreateFirst, CreateReturn, StackOf
<1>9. Saved'
  BY <1>1, <1>4, Zenon DEF Saved
<1> QED
  BY <1>5, <1>6, <1>7, <1>8, <1>9, Zenon DEF IInv, AppendLoop, ScanLoops, KillLoop,
     ExitPath, CreateFirst, CreateReturn

LEMMA CreateNextStep == IInv /\ CreateNext => IInv'
<1> SUFFICES ASSUME IInv, CreateNext PROVE IInv'
  OBVIOUS
<1> DEFINE new == task_count + 1
<1>1. new \in Tasks /\ UNCHANGED <<task_count, ready_queue_head, current_task, cpu>>
  BY DEF IInv, TypeOK, CreateNext
<1>2. /\ state' = [state EXCEPT ![new] = "READY"]
      /\ next' = [next EXCEPT ![new] = NULL]
      /\ entry' = [entry EXCEPT ![new] = arg]
      /\ stack_pointer' = [stack_pointer EXCEPT ![new] = [stack |-> new, at |-> "entry"]]
  BY Zenon DEF CreateNext, FillSlot
<1>3. \A t \in 1 .. task_count :
        /\ t # new /\ t \in Tasks
        /\ state'[t] = state[t] /\ next'[t] = next[t] /\ entry'[t] = entry[t]
        /\ stack_pointer'[t] = stack_pointer[t]
  BY <1>1, <1>2 DEF IInv, TypeOK
<1>4. Linked' = Linked
  BY <1>1, <1>3, Zenon DEF Linked
<1>5. TypeOK'
  BY <1>1 DEF IInv, TypeOK, CreateNext, FillSlot, States, SavedFrames, Labels
<1>6. QueueShape'
  BY <1>1, <1>3, <1>4, Zenon DEF QueueShape, IInv, Linked
<1>7. StatesAgree'
  BY <1>1, <1>3, <1>4 DEF StatesAgree, IInv, CreateNext, Linked
<1>8. Control'
  <2>1. cpu # BootStack => cpu \in 1 .. task_count
    BY DEF IInv, TypeOK, Control
  <2>2. cpu # BootStack => entry'[cpu] = entry[cpu] /\ state'[cpu] = state[cpu]
    BY <1>3, <2>1, Zenon
  <2>3. pc = "create" /\ pc' = "append"
    BY Zenon DEF CreateNext
  <2>4. current_task # NULL
    BY <2>3 DEF IInv, Control, CreateNext, QueueShape, Linked
  <2> QED
    BY <1>1, <2>2, <2>3, <2>4, Zenon DEF Control, IInv, StackOf
<1>9. Saved'
  BY <1>1, <1>3, <1>4 DEF Saved, IInv, Linked, StackOf
<1>10. AppendLoop'
  BY <1>1, <1>2, <1>4, Zenon DEF AppendLoop, IInv, TypeOK, CreateNext, QueueShape, SavedFrames
<1> QED
  BY <1>5, <1>6, <1>7, <1>8, <1>9, <1>10, Zenon DEF IInv, ScanLoops, KillLoop, ExitPath,
     CreateNext

LEMMA AppendAdvanceStep == IInv /\ AppendAdvance => IInv'
<1> SUFFICES ASSUME IInv, AppendAdvance PROVE IInv'
  OBVIOUS
<1>1. UNCHANGED queueVars
  BY Zenon DEF AppendAdvance
<1>2. Linked' = Linked /\ QueueShape' /\ Saved'
  BY <1>1, QueueUnchanged, Zenon DEF IInv
<1>3. cursor \in Linked /\ next[cursor] \in Linked
  BY Zenon DEF IInv, AppendLoop, QueueShape, AppendAdvance
<1>a. next[cursor] \in Tasks
  BY <1>3 DEF IInv, TypeOK, Linked
<1>4. TypeOK' /\ StatesAgree' /\ Control'
  BY <1>1, <1>2, <1>a DEF IInv, TypeOK, StatesAgree, Control, queueVars, AppendAdvance,
     StackOf
<1> QED
  BY <1>1, <1>2, <1>3, <1>4, Zenon DEF IInv, AppendLoop, ScanLoops, KillLoop, ExitPath,
     AppendAdvance, queueVars

LEMMA AppendLinkStep == IInv /\ AppendLink => IInv'
<1> SUFFICES ASSUME IInv, AppendLink PROVE IInv'
  OBVIOUS
<1> DEFINE new == task_count + 1
<1>1. /\ new \in Tasks /\ task_count' = new
      /\ UNCHANGED <<state, entry, stack_pointer, ready_queue_head, current_task, cpu>>
      /\ next' = [next EXCEPT ![cursor] = new]
  BY DEF IInv, TypeOK, AppendLink, AppendLoop
<1>2. /\ cursor \in Linked /\ cursor \in Tasks /\ cursor # new
      /\ \A u \in Linked : u <= cursor
  <2>1. cursor \in Linked
    BY Zenon DEF IInv, AppendLink, AppendLoop
  <2>2. NULL \notin Linked
    BY DEF Linked
  <2>3. \A u \in Linked : u <= cursor
    BY <2>1, <2>2, Zenon DEF IInv, AppendLink, QueueShape
  <2> QED
    BY <1>1, <2>1, <2>3 DEF Linked, IInv, TypeOK
<1>3. /\ state[new] = "READY" /\ next[new] = NULL
      /\ stack_pointer[new] = [stack |-> new, at |-> "entry"]
  BY Zenon DEF IInv, AppendLink, AppendLoop
<1>4. Linked' = Linked \cup {new} /\ new \notin Linked
  BY <1>1, <1>3 DEF Linked, IInv, TypeOK
<1>5. \A t \in Linked : t \in Nat /\ t < new /\ t \in Tasks
  BY <1>1 DEF Linked, IInv, TypeOK
<1>6. /\ next'[cursor] = new /\ next'[new] = NULL
      /\ \A t \in Linked : t # cursor => next'[t] = next[t]
  BY <1>1, <1>2, <1>3, <1>5, Zenon DEF IInv, TypeOK
<1>7. new # current_task /\ new # 1
  BY <1>1, <1>2, <1>5 DEF IInv, TypeOK, Control, Linked
<1>8. TypeOK'
  BY <1>1, <1>2 DEF IInv, TypeOK, AppendLink, Launched, Labels, CreateReturn
<1>9. QueueShape'
  <2>1. ready_queue_head \in Linked /\ \A u \in Linked : ready_queue_head <= u
    BY <1>2, Zenon DEF IInv, QueueShape
  <2>2. ready_queue_head' \in Linked' /\ \A u \in Linked' : ready_queue_head' <= u
    BY <1>1, <1>4, <1>5, <2>1
  <2>3. ASSUME NEW t \in Linked', t # new, t # cursor
        PROVE  /\ next'[t] \in Linked'
               /\ t < next'[t]
               /\ \A u \in Linked' : u <= t \/ next'[t] <= u
    <3>1. t \in Linked /\ next'[t] = next[t] /\ t < cursor
      BY <1>2, <1>4, <1>5, <1>6, <2>3
    <3>2. next[t] \in Linked /\ t < next[t] /\ \A u \in Linked : u <= t \/ next[t] <= u
      BY <1>2, <1>5, <3>1 DEF IInv, QueueShape
    <3>3. next[t] <= new
      BY <1>1, <1>5, <3>2
    <3> QED
      BY <1>4, <3>1, <3>2, <3>3, Zenon
  <2>4. /\ next'[cursor] \in Linked'
        /\ cursor < next'[cursor]
        /\ \A u \in Linked' : u <= cursor \/ next'[cursor] <= u
    BY <1>1, <1>2, <1>4, <1>5, <1>6
  <2>5. next'[new] = NULL /\ \A u \in Linked' : u <= new
    BY <1>1, <1>4, <1>5, <1>6
  <2> QED
    BY <2>2, <2>3, <2>4, <2>5, Zenon DEF QueueShape
<1>10. StatesAgree'
  BY <1>1, <1>3, <1>4, <1>7 DEF StatesAgree, IInv, AppendLink, CreateReturn
<1>11. Control'
  BY <1>1, <1>2 DEF Control, IInv, TypeOK, AppendLink, CreateReturn, StackOf, Linked
<1>12. Saved'
  BY <1>1, <1>3, <1>4, <1>7 DEF Saved, IInv, StackOf
<1> QED
  BY <1>8, <1>9, <1>10, <1>11, <1>12, Zenon DEF IInv, AppendLoop, ScanLoops, KillLoop,
     ExitPath, AppendLink, CreateReturn

\* Steps of a task outside the scheduler, and a yield that finds nothing to do.
LEMMA TaskSteps ==
  ASSUME IInv,
         EnterTask \/ LoopTurn \/ (\E a \in Apps : ShellLaunch(a)) \/ YieldNothing
  PROVE  IInv'
<1>1. UNCHANGED queueVars /\ cpu' = cpu
  BY Zenon DEF EnterTask, LoopTurn, ShellLaunch, YieldNothing
<1>2. Linked' = Linked /\ QueueShape' /\ Saved'
  BY <1>1, QueueUnchanged, Zenon DEF IInv
<1>3. /\ pc \in {"entry", "loop", "yield"}
      /\ pc' \in {"dead", "exit", "loop", "create", "yield", "hlt"}
      /\ pc' \in {"loop", "create"} /\ cpu # BootStack => entry[cpu] \notin Apps
      /\ pc' \in {"dead", "exit"} => cpu # BootStack /\ entry[cpu] \in Apps
      /\ pc' = "hlt" => cpu = BootStack
      /\ pc' \in {"loop", "exit"} => cpu # BootStack
      /\ pc' \in {"loop", "create", "yield", "exit"} => current_task # NULL
      /\ pc' = "dead" => current_task = NULL
      /\ pc' = "yield" /\ cpu # BootStack => entry[cpu] \notin Apps
  <2>1. CASE EnterTask
    BY <2>1, Zenon DEF EnterTask, IInv, Control, StackOf
  <2>2. CASE LoopTurn
    BY <2>2, Zenon DEF LoopTurn, IInv, Control
  <2>3. CASE \E a \in Apps : ShellLaunch(a)
    BY <2>3, Zenon DEF ShellLaunch, IInv, Control
  <2>4. CASE YieldNothing
    <3>1. current_task = NULL
      <4>1. NULL \notin Linked
        BY DEF Linked
      <4>2. current_task # NULL => current_task \in Linked
        BY DEF IInv, TypeOK, Control, Linked
      <4> QED
        BY <2>4, <4>1, <4>2, Zenon DEF YieldNothing, IInv, QueueShape
    <3> QED
      BY <2>4, <3>1, Zenon DEF YieldNothing, IInv, Control, Resume
  <2> QED
    BY <2>1, <2>2, <2>3, <2>4, Zenon
<1>4. TypeOK'
  BY <1>1, <1>3, Zenon DEF IInv, TypeOK, queueVars, EnterTask, LoopTurn, ShellLaunch,
     YieldNothing, Labels, Entries
<1>5. StatesAgree'
  BY <1>1, <1>2, <1>3, Zenon DEF IInv, StatesAgree, queueVars
<1>6. Control'
  BY <1>1, <1>3, Zenon DEF IInv, TypeOK, Control, queueVars, StackOf
<1> QED
  BY <1>1, <1>2, <1>3, <1>4, <1>5, <1>6, Zenon DEF IInv, AppendLoop, ScanLoops, KillLoop,
     ExitPath, queueVars

\* Interrupts touch the request flag and end a hlt.
LEMMA InterruptSteps == ASSUME IInv, Tick \/ OtherInterrupt PROVE IInv'
<1>1. UNCHANGED queueVars /\ UNCHANGED <<running, cpu, cursor, prev, arg, created>>
  BY Zenon DEF Tick, OtherInterrupt
<1>2. Linked' = Linked /\ QueueShape' /\ Saved'
  BY <1>1, QueueUnchanged, Zenon DEF IInv
<1>3. pc' = pc \/ (pc = "halted" /\ pc' = "check")
  BY Zenon DEF Tick, OtherInterrupt
<1>4. TypeOK'
  BY <1>1, <1>3, Zenon DEF IInv, TypeOK, queueVars, Tick, OtherInterrupt, Labels
<1>5. StatesAgree' /\ Control'
  BY <1>1, <1>2, <1>3, Zenon DEF IInv, StatesAgree, Control, queueVars, StackOf
<1> QED
  BY <1>1, <1>2, <1>3, <1>4, <1>5, Zenon DEF IInv, AppendLoop, ScanLoops, KillLoop,
     ExitPath, queueVars

\* task_yield up to the choice of the next task.
LEMMA YieldBeginStep == IInv /\ YieldBegin => IInv'
<1> SUFFICES ASSUME IInv, YieldBegin PROVE IInv'
  OBVIOUS
<1>1. /\ UNCHANGED <<task_count, next, entry, stack_pointer, ready_queue_head,
                     current_task, cpu>>
      /\ pc = "yield" /\ pc' = "scan_next" /\ cursor' = next[current_task]
      /\ current_task # NULL
  BY Zenon DEF YieldBegin
<1>2. current_task \in Tasks /\ current_task \in Linked
  BY <1>1 DEF IInv, TypeOK, Control, Linked
<1>3. /\ state'[current_task] = "READY"
      /\ \A t \in Tasks : t # current_task => state'[t] = state[t]
  BY <1>1, <1>2, Zenon DEF IInv, TypeOK, StatesAgree, YieldBegin
<1>4. Linked' = Linked
  BY <1>1, <1>2, <1>3 DEF Linked, IInv, TypeOK
<1>5. TypeOK'
  <2>1. state' \in [Tasks -> States] /\ next[current_task] \in Pointers
    BY <1>2, Zenon DEF IInv, TypeOK, YieldBegin, States
  <2> QED
    BY <1>1, <2>1, Zenon DEF IInv, TypeOK, YieldBegin, Labels
<1>6. QueueShape'
  BY <1>1, <1>4, Zenon DEF IInv, QueueShape
<1>7. StatesAgree'
  <2>1. \A t \in Linked : t \in Tasks
    BY DEF Linked, IInv, TypeOK
  <2> QED
    BY <1>1, <1>2, <1>3, <1>4, <2>1, Zenon DEF IInv, StatesAgree
<1>8. Control'
  BY <1>1, Zenon DEF IInv, Control, StackOf
<1>9. Saved'
  BY <1>1, <1>4, Zenon DEF IInv, Saved, StackOf
<1> QED
  BY <1>1, <1>3, <1>5, <1>6, <1>7, <1>8, <1>9, Zenon DEF IInv, AppendLoop, ScanLoops,
     KillLoop, ExitPath

LEMMA ScanSteps == ASSUME IInv, ScanNext \/ ScanHead PROVE IInv'
<1>1. UNCHANGED queueVars /\ cpu' = cpu
  BY Zenon DEF ScanNext, ScanHead
<1>2. Linked' = Linked /\ QueueShape' /\ Saved'
  BY <1>1, QueueUnchanged, Zenon DEF IInv
<1>3. /\ current_task \in Linked /\ state[current_task] = "READY" /\ current_task # NULL
      /\ \A t \in Linked : state[t] = "READY" /\ t \in Tasks
  BY DEF IInv, TypeOK, Control, ScanLoops, ScanNext, ScanHead, StatesAgree, Linked
<1>4. /\ pc \in {"scan_next", "scan_head"} /\ pc' \in {"scan_head", "switch"}
      /\ pc' = "scan_head" => cursor' = ready_queue_head /\ next[current_task] = NULL
      /\ pc' = "switch" => RR!Follows(Linked, current_task, cursor')
      /\ cursor' \in Linked
  <2>1. ready_queue_head \in Linked /\ \A u \in Linked : ready_queue_head <= u
    BY <1>3, Zenon DEF IInv, QueueShape
  <2>2. CASE ScanNext
    <3>1. cursor = next[current_task]
      BY <2>2, Zenon DEF ScanNext, IInv, ScanLoops
    <3>2. CASE cursor = NULL
      BY <2>1, <2>2, <3>1, <3>2, Zenon DEF ScanNext, Skips
    <3>3. CASE cursor # NULL
      <4>1. /\ cursor \in Linked /\ current_task < cursor
            /\ \A u \in Linked : u <= current_task \/ cursor <= u
        BY <1>3, <3>1, <3>3, Zenon DEF IInv, QueueShape
      <4> QED
        BY <1>3, <2>2, <3>3, <4>1, Zenon DEF ScanNext, Skips, RR!Follows
    <3> QED
      BY <3>2, <3>3, Zenon
  <2>3. CASE ScanHead
    <3>1. cursor = ready_queue_head /\ next[current_task] = NULL
      BY <2>3, Zenon DEF ScanHead, IInv, ScanLoops
    <3>2. \A u \in Linked : u <= current_task
      BY <1>3, <3>1 DEF IInv, QueueShape, Linked
    <3> QED
      BY <1>3, <2>1, <2>3, <3>1, <3>2, Zenon DEF ScanHead, Skips, RR!Follows
  <2> QED
    BY <2>2, <2>3, Zenon
<1>5. TypeOK'
  BY <1>1, <1>3, <1>4, Zenon DEF IInv, TypeOK, queueVars, ScanNext, ScanHead, Labels
<1>6. StatesAgree'
  BY <1>1, <1>2, <1>3, <1>4, Zenon DEF IInv, StatesAgree, queueVars
<1>7. Control'
  BY <1>1, <1>4, Zenon DEF IInv, Control, queueVars, StackOf
<1>8. ScanLoops'
  BY <1>1, <1>2, <1>3, <1>4, Zenon DEF ScanLoops, queueVars, RR!Follows
<1> QED
  BY <1>1, <1>2, <1>4, <1>5, <1>6, <1>7, <1>8, Zenon DEF IInv, AppendLoop, KillLoop, ExitPath

\* task_yield, the choice made.
LEMMA KeepTaskStep == IInv /\ KeepTask => IInv'
<1> SUFFICES ASSUME IInv, KeepTask PROVE IInv'
  OBVIOUS
<1>1. /\ UNCHANGED <<task_count, next, entry, stack_pointer, ready_queue_head,
                     current_task, cpu>>
      /\ pc = "switch" /\ current_task # NULL
      /\ state' = [state EXCEPT ![current_task] = "RUNNING"]
  BY Zenon DEF KeepTask, IInv, ScanLoops
<1>2. /\ current_task \in Tasks /\ current_task \in Linked
      /\ \A t \in Linked : t \in Tasks
  BY <1>1 DEF IInv, TypeOK, Control, Linked
<1>3. /\ state'[current_task] = "RUNNING"
      /\ \A t \in Tasks : t # current_task => state'[t] = state[t]
  BY <1>1, <1>2, Zenon DEF IInv, TypeOK
<1>4. Linked' = Linked
  BY <1>1, <1>2, <1>3 DEF Linked, IInv, TypeOK
<1>5. /\ pc' \in {"hlt", "loop"}
      /\ pc' = "hlt" <=> cpu = BootStack
      /\ pc' = "loop" => entry[cpu] \notin Apps
  BY <1>1, Zenon DEF KeepTask, Resume, IInv, Control
<1>6. TypeOK'
  BY <1>1, <1>2, <1>5, Zenon DEF IInv, TypeOK, KeepTask, States, Labels
<1>7. QueueShape' /\ Saved'
  BY <1>1, <1>4, Zenon DEF IInv, QueueShape, Saved, StackOf
<1>8. StatesAgree'
  BY <1>1, <1>2, <1>3, <1>4, <1>5, Zenon DEF IInv, StatesAgree
<1>9. Control'
  BY <1>1, <1>5, Zenon DEF IInv, Control, StackOf
<1> QED
  BY <1>5, <1>6, <1>7, <1>8, <1>9, Zenon DEF IInv, AppendLoop, ScanLoops, KillLoop, ExitPath

LEMMA SwitchTaskStep == IInv /\ SwitchTask => IInv'
<1> SUFFICES ASSUME IInv, SwitchTask PROVE IInv'
  OBVIOUS
<1>1. /\ UNCHANGED <<task_count, next, entry, ready_queue_head>>
      /\ pc = "switch" /\ current_task' = cursor /\ cursor # current_task
      /\ state' = [state EXCEPT ![cursor] = "RUNNING"]
      /\ stack_pointer' = [stack_pointer EXCEPT
                             ![current_task] = [stack |-> cpu, at |-> "yield"]]
      /\ current_task # NULL
  BY Zenon DEF SwitchTask, IInv, ScanLoops
<1>2. /\ current_task \in Linked
      /\ cursor \in Linked /\ cursor # NULL
      /\ \A t \in Linked : t \in Tasks /\ t <= task_count
  BY <1>1 DEF SwitchTask, IInv, TypeOK, Control, ScanLoops, RR!Follows, Linked
<1>3. /\ state[current_task] = "READY" /\ state[cursor] = "READY"
      /\ state'[cursor] = "RUNNING"
      /\ \A t \in Tasks : t # cursor => state'[t] = state[t]
  BY <1>1, <1>2, Zenon DEF IInv, TypeOK, ScanLoops, StatesAgree
<1>4. Linked' = Linked
  BY <1>1, <1>2, <1>3 DEF Linked, IInv, TypeOK
<1>5. /\ cpu = StackOf(current_task)
      /\ stack_pointer[cursor].stack = StackOf(cursor)
      /\ cpu' = StackOf(cursor)
      /\ cursor = 1 => stack_pointer[cursor].at = "yield"
      /\ stack_pointer[cursor].at = "yield" => cursor = 1 \/ entry[cursor] \notin Apps
  BY <1>1, <1>2, Zenon DEF IInv, Control, Saved, SwitchTask
<1>6. /\ pc' \in {"entry", "hlt", "loop"}
      /\ pc' = "hlt" <=> cpu' = BootStack
      /\ pc' = "loop" => entry[cpu'] \notin Apps
  <2>1. stack_pointer[cursor].at \in {"entry", "yield"}
    BY <1>2, Zenon DEF IInv, TypeOK, SavedFrames
  <2> QED
    BY <1>2, <1>5, <2>1, Zenon DEF SwitchTask, Resume, StackOf
<1>7. TypeOK'
  <2>1. state' \in [Tasks -> States]
    BY <1>1, <1>2, Zenon DEF IInv, TypeOK, States
  <2>2. stack_pointer' \in [Tasks -> SavedFrames]
    BY <1>1, <1>2, Zenon DEF IInv, TypeOK, SavedFrames
  <2>3. cpu' \in Stacks
    BY <1>2, <1>5 DEF StackOf
  <2>4. current_task' \in Pointers
    BY <1>1, <1>2
  <2> QED
    BY <1>1, <1>6, <2>1, <2>2, <2>3, <2>4, Zenon DEF IInv, TypeOK, SwitchTask, Labels
<1>8. QueueShape'
  BY <1>1, <1>4, Zenon DEF IInv, QueueShape
<1>9. StatesAgree'
  BY <1>1, <1>2, <1>3, <1>4, <1>6, Zenon DEF IInv, StatesAgree
<1>10. Control'
  <2>1. cpu' <= task_count /\ cpu' # 1
    BY <1>2, <1>5 DEF StackOf, IInv, TypeOK
  <2> QED
    BY <1>1, <1>2, <1>5, <1>6, <2>1, Zenon DEF Control, StackOf
<1>11. Saved'
  <2>1. /\ stack_pointer'[current_task] = [stack |-> cpu, at |-> "yield"]
        /\ \A t \in Tasks : t # current_task => stack_pointer'[t] = stack_pointer[t]
    BY <1>1, <1>2, Zenon DEF IInv, TypeOK
  <2>2. current_task = 1 \/ entry[current_task] \notin Apps
    BY <1>1, <1>2, <1>5, Zenon DEF IInv, Control, StackOf
  <2> QED
    BY <1>1, <1>2, <1>4, <1>5, <2>1, <2>2 DEF IInv, Saved, StackOf
<1> QED
  BY <1>6, <1>7, <1>8, <1>9, <1>10, <1>11, Zenon DEF IInv, AppendLoop, ScanLoops, KillLoop,
     ExitPath

\* A task that exits, up to its removal from the queue.
LEMMA ExitTaskStep == IInv /\ ExitTask => IInv'
<1> SUFFICES ASSUME IInv, ExitTask PROVE IInv'
  OBVIOUS
<1>1. /\ UNCHANGED <<task_count, next, entry, stack_pointer, ready_queue_head,
                     current_task, cpu>>
      /\ pc = "exit" /\ pc' = "kill" /\ cursor' = ready_queue_head /\ prev' = NULL
      /\ state' = [state EXCEPT ![current_task] = "ZOMBIE"]
      /\ current_task # NULL
  BY Zenon DEF ExitTask, IInv, ExitPath
<1>2. /\ current_task \in Tasks /\ current_task \in Linked
      /\ \A t \in Linked : t \in Tasks
  BY <1>1 DEF IInv, TypeOK, Control, Linked
<1>3. /\ state'[current_task] = "ZOMBIE"
      /\ \A t \in Tasks : t # current_task => state'[t] = state[t]
  BY <1>1, <1>2, Zenon DEF IInv, TypeOK
<1>4. Linked' = Linked
  BY <1>1, <1>2, <1>3 DEF Linked, IInv, TypeOK
<1>5. ready_queue_head \in Linked /\ ready_queue_head <= current_task
  BY <1>2, Zenon DEF IInv, QueueShape
<1>6. TypeOK'
  BY <1>1, <1>2, <1>5 DEF IInv, TypeOK, ExitTask, States, Labels
<1>7. QueueShape' /\ Saved'
  BY <1>1, <1>4, Zenon DEF IInv, QueueShape, Saved, StackOf
<1>8. StatesAgree'
  BY <1>1, <1>2, <1>3, <1>4, Zenon DEF IInv, StatesAgree
<1>9. Control'
  BY <1>1, Zenon DEF IInv, Control, StackOf
<1>10. KillLoop'
  BY <1>1, <1>3, <1>4, <1>5, Zenon DEF KillLoop
<1> QED
  BY <1>1, <1>6, <1>7, <1>8, <1>9, <1>10, Zenon DEF IInv, AppendLoop, ScanLoops, ExitPath

LEMMA KillAdvanceStep == IInv /\ KillAdvance => IInv'
<1> SUFFICES ASSUME IInv, KillAdvance PROVE IInv'
  OBVIOUS
<1>1. /\ UNCHANGED queueVars /\ cpu' = cpu /\ pc = "kill" /\ pc' = pc
      /\ prev' = cursor /\ cursor' = next[cursor] /\ cursor # current_task
  BY Zenon DEF KillAdvance
<1>2. Linked' = Linked /\ QueueShape' /\ Saved'
  BY <1>1, QueueUnchanged, Zenon DEF IInv
<1>3. /\ cursor \in Linked /\ cursor <= current_task
      /\ current_task \in Linked
      /\ \A t \in Linked : t \in Tasks
  BY <1>1 DEF IInv, KillLoop, Control, TypeOK, Linked
<1>4. next[cursor] \in Linked /\ next[cursor] <= current_task
  BY <1>1, <1>3 DEF IInv, QueueShape
<1>5. TypeOK'
  BY <1>1, <1>3, <1>4 DEF IInv, TypeOK, KillAdvance, queueVars, Labels
<1>6. StatesAgree' /\ Control'
  BY <1>1, <1>2, Zenon DEF IInv, StatesAgree, Control, StackOf, queueVars
<1>7. KillLoop'
  BY <1>1, <1>2, <1>3, <1>4, Zenon DEF IInv, KillLoop, queueVars
<1> QED
  BY <1>1, <1>2, <1>5, <1>6, <1>7, Zenon DEF IInv, AppendLoop, ScanLoops, ExitPath

LEMMA KillUnlinkStep == IInv /\ KillUnlink => IInv'
<1> SUFFICES ASSUME IInv, KillUnlink PROVE IInv'
  OBVIOUS
<1>1. /\ UNCHANGED <<task_count, state, entry, stack_pointer, cpu>>
      /\ pc = "kill" /\ pc' = "yield"
      /\ current_task # NULL /\ state[current_task] = "ZOMBIE"
      /\ current_task \in Linked
      /\ \A t \in Linked : t \in Tasks
  BY DEF KillUnlink, IInv, KillLoop, Control, TypeOK, Linked
<1>2. cursor = current_task /\ current_task' = NULL
  BY <1>1 DEF KillUnlink, IInv, KillLoop
<1>3. Linked' = Linked \ {current_task}
  BY <1>1, <1>2 DEF Linked
<1>4. TypeOK'
  BY <1>1, <1>2 DEF IInv, TypeOK, KillUnlink, Labels
<1>5. QueueShape'
  <2>1. CASE prev = NULL
    <3>1. /\ current_task = ready_queue_head /\ next' = next
          /\ ready_queue_head' = next[current_task]
      BY <1>1, <1>2, <2>1 DEF KillUnlink, IInv, KillLoop, Linked
    <3>2. \A u \in Linked : current_task <= u
      BY <1>1, <3>1, Zenon DEF IInv, QueueShape
    <3> QED
      BY <1>1, <1>3, <3>1, <3>2 DEF IInv, QueueShape
  <2>2. CASE prev # NULL
    <3>1. /\ prev \in Linked /\ next[prev] = current_task
          /\ next' = [next EXCEPT ![prev] = next[current_task]]
          /\ ready_queue_head' = ready_queue_head
      BY <1>1, <1>2, <2>2, Zenon DEF KillUnlink, IInv, KillLoop
    <3>2. /\ prev < current_task
          /\ \A u \in Linked : u <= prev \/ current_task <= u
      BY <1>1, <3>1, Zenon DEF IInv, QueueShape
    <3>3. /\ next'[prev] = next[current_task]
          /\ \A t \in Linked : t # prev => next'[t] = next[t]
      BY <1>1, <3>1, Zenon DEF IInv, TypeOK
    <3>4. ready_queue_head \in Linked' /\ \A u \in Linked' : ready_queue_head <= u
      BY <1>1, <1>3, <3>1, <3>2 DEF IInv, QueueShape
    <3>5. \/ next'[prev] = NULL /\ \A u \in Linked' : u <= prev
          \/ /\ next'[prev] \in Linked'
             /\ prev < next'[prev]
             /\ \A u \in Linked' : u <= prev \/ next'[prev] <= u
      BY <1>1, <1>3, <3>1, <3>2, <3>3 DEF IInv, QueueShape
    <3>6. ASSUME NEW t \in Linked', t # prev
          PROVE  \/ next'[t] = NULL /\ \A u \in Linked' : u <= t
                 \/ /\ next'[t] \in Linked'
                    /\ t < next'[t]
                    /\ \A u \in Linked' : u <= t \/ next'[t] <= u
      <4>1. t \in Linked /\ next'[t] = next[t] /\ (t < prev \/ current_task < t)
        BY <1>1, <1>3, <3>1, <3>2, <3>3, <3>6
      <4>2. next[t] # current_task
        BY <1>1, <3>1, <4>1 DEF IInv, QueueShape
      <4> QED
        BY <1>1, <1>3, <4>1, <4>2, Zenon DEF IInv, QueueShape
    <3> QED
      BY <3>1, <3>4, <3>5, <3>6, Zenon DEF QueueShape
  <2> QED
    BY <2>1, <2>2, Zenon
<1>6. StatesAgree'
  BY <1>1, <1>2, <1>3 DEF IInv, StatesAgree
<1>7. Control'
  BY <1>1, <1>2, Zenon DEF IInv, Control, StackOf
<1>8. Saved'
  BY <1>1, <1>2, <1>3, Zenon DEF IInv, Saved, StackOf
<1> QED
  BY <1>1, <1>4, <1>5, <1>6, <1>7, <1>8, Zenon DEF IInv, AppendLoop, ScanLoops, KillLoop,
     ExitPath

-------------------------------------------------------------------------------
\* The inductive invariant holds in every reachable state: no interleaving of
\* task creation, yields, exits and interrupts breaks the scheduler's queue,
\* states, stacks or loops.
THEOREM Invariance == Spec => []IInv
<1>1. IInv /\ [Next]_vars => IInv'
  <2> SUFFICES ASSUME IInv, [Next]_vars PROVE IInv'
    BY Zenon
  <2>1. CASE UNCHANGED vars
    <3>1. UNCHANGED queueVars
      BY <2>1, Zenon DEF vars
    <3>2. Linked' = Linked /\ QueueShape' /\ Saved'
      BY <3>1, QueueUnchanged, Zenon DEF IInv
    <3>3. TypeOK' /\ StatesAgree' /\ Control'
      BY <2>1, <3>2, Zenon DEF vars, queueVars, IInv, TypeOK, StatesAgree, Control, StackOf
    <3> QED
      BY <2>1, <3>2, <3>3, Zenon DEF vars, queueVars, IInv, AppendLoop, ScanLoops, KillLoop,
         ExitPath
  <2>2. CASE BootCreate \/ BootDone \/ CreateFull \/ MainCheck \/ MainHalt
    BY <2>2, BootSteps, Zenon
  <2>3. CASE EnterTask \/ LoopTurn \/ (\E a \in Apps : ShellLaunch(a)) \/ YieldNothing
    BY <2>3, TaskSteps, Zenon
  <2>4. CASE CreateFirst \/ CreateNext \/ AppendAdvance \/ AppendLink
    BY <2>4, CreateFirstStep, CreateNextStep, AppendAdvanceStep, AppendLinkStep, Zenon
  <2>5. CASE YieldBegin \/ ScanNext \/ ScanHead \/ KeepTask \/ SwitchTask
    BY <2>5, YieldBeginStep, ScanSteps, KeepTaskStep, SwitchTaskStep, Zenon
  <2>6. CASE ExitTask \/ KillAdvance \/ KillUnlink
    BY <2>6, ExitTaskStep, KillAdvanceStep, KillUnlinkStep, Zenon
  <2>7. CASE Tick \/ OtherInterrupt
    BY <2>7, InterruptSteps, Zenon
  <2> QED
    BY <2>1, <2>2, <2>3, <2>4, <2>5, <2>6, <2>7, Zenon DEF Next, Execute
<1> QED
  BY InitIInv, <1>1, PTL DEF Spec

\* The scheduler's variables keep their types; every pointer it follows stays
\* inside task_table.
THEOREM TypeCorrect == Spec => []TypeOK
<1>1. IInv => TypeOK
  BY Zenon DEF IInv
<1> QED
  BY Invariance, <1>1, PTL

\* create_task and kill_task keep the ready queue a list of exactly the live
\* tasks in creation order.
THEOREM QueueCorrect == Spec => []QueueShape
<1>1. IInv => QueueShape
  BY Zenon DEF IInv
<1> QED
  BY Invariance, <1>1, PTL

\* The states task_yield looks at agree with the queue and the current task.
THEOREM StatesCorrect == Spec => []StatesAgree
<1>1. IInv => StatesAgree
  BY Zenon DEF IInv
<1> QED
  BY Invariance, <1>1, PTL

\* The CPU always executes on the stack of the task current_task names.
THEOREM CpuCorrect == Spec => []CurrentOwnsCpu
<1>1. IInv => CurrentOwnsCpu
  BY Zenon DEF IInv, Control, CurrentOwnsCpu
<1> QED
  BY Invariance, <1>1, PTL

\* No two waiting tasks, and no waiting task and the CPU, share a stack.
THEOREM StacksCorrect == Spec => []StacksExclusive
<1>1. ASSUME IInv PROVE StacksExclusive
  <2>1. /\ \A t \in Linked : t \in Tasks
        /\ \A t \in Linked \ {current_task} : stack_pointer[t].stack = StackOf(t)
    BY <1>1 DEF IInv, TypeOK, Linked, Saved
  <2>2. ASSUME NEW t \in Linked \ {current_task} PROVE StackOf(t) # cpu
    <3>1. CASE current_task # NULL
      BY <1>1, <2>1, <3>1 DEF IInv, Control, StackOf, TypeOK
    <3>2. CASE current_task = NULL
      <4>1. state[t] # "ZOMBIE" /\ task_count # 0 /\ t \in Tasks
        BY <1>1, <2>1, <3>2 DEF Linked
      <4>2. cpu # BootStack /\ state[cpu] = "ZOMBIE"
        BY <1>1, <3>2, <4>1, Zenon DEF IInv, Control
      <4> QED
        BY <4>1, <4>2, Zenon DEF StackOf
    <3> QED
      BY <3>1, <3>2, Zenon
  <2> QED
    BY <2>1, <2>2 DEF StacksExclusive, StackOf
<1> QED
  BY Invariance, <1>1, PTL

-------------------------------------------------------------------------------
\* The scheduler implements the cyclic turns of RoundRobin: a task enters the
\* order behind all others when create_task links it, task_yield hands the CPU
\* to the next live task in that order and to no other, and a task leaves the
\* order only by its own exit.
THEOREM Refinement == Spec => ImplementsRoundRobin
<1>1. Init => RR!Init
  BY DEF Init, RR!Init, Linked
<1>2. IInv /\ [Next]_vars => [RR!Next]_(RR!vars)
  <2> SUFFICES ASSUME IInv, [Next]_vars PROVE [RR!Next]_(RR!vars)
    BY Zenon
  <2> USE DEF RR!vars
  <2>1. CASE UNCHANGED queueVars
    BY <2>1, QueueUnchanged, Zenon DEF queueVars
  <2>2. CASE CreateFirst
    <3>1. task_count + 1 \in Tasks
      BY <2>2 DEF CreateFirst, IInv, TypeOK
    <3>2. NULL \notin Linked
      BY DEF Linked
    <3>3. Linked = {}
      BY <2>2, <3>2, Zenon DEF CreateFirst, IInv, QueueShape
    <3>a. current_task # NULL => current_task \in Linked
      BY DEF IInv, TypeOK, Control, Linked
    <3>4. current_task = NULL
      BY <3>3, <3>a, Zenon
    <3>5. task_count = 0
      BY <2>2, <3>4, Zenon DEF IInv, Control, CreateFirst
    <3>6. Linked' = {task_count + 1} /\ current_task' = task_count + 1
      BY <2>2, <3>5 DEF CreateFirst, Linked
    <3> QED
      BY <3>1, <3>3, <3>6, Zenon DEF RR!Next, RR!Create
  <2>3. CASE CreateNext
    <3>1. \A t \in 1 .. task_count : state'[t] = state[t]
      BY <2>3 DEF CreateNext, FillSlot, IInv, TypeOK
    <3> QED
      BY <2>3, <3>1, Zenon DEF CreateNext, Linked
  <2>4. CASE AppendLink
    <3>1. /\ task_count + 1 \in Tasks /\ state[task_count + 1] = "READY"
          /\ UNCHANGED <<state, current_task>> /\ task_count' = task_count + 1
      BY <2>4 DEF AppendLink, IInv, TypeOK, AppendLoop
    <3>4. cursor \in Linked
      BY <2>4, Zenon DEF AppendLink, IInv, AppendLoop
    <3>2. Linked' = Linked \cup {task_count + 1}
      BY <3>1 DEF Linked, IInv, TypeOK
    <3>3. \A s \in Linked : s < task_count + 1
      BY DEF Linked, IInv, TypeOK
    <3> QED
      BY <3>1, <3>2, <3>3, <3>4, Zenon DEF RR!Next, RR!Create
  <2>5. CASE YieldBegin
    <3>1. current_task \in Tasks
      BY <2>5 DEF YieldBegin, IInv, TypeOK
    <3>2. Linked' = Linked
      BY <2>5, <3>1 DEF YieldBegin, Linked, IInv, TypeOK
    <3> QED
      BY <2>5, <3>2, Zenon DEF YieldBegin
  <2>6. CASE KeepTask
    <3>1. current_task \in Tasks /\ state[current_task] = "READY"
      BY <2>6 DEF KeepTask, IInv, TypeOK, ScanLoops
    <3>2. Linked' = Linked
      BY <2>6, <3>1 DEF KeepTask, Linked, IInv, TypeOK
    <3> QED
      BY <2>6, <3>2, Zenon DEF KeepTask
  <2>7. CASE SwitchTask
    <3>1. /\ current_task \in Linked /\ RR!Follows(Linked, current_task, cursor)
          /\ current_task' = cursor
      BY <2>7 DEF SwitchTask, IInv, TypeOK, ScanLoops, Control, Linked
    <3>2. /\ cursor \in Linked /\ cursor \in Tasks
          /\ state[current_task] = "READY" /\ state[cursor] = "READY"
      BY <2>7, <3>1 DEF SwitchTask, IInv, TypeOK, ScanLoops, StatesAgree, Linked,
         RR!Follows
    <3>3. Linked' = Linked
      BY <2>7, <3>2 DEF SwitchTask, Linked, IInv, TypeOK
    <3> QED
      BY <3>1, <3>2, <3>3, Zenon DEF RR!Next, RR!Pass
  <2>8. CASE ExitTask
    <3>1. current_task \in Tasks
      BY <2>8 DEF ExitTask, IInv, TypeOK, ExitPath
    <3>2. Linked' = Linked
      BY <2>8, <3>1 DEF ExitTask, Linked, IInv, TypeOK, Control, StatesAgree
    <3> QED
      BY <2>8, <3>2, Zenon DEF ExitTask
  <2>9. CASE KillUnlink
    <3>1. /\ current_task \in Linked /\ state[current_task] = "ZOMBIE"
          /\ cursor # NULL
      BY <2>9 DEF KillUnlink, IInv, TypeOK, KillLoop, Control, Linked
    <3>2. current_task' = NULL /\ Linked' = Linked \ {current_task}
      BY <2>9, <3>1 DEF KillUnlink, Linked
    <3> QED
      BY <3>1, <3>2, Zenon DEF RR!Next, RR!Exit
  <2> QED
    BY <2>1, <2>2, <2>3, <2>4, <2>5, <2>6, <2>7, <2>8, <2>9, Zenon DEF Next, Execute, vars,
       BootCreate, BootDone, CreateFull, AppendAdvance, MainCheck, MainHalt, EnterTask,
       LoopTurn, ShellLaunch, YieldNothing, ScanNext, ScanHead, KillAdvance, Tick,
       OtherInterrupt
<1> QED
  BY Invariance, <1>1, <1>2, PTL DEF Spec, ImplementsRoundRobin, RR!Spec
===============================================================================
