---------------------------------- MODULE Vmm ----------------------------------
(***************************************************************************)
(* The virtual memory manager's table of mappings (vmm.c).  vmm_map_page   *)
(* appends to it, vmm_unmap_page removes the first entry of the page and   *)
(* closes the gap, vmm_translate returns the first entry's address.  The   *)
(* entries from vmm_mapping_count on are never read, so the table is the   *)
(* sequence of the others; flags are stored and never read, and the flush  *)
(* of the TLB concerns page tables that no call here changes.              *)
(***************************************************************************)
EXTENDS Naturals, Sequences

CONSTANTS
  VMM_MAX_MAPPINGS,
  Pages,            \* virtual addresses
  Frames            \* physical addresses

ASSUME VmmAssumption ==
  /\ VMM_MAX_MAPPINGS \in Nat
  /\ Frames \subseteq Nat \ {0}

VARIABLE vmm_mappings

Mapping == [vaddr : Pages, paddr : Frames]

-------------------------------------------------------------------------------
VmmInit == vmm_mappings = << >>

\* Entry i is the first one of page v.
IsFirst(v, i) ==
  /\ vmm_mappings[i].vaddr = v
  /\ \A j \in 1 .. i - 1 : vmm_mappings[j].vaddr # v

Mapped(v) == \E i \in DOMAIN vmm_mappings : vmm_mappings[i].vaddr = v

\* vmm_translate: 0 means that the page is not mapped.
Translate(v) ==
  IF Mapped(v)
  THEN vmm_mappings[CHOOSE i \in DOMAIN vmm_mappings : IsFirst(v, i)].paddr
  ELSE 0

\* A full table is left as it is.
MapPage(v, p) ==
  /\ Len(vmm_mappings) < VMM_MAX_MAPPINGS
  /\ vmm_mappings' = Append(vmm_mappings, [vaddr |-> v, paddr |-> p])

\* Mutant: the entries from the first on are shifted down.
WithoutShiftsAll(i) == [j \in 1 .. Len(vmm_mappings) - 1 |-> vmm_mappings[j + 1]]

\* The table with the entries after i shifted down by one.
Without(i) ==
  [j \in 1 .. Len(vmm_mappings) - 1 |-> vmm_mappings[IF j < i THEN j ELSE j + 1]]

UnmapPage(v) ==
  \E i \in DOMAIN vmm_mappings : IsFirst(v, i) /\ vmm_mappings' = Without(i)

VmmNext == \E v \in Pages : UnmapPage(v) \/ \E p \in Frames : MapPage(v, p)

VmmSpec == VmmInit /\ [][VmmNext]_vmm_mappings

\* Callers that map a page only while it is not mapped.
CarefulNext ==
  \E v \in Pages : UnmapPage(v) \/ \E p \in Frames : ~Mapped(v) /\ MapPage(v, p)

CarefulSpec == VmmInit /\ [][CarefulNext]_vmm_mappings

-------------------------------------------------------------------------------
(***************************************************************************)
(* Properties                                                              *)
(***************************************************************************)

\* The table holds mappings, at most VMM_MAX_MAPPINGS of them.
VmmTypeOK ==
  /\ vmm_mappings \in Seq(Mapping)
  /\ Len(vmm_mappings) <= VMM_MAX_MAPPINGS

A == INSTANCE AddressSpace WITH translation <- [v \in Pages |-> Translate(v)]

\* A call does what the abstract call with the same arguments does.
CallMatches ==
  \A v \in Pages :
    /\ UnmapPage(v) => A!Unmap(v)
    /\ \A p \in Frames : ~Mapped(v) /\ MapPage(v, p) => A!Map(v, p)

\* No page has two entries.
Unique ==
  \A i, j \in DOMAIN vmm_mappings :
    vmm_mappings[i].vaddr = vmm_mappings[j].vaddr => i = j

\* As long as no page has two entries, vmm_unmap_page and vmm_map_page of an
\* unmapped page do to the translations what their names say, and leave no
\* page with two entries: it takes a page mapped twice to go wrong.
CallsTranslate == [][Unique => CallMatches /\ (CarefulNext => Unique')]_vmm_mappings

\* For callers that do not map a page twice, the table is an address space:
\* a mapped page translates to what it was mapped to until it is unmapped.
ImplementsAddressSpace == A!Spec /\ [][CallMatches]_vmm_mappings

===============================================================================
