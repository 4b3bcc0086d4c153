---------------------------------- MODULE Boot ----------------------------------
(***************************************************************************)
(* From the boot loader to a running kernel: boot.asm builds page tables,  *)
(* enters long mode and calls kernel_main; vmm_initialize (vmm.c) builds   *)
(* the kernel's own tables and switches to them; from then on the kernel   *)
(* calls the virtual memory manager (Vmm).  Memory is counted in           *)
(* gigabytes, the size of the pages both map, and a table entry is absent  *)
(* or names what it points to.  Of the registers, those that carry the     *)
(* boot loader's parameters or that the code on the way writes to are      *)
(* kept.                                                                   *)
(***************************************************************************)
EXTENDS Integers, Vmm

CONSTANTS
  ENTRIES,          \* entries of a table (512)
  ALIAS,            \* the entry of the high half (256)
  BOOT_GIGS,        \* gigabytes boot.asm maps (4)
  KERNEL_GIGS,      \* gigabytes vmm_initialize maps (6)
  WRAP,             \* gigabytes a 32-bit register can count (4)
  Infos, Magics     \* multiboot information pointers and magic numbers

ASSUME BootAssumption ==
  /\ {ENTRIES, ALIAS, BOOT_GIGS, KERNEL_GIGS, WRAP} \subseteq Nat \ {0}
  /\ ALIAS < ENTRIES /\ KERNEL_GIGS <= ENTRIES
  /\ BOOT_GIGS <= WRAP /\ BOOT_GIGS <= KERNEL_GIGS

ABSENT == -1
Index == 0 .. ENTRIES - 1
Empty == [i \in Index |-> ABSENT]

VARIABLES
  stage,
  info, magic,      \* what the boot loader passes, in ebx and eax
  edi, esi, ebx, ecx,
  pml4, pdpt,       \* the tables of boot.asm ("boot") and of vmm.c ("kernel")
  cr3,              \* the active tables; "off" while paging is disabled
  i                 \* vmm_initialize's loop variable

regs == <<edi, esi, ebx, ecx>>
loader == <<info, magic>>
bootVars == <<stage, loader, regs, pml4, pdpt, cr3, i>>
kernelVars == <<bootVars, vmm_mappings>>

-------------------------------------------------------------------------------
BootInit ==
  /\ stage = "start"
  /\ info \in Infos /\ magic \in Magics
  /\ edi = 0 /\ esi = 0 /\ ebx = info /\ ecx = 0
  /\ pml4 = [t \in {"boot", "kernel"} |-> Empty]
  /\ pdpt = [t \in {"boot", "kernel"} |-> Empty]
  /\ cr3 = "off"
  /\ i = 0
  /\ VmmInit

\* Keep the parameters; SSE, the stack and the GDT touch eax and esp only.
SaveParameters ==
  /\ stage = "start" /\ stage' = "tables"
  /\ edi' = ebx
  /\ esi' = magic
  /\ UNCHANGED <<loader, ebx, ecx, pml4, pdpt, cr3, i>>

\* ecx walks the table, ebx the memory, edi counts down.
BeginTables ==
  /\ stage = "tables" /\ stage' = "loop"
  /\ ecx' = 0 /\ ebx' = 0 /\ edi' = BOOT_GIGS
  /\ UNCHANGED <<loader, esi, pml4, pdpt, cr3, i>>

LongModePagingLoop ==
  /\ stage = "loop"
  /\ pdpt' = [pdpt EXCEPT !["boot"][ecx] = ebx]
  /\ ebx' = (ebx + 1) % WRAP
  /\ ecx' = ecx + 1
  /\ edi' = edi - 1
  /\ stage' = IF edi' = 0 THEN "pml4" ELSE "loop"
  /\ UNCHANGED <<loader, esi, pml4, cr3, i>>

\* The first entry of the PML4 points to the PDPT; PAE, LME, cr3 and PG follow.
\* rdmsr and wrmsr take ecx.
EnterLongMode ==
  /\ stage = "pml4" /\ stage' = "call"
  /\ pml4' = [pml4 EXCEPT !["boot"][0] = 0]
  /\ ecx' = 0
  /\ cr3' = "boot"
  /\ UNCHANGED <<loader, edi, esi, ebx, pdpt, i>>

\* The arguments of kernel_main are rdi and rsi.
CallKernelMain ==
  /\ stage = "call" /\ stage' = "clear"
  /\ UNCHANGED <<loader, regs, pml4, pdpt, cr3, i>>

ClearTables ==
  /\ stage = "clear" /\ stage' = "link"
  /\ pml4' = [pml4 EXCEPT !["kernel"] = Empty]
  /\ pdpt' = [pdpt EXCEPT !["kernel"] = Empty]
  /\ UNCHANGED <<loader, regs, cr3, i>>

\* Both PML4 entries point to the one PDPT.
LinkTables ==
  /\ stage = "link" /\ stage' = "fill"
  /\ pml4' = [pml4 EXCEPT !["kernel"][0] = 0, !["kernel"][ALIAS] = 0]
  /\ i' = 0
  /\ UNCHANGED <<loader, regs, pdpt, cr3>>

\* Mutant: one gigabyte less than boot.asm mapped.
FillTablesShort ==
  /\ stage = "fill"
  /\ pdpt' = [pdpt EXCEPT !["kernel"][i] = i]
  /\ i' = i + 1
  /\ stage' = IF i' = BOOT_GIGS - 1 THEN "load" ELSE "fill"
  /\ UNCHANGED <<loader, regs, pml4, cr3>>

FillTables ==
  /\ stage = "fill"
  /\ pdpt' = [pdpt EXCEPT !["kernel"][i] = i]
  /\ i' = i + 1
  /\ stage' = IF i' = KERNEL_GIGS THEN "load" ELSE "fill"
  /\ UNCHANGED <<loader, regs, pml4, cr3>>

LoadCr3 ==
  /\ stage = "load" /\ stage' = "done"
  /\ cr3' = "kernel"
  /\ UNCHANGED <<loader, regs, pml4, pdpt, i>>

StartUp ==
  \/ SaveParameters \/ BeginTables \/ LongModePagingLoop \/ EnterLongMode
  \/ CallKernelMain \/ ClearTables \/ LinkTables \/ FillTables \/ LoadCr3

\* The calls of vmm.c change its list and no page table.
BootNext ==
  \/ StartUp /\ UNCHANGED vmm_mappings
  \/ stage = "done" /\ VmmNext /\ UNCHANGED bootVars

BootSpec == BootInit /\ [][BootNext]_kernelVars

\* What the processor makes of PML4 index a and PDPT index b.
Walk(a, b) ==
  IF cr3 = "off" THEN b
  ELSE IF pml4[cr3][a] = ABSENT THEN ABSENT ELSE pdpt[cr3][b]

-------------------------------------------------------------------------------
(***************************************************************************)
(* Properties                                                              *)
(***************************************************************************)

\* No low address is ever mapped to anything but itself; the gigabyte that the
\* kernel, its stack and both sets of tables lie in is mapped at every step;
\* and what is mapped once stays mapped: device registers found with boot.asm's
\* tables are where they were after vmm_initialize has switched to its own.
IdentityKept ==
  [][\A b \in Index :
       /\ Walk(0, b)' \in IF b = 0 THEN {0} ELSE {ABSENT, b}
       /\ cr3 # "off" /\ Walk(0, b) # ABSENT => Walk(0, b)' = b]_kernelVars

\* kernel_main is given what the boot loader passed ("Multiboot info pointer and
\* magic are already in rdi/rsi from the 32-bit entry").
ParametersPassed == stage = "clear" => edi = info /\ esi = magic

===============================================================================
