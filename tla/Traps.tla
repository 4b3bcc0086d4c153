----------------------------------- MODULE Traps -----------------------------------
(***************************************************************************)
(* The two ways into the kernel and back: hardware interrupts and system   *)
(* calls.                                                                  *)
(*                                                                         *)
(* Interrupts: the two cascaded 8259 controllers as pic_remap programs     *)
(* them (every line unmasked, end of interrupt by command), the            *)
(* processor's gates, and isr_handler with pic_send_eoi (interrupts.c,     *)
(* isr_stubs.asm).  The controllers are hardware, modelled by what the     *)
(* code relies on: a request waits in the request register, the line with  *)
(* the highest priority that nothing in service blocks is delivered and    *)
(* marked in service, and a command clears the mark with the highest       *)
(* priority.  A request that goes away before it is acknowledged shows up  *)
(* as a spurious interrupt on the last line of its controller.  The stub   *)
(* saves and restores every register.  The handler of the timer, the only  *)
(* line with one, counts ticks (Scheduler).                                *)
(*                                                                         *)
(* System calls, register by register: the SYSCALL instruction as          *)
(* enable_syscall_engine sets it up, the entry code (syscall_entry.asm),   *)
(* the dispatcher (syscalls.c) and SYSRET.  The C compiler passes the      *)
(* dispatcher's parameters in rdi, rsi, rdx and rcx, and its code may      *)
(* leave anything in the registers a caller has to save.  SYSRET leaves    *)
(* for ring 3, where no page may be executed, and no task state segment    *)
(* tells the processor the stack for a way back: nothing runs after it.    *)
(***************************************************************************)
EXTENDS Integers

CONSTANTS
  Lines,                      \* interrupt lines with a device
  Ids, Args,                  \* what programs put in rax, and in rdi, rsi and rdx
  PID,
  KERNEL_SPACE_START,
  RIP, USER_STACK,            \* the caller's, at the call
  KERNEL_STACK,               \* kernel_stack_top
  NULL, JUNK

MASTER == 0 .. 7
SLAVE == 8 .. 15
CASCADE == 2                  \* the master's line the slave is connected to

ASSUME TrapAssumption ==
  /\ Lines \subseteq (MASTER \cup SLAVE) \ {CASCADE}
  /\ Ids \cup Args \subseteq Int

SYS_KPRINTF == 1
SYS_OPEN_FILE == 2
SYS_SND_BEEP == 3
SYS_GET_PID == 5
SYS_EXIT == 60

Registers == {"rax", "rdi", "rsi", "rdx", "rcx", "r11", "r12", "rsp"}

VARIABLES
  requests,         \* lines waiting, both controllers
  service,          \* bits set in the in-service registers
  cpu,              \* "boot" until kernel_main enables interrupts; then "task",
                    \* or where the interrupt is ("entry", "eoi", "return") or
                    \* the system call ("syscall", "dispatch", "sysret"), and
                    \* "user" in ring 3
  irq,              \* the interrupt being handled
  enabled,          \* the interrupt flag
  saved,            \* the flag the interrupt frame restores
  regs,             \* r11: the interrupt flag at the call, as 0 or 1
  current_task      \* the caller's PID, or NULL once it has been killed

controllers == <<requests, service>>
program == <<regs, current_task>>
trapsVars == <<controllers, cpu, irq, enabled, saved, program>>

\* The master's line that line l comes in on.
MasterLine(l) == IF l \in SLAVE THEN CASCADE ELSE l

\* Priority falls with the number, on each controller.
Precedes(k, l) ==
  \/ MasterLine(k) < MasterLine(l)
  \/ MasterLine(k) = MasterLine(l) /\ k < l

\* Nothing of the same or a higher priority is in service.
Unblocked(l) ==
  /\ \A s \in service \cap MASTER : MasterLine(l) < s
  /\ l \in SLAVE => \A s \in service \cap SLAVE : l < s

-------------------------------------------------------------------------------
\* idt_initialize has run; kernel_main has not enabled interrupts yet.
TrapsInit ==
  /\ requests = {} /\ service = {}
  /\ cpu = "boot" /\ irq = 0
  /\ enabled = FALSE /\ saved = FALSE
  /\ current_task = PID
  /\ regs = [[r \in Registers |-> 0] EXCEPT !["rsp"] = USER_STACK]

EnableInterrupts ==
  /\ cpu = "boot" /\ cpu' = "task"
  /\ enabled' = TRUE
  /\ UNCHANGED <<controllers, irq, saved, program>>

Request(l) ==
  /\ l \notin requests
  /\ requests' = requests \cup {l}
  /\ UNCHANGED <<service, cpu, irq, enabled, saved, program>>

\* An interrupt gate turns the flag off; iretq brings it back.
Enter(l) ==
  /\ cpu = "task" /\ enabled
  /\ cpu' = "entry" /\ irq' = l
  /\ enabled' = FALSE /\ saved' = enabled
  /\ UNCHANGED program

Deliver(l) ==
  /\ l \in requests /\ Unblocked(l)
  /\ \A k \in requests : Unblocked(k) => k = l \/ Precedes(l, k)
  /\ Enter(l)
  /\ requests' = requests \ {l}
  /\ service' = service \cup {l, MasterLine(l)}

\* A request withdrawn: the master answers with line 7 and marks nothing, the
\* slave with line 15 while the master has marked the cascade.
Spurious(l) ==
  /\ requests = {} /\ Unblocked(l)
  /\ Enter(l)
  /\ service' = IF l = 15 THEN service \cup {CASCADE} ELSE service
  /\ UNCHANGED requests

\* isr_handler runs the handler, if the line has one.
IsrHandler ==
  /\ cpu = "entry" /\ cpu' = "eoi"
  /\ UNCHANGED <<controllers, irq, enabled, saved, program>>

\* What the command 0x20 leaves of a controller's in-service register.
EndOfInterrupt(controller) ==
  {s \in service \cap controller : \E t \in service \cap controller : t < s}

\* Mutant: the first line of the slave is taken for the master's.
PicSendEoiPastFirst ==
  /\ cpu = "eoi" /\ cpu' = "return"
  /\ service' = EndOfInterrupt(MASTER) \cup
                  (IF irq > 8 THEN EndOfInterrupt(SLAVE) ELSE service \cap SLAVE)
  /\ UNCHANGED <<requests, irq, enabled, saved, program>>

\* The slave's command first, then the master's, whatever the interrupt was.
PicSendEoi ==
  /\ cpu = "eoi" /\ cpu' = "return"
  /\ service' = EndOfInterrupt(MASTER) \cup
                  (IF irq >= 8 THEN EndOfInterrupt(SLAVE) ELSE service \cap SLAVE)
  /\ UNCHANGED <<requests, irq, enabled, saved, program>>

\* Mutant: the flag is not restored.
InterruptReturnDisabled ==
  /\ cpu = "return" /\ cpu' = "task"
  /\ UNCHANGED <<controllers, irq, enabled, saved, program>>

InterruptReturn ==
  /\ cpu = "return" /\ cpu' = "task"
  /\ enabled' = saved
  /\ UNCHANGED <<controllers, irq, saved, program>>

-------------------------------------------------------------------------------
\* SYSCALL turns the interrupt flag off and keeps it and the return address in
\* registers.  An interrupt that can be taken is taken before it.
Syscall(id, a1, a2, a3) ==
  /\ cpu = "task"
  /\ enabled => \A l \in requests : ~Unblocked(l)
  /\ regs' = [regs EXCEPT !["rax"] = id, !["rdi"] = a1, !["rsi"] = a2, !["rdx"] = a3,
                          !["rcx"] = RIP, !["r11"] = IF enabled THEN 1 ELSE 0]
  /\ enabled' = FALSE
  /\ cpu' = "syscall"
  /\ UNCHANGED <<controllers, irq, saved, current_task>>

\* Mutant: a register the compiled code need not keep.
StackRegisterCallerSaved == "r11"

\* Where the entry code keeps the program's stack pointer.
StackRegister == "r12"

SyscallEntry ==
  /\ cpu = "syscall" /\ cpu' = "dispatch"
  /\ regs' = [regs EXCEPT ![StackRegister] = regs["rsp"], !["rsp"] = KERNEL_STACK]
  /\ UNCHANGED <<controllers, irq, enabled, saved, current_task>>

\* The dispatcher's parameters, as compiled C code finds them.
SyscallId == regs["rdi"]
Arguments == {regs["rsi"], regs["rdx"], regs["rcx"]}

Refused == \E a \in Arguments : a >= KERNEL_SPACE_START

Result ==
  IF Refused THEN -1
  ELSE CASE SyscallId = SYS_GET_PID -> IF current_task = NULL THEN 0 ELSE current_task
         [] SyscallId \in {SYS_EXIT, SYS_SND_BEEP, SYS_KPRINTF, SYS_OPEN_FILE} -> 0
         [] OTHER -> -2

\* Of the registers the compiled code need not keep, nobody reads rdi, rsi and
\* rdx again; lost are those of rcx and r11 that it writes to.
SyscallDispatcher(lost) ==
  /\ cpu = "dispatch" /\ cpu' = "sysret"
  /\ regs' = [r \in Registers |->
                IF r = "rax" THEN Result
                ELSE IF r \in lost \cup {"rdi", "rsi", "rdx"} THEN JUNK ELSE regs[r]]
  /\ current_task' = IF SyscallId = SYS_EXIT /\ ~Refused THEN NULL ELSE current_task
  /\ UNCHANGED <<controllers, irq, enabled, saved>>

\* The end of the entry code; SYSRET takes the flags from r11 and the address
\* from rcx, and drops to ring 3.
SyscallReturn ==
  /\ cpu = "sysret" /\ cpu' = "user"
  /\ regs' = [regs EXCEPT !["rsp"] = regs[StackRegister]]
  /\ enabled' \in IF regs["r11"] = JUNK THEN BOOLEAN ELSE {regs["r11"] = 1}
  /\ UNCHANGED <<controllers, irq, saved, current_task>>

\* The first fetch there faults, and the fault finds no stack.
Stopped == cpu = "user" /\ UNCHANGED trapsVars

-------------------------------------------------------------------------------
Cpu ==
  \/ EnableInterrupts
  \/ \E l \in Lines : Deliver(l)
  \/ IsrHandler \/ PicSendEoi \/ InterruptReturn
  \/ SyscallEntry \/ SyscallReturn
  \/ \E lost \in SUBSET {"rcx", "r11"} : SyscallDispatcher(lost)

TrapsNext ==
  \/ Cpu
  \/ Stopped
  \/ \E l \in Lines : Request(l)
  \/ \E l \in {7, 15} : Spurious(l)
  \/ \E id \in Ids, a1, a2, a3 \in Args : Syscall(id, a1, a2, a3)

\* The processor keeps executing and takes interrupts when it can.
TrapsSpec == TrapsInit /\ [][TrapsNext]_trapsVars /\ WF_trapsVars(Cpu)

-------------------------------------------------------------------------------
(***************************************************************************)
(* Properties                                                              *)
(***************************************************************************)

\* Interrupts do not nest, and when a task or a system call runs no controller
\* has anything left in service, after spurious interrupts as well: each
\* interrupt's end-of-interrupt commands clear exactly the marks its delivery
\* set.
NothingLeftInService ==
  /\ cpu \notin {"entry", "eoi"} => service = {}
  /\ cpu \in {"entry", "eoi"} => service \subseteq {irq, MasterLine(irq)} /\ ~enabled

\* The stack pointer is the caller's again when syscall_entry leaves, whatever the
\* dispatcher does to the registers and whenever interrupts come ("Save user
\* stack pointer in R12 (callee-saved)").
StackRestored == cpu \in {"task", "user"} => regs["rsp"] = USER_STACK

\* Every request of the timer is delivered, however many requests of other lines
\* and spurious interrupts there are and whatever they find in service: its line
\* has the highest priority, and the way out of the handler turns interrupts on
\* again.  A system call ends that: its SYSRET stops the machine.
TimerServed == (0 \in requests) ~> (0 \notin requests \/ cpu = "user")

\* The dispatcher's first parameter is the number of the call ("RAX = syscall ID,
\* RDI/RSI/RDX = args 1-3").
NumberFromRax == cpu = "dispatch" => SyscallId = regs["rax"]

===============================================================================
