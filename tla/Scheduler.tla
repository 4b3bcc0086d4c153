------------------------------- MODULE Scheduler -------------------------------
(***************************************************************************)
(* The process scheduler (scheduler.c, context_switch.asm), the kernel's   *)
(* main loop and tasks that call it (kernel.c, services.c) and the         *)
(* application launcher that creates tasks at run time (app_launcher.c).   *)
(*                                                                         *)
(* One CPU runs one stack at a time.  A task is named by its slot in       *)
(* task_table counted from 1, which is also its pid; 0 is the NULL         *)
(* pointer.  The loops that walk the ready queue are stepped one iteration *)
(* at a time, so the timer interrupt can fall between any two of them.     *)
(***************************************************************************)
EXTENDS Naturals

CONSTANTS
  MAX_TASKS,        \* slots of task_table; slots are never reused
  SERVICE_COUNT,    \* BACKGROUND_SERVICE_COUNT
  Apps              \* entries of the application registry

ASSUME SchedulerAssumption ==
  /\ MAX_TASKS \in Nat \ {0}
  /\ SERVICE_COUNT \in Nat
  /\ Apps \cap {"none", "idle", "shell", "service"} = {}

NULL == 0
BootStack == 0
Tasks == 1 .. MAX_TASKS
Pointers == 0 .. MAX_TASKS
Stacks == 0 .. MAX_TASKS

VARIABLES
  task_count,           \* slots handed out so far
  state,                \* tcb->state
  next,                 \* tcb->next
  entry,                \* tcb->entry
  stack_pointer,        \* tcb->stack_pointer: the stack it points into and
                        \* where that stack's execution goes on
  ready_queue_head,
  current_task,
  schedule_requested,
  running,              \* app_registry[a].running
  cpu,                  \* the stack the CPU is executing on
  pc,                   \* the point in the code that stack has reached
  cursor,               \* local pointer of the queue loops: iter, tcb, next_task
  prev,                 \* kill_task's prev
  arg,                  \* create_task's entry argument
  created               \* create_task calls kernel_main has made

queueVars == <<task_count, state, next, entry, stack_pointer,
               ready_queue_head, current_task>>
vars == <<queueVars, schedule_requested, running, cpu, pc, cursor, prev, arg,
          created>>

States == {"RUNNING", "READY", "ZOMBIE"}
Entries == {"none", "idle", "shell", "service"} \cup Apps
SavedFrames == [stack : Stacks, at : {"entry", "yield"}]
Labels == {"boot", "create", "append", "check", "hlt", "halted", "entry",
           "loop", "yield", "scan_next", "scan_head", "switch", "exit",
           "kill", "dead"}

\* Tasks that are on the ready queue: an exiting task stays linked until
\* kill_task takes it off and clears current_task in the same step.
Linked == {t \in 1 .. task_count : state[t] # "ZOMBIE" \/ t = current_task}

-------------------------------------------------------------------------------
\* scheduler_initialize and app_launcher_initialize have run, interrupts are on.
Init ==
  /\ task_count = 0
  /\ state = [t \in Tasks |-> "ZOMBIE"]
  /\ next = [t \in Tasks |-> NULL]
  /\ entry = [t \in Tasks |-> "none"]
  /\ stack_pointer = [t \in Tasks |-> [stack |-> t, at |-> "entry"]]
  /\ ready_queue_head = NULL
  /\ current_task = NULL
  /\ schedule_requested \in BOOLEAN
  /\ running = [a \in Apps |-> FALSE]
  /\ cpu = BootStack
  /\ pc = "boot"
  /\ cursor = NULL
  /\ prev = NULL
  /\ arg = "none"
  /\ created = 0

\* The order in which kernel_main creates its tasks.
BootEntry(n) == IF n = 1 THEN "idle" ELSE IF n = 2 THEN "shell" ELSE "service"

BootCreate ==
  /\ pc = "boot"
  /\ created < SERVICE_COUNT + 2
  /\ created' = created + 1
  /\ arg' = BootEntry(created + 1)
  /\ pc' = "create"
  /\ UNCHANGED <<queueVars, schedule_requested, running, cpu, cursor, prev>>

BootDone ==
  /\ pc = "boot"
  /\ created = SERVICE_COUNT + 2
  /\ pc' = "check"
  /\ UNCHANGED <<queueVars, schedule_requested, running, cpu, cursor, prev,
                 arg, created>>

-------------------------------------------------------------------------------
\* create_task: where its callers go on, and what the launcher records.
CreateReturn == IF cpu = BootStack THEN "boot" ELSE "yield"

Launched == [a \in Apps |-> running[a] \/ a = arg]

CreateFull ==
  /\ pc = "create"
  /\ task_count >= MAX_TASKS
  /\ pc' = CreateReturn
  /\ UNCHANGED <<queueVars, schedule_requested, running, cpu, cursor, prev,
                 arg, created>>

\* Fill the slot.  Its stack is prepared so that the first switch to it
\* returns into task_entry_wrapper.
FillSlot(t, s) ==
  /\ state' = [state EXCEPT ![t] = s]
  /\ next' = [next EXCEPT ![t] = NULL]
  /\ entry' = [entry EXCEPT ![t] = arg]
  /\ stack_pointer' = [stack_pointer EXCEPT ![t] = [stack |-> t, at |-> "entry"]]

\* The queue is empty: the new task becomes its head and the current task,
\* marked running although the CPU goes on executing the caller.
CreateFirst ==
  /\ pc = "create"
  /\ task_count < MAX_TASKS
  /\ ready_queue_head = NULL
  /\ FillSlot(task_count + 1, "RUNNING")
  /\ ready_queue_head' = task_count + 1
  /\ current_task' = task_count + 1
  /\ task_count' = task_count + 1
  /\ running' = Launched
  /\ pc' = CreateReturn
  /\ UNCHANGED <<schedule_requested, cpu, cursor, prev, arg, created>>

CreateNext ==
  /\ pc = "create"
  /\ task_count < MAX_TASKS
  /\ ready_queue_head # NULL
  /\ FillSlot(task_count + 1, "READY")
  /\ cursor' = ready_queue_head
  /\ pc' = "append"
  /\ UNCHANGED <<task_count, ready_queue_head, current_task, schedule_requested,
                 running, cpu, prev, arg, created>>

AppendAdvance ==
  /\ pc = "append"
  /\ next[cursor] # NULL
  /\ cursor' = next[cursor]
  /\ UNCHANGED <<queueVars, schedule_requested, running, cpu, pc, prev, arg,
                 created>>

AppendLink ==
  /\ pc = "append"
  /\ next[cursor] = NULL
  /\ next' = [next EXCEPT ![cursor] = task_count + 1]
  /\ task_count' = task_count + 1
  /\ running' = Launched
  /\ pc' = CreateReturn
  /\ UNCHANGED <<state, entry, stack_pointer, ready_queue_head, current_task,
                 schedule_requested, cpu, cursor, prev, arg, created>>

-------------------------------------------------------------------------------
\* Mutant of MainCheck: the loop schedules when nothing was requested.
MainCheckInverted ==
  /\ pc = "check"
  /\ pc' = IF schedule_requested THEN "hlt" ELSE "yield"
  /\ UNCHANGED <<queueVars, schedule_requested, running, cpu, cursor, prev,
                 arg, created>>

\* kernel_main's final loop: a request seen goes to schedule(), and either
\* way the loop halts until an interrupt.
MainCheck ==
  /\ pc = "check"
  /\ pc' = IF schedule_requested THEN "yield" ELSE "hlt"
  /\ UNCHANGED <<queueVars, schedule_requested, running, cpu, cursor, prev,
                 arg, created>>

MainHalt ==
  /\ pc = "hlt"
  /\ pc' = "halted"
  /\ UNCHANGED <<queueVars, schedule_requested, running, cpu, cursor, prev,
                 arg, created>>

\* task_entry_wrapper calls the current task's entry.  The applications
\* log one line and return; every other entry loops for ever.
EnterTask ==
  /\ pc = "entry"
  /\ pc' = IF current_task = NULL THEN "dead"
           ELSE IF entry[current_task] \in Apps THEN "exit" ELSE "loop"
  /\ UNCHANGED <<queueVars, schedule_requested, running, cpu, cursor, prev,
                 arg, created>>

\* A turn of the shell in which a click launches an application that is not
\* marked running; app_launch creates its task, then the shell yields.
ShellLaunch(a) ==
  /\ pc = "loop"
  /\ cpu # BootStack
  /\ entry[cpu] = "shell"
  /\ ~running[a]
  /\ arg' = a
  /\ pc' = "create"
  /\ UNCHANGED <<queueVars, schedule_requested, running, cpu, cursor, prev,
                 created>>

\* A turn of a looping task with no effect on the scheduler before it yields.
LoopTurn ==
  /\ pc = "loop"
  /\ pc' = "yield"
  /\ UNCHANGED <<queueVars, schedule_requested, running, cpu, cursor, prev,
                 arg, created>>

-------------------------------------------------------------------------------
\* task_yield: where the caller on stack s goes on when the call returns.
Resume(s) ==
  IF s = BootStack THEN "hlt"
  ELSE IF entry[s] \in Apps THEN "dead" ELSE "loop"

YieldNothing ==
  /\ pc = "yield"
  /\ current_task = NULL \/ ready_queue_head = NULL
  /\ pc' = Resume(cpu)
  /\ UNCHANGED <<queueVars, schedule_requested, running, cpu, cursor, prev,
                 arg, created>>

\* Mutant of YieldBegin: the search for the next task starts at the head of the
\* queue.
YieldBeginFromHead ==
  /\ pc = "yield"
  /\ current_task # NULL /\ ready_queue_head # NULL
  /\ schedule_requested' = FALSE
  /\ state' = [state EXCEPT ![current_task] = IF @ = "RUNNING" THEN "READY" ELSE @]
  /\ cursor' = ready_queue_head
  /\ pc' = "scan_next"
  /\ UNCHANGED <<task_count, next, entry, stack_pointer, ready_queue_head,
                 current_task, running, cpu, prev, arg, created>>

\* Mutant of YieldBegin: the task that gives up the CPU stays RUNNING.
YieldBeginStaysRunning ==
  /\ pc = "yield"
  /\ current_task # NULL /\ ready_queue_head # NULL
  /\ schedule_requested' = FALSE
  /\ cursor' = next[current_task]
  /\ pc' = "scan_next"
  /\ UNCHANGED <<queueVars, running, cpu, prev, arg, created>>

YieldBegin ==
  /\ pc = "yield"
  /\ current_task # NULL /\ ready_queue_head # NULL
  /\ schedule_requested' = FALSE
  /\ state' = [state EXCEPT ![current_task] = IF @ = "RUNNING" THEN "READY" ELSE @]
  /\ cursor' = next[current_task]
  /\ pc' = "scan_next"
  /\ UNCHANGED <<task_count, next, entry, stack_pointer, ready_queue_head,
                 current_task, running, cpu, prev, arg, created>>

Skips(t) == t # NULL /\ state[t] # "READY"

\* Mutant of ScanNext: starting over skips the head, taken for the idle task.
ScanNextSkipsHead ==
  /\ pc = "scan_next"
  /\ cursor' = IF Skips(cursor) THEN next[cursor]
               ELSE IF cursor = NULL THEN next[ready_queue_head] ELSE cursor
  /\ pc' = IF Skips(cursor) THEN pc
           ELSE IF cursor = NULL THEN "scan_head" ELSE "switch"
  /\ UNCHANGED <<queueVars, schedule_requested, running, cpu, prev, arg,
                 created>>

\* One turn of the loop from the old task's successor to the end ...
ScanNext ==
  /\ pc = "scan_next"
  /\ cursor' = IF Skips(cursor) THEN next[cursor]
               ELSE IF cursor = NULL THEN ready_queue_head ELSE cursor
  /\ pc' = IF Skips(cursor) THEN pc
           ELSE IF cursor = NULL THEN "scan_head" ELSE "switch"
  /\ UNCHANGED <<queueVars, schedule_requested, running, cpu, prev, arg,
                 created>>

\* ... and of the one that starts over at the head.
ScanHead ==
  /\ pc = "scan_head"
  /\ cursor' = IF Skips(cursor) THEN next[cursor] ELSE cursor
  /\ pc' = IF Skips(cursor) THEN pc ELSE "switch"
  /\ UNCHANGED <<queueVars, schedule_requested, running, cpu, prev, arg,
                 created>>

\* Mutant of KeepTask: the task that goes on is left READY.
KeepTaskReady ==
  /\ pc = "switch"
  /\ cursor \in {NULL, current_task}
  /\ pc' = Resume(cpu)
  /\ UNCHANGED <<queueVars, schedule_requested, running, cpu, cursor, prev, arg,
                 created>>

KeepTask ==
  /\ pc = "switch"
  /\ cursor \in {NULL, current_task}
  /\ state' = [state EXCEPT ![current_task] = "RUNNING"]
  /\ pc' = Resume(cpu)
  /\ UNCHANGED <<task_count, next, entry, stack_pointer, ready_queue_head,
                 current_task, schedule_requested, running, cpu, cursor, prev,
                 arg, created>>

\* Mutant of SwitchTask: the old stack is saved through current_task after that
\* names the new task.
SwitchTaskSavesInNew ==
  /\ pc = "switch"
  /\ cursor \notin {NULL, current_task}
  /\ current_task' = cursor
  /\ state' = [state EXCEPT ![cursor] = "RUNNING"]
  /\ stack_pointer' =
       [stack_pointer EXCEPT ![cursor] = [stack |-> cpu, at |-> "yield"]]
  /\ cpu' = stack_pointer[cursor].stack
  /\ pc' = IF stack_pointer[cursor].at = "entry" THEN "entry"
           ELSE Resume(stack_pointer[cursor].stack)
  /\ UNCHANGED <<task_count, next, entry, ready_queue_head, schedule_requested,
                 running, cursor, prev, arg, created>>

\* switch_task_context saves the CPU's stack in the old task's block and goes
\* on where the new task's block says.
SwitchTask ==
  /\ pc = "switch"
  /\ cursor \notin {NULL, current_task}
  /\ current_task' = cursor
  /\ state' = [state EXCEPT ![cursor] = "RUNNING"]
  /\ stack_pointer' =
       [stack_pointer EXCEPT ![current_task] = [stack |-> cpu, at |-> "yield"]]
  /\ cpu' = stack_pointer[cursor].stack
  /\ pc' = IF stack_pointer[cursor].at = "entry" THEN "entry"
           ELSE Resume(stack_pointer[cursor].stack)
  /\ UNCHANGED <<task_count, next, entry, ready_queue_head, schedule_requested,
                 running, cursor, prev, arg, created>>

-------------------------------------------------------------------------------
\* The wrapper, after the entry returned: mark the task dead, kill_task, and
\* yield (which finds no current task and returns into the wrapper's hlt loop).
ExitTask ==
  /\ pc = "exit"
  /\ state' = [state EXCEPT ![current_task] = "ZOMBIE"]
  /\ cursor' = ready_queue_head
  /\ prev' = NULL
  /\ pc' = "kill"
  /\ UNCHANGED <<task_count, next, entry, stack_pointer, ready_queue_head,
                 current_task, schedule_requested, running, cpu, arg, created>>

KillAdvance ==
  /\ pc = "kill"
  /\ cursor \notin {NULL, current_task}
  /\ prev' = cursor
  /\ cursor' = next[cursor]
  /\ UNCHANGED <<queueVars, schedule_requested, running, cpu, pc, arg, created>>

\* Unlink the task found; the dead task's own next pointer is left as it was.
KillUnlink ==
  /\ pc = "kill"
  /\ cursor \in {NULL, current_task}
  /\ ready_queue_head' = IF cursor # NULL /\ prev = NULL
                         THEN next[cursor] ELSE ready_queue_head
  /\ next' = IF cursor # NULL /\ prev # NULL
             THEN [next EXCEPT ![prev] = next[cursor]] ELSE next
  /\ current_task' = IF cursor # NULL THEN NULL ELSE current_task
  /\ pc' = "yield"
  /\ UNCHANGED <<task_count, state, entry, stack_pointer, schedule_requested,
                 running, cpu, cursor, prev, arg, created>>

-------------------------------------------------------------------------------
\* The timer interrupt: pit_tick only sets the flag.  Any interrupt ends a hlt.
Tick ==
  /\ schedule_requested' = TRUE
  /\ pc' = IF pc = "halted" THEN "check" ELSE pc
  /\ UNCHANGED <<queueVars, running, cpu, cursor, prev, arg, created>>

OtherInterrupt ==
  /\ pc = "halted"
  /\ pc' = "check"
  /\ UNCHANGED <<queueVars, schedule_requested, running, cpu, cursor, prev,
                 arg, created>>

Execute ==
  \/ BootCreate \/ BootDone
  \/ CreateFull \/ CreateFirst \/ CreateNext \/ AppendAdvance \/ AppendLink
  \/ MainCheck \/ MainHalt
  \/ EnterTask \/ LoopTurn \/ \E a \in Apps : ShellLaunch(a)
  \/ YieldNothing \/ YieldBegin \/ ScanNext \/ ScanHead \/ KeepTask \/ SwitchTask
  \/ ExitTask \/ KillAdvance \/ KillUnlink

Next == Execute \/ Tick \/ OtherInterrupt

Spec == Init /\ [][Next]_vars

\* The CPU never stops between two instructions and the timer is periodic.
FairSpec == Spec /\ WF_vars(Execute) /\ WF_vars(Tick)

-------------------------------------------------------------------------------
(***************************************************************************)
(* Properties                                                              *)
(***************************************************************************)

\* Every variable keeps its C type, the pointers stay inside task_table.
TypeOK ==
  /\ task_count \in 0 .. MAX_TASKS
  /\ state \in [Tasks -> States]
  /\ next \in [Tasks -> Pointers]
  /\ entry \in [Tasks -> Entries]
  /\ stack_pointer \in [Tasks -> SavedFrames]
  /\ ready_queue_head \in Pointers
  /\ current_task \in Pointers
  /\ schedule_requested \in BOOLEAN
  /\ running \in [Apps -> BOOLEAN]
  /\ cpu \in Stacks
  /\ pc \in Labels
  /\ cursor \in Pointers
  /\ prev \in Pointers
  /\ arg \in Entries
  /\ created \in 0 .. SERVICE_COUNT + 2

\* The head and next pointers list exactly the linked tasks, each once, in
\* creation order: appending at the tail and unlinking by prev lose nothing,
\* and no pointer of a queued task leads to a dead one.
QueueShape ==
  /\ \/ ready_queue_head = NULL /\ Linked = {}
     \/ ready_queue_head \in Linked /\ \A u \in Linked : ready_queue_head <= u
  /\ \A t \in Linked :
       \/ next[t] = NULL /\ \A u \in Linked : u <= t
       \/ /\ next[t] \in Linked
          /\ t < next[t]
          /\ \A u \in Linked : u <= t \/ next[t] <= u

\* The stack a task's code runs on: the first task's block is taken over by
\* the boot thread, whose first task_yield saves the boot stack in it.
StackOf(t) == IF t = 1 THEN BootStack ELSE t

\* get_current_task tells the truth: whenever there is a current task, the
\* CPU is on that task's stack.  In particular idle_task_func never runs,
\* the boot thread is the idle task.
CurrentOwnsCpu == current_task # NULL => cpu = StackOf(current_task)

\* No stack is resumed by two: each waiting task's saved stack pointer leads
\* to its own stack, never to the one executing, so the switch in task_yield
\* can pick any of them.
StacksExclusive ==
  /\ \A t \in Linked \ {current_task} :
       stack_pointer[t].stack = StackOf(t) /\ stack_pointer[t].stack # cpu
  /\ \A t, u \in Linked \ {current_task} :
       stack_pointer[t].stack = stack_pointer[u].stack => t = u

\* The states agree with the queue: every waiting task is READY, so the scans
\* of task_yield can find it, and outside the scan and the exit path exactly
\* the current task is RUNNING.
StatesAgree ==
  /\ \A t \in Linked \ {current_task} : state[t] = "READY"
  /\ \A t \in Linked :
       state[t] = "RUNNING" <=>
         /\ t = current_task
         /\ pc \notin {"scan_next", "scan_head", "switch", "kill"}

\* The scheduler implements cyclic turns in creation order.
RR == INSTANCE RoundRobin WITH live <- Linked, turn <- current_task

ImplementsRoundRobin == RR!Spec

\* Every task on the queue gets the CPU again and again, as long as no task's
\* entry function has returned.
TurnsComeRound ==
  \A t \in Tasks :
    (t \in Linked) ~> (current_task = t \/ \E u \in 1 .. task_count : state[u] = "ZOMBIE")

\* Every task on the queue gets the CPU again and again, whatever tasks do
\* ("Round-robin scheduling with timeslice preemption").
NoStarvation == \A t \in Tasks : (t \in Linked) ~> (current_task = t)

\* A tick that falls between the main loop's test of the flag and its hlt is
\* not lost: a halted loop with the request pending gets to task_yield.
RequestServed == (pc = "halted" /\ schedule_requested) ~> (pc = "scan_next")

===============================================================================
