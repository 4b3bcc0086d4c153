# A TLA+ model of .C OS

.C OS is a small x86_64 kernel in C and assembly: one CPU, cooperative tasks, a timer interrupt that only sets
a flag, polled PS/2 and USB input, a FAT32 reader and a text user interface. This directory models its parts,
checks them with TLC on small instances and proves with TLAPS for every size nearly all of the safety properties that the runs check.

Run a model with `tlc -config Sched.cfg MCScheduler`, check a proof module with `tlapm KernelProofs.tla`.
`PROJECT.json` lists the runs, maps every definition to the lines it models, and lists hazards and findings.

## 1. Inventory

| part | state | operations | what is hard | properties |
|---|---|---|---|---|
| Boot (`boot.asm`, `vmm_initialize`) | page tables, mode, registers | build and link tables, enter long mode, switch tables | paging goes on between two instructions; registers carry parameters across | the code stays mapped, the identity map survives |
| Scheduler (`scheduler.c`, `context_switch.asm`) | task table, ready queue, current task, saved stacks | create, yield, switch, kill, exit, tick | list surgery on the running task; stacks saved by one task and loaded by another; a tick between a test and `hlt` | queue shape, exclusive stacks, round robin, turns come round |
| Physical memory (`pmm.c`, map walk in `kernel.c`) | bitmap, counter | add, reserve, allocate, free | overlapping and unaligned ranges; a counter beside a bitmap | the count is exact, frames are conserved, no frame twice |
| Virtual memory (`vmm.c`) | list of mappings | map, unmap, translate | duplicates, removal from the middle | other pages keep their translation |
| Heap (`heap.c`) | slabs, blocks | `kmalloc`, `kfree`, coalesce | merged blocks reused and freed; counts beside flags | live allocations are disjoint |
| Interrupts (`interrupts.c`, `isr_stubs.asm`) | in-service marks, interrupt flag | deliver, handle, end of interrupt, return | two cascaded controllers, priorities, spurious interrupts | no mark is left behind, the timer is served |
| System calls (`syscalls.c`, `syscall_entry.asm`) | registers, current task | entry, dispatch, return | registers across a C function | the stack pointer survives; which register has the number |
| Window manager (`window_manager.c`) | heights, focus | create, focus, raise, lower, render | any sequence of moves; ties | a move reorders no other two, painting is bottom up |
| Keyboard and mouse (`keyboard.c`, `mouse.c`, the shell in `kernel.c`) | rings, packet, cursor, shift flag, line | poll, queue, read, initialize | two drivers on one port; two shift keys and one flag; late answers; full rings | packets stay whole, the shift flag does not stick, the port drains |
| Services (`services.c`, `notifications.c`, `clipboard.c`, attachment in `usb.c`) | two spool rings, notification table, snapshot | one turn of each service; spool, post, copy, clear | full against empty rings; a shared table that fills; rests of longer texts | order, progress, announcements |
| GUI (`gui.c`, `control_center.c`, `notifications.c`, `app_launcher.c`) | panels, launched applications, what is drawn | open windows, render, click, launch | labels and click areas are two sets of numbers; one event with several buttons | a panel's readable label does what it says, an application starts where its label is, once |
| AHCI (`ahci.c`) | the port, one command | initialize, prepare, issue, wait | commands that fail; waits without limit | calls come back |
| FAT32 (`fat32.c`) | mounted system, table, handles, positions | mount, open, read, list, write, close | refused boot sectors left in memory, cluster boundaries, disk errors in the middle | what is mounted is a file system; open, list and read give what is on the disk |
| Network (`network.c`) | receive ring, transmit buffers, lease | initialize with DHCP, receive, send, poll | lost, late, repeated answers; a ring that wraps; buffers the card still owns | order of frames, buffers kept, calls come back |
| PCI devices (`usb.c`, `audio.c`, `network.c`, `ahci.c`) | registers taken, bus rights, speaker | four scans, start of each driver, tones | missing functions between others, four copies of one loop | the first controller is taken |
| File table (`file_ops.c`) | table of paths | copy, make, delete, move | the same path several times, a full table | a bag of files |
| Spinlock (`sync.c`) | one byte | lock, unlock | any number of callers | exclusion |
| Video, serial | device registers | output | nothing another part depends on | not modelled |

The parts meet in few places. Everything that runs is a task of the scheduler; a task runs until it calls
`task_yield`, so the body of a service between two yields is atomic with respect to other tasks. Interrupt handlers
touch only `schedule_requested`. The shell polls keyboard, mouse and network; the services share the notification
table; USB is polled by the shell and by the input monitor.

## 2. Modules

| module | models | abstract specification |
|---|---|---|
| `Scheduler` | tasks, ready queue, context switch, main loop, launcher, tick | `RoundRobin` |
| `Pmm` | frame bitmap and its start from the memory map | `Allocator` |
| `Heap` | slab caches and blocks | `Allocator` |
| `KernelMemory` | composition of `Pmm` and `Heap` in one memory | |
| `Vmm` | list of mappings | `AddressSpace` |
| `Boot` | from the loader to the kernel's page tables, then the calls of `Vmm` | |
| `Traps` | interrupts (two 8259 controllers, external; stub; handler) and the system call of a program | |
| `WindowManager` | window heights and painting | `WindowStack` |
| `Ring` | the keyboard's ring, of the same form as the mouse's and USB's | `BoundedQueue` |
| `Input` | PS/2 port, both drivers, the shell's loop | |
| `Spooler` | print and audio rings and their service | `Stream`, `BoundedQueue` |
| `Services` | indexer, input monitor, clipboard daemon, notifications, clipboard | |
| `Desktop` | what is drawn, clicks, panels, launching, over `WindowManager` | |
| `Ahci` | the SATA driver and its controller (external) | |
| `Fat32` | mounting, files and directory, over `Ahci` | |
| `Volumes` | how files lie on a FAT32 volume (external), written without the driver's operators | |
| `Network` | RTL8139 driver (card external), DHCP client, ARP | |
| `Drivers` | PCI scans, start of the drivers, tones | |
| `FileOps` | the file table | `FileBag` |
| `Spinlock` | the lock and its callers (external) | |

`Flatten` has the one helper on sequences the models share. `MC…` modules give the instances that need expressions. `…Proofs` modules hold the theorems (section 4).

State and actions keep the source's names. Where interleaving matters the code is stepped finely: `Scheduler` takes
each turn of a list walk as a step because the tick can fall in between, `Input` takes each driver call as a step
because a device may send in between. Elsewhere a call is one step: no other task and no handler touches its data.
Text, titles and log output are left out; bytes appear only where a property tells them apart (`Spooler`,
`Services`, `Fat32`), and a sector or a network frame is a record of what the code may read in it. A definition marked "Mutant" is a plausible mistake in the definition after it; each property
is known to fail with one of them put in its place.

Several components promise something only to callers that keep a rule: map a page once (`Vmm`), leave a full ring
alone (`Spooler`), do not call `set_focus` (`WindowManager`); others only with some hardware: clusters as large as the
buffer and a directory that ends (`Fat32`), ports that stop and controllers that clear a failed command (`Ahci`), the first lap of the card's ring (`Network`). The models let callers and hardware break the rule, and the property
says what a call does from every state in which the component's data are still consistent, that calls within the
rule keep them consistent, and (in the type invariants) what holds even afterwards.

Boot always hands `kernel_main` a null information pointer (section 5), so that the running system uses
the default memory size. `Pmm` models the map walk as it is written, for every map in its instance.

## 3. Runs

| run | shows |
|---|---|
| `sched` | a context switch never gives two tasks one stack, the tasks' states agree with the queue and the CPU, the scheduler is a round robin, every task gets its turn again until one exits, a tick between test and `hlt` is served; with boot, five boot tasks and an application |
| `sched_solo` | a table with one slot: creations that fail, a task that yields to itself |
| `sched_exit` (violation) | after an application returns nobody runs again |
| `kernel_memory` | both allocators side by side: no frame and no heap byte twice, small allocations apart from frames; over maps with unaligned, overlapping and unusable ranges; beside them the page tables: the code stays mapped from the first table to the last, nothing mapped is moved; then any map and unmap calls: a call does what its name says unless a page was mapped twice |
| `boot_parameters` (violation) | `kernel_main` is not called with what the boot loader passed |
| `devices` | interrupts on both controllers, spurious ones and a system call: no in-service mark is left behind, the stack pointer survives, the timer is served until the call's end stops the machine; input: packets and shift state after an undisturbed start, bounds, progress and no stuck shift flag after any start |
| `syscall_number` (violation) | the dispatcher takes the program's first argument for the number of the call |
| `desktop` | painting is bottom up after any calls of the window manager; on the desktop `kernel_main` draws, a left click shows or hides exactly the panel whose label can be read there and starts only applications whose label was drawn there; no clicks start an application twice |
| `services` | order and progress of both spool rings up to full ones; announcements and snapshot |
| `disk` | what is mounted is a file system, open, list and read give what is on the disk, every call comes back unless one of the endless waits or walks of section 5 is met; with failing commands, thirteen machines and eight disks |
| `network` | frames in order, no buffer overwritten unless as many sends as there are buffers were late, and both `network_initialize` and `network_poll` come back while the ring is steady, whatever is lost or late |
| `library` | the keyboard's ring is a queue of one place less, the file table a bag, and on 2401 boards every driver takes the first controller of its class |

Parts that share no state are checked in one run, with a variable `part` that says which of them moves.

### Bounds

The instances are the smallest in which the interesting cases meet. Six tasks are a head, a middle and a tail, the
running task anywhere, and room for an application (its return stops the system, so a second never starts); a table
that is full is left to `sched_solo`. Three blocks are a merged pair with a
neighbour; two caches of one object are full and empty; three words of four frames are more than one word of the bitmap,
and one map reaches past the bitmap. Four mappings of three pages contain a page twice with others before, between and
behind. Four windows are one that moves, one on each side and one more. Rings of three or four slots fill, empty and
wrap with entries on both sides of the end. Of the texts one is cut and one is not; an empty one waits
beside the tones. In `Input` one event slot and one key slot fill while bytes wait, the line has room for one letter, and both shift
keys go down and up in any order.
In `Traps` four lines are the timer, another of the master, and the first and the last of the slave. In `disk`
clusters have two sectors of one byte; the directory takes two clusters and has a label, a deleted entry, rests behind
its end, a fragmented file that ends inside a cluster, one that ends with a cluster and an empty one; other disks have
three partitions of which two are file systems (a read that fails makes the driver go on to the second), no format, smaller and larger clusters, a directory and a file whose chains are circles, and other machines a drive elsewhere, another kind of drive, a port that does not stop, or no
controller. Two handles run out. In `network` a ring of ten words wraps within three frames, two of the three discovers and
two of the polls are retries and the end of retrying, one frame is longer than the space behind the ring, and two transmit buffers are reused at once. Names of two and one
characters have a cut base and a cut extension. Two buses with a device of three functions have gaps before and behind
each class. `desktop` is the real screen, with clicks on and beside every edge.
In `Boot` tables have eight entries: more than both loops fill.

Deadlock is checked in every run. Where the code itself stops for good (a fault or an endless wait on the disk, a driver that
does not come back from its start, a network start that failed, a program in ring 3) the model says so with a step of its own
that changes nothing.

### Fairness

Weak fairness of the CPU's steps (it never stops executing) and of the tick (the timer goes on) in `Scheduler`; of the
processor's part in `Traps`; of the shell in `Input`, of the service in `Spooler` and of the daemon in `Services`. The
last three are what `TurnsComeRound` of the scheduler gives while no task exits. A driver's loop goes on by itself
(`Fat32`, `Network`). The disk controller ends a command in one way or the other, failures included, unless
it keeps a failed one's bit. Other devices, the network and callers get no fairness.

Liveness is stated under the conditions the code needs: `TurnsComeRound` until a task exits, `TimerServed` until a
`SYSRET` stops the machine, `EventuallyOut` while nobody adds to a full ring, `CallsReturn` while `Orderly` (no
endless wait, no fault, no directory without an end), `Returns` while the receive ring is `steady`.

## 4. Proofs

All proofs are for every value of the constants that the named assumptions admit. The assumptions give the constants
their types and the few orders the code fixes: a ring has a slot, the heap's slabs lie below its blocks
(`HeapAssumption`) and inside what the frame allocator keeps back (`LayoutAssumption`), the kernel's tables map at least
what the loader's do (`BootAssumption`), the clipboard is at least as large as its snapshot (`ServicesAssumption`), a frame is
longer than the distance CAPR stays behind (`NetworkAssumption`). `DriversAssumption`, `FileAssumption`, `DiskAssumption`, `TrapAssumption` and
`InputAssumption` are types and ranges only. `VolumeAssumption` says of the disks that a boot sector the driver accepts, with
clusters as large as its buffer, heads a volume laid out as `Volumes` defines: chains of clusters in the table, the
directory's entries up to its end mark, names in capitals filled up with blanks, a file's bytes in its clusters, and a
list no longer than the model keeps (`MaxNames`). Other disks are not restricted.

| module | about | theorems on run properties |
|---|---|---|
| `KernelProofs` | `Scheduler`, `Vmm`, `Boot` | `StacksExclusive`, `StatesAgree`, `ImplementsRoundRobin`, `IdentityKept`, `CallsTranslate` |
| `MemoryProofs` | `Pmm`, `Heap`, `KernelMemory` | `SmallApartFromFrames`, `FramesImplementAllocator`, `HeapImplementsAllocator` |
| `DesktopProofs` | `WindowManager`, `Desktop`, `FileOps` | `PaintsBottomUp`, `LaunchedOnce`, `ImplementsFileBag` |
| `DriverProofs` | `Ring`, `Spinlock`, `Drivers`, `Network` | `ImplementsQueue`, `TakesFirst`, `FramesInOrder`, `BuffersKept` |
| `DeviceProofs` | `Traps`, `Input` | `NothingLeftInService`, `StackRestored`, `TypeOK`, `EventsWhole`, `ShiftInStep` |
| `ServiceProofs` | `Spooler`, `Services` | `KnownIsAnnounced`, `AnnouncesChanges`, `PlaysInOrder`, `PrintsInOrder` |
| `DiskProofs` | `Fat32` on `Ahci`, `Volumes`: mounting, the directory | `MountsRight` |
| `FileProofs` | `Fat32`, `Volumes`: the calls on a volume | `OpensNamed`, `ListsRoot`, `ReadsContent` |

Which invariant each needs, and why:

- Scheduler: one invariant joins the queue's shape with where each walking loop is. The shape alone is not inductive: a
  step of a walk is only right if its cursor is in the queue and everything before it has been passed.
- Physical memory: the counter needs conservation; it is right only because a freed frame was not free. Heap: a merged
  block owns the dead block behind it; without that a freed block of double size could overlap its neighbour.
  `KernelMemory`: slabs end below the first frame that is ever given out, so every small allocation lies apart from every
  frame. The refinements of `Allocator` are proved for each component and lifted to the composition
  (`BothImplementAllocator`), whose steps are steps of one component that leave the other alone.
- Virtual memory: from a list with no page twice, the calls do to the translations what their names say; for callers that map
  a page once the list is an address space. Boot: the invariant says at each point how many
  gigabytes each of the two tables already maps to themselves, and which table is in use.
- Window manager: from distinct heights create, raise and lower go to distinct heights and move one window, by heights in
  range. Painting: the sort's result is a recursive function of the number of comparisons; by induction over it (as a
  least counterexample) the list has every window once, and the places compared so far are in order. `LaunchedOnce`: the invariant joins the list of tasks with
  the registry; an application without a PID there has no task. `DesktopUsesManager`: the desktop's steps are steps of
  the window manager.
- Ring: index arithmetic of `%`. Spinlock: the byte is set while somebody holds the lock. Drivers: in front of the
  scan's cursor there is no controller of the class, and a class that is done, or whose driver does not come back, has its controller. File table: the bag counts the entries that are not deleted.
- Traps: there are no in-service marks but those of the interrupt that is being handled, and the stack pointer is in its
  register or, between the two exchanges of the system call entry, in the one that keeps it.
- Input: after a quiet start the driver is as far in a packet as the mouse, counting the byte in the port. The shift flag: it is
  down only if a key is, counting the release that waits in the port (`ShiftKnown`), after any start; that it is down whenever a
  key is needs the quiet start, and that the keys were never down together.
- Spooler: the ring's slots from tail to head are the abstract queue; for printing also the part of the current text behind
  the offset. Services: what has been seen is in the table of notifications unless it is full; two buffers are equal up to
  their 0 exactly if the comparison loop stops there, by a least counterexample again.
- Transmit buffers: one that the card may still own was filled less than `late` sends ago, and the one that is filled
  next is the oldest. Receive ring, first lap: the frames that wait lie one behind the other from reader to writer,
  numbered in a row, and behind the writer nothing was ever written; so the driver neither meets the fallback for
  a register that reads 0 nor an old frame.
- Mounting: one transfer has read a beginning of the sectors it was asked for, and these only; the fields of the mounted system
  come from the boot sector on the disk at the place the partition table gives (`MountInv`), which is one where a volume
  may be (`PlaceInv`).
- Files: `DiskInv` says of a mounted volume how far each call is. The sectors that a call waits for are those of its
  cluster. A walk is in the i-th cluster of the directory, with no file of the wanted name in front of it, or with
  exactly the files in front of it reported (`WalkInv`). An open handle is one on a file, with a position inside it
  (`FileInv`). A read has copied the file's bytes from where it began up to the position, what is still to be copied ends
  where the answer will, and its cluster is the one of the file's chain in which the position lies (`ReadInv`): the loop
  of `fat32_read` is right only because the position reaches the next cluster exactly when the last byte of one is copied.
  The flattened sectors, the chain that is followed and the names that are taken apart and put together again are
  recursive functions; what they give is proved by induction over sets of numbers (`Upward`).

The abstract next-state relations quantify over arguments; the refinements therefore also state that a call does what
the abstract call with the same argument does (`CallMatches`).

Types, counts, conservation, queue shape and the like are proved and are not checked again by a run: a run has the
properties that say what a component does for others.

Only model-checked:

- all liveness (`TurnsComeRound`, `RequestServed`, `NoStarvation`, `TimerServed`, `PortDrains`, `EventuallyOut`,
  `SnapshotFollows`, `CallsReturn`, `Returns`): fairness is outside what the prover does;
- `ParametersPassed` and `NumberFromRax`, which do not hold;
- `LabelsAct`: it is about the numbers of one 80 by 24 screen, not about a parameter.

## 5. Findings

Three runs fail, for what the documentation says:

- a task that returns stops the system (`scheduler.c:47`, `sched_exit`); `README.md:93` promises round robin;
- `edi`, which carries the loader's information pointer, is the paging loop's counter (`boot.asm:84`, `boot_parameters`);
  `boot.asm:130` says that it is still there;
- the dispatcher reads the system call number from `rdi` (`syscall_entry.asm:29`, `syscall_number`); `syscall_entry.asm:4`
  says that it is in `rax`.

Met while modelling; the models have the code's behaviour and no run is kept for them:

- frames from two megabytes on are free although the image's data and the heap's blocks are there (`kernel.c:238`); the heap's small
  objects lie from 0x100000 on (`heap.c:56`), where the image is loaded according to `SETUP.md:119`;
- a page mapped twice is still mapped after one unmap (`vmm.c:113`);
- coalescing compares neighbours in the table only, so that free blocks of the same size with a merged-away entry
  between them stay apart (`heap.c:164`);
- SYSRET goes to ring 3 (`syscalls.c:111`), for which no page is mapped (`vmm.c:31`), and the task state segment that a fault
  there needs is a placeholder that nothing loads (`gdt.asm:43`): a system call ends the system. It would also lose the
  program's `r12` (`syscall_entry.asm:21`) and perhaps its return address and flags (`syscall_entry.asm:39`), and `SYS_EXIT`
  returns to the program (`syscalls.c:38`);
- the release of one shift key clears the flag while the other is down (`keyboard.c:69`);
- clicks go through windows and through the launcher's list, whose word Settings lies over [Files] and starts Files
  (`gui.c:207`); Web and Edit do nothing (`gui.c:224`, `gui.c:229`);
- a full spool ring is overwritten, and a tone can then be stuck (`services.c:220`, `services.c:237`);
- a late answer of the mouse shifts its packets for good (`mouse.c:106`);
- a read that fails half way loses what it had read (`fat32.c:335`); `fat32_write` writes nothing and reports success
  (`fat32.c:361`); mounting refuses no cluster size, and walks with clusters unlike the buffer read rests or overrun it
  (`fat32.c:213`, `fat32.c:331`); a table that was read in part is used (`fat32.c:279`);
- a directory whose chain of clusters is a circle is walked for ever (`fat32.c:207`, `fat32.c:406`; a read ends with its count,
  `fat32.c:332`);
- the waits for a port to stop and for a disk command have no limit (`ahci.c:194`, `ahci.c:199`, `ahci.c:286`), the device register's LBA bit is never set (`ahci.c:271`), and
  the command table is the right one for port 0 only (`ahci.c:252`);
- the transaction number of DHCP answers is compared with the length and the checksum of the UDP header (`network.c:466`), and
  what counts as the packet's length includes padding and the frame's checksum (`network.c:488`, `network.c:537`, `network.c:553`);
  answers that leave out an option are merged with earlier ones (`network.c:470`);
- after its first lap the receive ring offers old frames again, for which `network_initialize` and `network_poll` may go on for
  ever (`network.c:485`, `network.c:545`); a frame of an odd number of words puts the reader beside the next one (`network.c:480`,
  `network.c:502`); a frame of 1518 bytes at the ring's end is longer than the space behind it (`network.c:57`);
- a frame is sent without its last 14 bytes, since the length leaves out the header (`network.c:208`), and nothing looks whether a
  transmit buffer is free (`network.c:195`);
- tones below 19 Hz need a divisor that does not fit its 16 bits (`audio.c:172`);
- setting the focus makes ties in height (`window_manager.c:66`);
- the application launcher never forgets a task (`app_launcher.c:78`);
- the file table keeps its callers' pointers and never uses an entry again (`file_ops.c:65`).

## 6. Not modelled

- Video and serial output, the drawing inside windows, log texts: no part reads them back.
- Bytes of descriptor tables (GDT, IDT, TSS) and of what the network driver sends: constant data.
- USB rings and report processing, `ahci_write_sector`, `network_send_ipv4`, `send_arp_request`, `ahci_new.c`: nothing
  calls them, so no state of the running system depends on them. PCM sound is a stub.
- Exceptions' register dumps; an exception that is not handled is a fault that nothing leaves (`Fat32`).
- The bodies of the applications and of the generic services: they log a line, or only yield.

A next step would be one module of all fixed memory ranges (image, slabs, blocks, system call stack, frames), and what
the file system gives on volumes with other cluster sizes.
