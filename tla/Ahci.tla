------------------------------------ MODULE Ahci -----------------------------------
(***************************************************************************)
(* The SATA driver (ahci.c), one sector at a time.  The controller and the *)
(* drive are outside: a command may fail, and a controller may then leave  *)
(* the command's bit in PxCI set, as the AHCI standard wants it, or clear  *)
(* it.  A drive may also insist on the LBA bit, which the driver never     *)
(* sets, and take the number for a cylinder, head and sector: for the low  *)
(* numbers here that is the sector before.  A port may be busy for good    *)
(* and never stop.                                                         *)
(***************************************************************************)
EXTENDS Integers, Sequences

CONSTANTS
  AHCI_MAX_PORTS,
  Machines        \* what the program may run on: [controller, ports, lba_bit, image, volumes]

VARIABLES
  machine,        \* the one it does run on
  ahci_hba,       \* the controller's registers are known
  ahci_ports,     \* the ports with a drive
  port,           \* PxCI, PxIS.TFES and the command table of the port in use
  transfer        \* fat32_read_sectors: the sectors to read, those read, how it stands

ahciVars == <<machine, ahci_hba, ahci_ports, port, transfer>>

NO_SECTOR == -1
hw == Machines[machine]
Ports == 0 .. AHCI_MAX_PORTS - 1

AhciInit ==
  /\ machine \in DOMAIN Machines
  /\ ahci_hba = FALSE /\ ahci_ports = {}
  /\ port = [ci |-> FALSE, tfes |-> FALSE, lba |-> 0]
  /\ transfer = [todo |-> << >>, got |-> << >>, status |-> "none"]

\* ahci_port_present, and the signature of a disk or a packet device.
PortPresent(i) == hw.ports[i] \in {"ata", "atapi", "busy"}

\* ahci_port_stop and ahci_port_start wait for the port without a limit.
PortStops(i) == hw.ports[i] # "busy"

\* ahci_port_rebase: a port is stopped, which takes back its commands, given its
\* command list and started again.
PortRebase == port' = [ci |-> FALSE, tfes |-> FALSE, lba |-> 0]

\* ahci_initialize, with the controller it found or without, up to the first port
\* that does not stop.
AhciInitialize ==
  /\ ahci_hba' = hw.controller
  /\ ahci_ports' = {i \in Ports : /\ hw.controller /\ PortPresent(i)
                                  /\ \A j \in 0 .. i - 1 : PortStops(j)}
  /\ IF \E i \in ahci_ports' : PortStops(i) THEN PortRebase ELSE UNCHANGED port

\* It comes back.
AhciReturns == hw.controller => \A i \in Ports : PortStops(i)

-------------------------------------------------------------------------------
\* fat32_read_sectors is called.
ReadSectors(lbas) ==
  transfer' = [todo |-> lbas, got |-> << >>, status |-> IF lbas = << >> THEN "done" ELSE "issue"]

\* The caller has looked at the outcome.
ReadDone == transfer' = [todo |-> << >>, got |-> << >>, status |-> "none"]

\* Mutant: a command that failed is issued again, for ever.
FailsRetry == transfer' = [transfer EXCEPT !.status = "issue"]

Fails == transfer' = [transfer EXCEPT !.status = "failed"]

\* ahci_prepare_command.  The command table is found by the distance of the
\* port's registers from those of port 0: when port 0 has no drive that is an
\* address which is not mapped, and the write faults for ever.
PrepareCommand(lba) ==
  IF 0 \notin ahci_ports
  THEN transfer' = [transfer EXCEPT !.status = "fault"] /\ UNCHANGED port
  ELSE /\ port' = [ci |-> TRUE, tfes |-> FALSE, lba |-> lba]
       /\ transfer' = [transfer EXCEPT !.status = "wait"]

\* ahci_do_transfer up to the wait, with the first port that has a drive.
DoTransfer ==
  /\ transfer.status = "issue"
  /\ IF ~ahci_hba \/ ahci_ports = {} THEN Fails /\ UNCHANGED port
     ELSE PrepareCommand(Head(transfer.todo))
  /\ UNCHANGED <<machine, ahci_hba, ahci_ports>>

\* The sector the drive makes of a number.
Addressed(lba) == IF hw.lba_bit THEN lba - 1 ELSE lba

Working == transfer.status = "wait" /\ port.ci /\ ~port.tfes

\* The drive has read the sector into memory: its number stands for what is on it.
HbaCompletes ==
  /\ Working
  /\ hw.ports[0] = "ata" /\ Addressed(port.lba) >= 0
  /\ port' = [port EXCEPT !.ci = FALSE]
  /\ transfer' = [transfer EXCEPT !.got = Append(@, Addressed(port.lba))]
  /\ UNCHANGED <<machine, ahci_hba, ahci_ports>>

\* The drive gives up; what is in memory then is of no use.
HbaFails(clears) ==
  /\ Working
  /\ port' = [port EXCEPT !.tfes = TRUE, !.ci = ~clears]
  /\ transfer' = [transfer EXCEPT !.got = Append(@, NO_SECTOR)]
  /\ UNCHANGED <<machine, ahci_hba, ahci_ports>>

\* ahci_wait_completion comes back once PxCI is clear: the bit it looks for in
\* PxTFD before that is never set.
WaitCompletion ==
  /\ transfer.status = "wait" /\ ~port.ci
  /\ IF port.tfes THEN Fails
     ELSE transfer' = [transfer EXCEPT !.todo = Tail(@),
                         !.status = IF Len(transfer.todo) = 1 THEN "done" ELSE "issue"]
  /\ UNCHANGED <<machine, ahci_hba, ahci_ports, port>>

\* The wait that never ends.
Hung == transfer.status = "wait" /\ port.ci /\ port.tfes

===============================================================================
