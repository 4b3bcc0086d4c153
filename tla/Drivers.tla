---------------------------------- MODULE Drivers ----------------------------------
(***************************************************************************)
(* How kernel_main starts the drivers of the PCI devices: usb.c, audio.c,  *)
(* network.c and ahci.c look for their controllers, each with the same     *)
(* three nested loops over buses, devices and functions, and take hold of  *)
(* its registers.  What a driver does with them afterwards is in Network,  *)
(* Ahci, Input and Services; audio.c's tones are here.                     *)
(***************************************************************************)
EXTENDS Integers, Sequences

CONSTANTS
  BUSES,            \* per class, how many buses are scanned
  DEVICES, FUNCTIONS,
  Boards,           \* machines: what is at each <<bus, device, function>>
  PIT_FREQUENCY, DIVISOR_LIMIT,
  Tones             \* the <<frequency, duration>>s the audio spooler plays

\* Configuration space answers for every function the loops come to.
ASSUME DriversAssumption ==
  /\ {DEVICES, FUNCTIONS} \subseteq Nat \ {0}
  /\ BUSES \in [{"xhci", "hda", "nic", "ahci"} -> Nat]
  /\ \A b \in Boards :
       /\ DOMAIN b \subseteq Nat \X (0 .. DEVICES - 1) \X (0 .. FUNCTIONS - 1)
       /\ \A c \in DOMAIN BUSES :
            (0 .. BUSES[c] - 1) \X (0 .. DEVICES - 1) \X (0 .. FUNCTIONS - 1) \subseteq DOMAIN b

VARIABLES
  board,            \* the machine
  todo,             \* what is still to be started, in order, with what is being started
  at,               \* the function the loops are at, or where they ended
  controller,       \* per class, the function whose registers the driver has, or NOWHERE
  mastering,        \* the functions that were allowed to use the bus
  speaker           \* [on, divisor, asked]

driverVars == <<board, todo, at, controller, mastering, speaker>>

ABSENT == [class |-> "none", multi |-> FALSE, bar |-> FALSE]
NOWHERE == << >>
FIRST == <<0, 0, 0>>
BEEP == <<880, 100>>

\* kernel_main; mouse_initialize looks for the USB controller once more.
StartOrder == <<"xhci", "hda", "tone", "nic", "xhci", "ahci">>

DriversInit ==
  /\ board \in Boards
  /\ todo = StartOrder
  /\ at = FIRST
  /\ controller = [c \in DOMAIN BUSES |-> NOWHERE]
  /\ mastering = {}
  /\ speaker = [on |-> FALSE, divisor |-> 0, asked |-> 0]

-------------------------------------------------------------------------------
(***************************************************************************)
(* pci_find_class, pci_find_device, pci_find_xhci_controller and           *)
(* pci_find_ahci_controller                                                *)
(***************************************************************************)
class == Head(todo)
here == board[at]

NextDevice == IF at[2] + 1 < DEVICES THEN <<at[1], at[2] + 1, 0>> ELSE <<at[1] + 1, 0, 0>>

NextFunction == IF at[3] + 1 < FUNCTIONS THEN <<at[1], at[2], at[3] + 1>> ELSE NextDevice

\* Mutant: a function that is absent ends the device, whichever it is.
LeavesDeviceEarly == here = ABSENT \/ (at[3] = 0 /\ ~here.multi)

\* Function 0 is absent, or says that it is the only one.
LeavesDevice == at[3] = 0 /\ (here = ABSENT \/ ~here.multi)

\* A driver that has its controller and has not come back has left the loops.
InDriver == todo # << >> /\ class \in {"nic", "ahci"} /\ controller[class] # NOWHERE
Searching == todo # << >> /\ class # "tone" /\ ~speaker.on /\ ~InDriver
Scanning == Searching /\ at[1] < BUSES[class]

\* One round of the innermost loop, when the function is not the one wanted.
ScanOn(c) ==
  /\ Scanning /\ class = c
  /\ here.class # c
  /\ at' = IF LeavesDevice THEN NextDevice ELSE NextFunction
  /\ UNCHANGED <<board, todo, controller, mastering, speaker>>

PciFindXhciController == ScanOn("xhci")
PciFindClass == ScanOn("hda")
PciFindDevice == ScanOn("nic")
PciFindAhciController == ScanOn("ahci")

-------------------------------------------------------------------------------
(***************************************************************************)
(* The rest of the drivers' initialization, once the controller is found   *)
(***************************************************************************)

\* A controller that has an address, and works, is kept; some are allowed the bus.
\* What the driver does with it then may go on for ever.
Takes(c, works, masters, returns) ==
  /\ Scanning /\ class = c
  /\ here.class = c
  /\ returns \/ (here.bar /\ works)
  /\ controller' = [controller EXCEPT ![c] = IF here.bar /\ works THEN at ELSE NOWHERE]
  /\ mastering' = IF masters THEN mastering \cup {at} ELSE mastering
  /\ IF returns THEN todo' = Tail(todo) /\ at' = FIRST ELSE UNCHANGED <<todo, at>>
  /\ UNCHANGED <<board, speaker>>

UsbInitialize == Takes("xhci", TRUE, FALSE, TRUE)

\* hda_reset may fail, and the driver goes on without the controller.
AudioInitialize(resets) == Takes("hda", resets, here.bar, TRUE)

\* The bus comes before the look at the address.  rtl8139_process_rx goes on as
\* long as it finds frames (Network says when it does not).
NetworkInitialize(returns) == Takes("nic", TRUE, TRUE, returns)

\* port_rebase waits without a limit for a port to stop (Ahci).
AhciInitialize(returns) == Takes("ahci", TRUE, here.bar, returns)

NotFound ==
  /\ Searching /\ ~Scanning
  /\ todo' = Tail(todo) /\ at' = FIRST
  /\ UNCHANGED <<board, controller, mastering, speaker>>

-------------------------------------------------------------------------------
\* A uint16_t.
Divisor(frequency) == (PIT_FREQUENCY \div frequency) % DIVISOR_LIMIT

\* audio_play_tone: kernel_main's beep, and later what the spooler has.  A tone
\* without pitch or length only turns the speaker off.
PlayTone(frequency, duration) ==
  /\ ~speaker.on
  /\ IF todo = << >> THEN <<frequency, duration>> \in Tones /\ UNCHANGED todo
     ELSE class = "tone" /\ <<frequency, duration>> = BEEP /\ todo' = Tail(todo)
  /\ speaker' = IF frequency = 0 \/ duration = 0 THEN [speaker EXCEPT !.on = FALSE]
                ELSE [on |-> TRUE, divisor |-> Divisor(frequency), asked |-> frequency]
  /\ UNCHANGED <<board, at, controller, mastering>>

\* The end of audio_busy_wait; nothing else goes on while a tone sounds.
ToneEnds ==
  /\ speaker.on
  /\ speaker' = [speaker EXCEPT !.on = FALSE]
  /\ UNCHANGED <<board, todo, at, controller, mastering>>

\* kernel_main is in a call that does not return.
Stopped == InDriver /\ UNCHANGED driverVars

DriversNext ==
  \/ PciFindXhciController \/ PciFindClass \/ PciFindDevice \/ PciFindAhciController
  \/ UsbInitialize
  \/ \E resets \in BOOLEAN : AudioInitialize(resets)
  \/ \E returns \in BOOLEAN : NetworkInitialize(returns) \/ AhciInitialize(returns)
  \/ NotFound \/ ToneEnds \/ Stopped
  \/ todo # << >> /\ PlayTone(BEEP[1], BEEP[2])
  \/ \E t \in Tones : todo = << >> /\ PlayTone(t[1], t[2])

DriversSpec == DriversInit /\ [][DriversNext]_driverVars

-------------------------------------------------------------------------------
(***************************************************************************)
(* Properties                                                              *)
(***************************************************************************)

\* A function the bus lets be seen: function 0 of its device is there and, unless
\* it is meant itself, has more functions beside it.
Visible(s) ==
  LET zero == board[<<s[1], s[2], 0>>]
  IN  board[s] # ABSENT /\ zero # ABSENT /\ (s[3] # 0 => zero.multi)

Before(s, t) == \/ s[1] < t[1]
                \/ s[1] = t[1] /\ s[2] < t[2]
                \/ s[1] = t[1] /\ s[2] = t[2] /\ s[3] < t[3]

\* The functions of a class on the buses its driver scans, and the first of them.
Candidates(c) == {s \in DOMAIN board : Visible(s) /\ board[s].class = c /\ s[1] < BUSES[c]}
IsFirst(s, c) == s \in Candidates(c) /\ \A t \in Candidates(c) \ {s} : Before(s, t)

\* Wherever functions are missing between others, and however often a driver
\* looks: the registers a driver takes, and the bus rights it gives, are those of
\* the first visible function of its class, and once everything is started only a
\* driver whose controller is missing, has no address or does not come out of its
\* reset is without one.
TakesFirst ==
  /\ \A c \in DOMAIN BUSES : controller[c] # NOWHERE => IsFirst(controller[c], c)
  /\ \A s \in mastering : \E c \in {"nic", "hda", "ahci"} : IsFirst(s, c)
  /\ todo = << >> => \A c \in DOMAIN BUSES \ {"hda"} :
                       controller[c] = NOWHERE => \A s \in Candidates(c) : IsFirst(s, c) => ~board[s].bar

===============================================================================
