---------------------------------- MODULE Services ----------------------------------
(***************************************************************************)
(* Three background services (services.c), the clipboard (clipboard.c)     *)
(* they watch and the notification table (notifications.c) they post to.   *)
(* A service runs from one task_yield to the next without another task in  *)
(* between.  The disk is outside: the root directory can be read or not.   *)
(* The USB driver (usb.c) takes the first device it finds for a keyboard   *)
(* and the others for mice, and forgets none; the shell polls it too.      *)
(*                                                                         *)
(* clipboard_copy stores the bytes it is given; whether a 0 ends them is   *)
(* up to the caller, and clipboard_paste gives no length.                  *)
(***************************************************************************)
EXTENDS Integers, Sequences

CONSTANTS
  MAX_NOTIFICATIONS,
  CLIPBOARD_SIZE,
  MAX_HID_DEVICES,
  SNAPSHOT_SIZE,     \* sizeof(clipboard_snapshot)
  Bytes              \* what may be copied, 0 among them

ASSUME ServicesAssumption ==
  /\ MAX_NOTIFICATIONS \in Nat \ {0} /\ MAX_HID_DEVICES \in Nat /\ 0 \in Bytes
  /\ SNAPSHOT_SIZE \in Nat \ {0} /\ CLIPBOARD_SIZE \in Nat /\ CLIPBOARD_SIZE >= SNAPSHOT_SIZE

VARIABLES
  notifications,
  disk_index_ready,
  attached,                   \* how many entries of hid_devices are in use
  had_keyboard, had_mouse,
  clipboard_buffer, clipboard_used,
  clipboard_snapshot

devices == <<attached, had_keyboard, had_mouse>>
clipboard == <<clipboard_buffer, clipboard_used>>
servicesVars == <<notifications, disk_index_ready, devices, clipboard, clipboard_snapshot>>

\* kernel_main posts a welcome.
ServicesInit ==
  /\ notifications = <<"welcome">>
  /\ disk_index_ready = FALSE
  /\ attached = 0 /\ had_keyboard = FALSE /\ had_mouse = FALSE
  /\ clipboard_buffer = [i \in 0 .. CLIPBOARD_SIZE - 1 |-> 0]
  /\ clipboard_used = 0
  /\ clipboard_snapshot = [i \in 0 .. SNAPSHOT_SIZE - 1 |-> 0]

-------------------------------------------------------------------------------
Post(list, note) == IF Len(list) < MAX_NOTIFICATIONS THEN Append(list, note) ELSE list

DiskIndexer(readable) ==
  /\ IF disk_index_ready
     THEN UNCHANGED <<notifications, disk_index_ready>>
     ELSE /\ disk_index_ready' = readable
          /\ notifications' = Post(notifications, IF readable THEN "indexed" ELSE "failed")
  /\ UNCHANGED <<devices, clipboard, clipboard_snapshot>>

\* Up to found new devices are at the ports.
UsbPoll(found) ==
  attached' = IF attached + found > MAX_HID_DEVICES THEN MAX_HID_DEVICES ELSE attached + found

\* The shell's part in this: mouse_has_event polls.
ShellPoll(found) ==
  /\ UsbPoll(found)
  /\ UNCHANGED <<notifications, disk_index_ready, had_keyboard, had_mouse, clipboard, clipboard_snapshot>>

HasKeyboard == attached >= 1
HasMouse == attached >= 2

\* Mutant: a mouse that comes with a keyboard is not announced.
AnnouncedOne ==
  IF HasKeyboard' /\ ~had_keyboard THEN Post(notifications, "keyboard")
  ELSE IF HasMouse' /\ ~had_mouse THEN Post(notifications, "mouse")
  ELSE notifications

\* The table with the devices that are new to the monitor.
NewAnnounced ==
  LET k == IF HasKeyboard' /\ ~had_keyboard THEN Post(notifications, "keyboard") ELSE notifications
  IN  IF HasMouse' /\ ~had_mouse THEN Post(k, "mouse") ELSE k

InputMonitor(found) ==
  /\ UsbPoll(found)
  /\ notifications' = NewAnnounced
  /\ had_keyboard' = HasKeyboard'
  /\ had_mouse' = HasMouse'
  /\ UNCHANGED <<disk_index_ready, clipboard, clipboard_snapshot>>

Copy(data) ==
  /\ IF Len(data) = 0 \/ Len(data) > CLIPBOARD_SIZE
     THEN UNCHANGED clipboard
     ELSE /\ clipboard_buffer' = [i \in 0 .. CLIPBOARD_SIZE - 1 |->
                                    IF i < Len(data) THEN data[i + 1] ELSE clipboard_buffer[i]]
          /\ clipboard_used' = Len(data)
  /\ UNCHANGED <<notifications, disk_index_ready, devices, clipboard_snapshot>>

Clear ==
  /\ clipboard_used' = 0
  /\ UNCHANGED <<notifications, disk_index_ready, devices, clipboard_buffer, clipboard_snapshot>>

\* Mutant: the loop stops before it has copied the 0.
ReadsBeforeEnd(i) == \A j \in 0 .. i : clipboard_buffer[j] # 0

\* Whether the daemon's loop gets to byte i: it stops after a 0.
Reads(i) == \A j \in 0 .. i - 1 : clipboard_buffer[j] # 0

\* Mutant: a shorter text with the same beginning is not noticed.
ChangedBeforeEnd ==
  \E i \in 0 .. SNAPSHOT_SIZE - 2 :
    Reads(i) /\ clipboard_buffer[i] # 0 /\ clipboard_snapshot[i] # clipboard_buffer[i]

Changed ==
  \E i \in 0 .. SNAPSHOT_SIZE - 2 : Reads(i) /\ clipboard_snapshot[i] # clipboard_buffer[i]

ClipboardDaemon ==
  /\ IF clipboard_used = 0
     THEN UNCHANGED <<clipboard_snapshot, notifications>>
     ELSE /\ clipboard_snapshot' =
               [i \in 0 .. SNAPSHOT_SIZE - 1 |->
                  IF i < SNAPSHOT_SIZE - 1 /\ Reads(i) THEN clipboard_buffer[i] ELSE clipboard_snapshot[i]]
          /\ notifications' = IF Changed THEN Post(notifications, "clipboard") ELSE notifications
  /\ UNCHANGED <<disk_index_ready, devices, clipboard>>

\* What callers copy: at most one byte more than fits.
Data == UNION {[1 .. n -> Bytes] : n \in 0 .. CLIPBOARD_SIZE + 1}

ServicesNext ==
  \/ \E readable \in BOOLEAN : DiskIndexer(readable)
  \/ \E found \in 0 .. MAX_HID_DEVICES : ShellPoll(found) \/ InputMonitor(found)
  \/ \E data \in Data : Copy(data)
  \/ Clear
  \/ ClipboardDaemon

\* A service is a task and is scheduled again and again.
ServicesSpec == ServicesInit /\ [][ServicesNext]_servicesVars /\ WF_servicesVars(ClipboardDaemon)

-------------------------------------------------------------------------------
(***************************************************************************)
(* Properties                                                              *)
(***************************************************************************)
Announced(note) ==
  \/ Len(notifications) = MAX_NOTIFICATIONS
  \/ \E k \in DOMAIN notifications : notifications[k] = note

\* What the services know was announced when they learnt it, unless the table
\* was full by then: the services share it, and the indexer fills it with
\* failures.
KnownIsAnnounced ==
  /\ disk_index_ready => Announced("indexed")
  /\ had_keyboard => Announced("keyboard")
  /\ had_mouse => Announced("mouse")

\* The bytes up to the first 0, or all that fit in the snapshot.
Text(bytes) ==
  LET end == CHOOSE n \in 0 .. SNAPSHOT_SIZE - 1 :
               /\ \A i \in 0 .. n - 1 : bytes[i] # 0
               /\ n < SNAPSHOT_SIZE - 1 => bytes[n] = 0
  IN  [k \in 1 .. end |-> bytes[k - 1]]

\* The daemon announces an update exactly when its text changes, although it
\* compares byte by byte with a snapshot that may hold rests of longer texts.
AnnouncesChanges ==
  [][ClipboardDaemon /\ Len(notifications) < MAX_NOTIFICATIONS =>
       (notifications' # notifications <=> Text(clipboard_snapshot)' # Text(clipboard_snapshot))]_servicesVars

\* A text that stays on the clipboard reaches the snapshot.
SnapshotFollows ==
  \A t \in {Text(d) : d \in [0 .. SNAPSHOT_SIZE - 1 -> Bytes]} :
    (clipboard_used # 0 /\ Text(clipboard_buffer) = t)
      ~> (clipboard_used = 0 \/ Text(clipboard_buffer) # t \/ Text(clipboard_snapshot) = t)

===============================================================================
