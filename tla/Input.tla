---------------------------------- MODULE Input ----------------------------------
(***************************************************************************)
(* Keyboard and mouse input: two drivers that poll one PS/2 controller     *)
(* (keyboard.c, mouse.c) and the shell task that polls the drivers and     *)
(* edits its line (kernel.c).  The controller holds one byte and says      *)
(* whose it is.  USB input joins each driver's queue; it is outside, and   *)
(* delivers a key or a report or nothing at each poll.  The queues are the *)
(* bounded queues that Ring.tla shows the drivers' rings to be.            *)
(*                                                                         *)
(* The mouse sends packets of three bytes; a byte carries its place in the *)
(* packet, the movement it is part of and bit 3, which is set in every     *)
(* first byte and may be set in the others.  The answer to a command looks *)
(* like a first byte.  The keyboard has two shift keys; one that is held   *)
(* down may send its byte again.                                           *)
(***************************************************************************)
EXTENDS Integers, Sequences

CONSTANTS
  KEY_SLOTS, EVENT_SLOTS,  \* what the rings hold (255 and 31)
  LINE,                    \* size of the shell's line buffer (80)
  MAX_X, MAX_Y,            \* 79 and 23
  START_X, START_Y,        \* 40 and 12
  Moves                    \* movements <<dx, dy>> of one packet

ASSUME InputAssumption ==
  /\ {KEY_SLOTS, EVENT_SLOTS, LINE, MAX_X, MAX_Y} \subseteq Nat \ {0}
  /\ START_X \in 0 .. MAX_X /\ START_Y \in 0 .. MAX_Y
  /\ Moves \subseteq Int \X Int

Letters == {"a", "A"}
Chars == Letters \cup {"enter", "backspace"}
NONE == "none"

\* keymap and shift_keymap: "fn" has no character.
Char(key, shift) ==
  IF key = "fn" THEN NONE
  ELSE IF key = "a" THEN (IF shift THEN "A" ELSE "a")
  ELSE key

ShiftKeys == {"left shift", "right shift"}
Keys == {"a", "fn", "enter", "backspace"} \cup ShiftKeys

EMPTY == [src |-> "none"]
Scancode(key, released) == [src |-> "kbd", key |-> key, released |-> released]
Packet(place, move, bit3) == [src |-> "mouse", place |-> place, move |-> move, bit3 |-> bit3]
Answer == Packet(0, <<0, 0>>, TRUE)

Scancodes == {Scancode(k, r) : k \in Keys, r \in BOOLEAN}
MouseBytes == {Packet(p, m, b) : p \in 0 .. 3, m \in Moves \cup {<<0, 0>>}, b \in BOOLEAN}

VARIABLES
  port,             \* the controller's output buffer
  held,             \* the shift keys that are down
  overlap,          \* history: both have been down since none was
  place, move,      \* the byte the mouse sends next, of which movement
  shift_down, keys,
  packet,           \* mouse_packet up to mouse_packet_offset
  events, x, y,
  pc,               \* where mouse_initialize or shell_task is
  line,
  quiet             \* history: mouse_initialize got the mouse's answers, and
                    \* nothing else, from the port

device == <<held, overlap, place, move>>
keyboard == <<shift_down, keys>>
mouse == <<packet, events, x, y>>
vars == <<port, device, keyboard, mouse, pc, line, quiet>>

-------------------------------------------------------------------------------
Init ==
  /\ port = EMPTY /\ held = {} /\ overlap = FALSE
  /\ place = 1 /\ move \in Moves
  /\ shift_down = FALSE /\ keys = << >>
  /\ packet = << >> /\ events = << >>
  /\ x = START_X /\ y = START_Y
  /\ pc = "defaults" /\ line = << >>
  /\ quiet = TRUE

Starting == pc \in {"defaults", "stream"}

\* The devices send when the controller's buffer is empty; the mouse only
\* after it has been told to.
KeyEvent(key, released) ==
  /\ port = EMPTY
  /\ key \in ShiftKeys /\ released => key \in held
  /\ port' = Scancode(key, released)
  /\ held' = IF released THEN held \ {key} ELSE held \cup ({key} \cap ShiftKeys)
  /\ overlap' = (held' = ShiftKeys \/ (overlap /\ held' # {}))
  /\ UNCHANGED <<place, move, keyboard, mouse, pc, line, quiet>>

MouseByte(bit3, next) ==
  /\ ~Starting
  /\ port = EMPTY
  /\ place = 1 => bit3
  /\ port' = Packet(place, move, bit3)
  /\ place' = IF place = 3 THEN 1 ELSE place + 1
  /\ move' = IF place = 3 THEN next ELSE move
  /\ UNCHANGED <<held, overlap, keyboard, mouse, pc, line, quiet>>

\* send_mouse_command takes the first byte that comes for the answer.  The
\* answer stays behind when another byte was there or the wait ran out.
SendMouseCommand ==
  /\ Starting
  /\ port' \in IF port # EMPTY THEN {Answer} ELSE {EMPTY, Answer}
  /\ quiet' = (quiet /\ port' = EMPTY)
  /\ pc' = IF pc = "defaults" THEN "stream" ELSE "keys"
  /\ UNCHANGED <<device, keyboard, mouse, line>>

\* A queue after an attempt to add to it.
Put(queue, slots, item) == IF Len(queue) < slots THEN Append(queue, item) ELSE queue

\* Mutant: the mouse bit of the status is not looked at.
ForKeyboardAny == port # EMPTY

ForKeyboard == port.src = "kbd"

\* keyboard_poll and usb_keyboard_poll: the queue with what they add.
Polled(usb) ==
  LET c  == IF ForKeyboard /\ port.src = "kbd" /\ port.key \notin ShiftKeys /\ ~port.released
            THEN Char(port.key, shift_down) ELSE NONE
      ps == IF c = NONE THEN keys ELSE Put(keys, KEY_SLOTS, c)
  IN  IF usb = NONE THEN ps ELSE Put(ps, KEY_SLOTS, usb)

\* Mutant: a shift key sets the flag on release too.
KeyboardPollSticky ==
  /\ port' = IF ForKeyboard THEN EMPTY ELSE port
  /\ shift_down' = IF ForKeyboard /\ port.src = "kbd" /\ port.key \in ShiftKeys
                   THEN TRUE ELSE shift_down

\* What keyboard_poll does to the port and to the shift flag.
KeyboardPoll ==
  /\ port' = IF ForKeyboard THEN EMPTY ELSE port
  /\ shift_down' = IF ForKeyboard /\ port.src = "kbd" /\ port.key \in ShiftKeys
                   THEN ~port.released ELSE shift_down

KeyboardHasData(usb) ==
  /\ pc = "keys"
  /\ KeyboardPoll
  /\ keys' = Polled(usb)
  /\ pc' = IF keys' # << >> THEN "read" ELSE "mouse"
  /\ UNCHANGED <<device, mouse, line, quiet>>

\* The shell's line after character c.
Edited(c) ==
  IF c = "enter" THEN << >>
  ELSE IF c = "backspace" THEN SubSeq(line, 1, Len(line) - 1)
  ELSE IF Len(line) < LINE - 1 THEN Append(line, c)
  ELSE line

\* keyboard_read_char polls again, so it may add before it takes.
KeyboardReadChar(usb) ==
  /\ pc = "read"
  /\ KeyboardPoll
  /\ keys' = Tail(Polled(usb))
  /\ line' = Edited(Head(Polled(usb)))
  /\ pc' = "mouse"
  /\ UNCHANGED <<device, mouse, quiet>>

\* mouse_poll_ps2: only a byte with bit 3 set starts a packet.
Accepts == port.src = "mouse" /\ (packet = << >> => port.bit3)

\* Mutant: a byte that cannot start a packet is left in the port.
MouseReadAccepted == IF Accepts THEN EMPTY ELSE port

\* The port after mouse_poll_ps2.
MouseRead == IF port.src = "mouse" THEN EMPTY ELSE port

MouseHasEvent(usb) ==
  /\ pc = "mouse"
  /\ port' = MouseRead
  /\ packet' = IF ~Accepts THEN packet ELSE IF Len(packet) = 2 THEN << >> ELSE Append(packet, port)
  /\ LET ps == IF Accepts /\ Len(packet) = 2
               THEN Put(events, EVENT_SLOTS, Append(packet, port)) ELSE events
     IN  events' = IF usb THEN Put(ps, EVENT_SLOTS, << >>) ELSE ps
  /\ pc' = IF events' # << >> THEN "event" ELSE "yield"
  /\ UNCHANGED <<device, keyboard, x, y, line, quiet>>

\* Mutant: the cursor may leave the screen on the far side.
ClampLowOnly(v, max) == IF v < 0 THEN 0 ELSE v

Clamp(v, max) == IF v < 0 THEN 0 ELSE IF v > max THEN max ELSE v

\* An event is the bytes of a packet, or << >> for a USB report, whose movement
\* may be any; the y axis points up in packets and down on the screen.
MouseGetEvent(report) ==
  /\ pc = "event"
  /\ LET event == Head(events)
         dx == IF event = << >> THEN report[1] ELSE event[2].move[1]
         dy == IF event = << >> THEN report[2] ELSE event[3].move[2]
     IN  x' = Clamp(x + dx, MAX_X) /\ y' = Clamp(y - dy, MAX_Y)
  /\ events' = Tail(events)
  /\ pc' = "yield"
  /\ UNCHANGED <<port, device, keyboard, packet, line, quiet>>

Yield ==
  /\ pc = "yield" /\ pc' = "keys"
  /\ UNCHANGED <<port, device, keyboard, mouse, line, quiet>>

Shell ==
  \/ SendMouseCommand
  \/ \E c \in Chars \cup {NONE} : KeyboardHasData(c) \/ KeyboardReadChar(c)
  \/ \E usb \in BOOLEAN : MouseHasEvent(usb)
  \/ \E m \in Moves : MouseGetEvent(m)
  \/ Yield

Next ==
  \/ Shell
  \/ \E k \in Keys, r \in BOOLEAN : KeyEvent(k, r)
  \/ \E b \in BOOLEAN, m \in Moves : MouseByte(b, m)

\* The shell is scheduled again and again.
Spec == Init /\ [][Next]_vars /\ WF_vars(Shell)

-------------------------------------------------------------------------------
(***************************************************************************)
(* Properties                                                              *)
(***************************************************************************)

\* Every variable keeps its type: the cursor stays on the screen, the line in
\* its buffer with room for the final zero, the queues in their rings.
TypeOK ==
  /\ port \in {EMPTY} \cup Scancodes \cup MouseBytes
  /\ keys \in Seq(Chars) /\ Len(keys) <= KEY_SLOTS
  /\ packet \in Seq(MouseBytes) /\ Len(packet) <= 2
  /\ Len(events) <= EVENT_SLOTS
  /\ x \in 0 .. MAX_X /\ y \in 0 .. MAX_Y
  /\ line \in Seq(Letters) /\ Len(line) <= LINE - 1
  /\ {shift_down, overlap, quiet} \subseteq BOOLEAN /\ held \subseteq ShiftKeys
  /\ place \in 1 .. 3 /\ move \in Moves

\* After a quiet start the drivers stay in step with the mouse although they
\* share the port with the keyboard and the rings drop what does not fit:
\* every event is the three bytes of one packet, in order.
EventsWhole ==
  quiet => \A k \in DOMAIN events :
    events[k] # << >> =>
      \A p \in 1 .. 3 : events[k][p].place = p /\ events[k][p].move = events[k][1].move

\* The drivers' one shift flag never sticks: once the byte of a shift key has been
\* read, capitals are typed only while one of the two keys is down, whatever the
\* start was like.  And after a quiet start the flag is set whenever one is down,
\* unless both have been down together: then the release of one clears the flag
\* under the other.
ShiftInStep ==
  (port.src = "kbd" => port.key \notin ShiftKeys) =>
    /\ shift_down => held # {}
    /\ quiet /\ ~overlap => (shift_down <=> held # {})

\* A byte waiting in the controller is always read, so that no device can
\* block the other, whatever the start was like.
PortDrains == (port # EMPTY) ~> (port = EMPTY)

===============================================================================
