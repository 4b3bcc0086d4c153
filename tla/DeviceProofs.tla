------------------------------- MODULE DeviceProofs -------------------------------
(***************************************************************************)
(* Proofs about the ways into the kernel (Traps), for every set of         *)
(* interrupt lines and of system call arguments, and about keyboard and    *)
(* mouse input (Input), for rings, lines and screens of every size.        *)
(***************************************************************************)
EXTENDS Traps, Input, SequenceTheorems, TLAPS

-------------------------------------------------------------------------------
(***************************************************************************)
(* Interrupts and system calls (Traps)                                     *)
(***************************************************************************)

\* Where the program's stack pointer is: in its register, but from the entry
\* code's exchange of stacks up to SYSRET in the one that keeps it.
StackKept ==
  /\ regs["rsp"] = USER_STACK \/ cpu \in {"dispatch", "sysret"}
  /\ cpu \in {"dispatch", "sysret"} => regs[StackRegister] = USER_STACK

TrapsInv ==
  /\ cpu \in {"boot", "task", "entry", "eoi", "return", "syscall", "dispatch", "sysret",
            "user"}
  /\ irq \in MASTER \cup SLAVE
  /\ DOMAIN regs = Registers
  /\ NothingLeftInService
  /\ StackKept

\* With at most one mark on each controller, the command clears it.
LEMMA EndsOnly ==
  ASSUME NEW controller, NEW m \in Int, service \cap controller \subseteq {m}
  PROVE  EndOfInterrupt(controller) = {}
BY DEF EndOfInterrupt

LEMMA MasterLineIs ==
  ASSUME NEW l \in MASTER \cup SLAVE
  PROVE  /\ MasterLine(l) \in MASTER
         /\ l \in MASTER => MasterLine(l) = l
BY DEF MasterLine, MASTER, SLAVE, CASCADE

\* While the stub's registers are restored unchanged, only the controllers and
\* the interrupt's progress matter.
LEMMA InterruptSteps ==
  ASSUME TrapsInv,
         \/ EnableInterrupts \/ IsrHandler \/ InterruptReturn
         \/ \E l \in Lines : Request(l)
  PROVE  TrapsInv'
<1> USE DEF TrapsInv, NothingLeftInService, StackKept, controllers, program
<1>1. CASE EnableInterrupts
  BY <1>1, Zenon DEF EnableInterrupts
<1>2. CASE IsrHandler
  BY <1>2, Zenon DEF IsrHandler
<1>3. CASE InterruptReturn
  BY <1>3, Zenon DEF InterruptReturn
<1>4. CASE \E l \in Lines : Request(l)
  BY <1>4 DEF Request
<1> QED
  BY <1>1, <1>2, <1>3, <1>4, Zenon

\* A delivery finds nothing in service, and marks the line and the cascade.
LEMMA DeliverStep == ASSUME TrapsInv, NEW l \in Lines, Deliver(l) PROVE TrapsInv'
<1>1. l \in MASTER \cup SLAVE
  BY TrapAssumption, Zenon
<1>2. service = {} /\ service' = {l, MasterLine(l)} /\ irq' = l /\ ~enabled'
  BY Zenon DEF TrapsInv, NothingLeftInService, Deliver, Enter
<1>3. cpu = "task" /\ cpu' = "entry" /\ regs' = regs
  BY Zenon DEF Deliver, Enter, program
<1>4. NothingLeftInService'
  BY <1>2, <1>3, Zenon DEF NothingLeftInService
<1> QED
  BY <1>1, <1>2, <1>3, <1>4, Zenon DEF TrapsInv, StackKept

LEMMA SpuriousStep == ASSUME TrapsInv, NEW l \in {7, 15}, Spurious(l) PROVE TrapsInv'
<1>1. l \in MASTER \cup SLAVE
  BY DEF MASTER, SLAVE
<1>2. service' \subseteq {l, MasterLine(l)} /\ irq' = l /\ ~enabled'
  <2>1. service = {}
    BY Zenon DEF TrapsInv, NothingLeftInService, Spurious, Enter
  <2>2. MasterLine(15) = CASCADE
    BY DEF MasterLine, SLAVE
  <2> QED
    BY <2>1, <2>2, Zenon DEF Spurious, Enter
<1>3. cpu = "task" /\ cpu' = "entry" /\ regs' = regs
  BY Zenon DEF Spurious, Enter, program
<1>4. NothingLeftInService'
  BY <1>2, <1>3, Zenon DEF NothingLeftInService
<1> QED
  BY <1>1, <1>2, <1>3, <1>4, Zenon DEF TrapsInv, StackKept

\* The commands clear what the delivery marked, on one controller or on both.
LEMMA PicSendEoiStep == ASSUME TrapsInv, PicSendEoi PROVE TrapsInv'
<1>1. service \subseteq {irq, MasterLine(irq)} /\ irq \in MASTER \cup SLAVE
  BY Zenon DEF TrapsInv, NothingLeftInService, PicSendEoi
<1>2. MasterLine(irq) \in MASTER /\ (irq \in MASTER => MasterLine(irq) = irq)
  BY <1>1, MasterLineIs, Zenon
<1>3. EndOfInterrupt(MASTER) = {}
  <2>1. service \cap MASTER \subseteq {MasterLine(irq)}
    BY <1>1, <1>2, Zenon DEF MASTER, SLAVE
  <2>2. MasterLine(irq) \in Int
    BY <1>2 DEF MASTER
  <2> QED
    BY <2>1, <2>2, EndsOnly, Zenon
<1>4. service \cap SLAVE \subseteq {irq}
  BY <1>1, <1>2 DEF MASTER, SLAVE
<1>5. EndOfInterrupt(SLAVE) = {}
  BY <1>1, <1>4, EndsOnly DEF MASTER, SLAVE
<1>6. irq < 8 => service \cap SLAVE = {}
  BY <1>1, <1>4 DEF MASTER, SLAVE
<1>7. service' = {}
  BY <1>1, <1>3, <1>5, <1>6 DEF PicSendEoi, MASTER, SLAVE
<1> QED
  BY <1>7, Zenon DEF PicSendEoi, TrapsInv, NothingLeftInService, StackKept, program

\* The way of the stack pointer through a system call.
LEMMA SyscallSteps ==
  ASSUME TrapsInv,
         \/ \E id \in Ids, a1, a2, a3 \in Args : Syscall(id, a1, a2, a3)
         \/ SyscallEntry \/ SyscallReturn
         \/ \E lost \in SUBSET {"rcx", "r11"} : SyscallDispatcher(lost)
  PROVE  TrapsInv'
<1> USE DEF TrapsInv, NothingLeftInService, StackKept, StackRegister, Registers, controllers
<1>1. CASE \E id \in Ids, a1, a2, a3 \in Args : Syscall(id, a1, a2, a3)
  BY <1>1, Zenon DEF Syscall
<1>2. CASE SyscallEntry
  BY <1>2, Zenon DEF SyscallEntry
<1>3. CASE SyscallReturn
  BY <1>3, Zenon DEF SyscallReturn
<1>4. CASE \E lost \in SUBSET {"rcx", "r11"} : SyscallDispatcher(lost)
  BY <1>4 DEF SyscallDispatcher
<1> QED
  BY <1>1, <1>2, <1>3, <1>4, Zenon

THEOREM TrapsInvariance == TrapsSpec => []TrapsInv
<1>1. TrapsInit => TrapsInv
  BY DEF TrapsInit, TrapsInv, NothingLeftInService, StackKept, StackRegister, Registers, MASTER, SLAVE
<1>2. TrapsInv /\ [TrapsNext]_trapsVars => TrapsInv'
  <2> SUFFICES ASSUME TrapsInv, [TrapsNext]_trapsVars PROVE TrapsInv'
    BY Zenon
  <2>1. CASE Stopped \/ UNCHANGED trapsVars
    <3>1. UNCHANGED trapsVars
      BY <2>1, Zenon DEF Stopped
    <3> QED
      BY <3>1, Zenon DEF trapsVars, controllers, program, TrapsInv, NothingLeftInService, StackKept
  <2> QED
    BY <2>1, InterruptSteps, DeliverStep, SpuriousStep, PicSendEoiStep, SyscallSteps, Zenon
    DEF TrapsNext, Cpu
<1> QED
  BY <1>1, <1>2, PTL DEF TrapsSpec

\* Whatever lines there are and however real and spurious interrupts, system
\* calls and returns follow each other, pic_send_eoi clears exactly the marks the
\* delivery set: no controller is left blocked.
THEOREM InServiceCorrect == TrapsSpec => []NothingLeftInService
<1>1. TrapsInv => NothingLeftInService
  BY Zenon DEF TrapsInv
<1> QED
  BY <1>1, TrapsInvariance, PTL

\* syscall_entry leaves with the caller's stack pointer, whatever the dispatcher
\* leaves in the registers.
THEOREM StackCorrect == TrapsSpec => []StackRestored
<1>1. TrapsInv => StackRestored
  BY Zenon DEF TrapsInv, StackKept, StackRestored
<1> QED
  BY <1>1, TrapsInvariance, PTL

-------------------------------------------------------------------------------
(***************************************************************************)
(* Keyboard and mouse (Input)                                              *)
(***************************************************************************)

\* The byte the mouse driver reads next: the one in the port, or the one the
\* mouse sends next.
Due == IF port.src = "mouse" THEN port.place ELSE place
DueMove == IF port.src = "mouse" THEN port.move ELSE move

\* The driver is as far in the packet as the mouse.
InStep ==
  /\ Due = Len(packet) + 1
  /\ \A k \in 1 .. Len(packet) : packet[k].place = k /\ packet[k].move = DueMove
  /\ port.src = "mouse" =>
       /\ ~Starting
       /\ place = IF port.place = 3 THEN 1 ELSE port.place + 1
       /\ port.place # 3 => port.move = move
       /\ port.place = 1 => port.bit3

\* The queues the shell has seen something in, and the form of their items.
QueuesInv ==
  /\ pc \in {"defaults", "stream", "keys", "read", "mouse", "event", "yield"}
  /\ events \in Seq(Seq(MouseBytes))
  /\ \A k \in 1 .. Len(events) : Len(events[k]) \in {0, 3}
  /\ pc = "read" => keys # << >>
  /\ pc = "event" => events # << >>

InputInv ==
  /\ TypeOK /\ QueuesInv
  /\ quiet => InStep /\ EventsWhole

\* What is in the port is nothing, a key or a mouse byte.
LEMMA PortForms ==
  ASSUME TypeOK
  PROVE  \/ port = EMPTY /\ port.src = "none"
         \/ /\ port \in Scancodes /\ port.src = "kbd" /\ port.released \in BOOLEAN
            /\ port.key \in Keys
         \/ /\ port \in MouseBytes /\ port.src = "mouse" /\ port.bit3 \in BOOLEAN
            /\ port.place \in 0 .. 3 /\ port.move \in Moves \cup {<<0, 0>>}
<1>1. CASE port = EMPTY
  BY <1>1, Zenon DEF EMPTY
<1>2. CASE port \in Scancodes
  BY <1>2 DEF Scancodes, Scancode
<1>3. CASE port \in MouseBytes
  BY <1>3 DEF MouseBytes, Packet
<1> QED
  BY <1>1, <1>2, <1>3, Zenon DEF TypeOK

LEMMA MouseByteForm ==
  ASSUME NEW b \in MouseBytes
  PROVE  b.place \in 0 .. 3 /\ b.move \in Int \X Int
BY InputAssumption DEF MouseBytes, Packet

\* A full ring is left alone; otherwise the item is the last.
LEMMA PutProperties ==
  ASSUME NEW S, NEW queue \in Seq(S), NEW item \in S, NEW slots \in Nat \ {0},
         Len(queue) <= slots
  PROVE  /\ Put(queue, slots, item) \in Seq(S)
         /\ Len(Put(queue, slots, item)) <= slots
         /\ Put(queue, slots, item) # << >>
         /\ \A k \in 1 .. Len(Put(queue, slots, item)) :
              \/ k \in 1 .. Len(queue) /\ Put(queue, slots, item)[k] = queue[k]
              \/ Put(queue, slots, item)[k] = item
<1>1. CASE Len(queue) < slots
  BY <1>1, AppendProperties DEF Put
<1>2. CASE ~(Len(queue) < slots)
  BY <1>2, EmptySeq DEF Put
<1> QED
  BY <1>1, <1>2, Zenon

\* The devices' steps fill an empty port.
LEMMA KeyEventStep ==
  ASSUME InputInv, NEW key \in Keys, NEW released \in BOOLEAN,
         KeyEvent(key, released)
  PROVE  InputInv'
<1>1. port = EMPTY /\ port.src = "none" /\ TypeOK
  BY Zenon DEF KeyEvent, EMPTY, InputInv
<1>2. port' \in Scancodes /\ port'.src = "kbd" /\ port'.key = key /\ port'.released = released
  BY DEF KeyEvent, Scancodes, Scancode
<1>3. TypeOK'
  BY <1>1, <1>2, Zenon DEF TypeOK, KeyEvent, keyboard, mouse
<1>4. QueuesInv'
  BY Zenon DEF InputInv, QueuesInv, KeyEvent, keyboard, mouse
<1>5. ASSUME quiet' PROVE InStep' /\ EventsWhole'
  <2>1. InStep /\ EventsWhole
    BY <1>5, Zenon DEF InputInv, KeyEvent
  <2>2. InStep'
    BY <1>1, <1>2, <2>1, Zenon DEF InStep, Due, DueMove, Starting, KeyEvent, mouse
  <2>3. EventsWhole'
    BY <2>1, Zenon DEF EventsWhole, KeyEvent, mouse
  <2> QED
    BY <2>2, <2>3, Zenon
<1> QED
  BY <1>3, <1>4, <1>5, Zenon DEF InputInv

LEMMA MouseByteStep ==
  ASSUME InputInv, NEW bit3 \in BOOLEAN, NEW next \in Moves, MouseByte(bit3, next)
  PROVE  InputInv'
<1>1. port = EMPTY /\ port.src = "none" /\ TypeOK
  BY Zenon DEF MouseByte, EMPTY, InputInv
<1>2. /\ port' \in MouseBytes /\ port'.src = "mouse"
      /\ port'.place = place /\ port'.move = move /\ port'.bit3 = bit3
  BY <1>1 DEF MouseByte, MouseBytes, Packet, TypeOK
<1>3. TypeOK'
  BY <1>1, <1>2 DEF TypeOK, MouseByte, keyboard, mouse
<1>4. QueuesInv'
  BY Zenon DEF InputInv, QueuesInv, MouseByte, keyboard, mouse
<1>5. ASSUME quiet' PROVE InStep' /\ EventsWhole'
  <2>1. InStep /\ EventsWhole
    BY <1>5, Zenon DEF InputInv, MouseByte
  <2>2. InStep'
    <3>1. Due' = Len(packet') + 1 /\ DueMove' = move /\ DueMove = move
      BY <1>1, <1>2, <2>1, Zenon DEF InStep, Due, DueMove, MouseByte, mouse
    <3>2. ~Starting' /\ place' = (IF port'.place = 3 THEN 1 ELSE port'.place + 1)
      BY <1>2, Zenon DEF MouseByte, Starting
    <3>3. (port'.place # 3 => port'.move = move') /\ (port'.place = 1 => port'.bit3)
      BY <1>2, Zenon DEF MouseByte
    <3> QED
      BY <1>1, <1>2, <2>1, <3>1, <3>2, <3>3, Zenon DEF InStep, MouseByte, mouse
  <2>3. EventsWhole'
    BY <2>1, Zenon DEF EventsWhole, MouseByte, mouse
  <2> QED
    BY <2>2, <2>3, Zenon
<1> QED
  BY <1>3, <1>4, <1>5, Zenon DEF InputInv

\* A start is quiet only while the commands find and leave the port empty.
LEMMA SendMouseCommandStep == ASSUME InputInv, SendMouseCommand PROVE InputInv'
<1>1. TypeOK /\ QueuesInv
  BY Zenon DEF InputInv
<1>2. Answer \in MouseBytes
  <2>1. 0 \in 0 .. 3 /\ <<0, 0>> \in Moves \cup {<<0, 0>>} /\ TRUE \in BOOLEAN
    OBVIOUS
  <2>2. \E p \in 0 .. 3, m \in Moves \cup {<<0, 0>>}, b \in BOOLEAN : Answer = Packet(p, m, b)
    BY <2>1, Zenon DEF Answer
  <2> QED
    BY <2>2 DEF MouseBytes
<1>3. port' \in {EMPTY, Answer} /\ quiet' \in BOOLEAN
  BY <1>1, Zenon DEF SendMouseCommand
<1>4. TypeOK'
  BY <1>1, <1>2, <1>3, Zenon DEF TypeOK, SendMouseCommand, device, keyboard, mouse
<1>5. QueuesInv'
  BY <1>1, Zenon DEF QueuesInv, SendMouseCommand, Starting, keyboard, mouse
<1>6. ASSUME quiet' PROVE InStep' /\ EventsWhole'
  <2>0. port' = EMPTY
    BY <1>6, Zenon DEF SendMouseCommand
  <2>1. port' = EMPTY /\ port'.src = "none"
    BY <2>0, Zenon DEF EMPTY
  <2>2. port = EMPTY /\ port.src = "none"
    BY <2>1, Zenon DEF SendMouseCommand, EMPTY, Answer, Packet
  <2>3. InStep /\ EventsWhole
    BY <1>6, Zenon DEF InputInv, SendMouseCommand
  <2>4. InStep'
    BY <2>1, <2>2, <2>3, Zenon DEF InStep, Due, DueMove, SendMouseCommand, device, mouse
  <2>5. EventsWhole'
    BY <2>3 DEF EventsWhole, SendMouseCommand, mouse
  <2> QED
    BY <2>4, <2>5, Zenon
<1> QED
  BY <1>4, <1>5, <1>6, Zenon DEF InputInv

\* What keyboard_poll does to the port and to the shift flag keeps both drivers
\* in step.
LEMMA KeyboardPollStep ==
  ASSUME InputInv, KeyboardPoll, UNCHANGED <<device, mouse, quiet>>, ~Starting'
  PROVE  /\ port' \in {EMPTY, port} /\ shift_down' \in BOOLEAN
         /\ quiet' => InStep' /\ EventsWhole'
<1>1. TypeOK
  BY Zenon DEF InputInv
<1>2. port' \in {EMPTY, port} /\ shift_down' \in BOOLEAN
  BY <1>1, PortForms, Zenon DEF KeyboardPoll, ForKeyboard, TypeOK
<1>3. ASSUME quiet' PROVE InStep' /\ EventsWhole'
  <2>1. InStep /\ EventsWhole
    BY <1>3, Zenon DEF InputInv
  <2>2. port'.src = "mouse" <=> port.src = "mouse"
    BY Zenon DEF KeyboardPoll, ForKeyboard, EMPTY
  <2>3. port'.src = "mouse" => port' = port
    BY Zenon DEF KeyboardPoll, ForKeyboard, EMPTY
  <2>4. InStep'
    <3>1. Due' = Due /\ DueMove' = DueMove
      BY <2>2, <2>3, Zenon DEF Due, DueMove, device
    <3>2. CASE port.src = "mouse"
      <4>1. port' = port
        BY <2>2, <2>3, <3>2, Zenon
      <4> QED
        BY <2>1, <3>1, <3>2, <4>1, Zenon DEF InStep, device, mouse
    <3>3. CASE port.src # "mouse"
      BY <2>1, <2>2, <3>1, <3>3, Zenon DEF InStep, device, mouse
    <3> QED
      BY <3>2, <3>3, Zenon
  <2>5. EventsWhole'
    BY <2>1 DEF EventsWhole, mouse
  <2> QED
    BY <2>4, <2>5, Zenon
<1> QED
  BY <1>2, <1>3, Zenon

\* A poll adds at most two characters, and takes none away.
LEMMA PolledProperties ==
  ASSUME TypeOK, NEW usb \in Chars \cup {NONE}
  PROVE  /\ Polled(usb) \in Seq(Chars) /\ Len(Polled(usb)) <= KEY_SLOTS
         /\ keys # << >> => Polled(usb) # << >>
<1> DEFINE c == IF ForKeyboard /\ port.src = "kbd" /\ port.key \notin ShiftKeys /\ ~port.released
                THEN Char(port.key, shift_down) ELSE NONE
           ps == IF c = NONE THEN keys ELSE Put(keys, KEY_SLOTS, c)
<1>1. keys \in Seq(Chars) /\ Len(keys) <= KEY_SLOTS /\ KEY_SLOTS \in Nat \ {0}
  BY InputAssumption, Zenon DEF TypeOK
<1>2. c \in Chars \cup {NONE}
  BY PortForms, Zenon DEF ForKeyboard, Char, Chars, Letters, NONE, Keys, ShiftKeys
<1> HIDE DEF c
<1>3. ps \in Seq(Chars) /\ Len(ps) <= KEY_SLOTS /\ (keys # << >> => ps # << >>)
  BY <1>1, <1>2, PutProperties
<1> HIDE DEF ps
<1>4. Polled(usb) = IF usb = NONE THEN ps ELSE Put(ps, KEY_SLOTS, usb)
  BY Zenon DEF Polled, c, ps
<1> QED
  BY <1>1, <1>3, <1>4, PutProperties

LEMMA KeyboardHasDataStep ==
  ASSUME InputInv, NEW usb \in Chars \cup {NONE}, KeyboardHasData(usb)
  PROVE  InputInv'
<1>1. TypeOK /\ QueuesInv
  BY Zenon DEF InputInv
<1>2. /\ port' \in {EMPTY, port} /\ shift_down' \in BOOLEAN
      /\ quiet' => InStep' /\ EventsWhole'
  BY KeyboardPollStep, Zenon DEF KeyboardHasData, Starting
<1>3. TypeOK'
  BY <1>1, <1>2, PolledProperties, Zenon DEF TypeOK, KeyboardHasData, device, mouse
<1>4. QueuesInv'
  BY <1>1, Zenon DEF QueuesInv, KeyboardHasData, mouse
<1> QED
  BY <1>2, <1>3, <1>4, Zenon DEF InputInv

\* The line is shortened, emptied or has room for the character and a final zero.
LEMMA EditedProperties ==
  ASSUME TypeOK, NEW c \in Chars
  PROVE  Edited(c) \in Seq(Letters) /\ Len(Edited(c)) <= LINE - 1
<1>1. line \in Seq(Letters) /\ Len(line) \in Nat /\ Len(line) <= LINE - 1 /\ LINE \in Nat \ {0}
  BY InputAssumption DEF TypeOK
<1>2. CASE c = "enter"
  BY <1>1, <1>2, EmptySeq DEF Edited
<1>3. CASE c = "backspace"
  <2>1. \A k \in 1 .. Len(line) - 1 : line[k] \in Letters
    BY <1>1, ElementOfSeq
  <2>2. /\ SubSeq(line, 1, Len(line) - 1) \in Seq(Letters)
        /\ Len(SubSeq(line, 1, Len(line) - 1)) =
             IF 1 <= Len(line) - 1 THEN Len(line) - 1 - 1 + 1 ELSE 0
    BY <1>1, <2>1, SubSeqProperties
  <2> QED
    BY <1>1, <1>3, <2>2 DEF Edited
<1>4. CASE c \in Letters
  BY <1>1, <1>4, AppendProperties DEF Edited, Letters
<1> QED
  BY <1>2, <1>3, <1>4, Zenon DEF Chars

LEMMA KeyboardReadCharStep ==
  ASSUME InputInv, NEW usb \in Chars \cup {NONE}, KeyboardReadChar(usb)
  PROVE  InputInv'
<1>1. TypeOK /\ QueuesInv
  BY DEF InputInv
<1>2. /\ port' \in {EMPTY, port} /\ shift_down' \in BOOLEAN
      /\ quiet' => InStep' /\ EventsWhole'
  BY KeyboardPollStep, Zenon DEF KeyboardReadChar, Starting
<1>3. /\ Polled(usb) \in Seq(Chars) /\ Len(Polled(usb)) <= KEY_SLOTS
      /\ Polled(usb) # << >>
  BY <1>1, PolledProperties, Zenon DEF QueuesInv, KeyboardReadChar
<1>4. Head(Polled(usb)) \in Chars
  BY <1>3, HeadTailProperties, Zenon
<1>5. keys' \in Seq(Chars) /\ Len(keys') <= KEY_SLOTS
  <2>1. Tail(Polled(usb)) \in Seq(Chars) /\ Len(Tail(Polled(usb))) = Len(Polled(usb)) - 1
    BY <1>3, HeadTailProperties, Zenon
  <2> QED
    BY <1>3, <2>1, InputAssumption DEF KeyboardReadChar
<1>6. line' \in Seq(Letters) /\ Len(line') <= LINE - 1
  BY <1>1, <1>4, EditedProperties, Zenon DEF KeyboardReadChar
<1>7. TypeOK'
  BY <1>1, <1>2, <1>5, <1>6, Zenon DEF TypeOK, KeyboardReadChar, device, mouse
<1>8. QueuesInv'
  BY <1>1, Zenon DEF QueuesInv, KeyboardReadChar, mouse
<1> QED
  BY <1>2, <1>7, <1>8 DEF InputInv

LEMMA PacketLength ==
  ASSUME TypeOK
  PROVE  packet \in Seq(MouseBytes) /\ Len(packet) \in 0 .. 2
<1>1. packet \in Seq(MouseBytes)
  BY Zenon DEF TypeOK
<1>2. Len(packet) <= 2
  BY Zenon DEF TypeOK
<1>3. Len(packet) \in Nat
  BY <1>1, LenProperties, Zenon
<1>4. Len(packet) \in 0 .. 2
  <2> DEFINE n == Len(packet)
  <2>1. n <= 2 /\ n \in Nat
    BY <1>2, <1>3, Zenon
  <2> HIDE DEF n
  <2>2. n \in 0 .. 2
    BY <2>1
  <2> QED
    BY <2>2, Zenon DEF n
<1> QED
  BY <1>1, <1>4, Zenon

\* What mouse_poll_ps2 makes of the packet: it grows by the byte in the port, is
\* complete with it, or stays.
LEMMA MousePollForms ==
  ASSUME TypeOK, NEW usb \in BOOLEAN, MouseHasEvent(usb)
  PROVE  /\ port.src = "mouse" => port' = EMPTY
         /\ port.src # "mouse" => port' = port
         /\ \/ ~Accepts /\ packet' = packet
            \/ Accepts /\ Len(packet) \in 0 .. 1 /\ packet' = Append(packet, port)
            \/ Accepts /\ Len(packet) = 2 /\ packet' = << >>
         /\ packet' \in Seq(MouseBytes) /\ Len(packet') <= 2
         /\ Accepts => Append(packet, port) \in Seq(MouseBytes)
<1>1. packet \in Seq(MouseBytes) /\ Len(packet) \in 0 .. 2
  BY PacketLength, Zenon
<1>2. Accepts => port \in MouseBytes
  BY PortForms, Zenon DEF Accepts
<1>3. Accepts => /\ Append(packet, port) \in Seq(MouseBytes)
                 /\ Len(Append(packet, port)) = Len(packet) + 1
  BY <1>1, <1>2, AppendProperties, Zenon
<1>4. /\ port.src = "mouse" => port' = EMPTY
      /\ port.src # "mouse" => port' = port
  BY Zenon DEF MouseHasEvent, MouseRead
<1>5. \/ ~Accepts /\ packet' = packet
      \/ Accepts /\ Len(packet) \in 0 .. 1 /\ packet' = Append(packet, port)
      \/ Accepts /\ Len(packet) = 2 /\ packet' = << >>
  BY <1>1 DEF MouseHasEvent
<1>6. packet' \in Seq(MouseBytes) /\ Len(packet') <= 2
  <2>1. CASE packet' = packet
    <3>1. packet \in Seq(MouseBytes) /\ Len(packet) <= 2
      BY Zenon DEF TypeOK
    <3> QED
      BY <2>1, <3>1, Zenon
  <2>2. CASE Accepts /\ Len(packet) \in 0 .. 1 /\ packet' = Append(packet, port)
    BY <1>3, <2>2
  <2>3. CASE packet' = << >>
    BY <2>3, EmptySeq
  <2> QED
    BY <1>5, <2>1, <2>2, <2>3, Zenon
<1> QED
  BY <1>3, <1>4, <1>5, <1>6, Zenon

\* The driver stays in step: with a quiet start the byte that comes is the one it
\* is waiting for.
LEMMA MouseInStep ==
  ASSUME TypeOK, InStep, NEW usb \in BOOLEAN, MouseHasEvent(usb)
  PROVE  InStep'
<1>1. place' = place /\ move' = move
  BY Zenon DEF MouseHasEvent, device
<1>2. packet \in Seq(MouseBytes) /\ Len(packet) \in 0 .. 2
  BY PacketLength, Zenon
<1>3. CASE port.src # "mouse"
  <2>1. port' = port /\ packet' = packet
    BY <1>3, MousePollForms, Zenon DEF Accepts
  <2> QED
    BY <1>1, <1>3, <2>1, Zenon DEF InStep, Due, DueMove
<1>4. CASE port.src = "mouse"
  <2>1. port' = EMPTY /\ port'.src = "none"
    BY <1>4, MousePollForms DEF EMPTY
  <2>2. port.place = Len(packet) + 1
    BY <1>4, Zenon DEF InStep, Due
  <2>3. Accepts
    <3>1. packet = << >> => port.place = 1
      BY <2>2, EmptySeq
    <3> QED
      BY <1>4, <3>1, Zenon DEF InStep, Accepts
  <2>4. Due' = place /\ DueMove' = move /\ DueMove = port.move
    BY <1>1, <1>4, <2>1, Zenon DEF Due, DueMove
  <2>5. CASE Len(packet) = 2 /\ packet' = << >>
    <3>1. place = 1 /\ Len(packet') = 0
      BY <1>4, <2>2, <2>5, EmptySeq DEF InStep
    <3> QED
      BY <2>1, <2>4, <3>1 DEF InStep
  <2>6. CASE Len(packet) \in 0 .. 1 /\ packet' = Append(packet, port)
    <3>1. place = port.place + 1 /\ port.move = move
      BY <1>4, <2>2, <2>6 DEF InStep
    <3>2. /\ Len(packet') = Len(packet) + 1
          /\ \A k \in 1 .. Len(packet) : packet'[k] = packet[k]
          /\ packet'[Len(packet) + 1] = port
      BY <1>2, <2>6, <1>4, PortForms, AppendProperties
    <3>3. \A k \in 1 .. Len(packet') : packet'[k].place = k /\ packet'[k].move = DueMove'
      BY <1>2, <2>2, <2>4, <3>1, <3>2 DEF InStep
    <3> QED
      BY <1>2, <2>1, <2>2, <2>4, <3>1, <3>2, <3>3, Zenon DEF InStep
  <2> QED
    BY <2>3, <2>5, <2>6, MousePollForms, Zenon
<1> QED
  BY <1>3, <1>4, Zenon

LEMMA AppendThird ==
  ASSUME NEW S, NEW s \in Seq(S), NEW e \in S
  PROVE  Len(s) = 2 => Append(s, e)[1] = s[1] /\ Append(s, e)[2] = s[2] /\ Append(s, e)[3] = e
<1> DEFINE n == Len(s)
           t == Append(s, e)
<1>1. (\A k \in 1 .. n : t[k] = s[k]) /\ t[n + 1] = e
  BY AppendProperties
<1> HIDE DEF n, t
<1>2. n = 2 => t[1] = s[1] /\ t[2] = s[2] /\ t[3] = e
  BY <1>1
<1> QED
  BY <1>2, Zenon DEF n, t

\* A packet of the driver's that is complete is the mouse's.
LEMMA CompletePacket ==
  ASSUME TypeOK, InStep, Accepts, Len(packet) = 2
  PROVE  \A p \in 1 .. 3 : /\ Append(packet, port)[p].place = p
                           /\ Append(packet, port)[p].move = Append(packet, port)[1].move
<1>1. packet \in Seq(MouseBytes) /\ port \in MouseBytes /\ port.src = "mouse"
  BY PortForms, Zenon DEF TypeOK, Accepts
<1>2. /\ Append(packet, port)[1] = packet[1]
      /\ Append(packet, port)[2] = packet[2]
      /\ Append(packet, port)[3] = port
  BY <1>1, AppendThird
<1>3. /\ packet[1].place = 1 /\ packet[2].place = 2 /\ port.place = 3
      /\ packet[1].move = port.move /\ packet[2].move = port.move
  BY <1>1 DEF InStep, Due, DueMove
<1> QED
  BY <1>2, <1>3

LEMMA MouseHasEventStep ==
  ASSUME InputInv, NEW usb \in BOOLEAN, MouseHasEvent(usb)
  PROVE  InputInv'
<1> DEFINE ps == IF Accepts /\ Len(packet) = 2
                 THEN Put(events, EVENT_SLOTS, Append(packet, port)) ELSE events
           Item(e) == \/ e = << >>
                      \/ Accepts /\ Len(packet) = 2 /\ e = Append(packet, port)
<1>1. TypeOK /\ QueuesInv
  BY Zenon DEF InputInv
<1>2. events \in Seq(Seq(MouseBytes)) /\ Len(events) <= EVENT_SLOTS /\ EVENT_SLOTS \in Nat \ {0}
  BY <1>1, InputAssumption, Zenon DEF TypeOK, QueuesInv
<1>3. Accepts => Append(packet, port) \in Seq(MouseBytes)
  BY <1>1, MousePollForms, Zenon
<1>4. << >> \in Seq(MouseBytes)
  BY EmptySeq, Zenon
<1>5. /\ ps \in Seq(Seq(MouseBytes)) /\ Len(ps) <= EVENT_SLOTS
      /\ \A k \in 1 .. Len(ps) : (k \in 1 .. Len(events) /\ ps[k] = events[k]) \/ Item(ps[k])
  <2>1. CASE Accepts /\ Len(packet) = 2
    <3> DEFINE item == Append(packet, port)
    <3>1. item \in Seq(MouseBytes) /\ ps = Put(events, EVENT_SLOTS, item)
      BY <1>3, <2>1, Zenon
    <3> HIDE DEF item, ps
    <3>2. /\ ps \in Seq(Seq(MouseBytes)) /\ Len(ps) <= EVENT_SLOTS
          /\ \A k \in 1 .. Len(ps) : (k \in 1 .. Len(events) /\ ps[k] = events[k]) \/ ps[k] = item
      BY <1>2, <3>1, PutProperties
    <3> QED
      BY <2>1, <3>2, Zenon DEF item
  <2>2. CASE ~(Accepts /\ Len(packet) = 2)
    BY <1>2, <2>2, Zenon
  <2> QED
    BY <2>1, <2>2, Zenon
<1>6. events' = IF usb THEN Put(ps, EVENT_SLOTS, << >>) ELSE ps
  BY Zenon DEF MouseHasEvent
<1> HIDE DEF ps
<1>7. /\ events' \in Seq(Seq(MouseBytes)) /\ Len(events') <= EVENT_SLOTS
      /\ \A k \in 1 .. Len(events') :
           (k \in 1 .. Len(events) /\ events'[k] = events[k]) \/ Item(events'[k])
  <2>1. CASE usb
    <3>1. /\ events' \in Seq(Seq(MouseBytes)) /\ Len(events') <= EVENT_SLOTS
          /\ \A k \in 1 .. Len(events') : (k \in 1 .. Len(ps) /\ events'[k] = ps[k]) \/ events'[k] = << >>
      <4> DEFINE item == << >>
      <4>1. item \in Seq(MouseBytes) /\ events' = Put(ps, EVENT_SLOTS, item)
        BY <1>4, <1>6, <2>1, Zenon
      <4>2. ps \in Seq(Seq(MouseBytes)) /\ Len(ps) <= EVENT_SLOTS
        BY <1>5, Zenon
      <4> HIDE DEF item
      <4>3. /\ events' \in Seq(Seq(MouseBytes)) /\ Len(events') <= EVENT_SLOTS
            /\ \A k \in 1 .. Len(events') : (k \in 1 .. Len(ps) /\ events'[k] = ps[k]) \/ events'[k] = item
        BY <1>2, <4>1, <4>2, PutProperties
      <4> QED
        BY <4>3, Zenon DEF item
    <3> QED
      BY <1>5, <3>1, Zenon
  <2>2. CASE ~usb
    BY <1>5, <1>6, <2>2, Zenon
  <2> QED
    BY <2>1, <2>2, Zenon
<1>8. TypeOK'
  <2>1. port' \in {EMPTY, port}
    BY <1>1, MousePollForms, Zenon
  <2> QED
    BY <1>1, <1>7, <2>1, MousePollForms, Zenon DEF TypeOK, MouseHasEvent, device, keyboard
<1>9. QueuesInv'
  <2>1. Accepts /\ Len(packet) = 2 => Len(Append(packet, port)) = 3
    <3>1. packet \in Seq(MouseBytes) /\ (Accepts => port \in MouseBytes)
      BY <1>1, PortForms, Zenon DEF TypeOK, Accepts
    <3>2. Accepts => Len(Append(packet, port)) = Len(packet) + 1
      BY <3>1, AppendProperties, Zenon
    <3> QED
      BY <3>2
  <2>2. \A e : Item(e) => Len(e) \in {0, 3}
    BY <2>1, EmptySeq, Zenon
  <2>3. \A k \in 1 .. Len(events') : Len(events'[k]) \in {0, 3}
    BY <1>1, <1>7, <2>2, Zenon DEF QueuesInv
  <2> QED
    BY <1>1, <1>7, <2>3, Zenon DEF QueuesInv, MouseHasEvent, keyboard
<1>10. ASSUME quiet' PROVE InStep' /\ EventsWhole'
  <2>1. quiet /\ InStep /\ EventsWhole
    BY <1>10, Zenon DEF InputInv, MouseHasEvent
  <2>2. InStep'
    BY <1>1, <2>1, MouseInStep, Zenon
  <2>3. EventsWhole'
    <3> DEFINE Whole(e) == e # << >> => \A p \in 1 .. 3 : e[p].place = p /\ e[p].move = e[1].move
    <3>1. \A e : Item(e) => Whole(e)
      BY <1>1, <2>1, CompletePacket, Zenon
    <3>2. \A k \in 1 .. Len(events) : Whole(events[k])
      BY <1>2, <2>1, LenProperties, Zenon DEF EventsWhole
    <3>3. \A k \in 1 .. Len(events') : Whole(events'[k])
      <4> HIDE DEF Item, Whole
      <4> QED
        BY <1>7, <3>1, <3>2, Zenon
    <3>4. DOMAIN events' = 1 .. Len(events')
      BY <1>7, LenProperties, Zenon
    <3> QED
      BY <3>3, <3>4, Zenon DEF EventsWhole
  <2> QED
    BY <2>2, <2>3, Zenon
<1> QED
  BY <1>8, <1>9, <1>10, Zenon DEF InputInv

\* The cursor is clamped to the screen whatever the movement.
LEMMA ClampBounds ==
  ASSUME NEW v \in Int, NEW max \in Nat
  PROVE  Clamp(v, max) \in 0 .. max
BY DEF Clamp

LEMMA MouseGetEventStep ==
  ASSUME InputInv, NEW report \in Moves, MouseGetEvent(report)
  PROVE  InputInv'
<1> DEFINE event == Head(events)
           dx == IF event = << >> THEN report[1] ELSE event[2].move[1]
           dy == IF event = << >> THEN report[2] ELSE event[3].move[2]
<1>1. TypeOK /\ QueuesInv
  BY Zenon DEF InputInv
<1>2. events \in Seq(Seq(MouseBytes)) /\ events # << >> /\ Len(events) \in Nat \ {0}
  BY <1>1, EmptySeq, Zenon DEF QueuesInv, MouseGetEvent
<1>3. event \in Seq(MouseBytes) /\ (event # << >> => Len(event) = 3)
  <2>1. event = events[1]
    BY <1>2
  <2>2. event \in Seq(MouseBytes)
    BY <1>2, HeadTailProperties, Zenon
  <2>3. Len(event) \in {0, 3}
    BY <1>1, <1>2, <2>1 DEF QueuesInv
  <2> QED
    BY <2>2, <2>3, EmptySeq, Zenon
<1>4. /\ events' \in Seq(Seq(MouseBytes)) /\ Len(events') = Len(events) - 1
      /\ \A k \in 1 .. Len(events') : events'[k] = events[k + 1]
  BY <1>2, HeadTailProperties, Zenon DEF MouseGetEvent
<1>5. dx \in Int /\ dy \in Int
  <2>1. CASE event = << >>
    BY <2>1, InputAssumption, Zenon
  <2>2. CASE event # << >>
    <3>1. event[2] \in MouseBytes /\ event[3] \in MouseBytes
      BY <1>3, <2>2, ElementOfSeq
    <3>2. event[2].move \in Int \X Int /\ event[3].move \in Int \X Int
      BY <3>1, MouseByteForm, Zenon
    <3> HIDE DEF event
    <3> QED
      BY <2>2, <3>2, Zenon
  <2> QED
    BY <2>1, <2>2, Zenon
<1>6. x' = Clamp(x + dx, MAX_X) /\ y' = Clamp(y - dy, MAX_Y)
  BY Zenon DEF MouseGetEvent
<1> HIDE DEF dx, dy
<1>7. x' \in 0 .. MAX_X /\ y' \in 0 .. MAX_Y
  <2>1. x + dx \in Int /\ y - dy \in Int /\ MAX_X \in Nat /\ MAX_Y \in Nat
    BY <1>1, <1>5, InputAssumption DEF TypeOK
  <2> QED
    BY <1>6, <2>1, ClampBounds, Zenon
<1>8. TypeOK'
  <2>1. Len(events) <= EVENT_SLOTS /\ EVENT_SLOTS \in Nat
    BY <1>1, InputAssumption, Zenon DEF TypeOK
  <2>2. Len(events') <= EVENT_SLOTS
    <3>1. \A a \in Nat, b \in Nat : a <= b => a - 1 <= b
      OBVIOUS
    <3>2. Len(events) \in Nat
      BY <1>2, Zenon
    <3> QED
      BY <1>4, <2>1, <3>1, <3>2, Zenon
  <2> QED
    BY <1>1, <1>7, <2>2, Zenon DEF TypeOK, MouseGetEvent, device, keyboard
<1>9. QueuesInv'
  BY <1>1, <1>2, <1>4 DEF QueuesInv, MouseGetEvent, keyboard
<1>10. ASSUME quiet' PROVE InStep' /\ EventsWhole'
  <2>1. quiet /\ InStep /\ EventsWhole
    BY <1>10, Zenon DEF InputInv, MouseGetEvent
  <2>2. InStep'
    BY <2>1, Zenon DEF InStep, Due, DueMove, Starting, MouseGetEvent, device
  <2>3. EventsWhole'
    <3>1. DOMAIN events = 1 .. Len(events) /\ DOMAIN events' = 1 .. Len(events')
      BY <1>2, <1>4, LenProperties, Zenon
    <3>2. \A k \in DOMAIN events' : k + 1 \in DOMAIN events /\ events'[k] = events[k + 1]
      <4>1. \A a \in Nat : \A k \in 1 .. a - 1 : k + 1 \in 1 .. a
        OBVIOUS
      <4>2. Len(events) \in Nat
        BY <1>2, Zenon
      <4> QED
        BY <1>4, <3>1, <4>1, <4>2, Zenon
    <3> QED
      BY <2>1, <3>2 DEF EventsWhole
  <2> QED
    BY <2>2, <2>3, Zenon
<1> QED
  BY <1>8, <1>9, <1>10, Zenon DEF InputInv

THEOREM InputInvariance == Spec => []InputInv
<1>1. Init => InputInv
  <2> SUFFICES ASSUME Init PROVE InputInv
    BY Zenon
  <2>1. TypeOK
    <3>1. << >> \in Seq(Chars) /\ << >> \in Seq(MouseBytes) /\ << >> \in Seq(Letters) /\ Len(<< >>) = 0
      BY EmptySeq, Zenon
    <3>2. 0 <= KEY_SLOTS /\ 0 <= EVENT_SLOTS /\ 0 <= LINE - 1
      BY InputAssumption
    <3>3. /\ keys \in Seq(Chars) /\ Len(keys) <= KEY_SLOTS
          /\ packet \in Seq(MouseBytes) /\ Len(packet) <= 2
          /\ line \in Seq(Letters) /\ Len(line) <= LINE - 1
          /\ Len(events) <= EVENT_SLOTS
      BY <3>1, <3>2 DEF Init
    <3>4. x \in 0 .. MAX_X /\ y \in 0 .. MAX_Y /\ place \in 1 .. 3 /\ move \in Moves
      BY InputAssumption DEF Init
    <3>5. port = EMPTY /\ {shift_down, overlap, quiet} \subseteq BOOLEAN /\ held \subseteq ShiftKeys
      BY Zenon DEF Init
    <3> QED
      BY <3>3, <3>4, <3>5, Zenon DEF TypeOK
  <2>2. QueuesInv
    BY EmptySeq DEF Init, QueuesInv
  <2>3. port.src = "none" /\ Len(packet) = 0 /\ DOMAIN events = {}
    BY EmptySeq DEF Init, EMPTY
  <2>4. InStep /\ EventsWhole
    <3>1. Due = 1 /\ 1 .. Len(packet) = {}
      BY <2>3 DEF Init, Due
    <3>2. InStep
      BY <2>3, <3>1 DEF InStep
    <3>3. EventsWhole
      BY <2>3, Zenon DEF EventsWhole
    <3> QED
      BY <3>2, <3>3, Zenon
  <2> QED
    BY <2>1, <2>2, <2>4, Zenon DEF InputInv
<1>2. InputInv /\ [Next]_vars => InputInv'
  <2> SUFFICES ASSUME InputInv, [Next]_vars PROVE InputInv'
    OBVIOUS
  <2>1. CASE Yield \/ UNCHANGED vars
    <3>1. UNCHANGED <<port, device, keyboard, mouse, line, quiet>>
      BY <2>1, Zenon DEF Yield, vars
    <3>2. (pc = "yield" /\ pc' = "keys") \/ pc' = pc
      BY <2>1, Zenon DEF Yield, vars
    <3>3. TypeOK'
      BY <3>1, Zenon DEF device, keyboard, mouse, InputInv, TypeOK
    <3>4. QueuesInv'
      BY <3>1, <3>2, Zenon DEF keyboard, mouse, InputInv, QueuesInv
    <3>5. quiet' => InStep' /\ EventsWhole'
      <4>1. InStep => InStep'
        BY <3>1, <3>2, Zenon DEF device, mouse, InStep, Due, DueMove, Starting
      <4>2. EventsWhole => EventsWhole'
        BY <3>1, Zenon DEF mouse, EventsWhole
      <4> QED
        BY <3>1, <4>1, <4>2, Zenon DEF InputInv
    <3> QED
      BY <3>3, <3>4, <3>5, Zenon DEF InputInv
  <2> QED
    BY <2>1, KeyEventStep, MouseByteStep, SendMouseCommandStep, KeyboardHasDataStep,
       KeyboardReadCharStep, MouseHasEventStep, MouseGetEventStep, Zenon DEF Next, Shell
<1> QED
  BY <1>1, <1>2, PTL DEF Spec

\* Rings of every size hold what keyboard_buffer_put and mouse_event_put add, the
\* shell's line keeps room for its final zero and the cursor stays on the screen,
\* for every movement a packet or a USB report may carry.
THEOREM InputTypeCorrect == Spec => []TypeOK
<1>1. InputInv => TypeOK
  BY Zenon DEF InputInv
<1> QED
  BY <1>1, InputInvariance, PTL

\* After a quiet start mouse_poll_ps2 never takes a byte for the wrong part of a
\* packet, however polls, keys and full rings interleave.
THEOREM EventsCorrect == Spec => []EventsWhole
<1>1. InputInv => EventsWhole
  BY Zenon DEF InputInv, EventsWhole
<1> QED
  BY <1>1, InputInvariance, PTL

\* A byte of a shift key is on its way; it says where the key is now.
ShiftByte == port.src = "kbd" /\ port.key \in ShiftKeys

\* The flag comes from shift keys alone, and after a quiet start from every byte of
\* theirs.  While only one of them has been used the byte on its way, or else the
\* flag, says whether a key is down.
ShiftKnown ==
  /\ Starting => ~shift_down
  /\ held = ShiftKeys => overlap
  /\ IF ShiftByte THEN port.released <=> port.key \notin held ELSE shift_down => held # {}
  /\ quiet /\ ~overlap =>
       IF ShiftByte THEN port.released <=> held = {} ELSE shift_down <=> held # {}

\* A key that goes up leaves the other one down only if both were.
LEMMA KeyEventShift ==
  ASSUME TypeOK, ShiftKnown, NEW key \in Keys, NEW released \in BOOLEAN, KeyEvent(key, released)
  PROVE  ShiftKnown'
<1>1. ~ShiftByte
  BY Zenon DEF ShiftByte, KeyEvent, EMPTY
<1>2. port'.src = "kbd" /\ port'.key = key /\ port'.released = released
  BY Zenon DEF KeyEvent, Scancode
<1>3. UNCHANGED <<shift_down, quiet, pc>>
  BY Zenon DEF KeyEvent, keyboard
<1>4. held \subseteq ShiftKeys /\ overlap \in BOOLEAN /\ shift_down \in BOOLEAN
  BY Zenon DEF TypeOK
<1>5. overlap' <=> (held' = ShiftKeys \/ (overlap /\ held' # {}))
  BY Zenon DEF KeyEvent
<1>6. CASE key \notin ShiftKeys
  <2>1. held' = held
    BY <1>4, <1>6 DEF KeyEvent
  <2>2. ~ShiftByte'
    BY <1>2, <1>6, Zenon DEF ShiftByte
  <2> QED
    BY <1>1, <1>3, <1>5, <2>1, <2>2 DEF ShiftKnown, Starting
<1>7. CASE key \in ShiftKeys
  <2>1. ShiftByte'
    BY <1>2, <1>7, Zenon DEF ShiftByte
  <2>2. CASE released
    <3>1. key \in held /\ held' = held \ {key}
      BY <1>7, <2>2 DEF KeyEvent
    <3>2. held' # {} => held = ShiftKeys
      BY <1>4, <3>1 DEF ShiftKeys
    <3> QED
      BY <1>2, <1>3, <1>5, <2>1, <2>2, <3>1, <3>2 DEF ShiftKnown, Starting
  <2>3. CASE ~released
    <3>1. key \in held'
      BY <1>7, <2>3 DEF KeyEvent
    <3> QED
      BY <1>2, <1>3, <1>5, <2>1, <2>3, <3>1 DEF ShiftKnown, Starting
  <2> QED
    BY <2>2, <2>3, Zenon
<1> QED
  BY <1>6, <1>7, Zenon

\* A byte the start takes away is one of keys the flag knows nothing of yet.
LEMMA SendMouseCommandShift ==
  ASSUME TypeOK, ShiftKnown, SendMouseCommand
  PROVE  ShiftKnown'
<1>1. port' \in {EMPTY, Answer} /\ UNCHANGED <<held, overlap, shift_down>>
  BY Zenon DEF SendMouseCommand, device, keyboard
<1>2. ~ShiftByte'
  BY <1>1 DEF ShiftByte, EMPTY, Answer, Packet
<1>3. ~shift_down
  BY Zenon DEF ShiftKnown, SendMouseCommand
<1>4. ASSUME quiet' PROVE quiet /\ port = EMPTY
  <2>1. quiet /\ port' = EMPTY
    BY <1>4, Zenon DEF SendMouseCommand
  <2>2. port' # Answer
    <3>1. EMPTY.src = "none" /\ Answer.src = "mouse"
      BY Zenon DEF EMPTY, Answer, Packet
    <3> QED
      BY <2>1, <3>1
  <2> QED
    BY <2>1, <2>2, Zenon DEF SendMouseCommand
<1>5. port = EMPTY => ~ShiftByte
  BY DEF ShiftByte, EMPTY
<1> QED
  BY <1>1, <1>2, <1>3, <1>4, <1>5, Zenon DEF ShiftKnown

\* keyboard_poll reads the byte, and the flag says what the byte said.
LEMMA KeyboardPollShift ==
  ASSUME TypeOK, ShiftKnown, KeyboardPoll, UNCHANGED <<device, quiet>>, ~Starting'
  PROVE  ShiftKnown'
<1>1. UNCHANGED <<held, overlap, quiet>>
  BY Zenon DEF device
<1>2. ~ShiftByte'
  BY Zenon DEF KeyboardPoll, ForKeyboard, ShiftByte, EMPTY
<1>3. shift_down' = IF ShiftByte THEN ~port.released ELSE shift_down
  BY Zenon DEF KeyboardPoll, ForKeyboard, ShiftByte
<1>4. shift_down \in BOOLEAN /\ (ShiftByte => port.released \in BOOLEAN)
  BY PortForms, Zenon DEF TypeOK, ShiftByte
<1>5. CASE ShiftByte
  <2>1. shift_down' <=> ~port.released
    BY <1>3, <1>5, Zenon
  <2>2. port.released <=> port.key \notin held
    BY <1>5, Zenon DEF ShiftKnown
  <2> QED
    BY <1>1, <1>2, <1>5, <2>1, <2>2 DEF ShiftKnown
<1>6. CASE ~ShiftByte
  BY <1>1, <1>2, <1>3, <1>6 DEF ShiftKnown
<1> QED
  BY <1>5, <1>6, Zenon

\* The other steps neither read a shift key's byte nor send one.
LEMMA OtherShift ==
  ASSUME ShiftKnown, UNCHANGED <<held, overlap, shift_down, quiet>>, ShiftByte' <=> ShiftByte,
         ShiftByte => port' = port, Starting' => Starting
  PROVE  ShiftKnown'
BY Zenon DEF ShiftKnown

LEMMA MouseShift ==
  ASSUME TypeOK, ShiftKnown,
         \/ \E b \in BOOLEAN, m \in Moves : MouseByte(b, m)
         \/ \E usb \in BOOLEAN : MouseHasEvent(usb)
         \/ \E m \in Moves : MouseGetEvent(m)
         \/ Yield \/ UNCHANGED vars
  PROVE  ShiftKnown'
<1>1. CASE \E b \in BOOLEAN, m \in Moves : MouseByte(b, m)
  <2>1. ~ShiftByte /\ ~ShiftByte'
    BY <1>1 DEF MouseByte, ShiftByte, EMPTY, Packet
  <2> QED
    BY <1>1, <2>1, OtherShift, Zenon DEF MouseByte, Starting, keyboard
<1>2. CASE \E usb \in BOOLEAN : MouseHasEvent(usb)
  <2>1. port' = IF port.src = "mouse" THEN EMPTY ELSE port
    BY <1>2, Zenon DEF MouseHasEvent, MouseRead
  <2>2. (ShiftByte' <=> ShiftByte) /\ (ShiftByte => port' = port)
    BY <2>1, Zenon DEF ShiftByte, EMPTY
  <2>3. ~Starting'
    BY <1>2, Zenon DEF MouseHasEvent, Starting
  <2> QED
    BY <1>2, <2>2, <2>3, OtherShift, Zenon DEF MouseHasEvent, device, keyboard
<1>3. CASE \E m \in Moves : MouseGetEvent(m)
  BY <1>3, OtherShift, Zenon DEF MouseGetEvent, Starting, ShiftByte, device, keyboard
<1>4. CASE Yield \/ UNCHANGED vars
  BY <1>4, OtherShift, Zenon DEF Yield, Starting, ShiftByte, vars, device, keyboard
<1> QED
  BY <1>1, <1>2, <1>3, <1>4, Zenon

\* The one flag of keyboard_poll for two keys never sticks: after any start, once
\* the bytes have been read, it is set only while a shift key is down.  After a
\* quiet start it is set whenever one is, until both have been down together.
THEOREM ShiftCorrect == Spec => []ShiftInStep
<1>1. Init => ShiftKnown
  <2>1. ShiftKeys # {}
    BY Zenon DEF ShiftKeys
  <2>2. Init => ~ShiftByte
    BY DEF Init, EMPTY, ShiftByte
  <2> QED
    BY <2>1, <2>2, Zenon DEF Init, ShiftKnown
<1>2. TypeOK /\ ShiftKnown /\ [Next]_vars => ShiftKnown'
  <2> SUFFICES ASSUME TypeOK, ShiftKnown, [Next]_vars PROVE ShiftKnown'
    BY Zenon
  <2>1. CASE \E c \in Chars \cup {NONE} : KeyboardHasData(c) \/ KeyboardReadChar(c)
    <3>1. KeyboardPoll /\ UNCHANGED <<device, quiet>> /\ ~Starting'
      BY <2>1, Zenon DEF KeyboardHasData, KeyboardReadChar, Starting
    <3> QED
      BY <3>1, KeyboardPollShift, Zenon
  <2> QED
    BY <2>1, KeyEventShift, SendMouseCommandShift, MouseShift, Zenon DEF Next, Shell
<1>3. ShiftKnown => ShiftInStep
  BY Zenon DEF ShiftKnown, ShiftInStep, ShiftByte
<1> QED
  BY <1>1, <1>2, <1>3, InputTypeCorrect, PTL DEF Spec

===============================================================================
