---------------------------------- MODULE Network ----------------------------------
(***************************************************************************)
(* The RTL8139 driver with its DHCP client and ARP (network.c).  Memory is *)
(* counted in words of four bytes.  The network is outside: any frame may  *)
(* come at any time, so answers are lost, late, repeated or out of order.  *)
(* The card is outside too: it writes a frame at its own pointer, whole    *)
(* even where that runs past the end of its ring, and goes on modulo the   *)
(* ring; CAPR reads back what was written, modulo the ring.  What the card *)
(* writes behind rx_buffer, when a frame of full length runs past its end, *)
(* is lost here and spoils other variables there.                          *)
(*                                                                         *)
(* A frame is                                                              *)
(*   words      what it takes in the ring, with the card's header          *)
(*   big        longer than the 1500 bytes the driver takes                *)
(*   kind       "arp", "ip" or another type, or too short for a header     *)
(*   oper, sender, target          of an ARP frame                         *)
(*   dest, dhcp, len               of an IP packet: from port 67 to 68, and *)
(*                                 the bytes from its UDP header on, with  *)
(*                                 padding and checksum: the driver goes by *)
(*                                 the length in the card's header         *)
(*   udp_length, udp_checksum      what that header says                   *)
(*   yiaddr, options               what the DHCP message says              *)
(***************************************************************************)
EXTENDS Integers, Sequences, FiniteSets

CONSTANTS
  RING,              \* words of the card's ring: 2048
  PAD,               \* words of rx_buffer behind it: 379
  GAP,               \* CAPR stays this far behind: 4 words
  FALLBACK,          \* what is taken for CAPR when it reads 0: 254
  TRIES,             \* discovers that are sent: 3
  POLLS,             \* polls after each: 50000
  TX_DESC_COUNT,
  XID,               \* dhcp_transaction_id, as two 16-bit halves
  BROADCAST, UNSET,
  Frames,            \* what the network may bring
  Junk,              \* what the inside of a frame may look like: a frame, its words
  MaxFrames          \* bound on how many frames come

ASSUME NetworkAssumption ==
  /\ RING \in Nat \ {0} /\ RING % 2 = 0 /\ PAD \in Nat
  /\ GAP \in Nat \ {0} /\ FALLBACK \in Nat /\ FALLBACK + GAP < RING + PAD
  /\ TRIES \in Nat \ {0} /\ POLLS \in Nat \ {0} /\ TX_DESC_COUNT \in Nat \ {0}
  /\ \A f \in Frames : f.words \in Nat /\ f.words > GAP

BUFFER == RING + PAD
ZERO == [n |-> 0, of |-> "nothing"]    \* never written
BODY == [n |-> 0, of |-> "body"]       \* inside some frame: any four bytes

VARIABLES
  pc,           \* where network_initialize is; "ready" and "polled" after it
  tries, polls,
  lease,        \* local_ip, local_netmask, local_gateway, dhcp_server_ip
  dhcp_acquired,
  arp_peer,
  rx_buffer,
  reader,       \* the card's idea of CAPR + GAP
  writer,       \* where the card writes next
  came,         \* frames that came
  got,          \* number of the last of them that was taken from the ring
  steady,       \* the receive ring has met nothing it cannot cope with
  tx_index,
  in_flight,    \* the transmit buffers the card still owns
  late,         \* sends in a row that were not done when the wait ended
  torn          \* a transmit buffer was written while the card owned it

rx == <<rx_buffer, reader>>
tx == <<tx_index, in_flight, late, torn>>
client == <<lease, dhcp_acquired, arp_peer>>
start == <<pc, tries, polls>>
networkVars == <<start, client, rx, writer, came, got, steady, tx>>

NetworkInit ==
  /\ pc = "start" /\ tries = 0 /\ polls = 0
  /\ lease = [ip |-> UNSET, mask |-> UNSET, router |-> UNSET, server |-> UNSET]
  /\ dhcp_acquired = FALSE /\ arp_peer = UNSET
  /\ rx_buffer = [w \in 0 .. BUFFER - 1 |-> ZERO]
  /\ reader = 0 /\ writer = 0 /\ came = 0 /\ got = 0 /\ steady = TRUE
  /\ tx_index = 0 /\ in_flight = {}
  /\ late = 0 /\ torn = FALSE

-------------------------------------------------------------------------------
(***************************************************************************)
(* Sending                                                                 *)
(***************************************************************************)

\* Mutant: every frame goes into the same buffer.
SendSame(done) ==
  /\ torn' = (torn \/ tx_index \in in_flight)
  /\ in_flight' = IF done THEN {} ELSE in_flight \cup {tx_index}
  /\ late' = IF done THEN 0 ELSE IF late < TX_DESC_COUNT THEN late + 1 ELSE late
  /\ UNCHANGED tx_index

\* rtl8139_send_frame.  The next buffer is filled whatever its state; the wait
\* ends when the card is done with it, and so with the earlier ones, or has not
\* been for too long.
Send(done) ==
  /\ torn' = (torn \/ tx_index \in in_flight)
  /\ in_flight' = IF done THEN {} ELSE in_flight \cup {tx_index}
  /\ tx_index' = (tx_index + 1) % TX_DESC_COUNT
  /\ late' = IF done THEN 0 ELSE IF late < TX_DESC_COUNT THEN late + 1 ELSE late

\* The answer to an ARP request, and a DHCP message: broadcast, from address 0.
SendArpReply == \E done \in BOOLEAN : Send(done)
SendDhcpPacket == \E done \in BOOLEAN : Send(done)

Age(d) == (tx_index - d - 1) % TX_DESC_COUNT

\* The card finishes its oldest frame after the wait has ended.
Finished ==
  /\ in_flight # {}
  /\ in_flight' = in_flight \ {CHOOSE d \in in_flight : \A e \in in_flight : Age(e) <= Age(d)}
  /\ UNCHANGED <<start, client, rx, writer, came, got, steady, tx_index, late, torn>>

-------------------------------------------------------------------------------
(***************************************************************************)
(* What a frame does                                                       *)
(***************************************************************************)

\* The options up to the end, or up to one that reaches past the packet.
Readable(options) ==
  {k \in DOMAIN options : \A j \in 1 .. k : options[j].opt \notin {"end", "cut"}}

\* The value the last option of that kind gives, or what was there before.
Option(options, opt, old) ==
  LET at == {k \in Readable(options) : options[k].opt = opt}
  IN  IF at = {} THEN old ELSE options[CHOOSE k \in at : \A j \in at : j <= k].value

\* The bytes compared with the transaction number are the UDP header's length
\* and checksum.
IsAnswer(f) == f.len >= 248 /\ <<f.udp_length, f.udp_checksum>> = XID

\* network_handle_dhcp_offer and parse_dhcp_options.
Believe(f) ==
  /\ lease' = [ip |-> f.yiaddr,
               mask |-> Option(f.options, "mask", lease.mask),
               router |-> Option(f.options, "router", lease.router),
               server |-> Option(f.options, "server", lease.server)]
  /\ dhcp_acquired' = (dhcp_acquired \/ \E k \in Readable(f.options) :
                         f.options[k] = [opt |-> "type", value |-> "offer"])

\* network_handle_arp, network_handle_ip and what they call.
Handle(f) ==
  \/ /\ f.kind = "arp" /\ f.oper = "request" /\ f.target = lease.ip
     /\ SendArpReply
     /\ UNCHANGED client
  \/ /\ f.kind = "arp" /\ f.oper = "reply"
     /\ arp_peer' = f.sender
     /\ UNCHANGED <<lease, dhcp_acquired, tx>>
  \/ /\ f.kind = "ip" /\ f.dest \in {lease.ip, BROADCAST} /\ f.dhcp /\ IsAnswer(f)
     /\ Believe(f)
     /\ UNCHANGED <<arp_peer, tx>>
  \/ /\ CASE f.kind = "arp" -> f.oper = "request" /\ f.target # lease.ip
          [] f.kind = "ip" -> ~(f.dest \in {lease.ip, BROADCAST} /\ f.dhcp /\ IsAnswer(f))
          [] OTHER -> TRUE
     /\ UNCHANGED <<client, tx>>

-------------------------------------------------------------------------------
(***************************************************************************)
(* The receive ring                                                        *)
(***************************************************************************)

\* The card stores a frame, or drops it when there is no room before the
\* reader; equal pointers mean an empty ring to it.
Arrive(f) ==
  LET room == (RING + reader - writer) % RING
  IN  /\ came < MaxFrames /\ pc \notin {"start", "failed"}
      /\ room = 0 \/ f.words < room
      /\ came' = came + 1
      /\ rx_buffer' = [w \in 0 .. BUFFER - 1 |->
                         IF w = writer THEN [n |-> came + 1, of |-> f]
                         ELSE IF w \in writer + 1 .. writer + f.words - 1 THEN BODY
                         ELSE rx_buffer[w]]
      /\ writer' = (writer + f.words) % RING
      /\ steady' = (steady /\ f.words % 2 = 0 /\ ~f.big /\ writer + f.words < RING)
      /\ UNCHANGED <<start, client, reader, got, tx>>

\* The mask 0xFFF8: an even number of words.
Even(w) == w - (w % 2)

\* Where rtl8139_receive_packet looks.
Offset == Even(IF reader = GAP THEN FALLBACK + GAP ELSE reader)

\* Writing CAPR.
MoveTo(w) == reader' = Even(w) % RING

\* Mutant: the card's header is not counted.
PastShort(words) == LET next == Offset + words - 1 IN MoveTo(IF next >= BUFFER THEN 0 ELSE next)

Past(words) == LET next == Offset + words IN MoveTo(IF next >= BUFFER THEN 0 ELSE next)

\* What the driver finds there and how many words it seems to take: inside
\* another frame's bytes, one that nobody sent.
Found ==
  CASE rx_buffer[Offset] = ZERO -> {}
    [] rx_buffer[Offset] = BODY -> Junk
    [] OTHER -> {<<rx_buffer[Offset].of, rx_buffer[Offset].of.words>>}

Fits(f, words) == ~f.big /\ Offset + words <= BUFFER

\* A frame is taken from the ring and handled.
Receive ==
  /\ \E seen \in Found : Fits(seen[1], seen[2]) /\ Handle(seen[1]) /\ Past(seen[2])
  /\ got' = rx_buffer[Offset].n
  /\ UNCHANGED <<rx_buffer, writer, came, steady>>

\* No frame, or one that is not taken: the reader stays before it.
ReceiveNothing ==
  \/ rx_buffer[Offset] \in {ZERO, BODY} /\ UNCHANGED reader
  \/ (\E seen \in Found : ~Fits(seen[1], seen[2])) /\ MoveTo(Offset)

-------------------------------------------------------------------------------
(***************************************************************************)
(* network_initialize, network_poll                                        *)
(***************************************************************************)
rest == <<client, rx_buffer, writer, came, got, steady>>

\* rtl8139_setup: the reset puts the card's pointers to the start.
Setup == reader' = 0 /\ writer' = 0 /\ in_flight' = {}

\* No card, or no I/O address; else the card is set up.
Begin(found) ==
  /\ pc = "start"
  /\ IF found THEN pc' = "discover" /\ Setup
     ELSE pc' = "failed" /\ UNCHANGED <<reader, writer, in_flight>>
  /\ UNCHANGED <<tries, polls, client, rx_buffer, came, got, steady, tx_index, late, torn>>

\* Mutant: the retries are not counted.
DiscoverUncounted ==
  /\ pc = "discover"
  /\ pc' = "offers" /\ polls' = 0
  /\ SendDhcpPacket
  /\ UNCHANGED <<tries, rest, reader>>

Discover ==
  /\ pc = "discover"
  /\ pc' = "offers" /\ polls' = 0 /\ tries' = tries + 1
  /\ SendDhcpPacket
  /\ UNCHANGED <<rest, reader>>

\* Both waiting loops and network_poll call rtl8139_process_rx, which goes on
\* until it finds no frame.
ProcessRx ==
  /\ pc \in {"offers", "answers", "polled"}
  /\ Receive
  /\ UNCHANGED start

\* After a poll: acquired, poll again, send again, or give up.
AfterOffers ==
  IF dhcp_acquired THEN "request"
  ELSE IF polls + 1 < POLLS THEN "offers"
  ELSE IF tries < TRIES THEN "discover" ELSE "failed"

OffersPolled ==
  /\ pc = "offers"
  /\ ReceiveNothing
  /\ pc' = AfterOffers /\ polls' = polls + 1
  /\ UNCHANGED <<tries, rest, tx>>

Request ==
  /\ pc = "request"
  /\ pc' = "answers" /\ polls' = 0
  /\ SendDhcpPacket
  /\ UNCHANGED <<tries, rest, reader>>

\* Nothing clears dhcp_acquired: every outcome of the wait is taken for
\* success.
AnswersPolled ==
  /\ pc = "answers"
  /\ ReceiveNothing
  /\ pc' = (IF polls + 1 < POLLS THEN "answers" ELSE "ready") /\ polls' = polls + 1
  /\ UNCHANGED <<tries, rest, tx>>

\* The shell calls network_poll again and again.
Poll ==
  /\ pc = "ready"
  /\ pc' = "polled"
  /\ UNCHANGED <<tries, polls, rest, reader, tx>>

PollReturns ==
  /\ pc = "polled"
  /\ ReceiveNothing
  /\ pc' = "ready"
  /\ UNCHANGED <<tries, polls, rest, tx>>

NetworkDriver ==
  \/ \E found \in BOOLEAN : Begin(found)
  \/ Discover \/ OffersPolled \/ Request \/ AnswersPolled
  \/ Poll \/ ProcessRx \/ PollReturns

\* Without a card or a lease nothing more happens: network_poll returns at once.
Done == pc = "failed" /\ UNCHANGED networkVars

NetworkNext == NetworkDriver \/ Finished \/ (\E f \in Frames : Arrive(f)) \/ Done

\* The driver runs on the only processor: its next step is always taken.
NetworkSpec == NetworkInit /\ [][NetworkNext]_networkVars /\ WF_networkVars(NetworkDriver)

-------------------------------------------------------------------------------
(***************************************************************************)
(* Properties                                                              *)
(***************************************************************************)

\* During the card's first lap, and while every frame is a multiple of eight
\* bytes and none is above 1500, frames are taken in the order in which they
\* came, each once, and a poll ends only when none is left.
FramesInOrder ==
  [][steady =>
       /\ got' \in {got, got + 1}
       /\ (OffersPolled \/ AnswersPolled \/ PollReturns) => got = came]_networkVars

\* A buffer is written while the card owns it only after as many sends in a row
\* as there are buffers have not been done when their waits ended.
BuffersKept == [][torn' /\ ~torn => late = TX_DESC_COUNT]_networkVars

\* While the ring is steady, network_initialize comes back, whatever answers
\* are lost, late or wrong, and so does every network_poll; a ring that is not
\* may offer the same old frames for ever.
Returns ==
  /\ []steady => <>(pc \in {"ready", "failed"})
  /\ []steady => [](pc = "polled" => <>(pc = "ready"))

===============================================================================
