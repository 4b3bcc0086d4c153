--------------------------------- MODULE MCNetwork ---------------------------------
(***************************************************************************)
(* Two servers, of which one leaves out an option; answers that are well   *)
(* formed, that match by accident, that are cut; ARP; a frame that takes   *)
(* an odd number of words, and one that is too big for the driver and for  *)
(* the space behind the ring.                                              *)
(***************************************************************************)
EXTENDS Network

Opt(opt, value) == [opt |-> opt, value |-> value]

Options(server, type) ==
  << Opt("type", type), Opt("mask", server), Opt("router", server), Opt("server", server),
     Opt("end", UNSET), Opt("mask", "rest") >>

Frame(words, kind) ==
  [words |-> words, big |-> FALSE, kind |-> kind, oper |-> UNSET, sender |-> UNSET, target |-> UNSET,
   dest |-> UNSET, dhcp |-> FALSE, len |-> 0, udp_length |-> 0, udp_checksum |-> 0,
   yiaddr |-> UNSET, options |-> << >>]

Answer(length, yiaddr, options) ==
  [Frame(4, "ip") EXCEPT !.dest = BROADCAST, !.dhcp = TRUE, !.len = 300, !.udp_length = length,
                         !.udp_checksum = 12359, !.yiaddr = yiaddr, !.options = options]

MCXID == <<57, 12359>>

MCFrames ==
  { Answer(300, "a", Options("A", "offer")),
    Answer(57, "a", Options("A", "offer")),
    Answer(57, "b", Options("B", "ack")),
    [Answer(57, "a", << Opt("type", "offer"), Opt("cut", UNSET), Opt("mask", "rest") >>) EXCEPT !.words = 5],
    [Frame(4, "arp") EXCEPT !.oper = "request", !.target = "a", !.sender = "peer"],
    [Frame(7, "other") EXCEPT !.big = TRUE] }

MCJunk ==
  { <<[Frame(2, "arp") EXCEPT !.oper = "reply", !.sender = "peer"], 2>>,
    <<[Frame(4, "other") EXCEPT !.big = TRUE], 4>> }

===============================================================================
