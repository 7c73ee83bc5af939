------------------------------ MODULE Network ------------------------------
(***************************************************************************)
(* The two UDP channels between the client and the server: the RADIO/DISH  *)
(* pair on main_address (messages, HB and STOP) and the one on             *)
(* responder_address (acknowledgement segments, WAKEUP and STOP).          *)
(*                                                                         *)
(* A channel is the set of the packets in flight.  A lost packet is one    *)
(* that never gets there, so loss is a choice of the step that sends; a    *)
(* receiver may take any packet in flight, so packets overtake each other; *)
(* and a delivered packet of a type in Duplicates may stay and come again. *)
(* zmq_send_group and zmq_receive are the only functions that touch the    *)
(* sockets; what libzmq and the kernel do below them is external.          *)
(***************************************************************************)
EXTENDS Integers, FiniteSets

CONSTANTS Lossy,        \* the types of packet that may be lost
          Duplicates,   \* the types of packet that may be delivered more than once
          NetCap        \* bound: packets in flight in one channel, reliable ones aside

ASSUME NetworkAssumption == /\ Lossy \subseteq {"MSG", "HB", "STOP", "ACK"}
                            /\ Duplicates \subseteq {"MSG", "HB", "STOP", "ACK"}
                            /\ NetCap \in Nat

(***************************************************************************)
(* The packets.  "try" tells the original of a message from its resend,    *)
(* which are two datagrams with the same bytes.                            *)
(***************************************************************************)
MessagePacket(id, try) == [type |-> "MSG", id |-> id, try |-> try]
Heartbeat              == [type |-> "HB"]
Stop                   == [type |-> "STOP"]
Ack(ids)               == [type |-> "ACK", ids |-> ids]

\* "WAKEUP" goes through strtoull like every other token and parses as the
\* id 0, which no message has: ids start at 1.
Wakeup == Ack({0})

\* What a channel may hold after pkts were sent on it: those of a type in Lossy
\* may be missing.
Sent(net, pkts) ==
    LET mayBeLost == {p \in pkts : p.type \in Lossy}
        Arrived(lost) == net \cup (pkts \ lost)
    IN {n \in {Arrived(lost) : lost \in SUBSET mayBeLost} :
            Cardinality(n) <= NetCap \/ n = Arrived(mayBeLost)}

\* A delivered packet leaves the channel.
Taken(net, p) == IF p.type \in Duplicates THEN {net, net \ {p}} ELSE {net \ {p}}
=============================================================================
