------------------------------- MODULE UsbCdc -------------------------------
(***************************************************************************)
(* Reception of usbcdc_interface (stm32_zst): the USB interrupt hands over *)
(* whole packets, and there is room for one.  The interrupt allocates a    *)
(* new _rx_buffer for each packet, unless do_receive holds _rx_buffer_lock *)
(* while it moves the buffer out; then the packet is dropped.              *)
(*                                                                         *)
(* A packet is its number in the order of arrival; `packet' says what it   *)
(* holds.  The checksum is ideal: what is left after the preambles were    *)
(* stripped is a fragment exactly when it is one the host sent.            *)
(***************************************************************************)
EXTENDS Naturals, Sequences

CONSTANTS
  Preamble,    \* 0x55
  Destinations,\* destinations the hosts write to
  Preambles,   \* how many preamble bytes a host puts before the header:
               \* serialize_fragment puts one, a host without preamble none
  MaxPackets   \* bound: packets the host sends

ASSUME UsbAssumption ==
  /\ Preambles \subseteq 0 .. 3
  /\ MaxPackets \in Nat

VARIABLES
  packet,      \* what each packet that has arrived holds
  rx_buffer,   \* _rx_buffer: the packet in it, 0 for none
  freed,       \* the packets whose block was given back to the heap
  lock,        \* _rx_buffer_lock
  data,        \* the local data of do_receive: the packet, 0 for none
  pc,          \* where do_receive stands
  delivered,   \* the packets whose fragments put_received got
  missed,      \* packets the interrupt dropped or overwrote
  between      \* packets that arrived between two calls of do_receive

vars == <<packet, rx_buffer, freed, lock, data, pc, delivered, missed,
          between>>

Packets == [preambles : Preambles, destination : Destinations, whole : BOOLEAN]

Init ==
  /\ packet = << >> /\ rx_buffer = 0 /\ freed = {} /\ lock = FALSE
  /\ data = 0 /\ pc = "idle" /\ delivered = << >>
  /\ missed = {} /\ between = {}

(* Definitions marked (mutant) are faulty forms of the one that follows;   *)
(* no action uses them.                                                    *)

(* (mutant) The lock is not looked at.                                     *)
StoreUnlocked(n) ==
  /\ rx_buffer' = n
  /\ freed' = (freed \union {rx_buffer}) \ {0}
  /\ missed' = (missed \union {rx_buffer}) \ {0}

(* isr_rx_done: the packet takes the place of one that was not read, or    *)
(* is dropped.                                                             *)
Store(n) ==
  \/ /\ ~lock
     /\ rx_buffer' = n
     /\ freed' = (freed \union {rx_buffer}) \ {0}
     /\ missed' = (missed \union {rx_buffer}) \ {0}
  \/ /\ lock
     /\ missed' = missed \union {n}
     /\ UNCHANGED <<rx_buffer, freed>>

isr_rx_done ==
  /\ Len(packet) < MaxPackets
  /\ \E p \in Packets : packet' = Append(packet, p)
  /\ Store(Len(packet) + 1)
  /\ between' = (IF pc = "idle" THEN between \union {Len(packet) + 1} ELSE between)
  /\ UNCHANGED <<lock, data, pc, delivered>>

(***************************************************************************)
(* do_receive; the interrupt may come before each step.  The move reads    *)
(* the pointer of the block and then clears it.                            *)
(***************************************************************************)
Lock ==
  /\ pc = "idle" /\ pc' = "locked" /\ lock' = TRUE
  /\ UNCHANGED <<packet, rx_buffer, freed, data, delivered, missed, between>>

MoveOut ==
  /\ pc = "locked" /\ pc' = "moved"
  /\ data' = rx_buffer
  /\ UNCHANGED <<packet, rx_buffer, freed, lock, delivered, missed, between>>

(* (mutant) The moved-from buffer keeps its pointer.                       *)
ClearForgotten ==
  /\ pc = "moved" /\ pc' = "cleared"
  /\ UNCHANGED <<packet, rx_buffer, freed, lock, data, delivered, missed,
                 between>>

Clear ==
  /\ pc = "moved" /\ pc' = "cleared"
  /\ rx_buffer' = 0
  /\ UNCHANGED <<packet, freed, lock, data, delivered, missed,
                 between>>

(* (mutant) The lock stays set when there is nothing to read.              *)
UnlockLater ==
  /\ pc = "cleared"
  /\ lock' = (data = 0)
  /\ pc' = (IF data = 0 THEN "idle" ELSE "parse")
  /\ UNCHANGED <<packet, rx_buffer, freed, data, delivered, missed, between>>

Unlock ==
  /\ pc = "cleared" /\ lock' = FALSE
  /\ pc' = (IF data = 0 THEN "idle" ELSE "parse")
  /\ UNCHANGED <<packet, rx_buffer, freed, data, delivered, missed, between>>

(* Preamble bytes at the front of the packet; the header begins with the   *)
(* destination, and the source that follows differs from it.               *)
Leading(p) == p.preambles + (IF p.destination = Preamble THEN 1 ELSE 0)

(* The loop over data[0], at most three times.                             *)
Stripped(p) == IF Leading(p) < 3 THEN Leading(p) ELSE 3

(* The size check and parse_fragment: all of the preambles, and nothing    *)
(* else, was stripped from an undamaged packet.                            *)
Parses(p) == p.whole /\ Stripped(p) = p.preambles

Parse ==
  /\ pc = "parse" /\ pc' = "idle"
  /\ delivered' = (IF Parses(packet[data])
                     THEN Append(delivered, data) ELSE delivered)
  /\ data' = 0
  /\ freed' = freed \union {data}
  /\ UNCHANGED <<packet, rx_buffer, lock, missed, between>>

do_receive == Lock \/ MoveOut \/ Clear \/ Unlock \/ Parse

Next == isr_rx_done \/ do_receive

(* main_task is called for ever and nothing in do_receive blocks.          *)
Spec == Init /\ [][Next]_vars /\ WF_vars(do_receive)

-----------------------------------------------------------------------------

WasDelivered(n) == \E i \in DOMAIN delivered : delivered[i] = n

(* A block has one owner: the interrupt never frees the packet do_receive  *)
(* has taken or is taking (usbcdc.hpp:75, 124), nor does do_receive free   *)
(* the one in the buffer.                                                  *)
OneOwner ==
  /\ data \notin freed /\ rx_buffer \notin freed
  /\ pc # "moved" /\ data # 0 => rx_buffer # data

(* Fragments are delivered at most once, in the order their packets        *)
(* arrived in, unaltered, and never from one the interrupt has given up.   *)
DeliveredInOrder ==
  /\ \A i, j \in DOMAIN delivered : i < j => delivered[i] < delivered[j]
  /\ \A i \in DOMAIN delivered :
       packet[delivered[i]].whole /\ delivered[i] \notin missed

(* Every undamaged packet whose destination is not the preamble's value is *)
(* delivered in the end, with preambles or without, unless the interrupt   *)
(* gave it up; and one that comes between two calls of do_receive is not   *)
(* given up while nothing follows it.                                      *)
Intact(n) == n <= Len(packet) /\ packet[n].whole /\ packet[n].destination # Preamble
Served ==
  \A n \in 1 .. MaxPackets :
    /\ Intact(n) ~> WasDelivered(n) \/ n \in missed
    /\ Intact(n) /\ n \in between ~> WasDelivered(n) \/ n < Len(packet)
=============================================================================
