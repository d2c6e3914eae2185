----------------------------- MODULE Transmitter -----------------------------
(***************************************************************************)
(* The transmitting half of an interface: transmit() queues serialised     *)
(* fragments, main_task hands the front of the queue to the driver, and    *)
(* the driver's transmit-complete interrupt may come between any two of    *)
(* its steps.  Handlers of the events main_task emits run inside it and    *)
(* may call transmit() again.                                              *)
(*                                                                         *)
(* A fragment is its object id and the size of its serialised form; ids    *)
(* are handed out in the order of acceptance.                              *)
(***************************************************************************)
EXTENDS Naturals, Sequences

CONSTANTS
  Drivers,       \* drivers the interface may have
  MaxQueue,      \* _max_queue_size
  MaxData,       \* max_data_size()
  Overhead,      \* preamble, header and footer bytes serialize_fragment adds
  Destinations,  \* addresses callers send to; 0 is refused
  Sizes,         \* data sizes callers try
  MaxAccepted,   \* bound: fragments accepted in a behaviour
  MaxReceived    \* bound: bytes received in a behaviour

Uarts == {"stm32", "stm32_zst", "rs485"}

ASSUME TransmitterAssumption ==
  /\ Drivers \subseteq Uarts \union {"linux", "usbcdc"}
  /\ MaxQueue \in Nat /\ MaxData \in Nat /\ Overhead \in Nat \ {0}
  /\ Destinations \subseteq Nat /\ Sizes \subseteq Nat
  /\ MaxAccepted \in Nat /\ MaxReceived \in Nat

VARIABLES
  driver,           \* the driver of this behaviour
  tx_queue,         \* _tx_queue
  bytes_txed,       \* _bytes_txed
  pc,               \* where main_task stands
  is_transmitting,  \* _is_transmitting of the UART drivers
  tx_buffer,        \* _tx_buffer, which the hardware reads while it sends
  just_received,    \* the clock has not ticked since _last_rx was set
  received,         \* bytes received so far
  nre, de,          \* pins of the RS-485 transceiver; set: deaf, driving
  accepted,         \* fragments accepted so far, the last id given
  on_wire,          \* the fragment the hardware is sending, 0 when idle
  wire,             \* ids of the fragments whose sending was started
  wire_bytes,       \* their bytes
  began             \* ids transmit_began_event was emitted with

driverVars == <<driver, is_transmitting, tx_buffer, just_received, received, nre, de>>
wireVars == <<on_wire, wire, wire_bytes>>
vars == <<tx_queue, bytes_txed, pc, driverVars, accepted, wireVars, began>>

Front == Head(tx_queue)

(* Definitions marked (mutant) are faulty forms of the one that follows;   *)
(* no action uses them.                                                    *)

is_writable == Len(tx_queue) <= MaxQueue

(* can_transmit of the driver; linux and usbcdc are always ready.          *)
can_transmit ==
  /\ driver \in Uarts => ~is_transmitting
  /\ driver \in {"stm32_zst", "rs485"} => ~just_received

Init ==
  /\ driver \in Drivers
  /\ tx_queue = << >> /\ bytes_txed = 0 /\ pc = "idle"
  /\ is_transmitting = FALSE /\ tx_buffer = 0 /\ just_received = FALSE
  /\ received = 0
  /\ nre = FALSE /\ de = FALSE
  /\ accepted = 0
  /\ on_wire = 0 /\ wire = << >> /\ wire_bytes = 0
  /\ began = << >>

(* transmit(): between calls of main_task, or in a handler of an event     *)
(* do_receive or main_task emits.  What it refuses changes nothing.        *)
transmit(destination, size) ==
  /\ pc \in {"idle", "receive", "began"}
  /\ accepted < MaxAccepted
  /\ is_writable
  /\ destination # 0
  /\ size <= MaxData /\ size > 0
  /\ accepted' = accepted + 1
  /\ tx_queue' = Append(tx_queue, [id |-> accepted + 1, size |-> size + Overhead])
  /\ UNCHANGED <<bytes_txed, pc, driverVars, wireVars, began>>

(* main_task calls do_receive, whose handlers may transmit.                *)
Receive ==
  /\ pc = "idle" /\ pc' = "receive"
  /\ UNCHANGED <<tx_queue, bytes_txed, driverVars, accepted, wireVars, began>>

(* (mutant) The counter goes the wrong way.                                *)
ConsiderSubtracts ==
  /\ pc = "receive"
  /\ \/ /\ tx_queue # << >> /\ can_transmit
        /\ bytes_txed' = bytes_txed - Front.size
        /\ pc' = "send"
     \/ /\ tx_queue = << >> \/ ~can_transmit
        /\ pc' = "idle"
        /\ UNCHANGED bytes_txed
  /\ UNCHANGED <<tx_queue, driverVars, accepted, wireVars, began>>

(* The test for work, and the counter, before the driver is called.        *)
Consider ==
  /\ pc = "receive"
  /\ \/ /\ tx_queue # << >> /\ can_transmit
        /\ bytes_txed' = bytes_txed + Front.size
        /\ pc' = "send"
     \/ /\ tx_queue = << >> \/ ~can_transmit
        /\ pc' = "idle"
        /\ UNCHANGED bytes_txed
  /\ UNCHANGED <<tx_queue, driverVars, accepted, wireVars, began>>

(***************************************************************************)
(* do_transmit of the UART drivers, one step for each thing the interrupt  *)
(* may come between: claim the transmitter, move the data into _tx_buffer, *)
(* start the hardware, and on RS-485 turn the transceiver round.           *)
(***************************************************************************)
(* (mutant) The transmitter is not claimed.                                *)
ClaimForgotten ==
  /\ pc = "send" /\ driver \in Uarts
  /\ pc' = (IF is_transmitting THEN "pop" ELSE "claimed")
  /\ UNCHANGED <<tx_queue, bytes_txed, driverVars, accepted, wireVars, began>>

Claim ==
  /\ pc = "send" /\ driver \in Uarts
  /\ pc' = (IF is_transmitting THEN "pop" ELSE "claimed")
  /\ is_transmitting' = TRUE
  /\ UNCHANGED <<tx_queue, bytes_txed, tx_buffer, just_received, received,
                 driver, nre, de, accepted, wireVars, began>>

Load ==
  /\ pc = "claimed" /\ pc' = "loaded"
  /\ tx_buffer' = Front.id
  /\ UNCHANGED <<tx_queue, bytes_txed, is_transmitting, just_received, received,
                 driver, nre, de, accepted, wireVars, began>>

(* The fragment the sending of which is started now.                       *)
Started(id, size) == wire' = Append(wire, id) /\ wire_bytes' = wire_bytes + size

Start ==
  /\ pc = "loaded"
  /\ pc' = (IF driver = "rs485" THEN "nre" ELSE "emit")
  /\ on_wire' = tx_buffer
  /\ Started(tx_buffer, Front.size)
  /\ UNCHANGED <<tx_queue, bytes_txed, driverVars, accepted, began>>

SetNre ==
  /\ pc = "nre" /\ pc' = "de"
  /\ nre' = TRUE
  /\ UNCHANGED <<tx_queue, bytes_txed, is_transmitting, tx_buffer, just_received,
                 received, driver, de, accepted, wireVars, began>>

SetDe ==
  /\ pc = "de" /\ pc' = "emit"
  /\ de' = TRUE
  /\ UNCHANGED <<tx_queue, bytes_txed, is_transmitting, tx_buffer, just_received,
                 received, driver, nre, accepted, wireVars, began>>

(* The drivers that write in do_transmit.  When the system does not take   *)
(* what is written, the USB one returns false; the Linux one does not look *)
(* and returns true.                                                       *)
Write ==
  /\ pc = "send" /\ driver \in {"linux", "usbcdc"}
  /\ \/ /\ pc' = "emit"
        /\ Started(Front.id, Front.size)
     \/ /\ pc' = (IF driver = "linux" THEN "emit" ELSE "pop")
        /\ UNCHANGED <<wire, wire_bytes>>
  /\ UNCHANGED <<tx_queue, bytes_txed, driverVars, accepted, on_wire, began>>

(* do_transmit returned true: transmit_began_event.                        *)
Emit ==
  /\ pc = "emit" /\ pc' = "began"
  /\ began' = Append(began, Front.id)
  /\ UNCHANGED <<tx_queue, bytes_txed, driverVars, accepted, wireVars>>

(* (mutant) The wrong end of the queue; a sent fragment stays.             *)
PopNewest ==
  /\ pc \in {"began", "pop"} /\ pc' = "idle"
  /\ tx_queue' = SubSeq(tx_queue, 1, Len(tx_queue) - 1)
  /\ UNCHANGED <<bytes_txed, driverVars, accepted, wireVars, began>>
PopUnsent ==
  /\ pc \in {"began", "pop"} /\ pc' = "idle"
  /\ tx_queue' = (IF pc = "began" THEN tx_queue ELSE Tail(tx_queue))
  /\ UNCHANGED <<bytes_txed, driverVars, accepted, wireVars, began>>

(* The fragment leaves the queue, whether it was sent or not.              *)
Pop ==
  /\ pc \in {"began", "pop"} /\ pc' = "idle"
  /\ tx_queue' = Tail(tx_queue)
  /\ UNCHANGED <<bytes_txed, driverVars, accepted, wireVars, began>>

(***************************************************************************)
(* Interrupts.                                                             *)
(***************************************************************************)

(* (mutant) The transmitter is not released.                               *)
TxDoneForgets ==
  /\ on_wire # 0 /\ on_wire' = 0
  /\ nre' = FALSE /\ de' = FALSE
  /\ UNCHANGED <<tx_queue, bytes_txed, pc, is_transmitting, tx_buffer,
                 just_received, received, driver, accepted, wire, wire_bytes, began>>

(* isr_tx_done: the hardware has sent the last byte of _tx_buffer.         *)
TxDone ==
  /\ on_wire # 0 /\ on_wire' = 0
  /\ is_transmitting' = FALSE
  /\ nre' = FALSE /\ de' = FALSE
  /\ UNCHANGED <<tx_queue, bytes_txed, pc, tx_buffer, just_received, received,
                 driver, accepted, wire, wire_bytes, began>>

(* isr_rx_done: next_receive sets _last_rx to the current time.            *)
RxDone ==
  /\ driver \in {"stm32_zst", "rs485"}
  /\ received < MaxReceived /\ received' = received + 1
  /\ just_received' = TRUE
  /\ UNCHANGED <<tx_queue, bytes_txed, pc, is_transmitting, tx_buffer, nre, de,
                 driver, accepted, wireVars, began>>

(* The clock moves on from _last_rx.                                       *)
Tick ==
  /\ just_received /\ just_received' = FALSE
  /\ UNCHANGED <<tx_queue, bytes_txed, pc, is_transmitting, tx_buffer, received,
                 driver, nre, de, accepted, wireVars, began>>

Call == \E d \in Destinations, s \in Sizes : transmit(d, s)

main_task == \/ Receive \/ Consider
             \/ Claim \/ Load \/ Start \/ SetNre \/ SetDe \/ Write
             \/ Emit \/ Pop

Next == Call \/ main_task \/ TxDone \/ RxDone \/ Tick

(* main_task is called for ever, the hardware finishes what it sends, and  *)
(* the clock moves.  MaxReceived makes the line fall quiet in the end: a   *)
(* byte in every tick of the clock keeps can_transmit of stm32_zst false.  *)
Fairness == WF_vars(main_task) /\ WF_vars(TxDone) /\ WF_vars(Tick)

Spec == Init /\ [][Next]_vars /\ Fairness

-----------------------------------------------------------------------------

(* Every variable keeps its type.                                          *)
TypeOK ==
  /\ driver \in Drivers
  /\ tx_queue \in Seq([id : Nat, size : Nat])
  /\ bytes_txed \in Nat /\ wire_bytes \in Nat
  /\ pc \in {"idle", "receive", "send", "claimed", "loaded", "nre", "de",
             "emit", "began", "pop"}
  /\ is_transmitting \in BOOLEAN /\ just_received \in BOOLEAN
  /\ nre \in BOOLEAN /\ de \in BOOLEAN
  /\ tx_buffer \in Nat /\ on_wire \in Nat /\ accepted \in Nat /\ received \in Nat
  /\ wire \in Seq(Nat) /\ began \in Seq(Nat)

(* The reference main_task holds to the front of the queue while handlers  *)
(* append to it stays good, up to the pop.                                 *)
FrontThere == pc \notin {"idle", "receive"} => tx_queue # << >>

(* The queue holds the fragments accepted last, in the order in which they *)
(* were accepted: none is lost, doubled or overtaken in it.                *)
QueueInOrder ==
  /\ Len(tx_queue) <= accepted
  /\ \A i \in 1 .. Len(tx_queue) : tx_queue[i].id = accepted - Len(tx_queue) + i

(* The queue is at most one fragment longer than _max_queue_size.          *)
QueueBounded == Len(tx_queue) <= MaxQueue + 1

(* The UART drivers, whose do_transmit does not fail, send the accepted    *)
(* fragments, in order, each once; those not sent yet are in the queue.    *)
SentInOrder ==
  driver \in Uarts =>
    /\ Len(wire) + Len(tx_queue) =
         accepted + (IF pc \in {"nre", "de", "emit", "began"} THEN 1 ELSE 0)
    /\ \A i \in 1 .. Len(wire) : wire[i] = i

(* Ids on the wire are strictly increasing, even when a transmit fails.    *)
NeverTwice == \A i, j \in 1 .. Len(wire) : i < j => wire[i] < wire[j]

(* The hardware never sends from a buffer that was replaced under it.      *)
BufferStable == on_wire # 0 => tx_buffer = on_wire /\ is_transmitting

(* The driver's own refusal, while a transmission is under way, is never   *)
(* met: nothing can make it busy between can_transmit and do_transmit.     *)
NeverRefused == pc = "send" /\ driver \in Uarts => ~is_transmitting

(* The transceiver drives the line only while something is being sent and  *)
(* its receiver is on again afterwards.                                    *)
TransceiverReleased ==
  pc \in {"idle", "receive"} /\ on_wire = 0 => ~de /\ ~nre

(* Whatever a UART driver has accepted is sent in the end, unless bytes    *)
(* keep coming.                                                            *)
EventuallySent ==
  \A n \in 1 .. MaxAccepted :
    (driver \in Uarts /\ accepted >= n) ~> \E i \in 1 .. Len(wire) : wire[i] = n
=============================================================================
