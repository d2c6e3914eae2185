------------------------- MODULE Transmitter_proofs -------------------------
(***************************************************************************)
(* Theorems about Transmitter, for every driver, queue size and number of  *)
(* fragments.                                                              *)
(*                                                                         *)
(* TxInv is the inductive invariant.  What the wire carries follows from   *)
(* three relations: queue positions and ids (QueueInOrder), the place of   *)
(* main_task and the state of the driver (DriverView), and the last id     *)
(* started and the ids popped (WireView).                                  *)
(***************************************************************************)
EXTENDS Transmitter, SequenceTheorems, TLAPS

Record == [id : Nat, size : Nat]

(* The steps at which the front of the queue has been started but is still *)
(* in the queue.                                                           *)
Underway == {"nre", "de", "emit", "began"}

(* Where main_task stands tells what the interrupt may still change.       *)
DriverView ==
  /\ BufferStable
  /\ NeverRefused
  /\ pc \in {"claimed", "loaded"} => is_transmitting /\ on_wire = 0
  /\ pc \in {"claimed", "loaded", "nre", "de"} => driver \in Uarts
  /\ pc = "loaded" => tx_buffer = Front.id
  /\ pc = "pop" => driver = "usbcdc"

(* Nothing on the wire is younger than the fragments taken from the queue  *)
(* so far, the one under way included.                                     *)
Taken == accepted - Len(tx_queue) + (IF pc \in Underway THEN 1 ELSE 0)
WireView ==
  /\ \A i \in 1 .. Len(wire) : wire[i] <= Taken
  /\ NeverTwice
  /\ SentInOrder

QueueInv == TypeOK /\ FrontThere /\ QueueInOrder /\ QueueBounded

TxInv == QueueInv /\ DriverView /\ WireView

-----------------------------------------------------------------------------

(* The initial state.                                                      *)
LEMMA InitTxInv == Init => TxInv
<1> SUFFICES ASSUME Init PROVE TxInv
  OBVIOUS
<1> USE DEF Init
<1>1. << >> \in Seq(Record) /\ << >> \in Seq(Nat) /\ Len(<< >>) = 0
  BY SMT
<1>2. TypeOK
  BY <1>1 DEF TypeOK, Record
<1>3. FrontThere /\ QueueInOrder /\ QueueBounded
  BY <1>1, TransmitterAssumption, SMT DEF FrontThere, QueueInOrder, QueueBounded
<1>4. DriverView
  BY DEF DriverView, BufferStable, NeverRefused
<1>5. WireView
  BY <1>1, SMT DEF WireView, NeverTwice, SentInOrder
<1> QED
  BY <1>2, <1>3, <1>4, <1>5 DEF TxInv, QueueInv

(* A step that leaves the queue alone, and works on a front that is there, *)
(* keeps the queue's part of the invariant but for the types.              *)
LEMMA QueueUntouched ==
  ASSUME QueueInv, tx_queue' = tx_queue, accepted' = accepted,
         pc' \in {"idle", "receive"} \/ tx_queue # << >>
  PROVE  FrontThere' /\ QueueInOrder' /\ QueueBounded'
BY DEF QueueInv, FrontThere, QueueInOrder, QueueBounded

(* The front carries the id after those popped.                            *)
LEMMA FrontId ==
  ASSUME QueueInv, tx_queue # << >>
  PROVE  /\ Front \in Record
         /\ Front.id = accepted - Len(tx_queue) + 1
         /\ Len(tx_queue) \in Nat /\ Len(tx_queue) >= 1
<1>1. tx_queue \in Seq(Record) /\ Len(tx_queue) \in Nat /\ Len(tx_queue) >= 1
  BY SMT DEF QueueInv, TypeOK, Record
<1>2. Front = tx_queue[1] /\ Front \in Record
  BY <1>1, HeadTailProperties DEF Front
<1>3. tx_queue[1].id = accepted - Len(tx_queue) + 1
  BY <1>1, SMT DEF QueueInv, QueueInOrder
<1> QED
  BY <1>1, <1>2, <1>3

(* Accepting a fragment.                                                   *)
LEMMA CallKeeps == TxInv /\ Call => TxInv'
<1> SUFFICES ASSUME TxInv,
                    NEW d \in Destinations, NEW s \in Sizes, transmit(d, s)
             PROVE  TxInv'
  BY DEF Call
<1> DEFINE new == [id |-> accepted + 1, size |-> s + Overhead]
<1>1. /\ tx_queue \in Seq(Record) /\ Len(tx_queue) \in Nat /\ accepted \in Nat
      /\ MaxQueue \in Nat /\ new \in Record
  BY TransmitterAssumption, SMT DEF TxInv, QueueInv, TypeOK, Record
<1>2. /\ tx_queue' = Append(tx_queue, new) /\ accepted' = accepted + 1
      /\ Len(tx_queue) <= MaxQueue
      /\ UNCHANGED <<bytes_txed, pc, driverVars, wireVars, began>>
  BY DEF transmit, is_writable
<1>3. /\ tx_queue' \in Seq(Record) /\ tx_queue' # << >>
      /\ Len(tx_queue') = Len(tx_queue) + 1
      /\ \A i \in 1 .. Len(tx_queue) : tx_queue'[i] = tx_queue[i]
      /\ tx_queue'[Len(tx_queue) + 1] = new
  <2> HIDE DEF new
  <2> QED
    BY <1>1, <1>2, AppendProperties
<1>4. TypeOK'
  BY <1>1, <1>2, <1>3, SMT
     DEF TxInv, QueueInv, TypeOK, driverVars, wireVars, Record
<1>5. QueueInOrder'
  <2>1. Len(tx_queue) <= accepted
        /\ \A i \in 1 .. Len(tx_queue) : tx_queue[i].id = accepted - Len(tx_queue) + i
    BY DEF TxInv, QueueInv, QueueInOrder
  <2>2. Len(tx_queue') <= accepted'
    BY <1>1, <1>2, <1>3, <2>1, SMT
  <2>3. new.id = accepted + 1
    OBVIOUS
  <2>4. ASSUME NEW i \in 1 .. Len(tx_queue')
        PROVE  tx_queue'[i].id = accepted' - Len(tx_queue') + i
    <3> HIDE DEF new
    <3>1. CASE i <= Len(tx_queue)
      BY <1>1, <1>2, <1>3, <2>1, <3>1, SMT
    <3>2. CASE i = Len(tx_queue) + 1
      BY <1>1, <1>2, <1>3, <2>3, <3>2, SMT
    <3> QED
      BY <1>1, <1>3, <3>1, <3>2, SMT
  <2> QED
    BY <2>2, <2>4 DEF QueueInOrder
<1>6. FrontThere' /\ QueueBounded'
  BY <1>1, <1>2, <1>3, SMT DEF FrontThere, QueueBounded
<1>7. DriverView'
  BY <1>2, SMT DEF TxInv, DriverView, BufferStable, NeverRefused, transmit,
                   driverVars, wireVars
<1>8. WireView'
  <2>1. Taken' = Taken
    BY <1>1, <1>2, <1>3, SMT DEF Taken
  <2> QED
    BY <1>1, <1>2, <1>3, <2>1, SMT
       DEF TxInv, WireView, NeverTwice, SentInOrder, driverVars, wireVars
<1> QED
  BY <1>4, <1>5, <1>6, <1>7, <1>8 DEF TxInv, QueueInv

(* Steps that neither start nor pop a fragment keep what is known of the   *)
(* wire.                                                                   *)
LEMMA WireUntouched ==
  ASSUME WireView, wire' = wire, tx_queue' = tx_queue, accepted' = accepted,
         driver' = driver, pc' \in Underway <=> pc \in Underway
  PROVE  WireView'
<1>1. Taken' = Taken
  BY DEF Taken
<1> QED
  BY <1>1 DEF WireView, NeverTwice, SentInOrder, Underway

(* Sending the front fragment, which no step has started before: what the  *)
(* longer wire keeps.                                                      *)
LEMMA LongerWire ==
  ASSUME QueueInv, WireView, tx_queue # << >>, pc \notin Underway, pc' \in Underway,
         wire' \in Seq(Nat), Len(wire') = Len(wire) + 1,
         \A i \in 1 .. Len(wire) : wire'[i] = wire[i],
         wire'[Len(wire) + 1] = Front.id,
         Len(tx_queue') = Len(tx_queue), accepted' = accepted, driver' = driver
  PROVE  WireView'
<1>1. /\ Front.id \in Nat /\ Front.id = accepted - Len(tx_queue) + 1
      /\ wire \in Seq(Nat) /\ accepted \in Nat
      /\ Len(tx_queue) \in Nat /\ Len(wire) \in Nat
  BY FrontId, SMT DEF QueueInv, TypeOK, Record
<1>2. Taken = accepted - Len(tx_queue) /\ Taken' = Taken + 1 /\ Taken \in Int
  BY <1>1, SMT DEF Taken
<1>3. \A i \in 1 .. Len(wire) : wire[i] <= Taken /\ wire[i] \in Nat
  <2>1. \A i \in 1 .. Len(wire) : wire[i] \in Nat
    BY <1>1, SMT
  <2>2. \A i \in 1 .. Len(wire) : wire[i] <= Taken
    BY Zenon DEF WireView
  <2> QED
    BY <2>1, <2>2, Zenon
<1>4. \A i \in 1 .. Len(wire') : wire'[i] <= Taken'
  BY <1>1, <1>2, <1>3, SMT
<1>5. NeverTwice'
  <2> SUFFICES ASSUME NEW i \in 1 .. Len(wire'), NEW j \in 1 .. Len(wire'), i < j
               PROVE  wire'[i] < wire'[j]
    BY DEF NeverTwice
  <2>0. i \in 1 .. Len(wire)
    BY <1>1, SMT
  <2>1. CASE j <= Len(wire)
    <3>1. j \in 1 .. Len(wire)
      BY <1>1, <2>1, SMT
    <3> QED
      BY <2>0, <3>1 DEF WireView, NeverTwice
  <2>2. CASE j = Len(wire) + 1
    <3>1. wire'[j] = Taken + 1 /\ wire'[i] <= Taken /\ wire'[i] \in Nat
      BY <1>1, <1>2, <1>3, <2>0, <2>2
    <3> QED
      BY <1>2, <3>1, SMT
  <2>3. j <= Len(wire) \/ j = Len(wire) + 1
    <3>1. j \in 1 .. Len(wire) + 1
      OBVIOUS
    <3>2. \A n \in Nat : \A k \in 1 .. n + 1 : k <= n \/ k = n + 1
      BY SMT
    <3> QED
      BY <1>1, <3>1, <3>2, Zenon
  <2> QED
    BY <2>1, <2>2, <2>3
<1>6. SentInOrder'
  <2> SUFFICES ASSUME driver \in Uarts PROVE SentInOrder'
    BY DEF SentInOrder
  <2>1. Len(wire) + Len(tx_queue) = accepted /\ \A i \in 1 .. Len(wire) : wire[i] = i
    BY <1>1, SMT DEF WireView, SentInOrder, Underway
  <2>2. Front.id = Len(wire) + 1
    BY <1>1, <2>1, SMT
  <2>3. ASSUME NEW i \in 1 .. Len(wire') PROVE wire'[i] = i
    <3>1. i \in 1 .. Len(wire) \/ i = Len(wire) + 1
      BY <1>1, SMT
    <3>2. CASE i \in 1 .. Len(wire)
      BY <2>1, <3>2, Zenon
    <3>3. CASE i = Len(wire) + 1
      BY <2>2, <3>3, Zenon
    <3> QED
      BY <3>1, <3>2, <3>3
  <2>4. Len(wire') + Len(tx_queue') = accepted' + 1
    <3>1. Len(wire) + Len(tx_queue) = accepted
      BY <2>1
    <3>2. \A m, n, a \in Nat : m + n = a => (m + 1) + n = a + 1
      BY SMT
    <3>3. (Len(wire) + 1) + Len(tx_queue) = accepted + 1
      BY <1>1, <3>1, <3>2, Zenon
    <3> QED
      BY <3>3
  <2>5. (IF pc' \in {"nre", "de", "emit", "began"} THEN 1 ELSE 0) = 1
    BY DEF Underway
  <2> QED
    BY <2>3, <2>4, <2>5 DEF SentInOrder
<1> QED
  BY <1>4, <1>5, <1>6 DEF WireView

LEMMA StartedKeepsWire ==
  ASSUME QueueInv, WireView, tx_queue # << >>, pc \notin Underway, pc' \in Underway,
         wire' = Append(wire, Front.id), tx_queue' = tx_queue, accepted' = accepted,
         driver' = driver
  PROVE  WireView' /\ wire' \in Seq(Nat)
<1>1. Front.id \in Nat /\ wire \in Seq(Nat)
  BY FrontId DEF QueueInv, TypeOK, Record
<1>2. /\ wire' \in Seq(Nat) /\ Len(wire') = Len(wire) + 1
      /\ \A i \in 1 .. Len(wire) : wire'[i] = wire[i]
      /\ wire'[Len(wire) + 1] = Front.id
  BY <1>1, AppendProperties
<1>3. Len(tx_queue') = Len(tx_queue)
  OBVIOUS
<1> QED
  BY <1>2, <1>3, LongerWire

(* The steps of main_task before the driver.                               *)
LEMMA ReceiveKeeps == TxInv /\ Receive => TxInv'
<1> SUFFICES ASSUME TxInv, Receive PROVE TxInv'
  OBVIOUS
<1> USE DEF TxInv, Receive
<1>1. TypeOK'
  BY DEF QueueInv, TypeOK, driverVars, wireVars
<1>2. FrontThere' /\ QueueInOrder' /\ QueueBounded'
  BY QueueUntouched
<1>3. DriverView'
  BY DEF DriverView, BufferStable, NeverRefused, driverVars, wireVars
<1>4. WireView'
  BY WireUntouched DEF driverVars, wireVars, Underway
<1> QED
  BY <1>1, <1>2, <1>3, <1>4 DEF QueueInv

LEMMA ConsiderKeeps == TxInv /\ Consider => TxInv'
<1> SUFFICES ASSUME TxInv, Consider PROVE TxInv'
  OBVIOUS
<1> USE DEF TxInv, Consider
<1>1. TypeOK'
  <2>1. tx_queue # << >> => Front.size \in Nat
    BY FrontId DEF Record
  <2> QED
    BY <2>1, SMT DEF QueueInv, TypeOK, driverVars, wireVars
<1>2. FrontThere' /\ QueueInOrder' /\ QueueBounded'
  BY QueueUntouched
<1>3. DriverView'
  BY DEF DriverView, BufferStable, NeverRefused, driverVars, wireVars, can_transmit
<1>4. WireView'
  BY WireUntouched DEF driverVars, wireVars, Underway
<1> QED
  BY <1>1, <1>2, <1>3, <1>4 DEF QueueInv

(* do_transmit of the UARTs.                                               *)
LEMMA ClaimKeeps == TxInv /\ Claim => TxInv'
<1> SUFFICES ASSUME TxInv, Claim PROVE TxInv'
  OBVIOUS
<1> USE DEF TxInv, Claim
<1>0. pc' = "claimed" /\ on_wire = 0
  BY DEF DriverView, NeverRefused, BufferStable
<1>1. TypeOK'
  BY <1>0 DEF QueueInv, TypeOK, wireVars
<1>2. FrontThere' /\ QueueInOrder' /\ QueueBounded'
  BY QueueUntouched DEF QueueInv, FrontThere
<1>3. DriverView'
  BY <1>0 DEF DriverView, BufferStable, NeverRefused, wireVars
<1>4. WireView'
  BY <1>0, WireUntouched DEF wireVars, Underway
<1> QED
  BY <1>1, <1>2, <1>3, <1>4 DEF QueueInv

LEMMA LoadKeeps == TxInv /\ Load => TxInv'
<1> SUFFICES ASSUME TxInv, Load PROVE TxInv'
  OBVIOUS
<1> USE DEF TxInv, Load
<1>0. tx_queue # << >> /\ Front.id \in Nat
  BY FrontId DEF QueueInv, FrontThere, Record
<1>1. TypeOK'
  BY <1>0 DEF QueueInv, TypeOK, wireVars
<1>2. FrontThere' /\ QueueInOrder' /\ QueueBounded'
  BY <1>0, QueueUntouched
<1>3. DriverView'
  BY DEF DriverView, BufferStable, NeverRefused, wireVars, Front
<1>4. WireView'
  BY WireUntouched DEF driverVars, wireVars, Underway
<1> QED
  BY <1>1, <1>2, <1>3, <1>4 DEF QueueInv

LEMMA StartKeeps == TxInv /\ Start => TxInv'
<1> SUFFICES ASSUME TxInv, Start PROVE TxInv'
  OBVIOUS
<1> USE DEF TxInv, Start
<1>0. /\ tx_queue # << >> /\ Front \in Record
      /\ tx_buffer = Front.id /\ is_transmitting
      /\ driver \in Uarts
      /\ pc' \in {"nre", "emit"}
  BY FrontId DEF QueueInv, FrontThere, DriverView
<1>1. WireView' /\ wire' \in Seq(Nat)
  BY <1>0, StartedKeepsWire DEF Started, Underway, driverVars
<1>2. TypeOK'
  <2>1. wire_bytes' \in Nat
    BY <1>0, SMT DEF Started, Record, QueueInv, TypeOK
  <2> QED
    BY <1>0, <1>1, <2>1 DEF QueueInv, TypeOK, driverVars
<1>3. FrontThere' /\ QueueInOrder' /\ QueueBounded'
  BY <1>0, QueueUntouched
<1>4. DriverView'
  BY <1>0 DEF DriverView, BufferStable, NeverRefused, driverVars
<1> QED
  BY <1>1, <1>2, <1>3, <1>4 DEF QueueInv

LEMMA PinsKeep == TxInv /\ (SetNre \/ SetDe) => TxInv'
<1> SUFFICES ASSUME TxInv, SetNre \/ SetDe PROVE TxInv'
  OBVIOUS
<1> USE DEF TxInv, SetNre, SetDe
<1>1. TypeOK'
  BY DEF QueueInv, TypeOK, wireVars
<1>2. FrontThere' /\ QueueInOrder' /\ QueueBounded'
  BY QueueUntouched DEF QueueInv, FrontThere
<1>3. DriverView'
  BY DEF DriverView, BufferStable, NeverRefused, wireVars
<1>4. WireView'
  BY WireUntouched DEF driverVars, wireVars, Underway
<1> QED
  BY <1>1, <1>2, <1>3, <1>4 DEF QueueInv

(* do_transmit of the drivers that write.                                  *)
LEMMA WriteKeeps == TxInv /\ Write => TxInv'
<1> SUFFICES ASSUME TxInv, Write PROVE TxInv'
  OBVIOUS
<1> USE DEF TxInv
<1>0. /\ tx_queue # << >> /\ Front \in Record
      /\ pc = "send" /\ tx_queue' = tx_queue /\ accepted' = accepted
      /\ driver' = driver
  BY FrontId DEF QueueInv, FrontThere, Write, driverVars
<1>1. FrontThere' /\ QueueInOrder' /\ QueueBounded'
  BY <1>0, QueueUntouched
<1>2. CASE pc' = "emit" /\ Started(Front.id, Front.size)
  <2>1. WireView' /\ wire' \in Seq(Nat)
    BY <1>0, <1>2, StartedKeepsWire DEF Started, Underway
  <2>2. wire_bytes' \in Nat
    BY <1>0, <1>2, SMT DEF Started, Record, QueueInv, TypeOK
  <2>3. TypeOK'
    BY <1>0, <1>2, <2>1, <2>2 DEF QueueInv, TypeOK, driverVars, Write
  <2>4. DriverView'
    BY <1>2 DEF DriverView, BufferStable, NeverRefused, driverVars, Write
  <2> QED
    BY <1>1, <2>1, <2>3, <2>4 DEF QueueInv
<1>3. CASE driver = "usbcdc" /\ pc' = "pop" /\ UNCHANGED <<wire, wire_bytes>>
  <2>1. WireView'
    BY <1>0, <1>3, WireUntouched DEF Underway
  <2>2. TypeOK'
    BY <1>3 DEF QueueInv, TypeOK, driverVars, Write
  <2>3. DriverView'
    BY <1>3 DEF DriverView, BufferStable, NeverRefused, driverVars, Write
  <2> QED
    BY <1>1, <2>1, <2>2, <2>3 DEF QueueInv
<1>4. CASE driver = "linux" /\ pc' = "emit" /\ UNCHANGED <<wire, wire_bytes>>
  <2>1. WireView'
    <3>1. /\ accepted \in Nat /\ Len(tx_queue) \in Nat /\ wire' = wire
          /\ wire \in Seq(Nat) /\ Len(wire) \in Nat
      BY <1>4, SMT DEF QueueInv, TypeOK
    <3>2. Taken' >= Taken /\ Taken \in Int /\ Taken' \in Int
      BY <1>0, <1>4, <3>1, SMT DEF Taken, Underway
    <3>3. \A i \in 1 .. Len(wire) : wire[i] <= Taken'
      BY <3>1, <3>2, SMT DEF WireView
    <3>4. SentInOrder'
      BY <1>0, <1>4 DEF SentInOrder, Uarts
    <3> QED
      BY <3>1, <3>3, <3>4 DEF WireView, NeverTwice
  <2>2. TypeOK'
    BY <1>4 DEF QueueInv, TypeOK, driverVars, Write
  <2>3. DriverView'
    BY <1>4 DEF DriverView, BufferStable, NeverRefused, driverVars, Write
  <2> QED
    BY <1>1, <2>1, <2>2, <2>3 DEF QueueInv
<1> QED
  BY <1>2, <1>3, <1>4 DEF Write

LEMMA EmitKeeps == TxInv /\ Emit => TxInv'
<1> SUFFICES ASSUME TxInv, Emit PROVE TxInv'
  OBVIOUS
<1> USE DEF TxInv, Emit
<1>0. tx_queue # << >> /\ Front.id \in Nat /\ began \in Seq(Nat)
  BY FrontId DEF QueueInv, FrontThere, Record, TypeOK
<1>1. TypeOK'
  <2>1. began' \in Seq(Nat)
    BY <1>0, AppendProperties
  <2> QED
    BY <2>1 DEF QueueInv, TypeOK, driverVars, wireVars
<1>2. FrontThere' /\ QueueInOrder' /\ QueueBounded'
  BY <1>0, QueueUntouched
<1>3. DriverView'
  BY DEF DriverView, BufferStable, NeverRefused, driverVars, wireVars
<1>4. WireView'
  BY WireUntouched DEF driverVars, wireVars, Underway
<1> QED
  BY <1>1, <1>2, <1>3, <1>4 DEF QueueInv

(* The pop.                                                                *)
LEMMA PopKeeps == TxInv /\ Pop => TxInv'
<1> SUFFICES ASSUME TxInv, Pop PROVE TxInv'
  OBVIOUS
<1> USE DEF TxInv, Pop
<1>1. /\ tx_queue # << >> /\ tx_queue \in Seq(Record)
      /\ Len(tx_queue) \in Nat /\ Len(tx_queue) >= 1 /\ accepted \in Nat
      /\ accepted' = accepted
  BY FrontId DEF QueueInv, FrontThere, TypeOK, Record
<1>2. /\ tx_queue' \in Seq(Record) /\ Len(tx_queue') = Len(tx_queue) - 1
      /\ \A i \in 1 .. Len(tx_queue') : tx_queue'[i] = tx_queue[i + 1]
  BY <1>1, HeadTailProperties
<1>3. TypeOK'
  BY <1>1, <1>2 DEF QueueInv, TypeOK, driverVars, wireVars, Record
<1>4. FrontThere'
  BY DEF FrontThere
<1>5. QueueInOrder'
  BY <1>1, <1>2, SMT DEF QueueInv, QueueInOrder
<1>6. QueueBounded'
  BY <1>1, <1>2, TransmitterAssumption, SMT DEF QueueInv, QueueBounded
<1>7. DriverView'
  BY DEF DriverView, BufferStable, NeverRefused, driverVars, wireVars
<1>8. WireView'
  <2>1. wire' = wire /\ wire \in Seq(Nat) /\ Len(wire) \in Nat
    BY DEF wireVars, QueueInv, TypeOK
  <2>2. Taken' >= Taken /\ Taken \in Int /\ Taken' \in Int
    BY <1>1, <1>2, SMT DEF Taken, Underway
  <2>3. \A i \in 1 .. Len(wire) : wire[i] <= Taken'
    BY <2>1, <2>2, SMT DEF WireView
  <2>4. SentInOrder'
    <3> SUFFICES ASSUME driver \in Uarts PROVE SentInOrder'
      BY DEF SentInOrder, driverVars
    <3>1. pc = "began"
      BY DEF DriverView, Uarts, Pop
    <3>2. Len(wire) + Len(tx_queue) = accepted + 1
          /\ \A i \in 1 .. Len(wire) : wire[i] = i
      BY <3>1 DEF WireView, SentInOrder
    <3>3. Len(wire) + Len(tx_queue') = accepted
      BY <1>1, <1>2, <2>1, <3>2, SMT
    <3> QED
      BY <1>1, <2>1, <3>2, <3>3, SMT DEF SentInOrder
  <2> QED
    BY <2>1, <2>3, <2>4 DEF WireView, NeverTwice
<1> QED
  BY <1>3, <1>4, <1>5, <1>6, <1>7, <1>8 DEF QueueInv

(* The interrupts, between any two steps of main_task.                     *)
LEMMA InterruptsKeep == TxInv /\ (TxDone \/ RxDone \/ Tick) => TxInv'
<1> SUFFICES ASSUME TxInv, TxDone \/ RxDone \/ Tick PROVE TxInv'
  OBVIOUS
<1> USE DEF TxInv
<1>1. /\ tx_queue' = tx_queue /\ accepted' = accepted /\ pc' = pc /\ wire' = wire
      /\ wire_bytes' = wire_bytes /\ began' = began /\ bytes_txed' = bytes_txed
      /\ tx_buffer' = tx_buffer /\ driver' = driver
  BY DEF TxDone, RxDone, Tick, wireVars
<1>2. TypeOK'
  <2>1. received' \in Nat
    BY SMT DEF TxDone, RxDone, Tick, QueueInv, TypeOK
  <2>2. /\ is_transmitting' \in BOOLEAN /\ just_received' \in BOOLEAN
        /\ nre' \in BOOLEAN /\ de' \in BOOLEAN
    BY DEF TxDone, RxDone, Tick, QueueInv, TypeOK
  <2>3. on_wire' \in Nat
    BY DEF TxDone, RxDone, Tick, QueueInv, TypeOK, wireVars
  <2> QED
    BY <1>1, <2>1, <2>2, <2>3 DEF QueueInv, TypeOK
<1>3. FrontThere' /\ QueueInOrder' /\ QueueBounded'
  BY <1>1, QueueUntouched DEF QueueInv, FrontThere
<1>4. DriverView'
  BY <1>1 DEF DriverView, BufferStable, NeverRefused, TxDone, RxDone, Tick,
              wireVars, Front
<1>5. WireView'
  BY <1>1, WireUntouched
<1> QED
  BY <1>2, <1>3, <1>4, <1>5 DEF QueueInv

LEMMA StutterKeeps == TxInv /\ UNCHANGED vars => TxInv'
<1> SUFFICES ASSUME TxInv, UNCHANGED vars PROVE TxInv'
  OBVIOUS
<1> USE DEF TxInv, vars, driverVars, wireVars
<1>1. QueueInv'
  BY DEF QueueInv, TypeOK, FrontThere, QueueInOrder, QueueBounded
<1>2. DriverView'
  BY DEF DriverView, BufferStable, NeverRefused, Front
<1>3. WireView'
  BY WireUntouched
<1> QED
  BY <1>1, <1>2, <1>3

(* TxInv is an invariant of the specification.                             *)
THEOREM Invariance == Spec => []TxInv
<1>1. TxInv /\ [Next]_vars => TxInv'
  BY CallKeeps, ReceiveKeeps, ConsiderKeeps, ClaimKeeps, LoadKeeps, StartKeeps,
     PinsKeep, WriteKeeps, EmitKeeps, PopKeeps, InterruptsKeep, StutterKeeps
     DEF Next, main_task
<1> QED
  BY InitTxInv, <1>1, PTL DEF Spec

(* Type correctness.                                                       *)
THEOREM TypeCorrect == Spec => []TypeOK
<1>1. TxInv => TypeOK
  BY DEF TxInv, QueueInv
<1> QED
  BY <1>1, Invariance, PTL

(* For every _max_queue_size, the queue holds at most one fragment more,   *)
(* in the order of acceptance, and its front survives while main_task      *)
(* refers to it, whatever handlers transmit meanwhile.                     *)
THEOREM QueueCorrect == Spec => [](QueueInOrder /\ QueueBounded /\ FrontThere)
<1>1. TxInv => QueueInOrder /\ QueueBounded /\ FrontThere
  BY DEF TxInv, QueueInv
<1> QED
  BY <1>1, Invariance, PTL

(* The transmit buffer is not touched while the hardware reads it, however *)
(* transmit-complete interrupts fall between the steps of main_task.       *)
THEOREM BufferSafe == Spec => [](BufferStable /\ NeverRefused)
<1>1. TxInv => BufferStable /\ NeverRefused
  BY DEF TxInv, DriverView
<1> QED
  BY <1>1, Invariance, PTL

(* No driver sends a fragment twice or out of order.                       *)
THEOREM WireInOrder == Spec => []NeverTwice
<1>1. TxInv => NeverTwice
  BY DEF TxInv, WireView
<1> QED
  BY <1>1, Invariance, PTL

(* A UART driver sends every fragment accepted, in order, but for those    *)
(* still queued.                                                           *)
THEOREM NothingLost == Spec => []SentInOrder
<1>1. TxInv => SentInOrder
  BY DEF TxInv, WireView
<1> QED
  BY <1>1, Invariance, PTL
=============================================================================
