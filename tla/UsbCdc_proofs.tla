---------------------------- MODULE UsbCdc_proofs ----------------------------
(***************************************************************************)
(* Theorems about UsbCdc, for packets of any number and content: the lock  *)
(* flag is enough to give every block one owner, although the interrupt    *)
(* may come between all steps of do_receive.                               *)
(***************************************************************************)
EXTENDS UsbCdc, TLAPS

Numbers == 1 .. Len(packet)
Locked == {"locked", "moved", "cleared"}

Types ==
  /\ packet \in Seq(Packets)
  /\ rx_buffer \in Numbers \union {0} /\ data \in Numbers \union {0}
  /\ freed \subseteq Numbers /\ missed \subseteq Numbers
  /\ lock \in BOOLEAN /\ pc \in Locked \union {"idle", "parse"}
  /\ delivered \in Seq(Numbers)

(* Who has which packet at each point of do_receive.                       *)
Owners ==
  /\ lock <=> pc \in Locked
  /\ pc \in {"idle", "locked"} => data = 0
  /\ pc = "moved" => data = rx_buffer
  /\ pc = "cleared" => rx_buffer = 0
  /\ pc = "parse" => data # 0 /\ (rx_buffer = 0 \/ data < rx_buffer)
  /\ data \notin freed /\ rx_buffer \notin freed

(* What was delivered came before what is in the buffers.                  *)
Deliveries ==
  /\ \A i, j \in DOMAIN delivered : i < j => delivered[i] < delivered[j]
  /\ \A i \in DOMAIN delivered :
       /\ packet[delivered[i]].whole /\ delivered[i] \notin missed
       /\ data = 0 \/ delivered[i] < data
       /\ rx_buffer = 0 \/ delivered[i] < rx_buffer
  /\ data \notin missed /\ rx_buffer \notin missed

(* The inductive invariant.                                                *)
UInv == Types /\ Owners /\ Deliveries

-----------------------------------------------------------------------------

LEMMA InitUInv == Init => UInv
<1> SUFFICES ASSUME Init PROVE UInv
  OBVIOUS
<1>1. packet \in Seq(Packets) /\ delivered \in Seq(Numbers)
  BY SMT DEF Init
<1>2. DOMAIN delivered = {}
  BY SMT DEF Init
<1>3. Types
  BY <1>1 DEF Init, Types, Locked
<1>4. Owners
  BY DEF Init, Owners, Locked
<1>5. Deliveries
  BY <1>2 DEF Init, Deliveries
<1> QED
  BY <1>3, <1>4, <1>5 DEF UInv

(* The packet that arrives; those there stay what they are.                *)
LEMMA Arrival ==
  ASSUME Types, isr_rx_done
  PROVE  /\ packet' \in Seq(Packets) /\ Len(packet') = Len(packet) + 1
         /\ Len(packet) \in Nat
         /\ \A n \in Numbers : packet'[n] = packet[n]
         /\ Numbers \subseteq Numbers' /\ Len(packet) + 1 \in Numbers'
<1>1. PICK p \in Packets : packet' = Append(packet, p)
  BY DEF isr_rx_done
<1>2. packet \in Seq(Packets)
  BY DEF Types
<1>3. /\ packet' \in Seq(Packets) /\ Len(packet') = Len(packet) + 1
      /\ Len(packet) \in Nat
      /\ \A n \in 1 .. Len(packet) : packet'[n] = packet[n]
  BY <1>1, <1>2, SMT
<1> QED
  BY <1>3, SMT DEF Numbers

(* The interrupt: with the lock set it takes nothing, without it what it   *)
(* frees is in nobody's hands.                                             *)
LEMMA InterruptKeeps == UInv /\ isr_rx_done => UInv'
<1> SUFFICES ASSUME UInv, isr_rx_done PROVE UInv'
  OBVIOUS
<1> USE DEF UInv
<1> DEFINE n == Len(packet) + 1
<1>1. /\ packet' \in Seq(Packets) /\ Len(packet') = n /\ Len(packet) \in Nat
      /\ \A k \in Numbers : packet'[k] = packet[k]
      /\ Numbers \subseteq Numbers' /\ n \in Numbers' /\ n \notin Numbers /\ n # 0
      /\ \A k \in Numbers : k < n
  <2>1. n \notin Numbers /\ n # 0 /\ \A k \in Numbers : k < n
    BY Arrival, SMT DEF Numbers
  <2> QED
    BY <2>1, Arrival
<1>2. /\ Store(n)
      /\ lock' = lock /\ data' = data /\ pc' = pc /\ delivered' = delivered
  BY DEF isr_rx_done
<1>3. delivered' \in Seq(Numbers')
  <2> DEFINE S == Numbers
             T == Numbers'
  <2>1. S \subseteq T /\ delivered \in Seq(S)
    BY <1>1 DEF Types
  <2> HIDE DEF S, T
  <2>2. delivered \in Seq(T)
    BY <2>1, SMT
  <2> QED
    BY <1>2, <2>2 DEF T
<1>4. \A i \in DOMAIN delivered : delivered[i] \in Numbers
  <2> DEFINE S == Numbers
  <2>1. delivered \in Seq(S)
    BY DEF Types
  <2> HIDE DEF S
  <2> QED
    BY <2>1, SMT DEF S
<1> HIDE DEF n
<1>5. CASE ~lock
  <2>1. /\ rx_buffer' = n /\ freed' = (freed \union {rx_buffer}) \ {0}
        /\ missed' = (missed \union {rx_buffer}) \ {0}
    BY <1>2, <1>5 DEF Store
  <2>2. pc \in {"idle", "parse"}
    BY <1>5 DEF Owners, Types
  <2>3. Types'
    BY <1>1, <1>2, <1>3, <2>1 DEF Types
  <2>4. data = 0 \/ (data \in Numbers /\ (rx_buffer = 0 \/ data < rx_buffer))
    BY <2>2 DEF Owners, Types
  <2>5. data # 0 => data # rx_buffer
    BY <2>4, SMT DEF Types, Numbers
  <2>6. Owners'
    BY <1>1, <1>2, <1>5, <2>1, <2>2, <2>5 DEF Owners, Types, Locked
  <2>7. Deliveries'
    <3>1. \A i \in DOMAIN delivered : rx_buffer = 0 \/ delivered[i] # rx_buffer
      BY <1>4, SMT DEF Deliveries, Numbers, Types
    <3>2. \A i \in DOMAIN delivered : delivered[i] \notin missed'
      BY <2>1, <3>1, <1>4, SMT DEF Deliveries, Numbers
    <3>3. data \notin missed' /\ n \notin missed'
      BY <1>1, <2>1, <2>5 DEF Deliveries, Types
    <3> QED
      BY <1>1, <1>2, <1>4, <2>1, <3>2, <3>3 DEF Deliveries
  <2> QED
    BY <2>3, <2>6, <2>7
<1>6. CASE lock
  <2>1. rx_buffer' = rx_buffer /\ freed' = freed /\ missed' = missed \union {n}
    BY <1>2, <1>6 DEF Store
  <2>2. Types'
    BY <1>1, <1>2, <1>3, <2>1 DEF Types
  <2>3. Owners'
    BY <1>2, <2>1 DEF Owners
  <2>4. Deliveries'
    BY <1>1, <1>2, <1>4, <2>1 DEF Deliveries, Types
  <2> QED
    BY <2>2, <2>3, <2>4
<1> QED
  BY <1>5, <1>6

(* A fragment that is delivered is later than all before it.               *)
LEMMA ParseKeeps == UInv /\ Parse => UInv'
<1> SUFFICES ASSUME UInv, Parse PROVE UInv'
  OBVIOUS
<1> USE DEF UInv
<1> DEFINE S == Numbers
<1>1. /\ pc = "parse" /\ pc' = "idle" /\ data' = 0 /\ freed' = freed \union {data}
      /\ packet' = packet /\ rx_buffer' = rx_buffer /\ lock' = lock
      /\ missed' = missed /\ S' = S
      /\ data \in S /\ data \in Nat \ {0} /\ delivered \in Seq(S) /\ S \subseteq Nat \ {0}
      /\ rx_buffer = 0 \/ data < rx_buffer
  BY SMT DEF Parse, Types, Owners, Numbers
<1>2. \A i \in DOMAIN delivered : delivered[i] < data
  BY <1>1 DEF Deliveries
<1> HIDE DEF S
<1>3. CASE ~Parses(packet[data])
  <2>1. delivered' = delivered
    BY <1>3 DEF Parse
  <2>2. Types' /\ Owners'
    BY <1>1, <2>1, SMT DEF Types, Owners, Locked, S
  <2>3. 0 \notin missed
    BY <1>1, SMT DEF Types, S
  <2>4. Deliveries'
    BY <1>1, <2>1, <2>3 DEF Deliveries
  <2> QED
    BY <2>2, <2>4
<1>4. CASE Parses(packet[data])
  <2>1. delivered' = Append(delivered, data)
    BY <1>4 DEF Parse
  <2>2. /\ delivered' \in Seq(S) /\ DOMAIN delivered' = 1 .. Len(delivered) + 1
        /\ DOMAIN delivered = 1 .. Len(delivered) /\ Len(delivered) \in Nat
        /\ \A i \in DOMAIN delivered : delivered'[i] = delivered[i]
        /\ delivered'[Len(delivered) + 1] = data
    BY <1>1, <2>1, SMT
  <2>3. \A i \in DOMAIN delivered' :
          (i \in DOMAIN delivered /\ delivered'[i] = delivered[i])
            \/ (i = Len(delivered) + 1 /\ delivered'[i] = data)
    BY <2>2, SMT
  <2>4. Types' /\ Owners'
    BY <1>1, <2>2, SMT DEF Types, Owners, Locked, S
  <2>5. \A i, j \in DOMAIN delivered' : i < j => delivered'[i] < delivered'[j]
    <3> SUFFICES ASSUME NEW i \in DOMAIN delivered', NEW j \in DOMAIN delivered', i < j
                 PROVE  delivered'[i] < delivered'[j]
      OBVIOUS
    <3>1. i \in DOMAIN delivered /\ delivered'[i] = delivered[i]
      BY <2>2, SMT
    <3>2. CASE j \in DOMAIN delivered /\ delivered'[j] = delivered[j]
      BY <3>1, <3>2 DEF Deliveries
    <3>3. CASE delivered'[j] = data
      BY <1>2, <3>1, <3>3
    <3> QED
      BY <2>3, <3>2, <3>3
  <2>6. \A i \in DOMAIN delivered' :
          /\ packet[delivered'[i]].whole /\ delivered'[i] \notin missed
          /\ rx_buffer = 0 \/ delivered'[i] < rx_buffer
    <3> SUFFICES ASSUME NEW i \in DOMAIN delivered'
                 PROVE  /\ packet[delivered'[i]].whole /\ delivered'[i] \notin missed
                        /\ rx_buffer = 0 \/ delivered'[i] < rx_buffer
      OBVIOUS
    <3>1. CASE i \in DOMAIN delivered /\ delivered'[i] = delivered[i]
      BY <3>1 DEF Deliveries
    <3>2. CASE delivered'[i] = data
      BY <1>1, <1>4, <3>2 DEF Deliveries, Parses
    <3> QED
      BY <2>3, <3>1, <3>2
  <2>7. 0 \notin missed /\ rx_buffer \notin missed
    BY <1>1 DEF Deliveries, Types, S
  <2> QED
    BY <1>1, <2>4, <2>5, <2>6, <2>7 DEF Deliveries
<1> QED
  BY <1>3, <1>4

THEOREM NextUInv == UInv /\ [Next]_vars => UInv'
<1> SUFFICES ASSUME UInv, [Next]_vars PROVE UInv'
  OBVIOUS
<1>1. CASE isr_rx_done
  BY <1>1, InterruptKeeps
<1>2. CASE Lock
  BY <1>2, SMT DEF UInv, Types, Owners, Deliveries, Numbers, Locked, Lock
<1>3. CASE MoveOut
  BY <1>3, SMT DEF UInv, Types, Owners, Deliveries, Numbers, Locked, MoveOut
<1>4. CASE Clear
  BY <1>4, SMT DEF UInv, Types, Owners, Deliveries, Numbers, Locked, Clear
<1>5. CASE Unlock
  <2>1. /\ packet' = packet /\ rx_buffer' = rx_buffer /\ freed' = freed /\ data' = data
        /\ delivered' = delivered /\ missed' = missed /\ lock' = FALSE
        /\ (data = 0 /\ pc' = "idle") \/ (data # 0 /\ pc' = "parse")
        /\ rx_buffer = 0
    BY <1>5 DEF Unlock, UInv, Owners
  <2>2. Types'
    BY <2>1 DEF UInv, Types, Numbers
  <2>3. Owners'
    BY <2>1 DEF UInv, Owners, Locked
  <2>4. Deliveries'
    BY <2>1 DEF UInv, Deliveries
  <2> QED
    BY <2>2, <2>3, <2>4 DEF UInv
<1>6. CASE Parse
  BY <1>6, ParseKeeps
<1>7. CASE UNCHANGED vars
  BY <1>7 DEF UInv, Types, Owners, Deliveries, Numbers, vars
<1> QED
  BY <1>1, <1>2, <1>3, <1>4, <1>5, <1>6, <1>7 DEF Next, do_receive

LEMMA Invariance == Spec => []UInv
BY InitUInv, NextUInv, PTL DEF Spec

-----------------------------------------------------------------------------
(* The theorems.                                                           *)

(* No interleaving of the packet interrupt with do_receive frees a block   *)
(* twice or under its owner (usbcdc.hpp:75, 128).                          *)
THEOREM BlocksOwned == Spec => []OneOwner
<1>1. UInv => OneOwner
  BY SMT DEF UInv, Types, Owners, Numbers, Locked, OneOwner
<1> QED
  BY <1>1, Invariance, PTL

(* What is delivered is undamaged, in order, once, and was not given up.   *)
THEOREM InOrder == Spec => []DeliveredInOrder
<1>1. UInv => DeliveredInOrder
  BY DEF UInv, Deliveries, DeliveredInOrder
<1> QED
  BY <1>1, Invariance, PTL
=============================================================================
