------------------------------ MODULE Transfers ------------------------------
(***************************************************************************)
(* base_fragmentation_handler with the transfer_handlers it keeps: the     *)
(* list of transfers of one device, the fragments that reach it, what its  *)
(* user creates and transmits, and its main_task.  The class is abstract;  *)
(* its virtual functions only choose what is to be transmitted,            *)
(* and no fragment ever is: see do_main below.                             *)
(*                                                                         *)
(* Everything runs in one thread.  A fragment is handled inside            *)
(* interface::put_received, which is noexcept.                             *)
(***************************************************************************)
EXTENDS Naturals, Sequences

CONSTANTS
  Peers,       \* addresses of the other devices
  IdMod,       \* transfer ids are bytes: 256; smaller in TLC
  IndexMod,    \* and so is the number of fragments of a transfer
  Sizes,       \* sizes of a fragment's data
  Chunks,      \* how many fragments the data of the user's transfers take
  MaxListed,   \* bound: a new incoming transfer finds fewer; the code has none
  MaxCreated,  \* bound: transfers the user creates
  MaxTransmits \* bound: calls of transmit

ASSUME TransfersAssumption ==
  /\ IdMod \in Nat /\ IdMod > 1 /\ IndexMod \in Nat /\ IndexMod > 1
  /\ Sizes \subseteq Nat /\ Chunks \subseteq Nat
  /\ MaxListed \in Nat /\ MaxCreated \in Nat /\ MaxTransmits \in Nat

VARIABLES
  transfers,    \* the transfers, incoming and outgoing, in the list's order
  id_count,     \* the id_factory's count for this interface
  objects,      \* object ids given out
  created,      \* the transfers the user has created, in that order
  held,         \* those it has not moved away
  transmitted,  \* what transmit was called with, in that order
  completed,    \* the object ids of transmit_complete_event, all DONE
  acked,        \* the acknowledgements that came
  itr,          \* do_main's position in the list, 0 outside of the loop
  running       \* FALSE after std::terminate

userVars == <<id_count, created, held, transmitted>>
vars == <<transfers, objects, userVars, completed, acked, itr, running>>

Incoming(source, h, size) ==
  [purpose |-> "INCOMING", peer |-> source, id |-> h.id, total |-> h.total,
   size |-> size, object |-> 0]
Outgoing(destination, id, total, object) ==
  [purpose |-> "OUTGOING", peer |-> destination, id |-> id, total |-> total,
   size |-> 0, object |-> object]

(* Headers that is_valid lets through.                                     *)
Headers == {h \in [fragment : 1 .. IndexMod - 1, total : 1 .. IndexMod - 1,
                   id : 1 .. IdMod - 1] : h.fragment <= h.total}

Init == /\ transfers = << >> /\ id_count = 0 /\ objects = 0 /\ created = << >>
        /\ held = {} /\ transmitted = << >> /\ completed = << >>
        /\ acked = {} /\ itr = 0 /\ running = TRUE

-----------------------------------------------------------------------------
(* What the user does.  Definitions marked (mutant) are faulty forms of    *)
(* the one that follows; no action uses them.                              *)

(* (mutant) The count itself is asked whether it is 0, not its low byte.   *)
IncrementUncut(count) == IF count + 1 = 0 THEN count + 2 ELSE count + 1

(* increment_id: the low byte, which is the id, is never 0.                *)
increment_id(count) ==
  IF (count + 1) % IdMod = 0 THEN count + 2 ELSE count + 1

(* id_factory::new_id: the interface has a count of its own, which begins  *)
(* at 0.                                                                   *)
new_id == id_count' = increment_id(id_count)

(* A transfer, or a response to a received one, gets an id of each kind.   *)
create ==
  /\ running /\ itr = 0 /\ Len(created) < MaxCreated
  /\ new_id
  /\ objects' = objects + 1
  /\ \E peer \in Peers :
       created' = Append(created, [peer |-> peer, id |-> id_count' % IdMod, object |-> objects'])
  /\ held' = held \union {Len(created) + 1}
  /\ UNCHANGED <<transfers, transmitted, completed, acked, itr, running>>

(* A moved object keeps its id, a copy gets a new one.                     *)
HandedOver(object, moved) == IF moved THEN object ELSE objects + 1

(* (mutant) The number of fragments is no byte.                            *)
FragmentsUncut(chunks) == chunks

(* The transmit constructor's number of fragments, a byte.                 *)
FragmentsTotal(chunks) == chunks % IndexMod

(* transmit: the user moves its transfer into the list, or a copy of it.   *)
transmit ==
  /\ running /\ itr = 0 /\ Len(transmitted) < MaxTransmits
  /\ \E k \in held, moved \in BOOLEAN, chunks \in Chunks :
       LET t == created[k]
           o == Outgoing(t.peer, t.id, FragmentsTotal(chunks), HandedOver(t.object, moved))
       IN  /\ transfers' = Append(transfers, o)
           /\ transmitted' = Append(transmitted, o)
           /\ objects' = (IF moved THEN objects ELSE objects + 1)
           /\ held' = (IF moved THEN held \ {k} ELSE held)
  /\ UNCHANGED <<id_count, created, completed, acked, itr, running>>

-----------------------------------------------------------------------------
(* What the interface delivers.                                            *)

(* (mutant) Only what was sent is looked through.                          *)
IsPartOfSent(t, source, h) ==
  /\ t.purpose = "OUTGOING" /\ t.peer = source
  /\ t.id = h.id /\ t.total = h.total

is_part_of(t, source, h) ==
  /\ t.purpose = "INCOMING" /\ t.peer = source
  /\ t.id = h.id /\ t.total = h.total

(* (mutant) Any transfer of that id.                                       *)
IsRequestOfAny(t, source, h) == t.purpose = "OUTGOING" /\ t.id = h.id

(* is_request_of and is_ack_of.                                            *)
is_request_of(t, source, h) ==
  /\ t.purpose = "OUTGOING" /\ t.peer = source
  /\ t.id = h.id /\ t.total = h.total /\ h.fragment <= t.total

(* (mutant) The last that is.                                              *)
LastOf(S) == CHOOSE i \in S : \A j \in S : j <= i

(* find_transfer: the first of those that satisfy the predicate.           *)
FirstOf(S) == CHOOSE i \in S : \A j \in S : i <= j

(* erase.                                                                  *)
Without(s, i) == [j \in 1 .. Len(s) - 1 |-> IF j < i THEN s[j] ELSE s[j + 1]]

PartOf(source, h) == {i \in DOMAIN transfers : is_part_of(transfers[i], source, h)}
RequestOf(source, h) == {i \in DOMAIN transfers : is_request_of(transfers[i], source, h)}

(* A fragment of a transfer that is not known: only the first is kept.     *)
NewIncoming(source, h, size) ==
  /\ PartOf(source, h) = {} /\ h.fragment = 1 /\ Len(transfers) < MaxListed
  /\ transfers' = Append(transfers, Incoming(source, h, size))
  /\ UNCHANGED <<completed, acked, running>>

(* A fragment of a known one: put_fragment refuses what is larger than the *)
(* first; it copies the rest, and then fragment_status.at throws, since    *)
(* reserve has left the vector empty.  Nobody catches.                     *)
KnownIncoming(source, h, size) ==
  /\ PartOf(source, h) # {}
  /\ running' = (size > transfers[FirstOf(PartOf(source, h))].size)
  /\ UNCHANGED <<transfers, completed, acked>>

(* An acknowledgement of any fragment completes the transfer.              *)
Ack(source, h) ==
  /\ RequestOf(source, h) # {}
  /\ acked' = acked \union {[source |-> source, id |-> h.id]}
  /\ LET i == FirstOf(RequestOf(source, h))
     IN  /\ completed' = Append(completed, transfers[i].object)
         /\ transfers' = Without(transfers, i)
  /\ UNCHANGED running

(* A request to send a fragment again finds no transfer SENT, and is       *)
(* refused by retransmit_request.  Acknowledgements and requests of        *)
(* nothing, fragments without data and other types are ignored.            *)
do_receive ==
  /\ running /\ itr = 0
  /\ \E source \in Peers, h \in Headers :
       \/ \E size \in Sizes \ {0} : NewIncoming(source, h, size) \/ KnownIncoming(source, h, size)
       \/ Ack(source, h)
  /\ UNCHANGED <<userVars, objects, itr>>

-----------------------------------------------------------------------------
(* do_main with a transfer in the list.  Neither branch of the loop over   *)
(* the transfers moves itr, so that it never ends; a loop without effects  *)
(* that does not end is undefined, and an optimising build may leave it    *)
(* out.                                                                    *)
EnterLoop ==
  /\ running /\ itr = 0 /\ transfers # << >>
  /\ itr' = 1
  /\ UNCHANGED <<transfers, userVars, objects, completed, acked, running>>

(* A round of the loop.                                                    *)
Walk == running /\ itr # 0 /\ UNCHANGED vars

(* Without the loop do_main goes on, if the virtual functions allow it and *)
(* choose an outgoing transfer, to get_current_fragment: of fragment 0,    *)
(* whose place in fragment_status does not exist.  at throws, and nothing  *)
(* in the library catches.                                                 *)
TransmitThrows ==
  /\ running /\ itr = 0
  /\ \E i \in DOMAIN transfers : transfers[i].purpose = "OUTGOING"
  /\ running' = FALSE
  /\ UNCHANGED <<transfers, userVars, objects, completed, acked, itr>>

Next == create \/ transmit \/ do_receive \/ EnterLoop \/ Walk \/ TransmitThrows

(* main_task of the handler is called for ever.                            *)
Spec == Init /\ [][Next]_vars /\ WF_vars(EnterLoop) /\ WF_vars(Walk)

-----------------------------------------------------------------------------

Transfer == [purpose : {"INCOMING", "OUTGOING"}, peer : Peers, id : 0 .. IdMod - 1,
             total : 0 .. IndexMod - 1, size : Nat, object : Nat]

(* Every variable keeps its type.                                          *)
TypeOK ==
  /\ transfers \in Seq(Transfer) /\ transmitted \in Seq(Transfer)
  /\ id_count \in Nat /\ objects \in Nat
  /\ created \in Seq([peer : Peers, id : 0 .. IdMod - 1, object : 1 .. objects])
  /\ held \subseteq DOMAIN created
  /\ completed \in Seq(1 .. objects)
  /\ acked \subseteq [source : Peers, id : 1 .. IdMod - 1]
  /\ itr \in {0, 1} /\ running \in BOOLEAN

Key(t) == <<t.peer, t.id, t.total>>

(* A peer's transfer is collected in one place: no two incoming transfers  *)
(* have the same source, id and number of fragments, whatever comes twice  *)
(* or in any order (base_handler.hpp:92, transfer_handler.hpp:241).        *)
OneTransferPerId ==
  \A i, j \in DOMAIN transfers :
    /\ transfers[i].purpose = "INCOMING" /\ transfers[j].purpose = "INCOMING"
    /\ Key(transfers[i]) = Key(transfers[j])
    => i = j

(* No two transfers of the last IdMod - 1 created on an interface share an *)
(* id, and none has the invalid one (id_factory.hpp:49): a peer tells them *)
(* apart by it.                                                            *)
IdsApart ==
  /\ \A i \in DOMAIN created : created[i].id # 0
  /\ \A i, j \in DOMAIN created :
       i < j /\ created[i].id = created[j].id => j - i >= IdMod - 1

WasCompleted(o) == \E i \in DOMAIN completed : completed[i] = o
IsListed(o) == \E i \in DOMAIN transfers : transfers[i].object = o
Moved(k) == \E i \in DOMAIN transmitted : transmitted[i].object = created[k].object

(* Each transfer that was transmitted is in the list or was completed, not *)
(* both, and completed once, after its destination acknowledged its id.    *)
(* The event names the user's object exactly if that one was moved         *)
(* (object_id.hpp:39): an object that it still holds is never named.       *)
EachEndsOnce ==
  /\ \A i, j \in DOMAIN completed : completed[i] = completed[j] => i = j
  /\ \A i \in DOMAIN transmitted :
       LET o == transmitted[i]
       IN  /\ WasCompleted(o.object) <=> ~IsListed(o.object)
           /\ WasCompleted(o.object) => [source |-> o.peer, id |-> o.id] \in acked
  /\ \A k \in DOMAIN created : Moved(k) <=> k \notin held

(* Of two transfers a peer cannot tell apart, since the ids came round or  *)
(* one is a copy of the other, an acknowledgement ends the older.          *)
OldestFirst ==
  \A i, j \in DOMAIN transmitted :
    i < j /\ Key(transmitted[i]) = Key(transmitted[j]) /\ WasCompleted(transmitted[j].object)
      => WasCompleted(transmitted[i].object)

(* do_main returns: its loop goes through all active transfers             *)
(* (base_handler.hpp:201).                                                 *)
MainReturns == itr # 0 ~> itr = 0
=============================================================================
