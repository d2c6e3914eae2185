-------------------------------- MODULE Kiss --------------------------------
(***************************************************************************)
(* kiss_protocol: two peers that send each other packets over a line that  *)
(* keeps the order but may lose anything, acknowledge what they receive,   *)
(* send again what is not acknowledged in time, and ping after a silence.  *)
(*                                                                         *)
(* A time is kept as the time that has passed since, in ticks of the clock *)
(* and only as far as the code can tell.  Everything of one peer runs in   *)
(* one thread; the loop of main_task is one step per element.  The peers   *)
(* share only the line, at whose ends they work, so that nothing is lost   *)
(* by letting one loop run at a time.                                      *)
(***************************************************************************)
EXTENDS Naturals, Sequences, FiniteSets

CONSTANTS
  Peers,         \* the two ends of the line
  IdMod,         \* the ids are bytes: 256; smaller in TLC
  RetriesMax,    \* retries_max
  RetryHoldoff,  \* retry_holdoff, in ticks
  PingHoldoff,   \* ping_holdoff, in ticks
  Scenes,        \* what the peers, the line and the scheduler may do, see Scene
  MaxPackets     \* bound: packets each user transmits

(* pinging: the peers that have called enable_keepalive_ping; limit:       *)
(* messages under way to one peer, more are refused by                     *)
(* interface::transmit, which nobody looks at; regime: see Lose and Tick;  *)
(* users and packets: bounds on who transmits and how much.                *)
Scene == [pinging : SUBSET Peers, limit : Nat, regime : {"any", "prompt"},
          users : SUBSET Peers, packets : 0 .. MaxPackets]

ASSUME KissAssumption ==
  /\ \E p, q \in Peers : p # q /\ Peers = {p, q}
  /\ IdMod \in Nat \ {0} /\ RetriesMax \in Nat
  /\ RetryHoldoff \in Nat \ {0} /\ PingHoldoff \in Nat \ {0}
  /\ MaxPackets \in Nat
  /\ Scenes \subseteq Scene

VARIABLES
  packet_list,       \* of each peer: packets sent and not yet acknowledged
  id_counter,        \* data_handle::id_counter; each peer is a process
  it,                \* main_task's iterator: a position, 0 outside main_task
  last_transmitted,  \* ticks since
  last_received,     \* ticks since
  line,              \* of each peer: the messages under way to it
  losses,            \* messages lost, while they are counted
  scene,             \* the scene of this behaviour
  accepted,          \* packets given to transmit, numbered from 1 on
  received,          \* how often the other peer got each: receive_event
  acked, given_up    \* those taken off the list

peerVars == <<packet_list, id_counter, it, last_transmitted, last_received>>
userVars == <<accepted, received, acked, given_up>>
vars == <<peerVars, line, losses, scene, userVars>>

Idle == \A p \in Peers : it[p] = 0

Other(p) == CHOOSE q \in Peers : q # p
Smaller(a, b) == IF a < b THEN a ELSE b

(* What the silence of a living peer stays below (is_peer_alive).          *)
AliveFor(p) ==
  (IF p \in scene.pinging THEN PingHoldoff ELSE 0) + RetryHoldoff * RetriesMax

Init ==
  /\ scene \in Scenes
  /\ packet_list = [p \in Peers |-> << >>]
  /\ id_counter = [p \in Peers |-> 0]
  /\ it = [p \in Peers |-> 0]
  /\ last_transmitted = [p \in Peers |-> 0]
  /\ last_received = [p \in Peers |-> AliveFor(p)]   \* never()
  /\ line = [p \in Peers |-> << >>]
  /\ losses = 0
  /\ accepted = [p \in Peers |-> 0]
  /\ received = [p \in Peers |-> [n \in 1 .. MaxPackets |-> 0]]
  /\ acked = [p \in Peers |-> {}] /\ given_up = [p \in Peers |-> {}]

(* n is the number of a user's packet; 0 for a ping and an acknowledgement.*)
Message(type, id, n) == [type |-> type, id |-> id, n |-> n]

(* A fragment for q is handed to the interface.                            *)
Put(q, m) ==
  line' = [line EXCEPT ![q] = IF Len(@) < scene.limit THEN Append(@, m) ELSE @]

(* Definitions marked (mutant) are faulty forms of the one that follows;   *)
(* no action uses them.                                                    *)

(* data_handle::sent.                                                      *)
Sent(h) == [type |-> h.type, id |-> h.id, n |-> h.n, age |-> 0, retries |-> h.retries + 1]

NextId(p) == (id_counter[p] + 1) % IdMod

(* Bound: an id is not given again while its last use is on the list or on *)
(* the line, which with 256 ids takes 255 packets within a round trip.     *)
IdUnused(p, id) ==
  /\ \A i \in 1 .. Len(packet_list[p]) : packet_list[p][i].id # id
  /\ \A i \in 1 .. Len(line[Other(p)]) :
       line[Other(p)][i].type # "ack" => line[Other(p)][i].id # id
  /\ \A i \in 1 .. Len(line[p]) : line[p][i].type = "ack" => line[p][i].id # id

(* A new data_handle at the end of the list, sent at once.                 *)
Emplace(p, type, n) ==
  /\ id_counter' = [id_counter EXCEPT ![p] = NextId(p)]
  /\ packet_list' = [packet_list EXCEPT ![p] =
       Append(@, Sent([type |-> type, id |-> NextId(p), n |-> n,
                       age |-> 0, retries |-> 0]))]
  /\ last_transmitted' = [last_transmitted EXCEPT ![p] = 0]
  /\ Put(Other(p), Message(type, NextId(p), n))

(* transmit, by the user, or by a handler of receive_event.                *)
transmit(p) ==
  /\ Idle /\ p \in scene.users /\ accepted[p] < scene.packets /\ IdUnused(p, NextId(p))
  /\ accepted' = [accepted EXCEPT ![p] = @ + 1]
  /\ Emplace(p, "data", accepted[p] + 1)
  /\ UNCHANGED <<it, last_received, losses, scene, received, acked, given_up>>

(* (mutant) An acknowledgement of anything is taken for one of all.        *)
MatchesAny(h, id) == TRUE

Matches(h, id) == h.id = id

(* What the loop over the list leaves: it erases every packet with the id. *)
Unmatched(list, id) ==
  LET kept   == {i \in 1 .. Len(list) : ~Matches(list[i], id)}
      Nth(k) == CHOOSE i \in kept : Cardinality({j \in kept : j <= i}) = k
  IN  [k \in 1 .. Cardinality(kept) |-> list[Nth(k)]]

(* An acknowledgement takes the packets with its id off the list.          *)
ReceiveAck(p, id) ==
  /\ packet_list' = [packet_list EXCEPT ![p] = Unmatched(@, id)]
  /\ acked' = [acked EXCEPT ![p] = @ \union
       {packet_list[p][i].n : i \in {j \in 1 .. Len(packet_list[p]) :
          /\ Matches(packet_list[p][j], id) /\ packet_list[p][j].type = "data"}}]
  /\ line' = [line EXCEPT ![p] = Tail(@)]
  /\ UNCHANGED <<last_transmitted, received>>

(* Everything else is acknowledged, every time; data goes to the handler.  *)
ReceivePacket(p, m) ==
  /\ last_transmitted' = [last_transmitted EXCEPT ![p] = 0]
  /\ line' = [line EXCEPT
       ![p] = Tail(@),
       ![Other(p)] = IF Len(@) < scene.limit THEN Append(@, Message("ack", m.id, 0)) ELSE @]
  /\ received' = (IF m.type = "data"
                    THEN [received EXCEPT ![Other(p)][m.n] = @ + 1] ELSE received)
  /\ UNCHANGED <<packet_list, acked>>

(* (mutant) The time is kept only when a packet comes.                     *)
ReceiveUntimed(p) ==
  /\ Idle /\ line[p] # << >>
  /\ LET m == Head(line[p])
     IN  /\ last_received' = (IF m.type = "ack" THEN last_received
                              ELSE [last_received EXCEPT ![p] = 0])
         /\ \/ m.type = "ack" /\ ReceiveAck(p, m.id)
            \/ m.type # "ack" /\ ReceivePacket(p, m)
  /\ UNCHANGED <<id_counter, it, losses, scene, accepted, given_up>>

receive(p) ==
  /\ Idle /\ line[p] # << >>
  /\ last_received' = [last_received EXCEPT ![p] = 0]
  /\ LET m == Head(line[p])
     IN  \/ m.type = "ack" /\ ReceiveAck(p, m.id)
         \/ m.type # "ack" /\ ReceivePacket(p, m)
  /\ UNCHANGED <<id_counter, it, losses, scene, accepted, given_up>>

(***************************************************************************)
(* main_task.                                                              *)
(***************************************************************************)
transmit_expired(h) == h.age >= RetryHoldoff

(* (mutant) One send too few.                                              *)
ExhaustedEarly(h) == h.retries + 1 >= RetriesMax

retries_exhausted(h) == h.retries >= RetriesMax

Begin(p) ==
  /\ Idle /\ it' = [it EXCEPT ![p] = 1]
  /\ UNCHANGED <<packet_list, id_counter, last_transmitted, last_received, line,
                 losses, scene, userVars>>

(* The element the iterator is at.                                         *)
AtElement(p) == it[p] \in 1 .. Len(packet_list[p])
Element(p) == packet_list[p][it[p]]

Pass(p) ==
  /\ AtElement(p) /\ ~transmit_expired(Element(p))
  /\ it' = [it EXCEPT ![p] = @ + 1]
  /\ UNCHANGED <<packet_list, id_counter, last_transmitted, last_received, line,
                 losses, scene, userVars>>

(* One packet is sent again, and the call returns.                         *)
Retransmit(p) ==
  /\ AtElement(p) /\ transmit_expired(Element(p)) /\ ~retries_exhausted(Element(p))
  /\ it' = [it EXCEPT ![p] = 0]
  /\ packet_list' = [packet_list EXCEPT ![p][it[p]] = Sent(@)]
  /\ last_transmitted' = [last_transmitted EXCEPT ![p] = 0]
  /\ Put(Other(p), Message(Element(p).type, Element(p).id, Element(p).n))
  /\ UNCHANGED <<id_counter, last_received, losses, scene, userVars>>

Without(s, i) == [j \in 1 .. Len(s) - 1 |-> IF j < i THEN s[j] ELSE s[j + 1]]

(* (mutant) ++ of the end iterator stays behind the end.                   *)
AfterEraseBehind(i, left) == i + 1

(* Where the loop goes on once the element i was erased and `left' are     *)
(* left: erase returns the next element and the loop advances once more.   *)
(* Past the end the language says nothing; the circular lists of libstdc++ *)
(* begin again.                                                            *)
AfterErase(i, left) == IF i <= left THEN i + 1 ELSE 1

(* (mutant) The loop passes over it.                                       *)
DropPasses(p) ==
  /\ AtElement(p) /\ transmit_expired(Element(p)) /\ retries_exhausted(Element(p))
  /\ it' = [it EXCEPT ![p] = @ + 1]
  /\ UNCHANGED <<packet_list, id_counter, last_transmitted, last_received, line, losses,
                 scene, userVars>>

(* A packet that was sent often enough is given up.                        *)
Drop(p) ==
  /\ AtElement(p) /\ transmit_expired(Element(p)) /\ retries_exhausted(Element(p))
  /\ packet_list' = [packet_list EXCEPT ![p] = Without(@, it[p])]
  /\ given_up' = [given_up EXCEPT ![p] =
       IF Element(p).type = "data" THEN @ \union {Element(p).n} ELSE @]
  /\ it' = [it EXCEPT ![p] = AfterErase(@, Len(packet_list[p]) - 1)]
  /\ UNCHANGED <<id_counter, last_transmitted, last_received, line, losses, scene,
                 accepted, received, acked>>

PingDue(p) ==
  p \in scene.pinging /\ last_transmitted[p] >= PingHoldoff /\ IdUnused(p, NextId(p))

(* The end of the loop, and the ping.                                      *)
End(p) ==
  /\ it[p] = Len(packet_list[p]) + 1
  /\ it' = [it EXCEPT ![p] = 0]
  /\ \/ PingDue(p) /\ Emplace(p, "ping", 0)
     \/ ~PingDue(p) /\ UNCHANGED <<packet_list, id_counter, last_transmitted, line>>
  /\ UNCHANGED <<last_received, losses, scene, userVars>>

main_task(p) == Begin(p) \/ Pass(p) \/ Retransmit(p) \/ Drop(p) \/ End(p)

(***************************************************************************)
(* The line loses messages and the clock moves.  In the regime "any" they  *)
(* do so at will.  In the regime "prompt" fewer messages are lost than a   *)
(* packet is sent times, and main_task is called and messages arrive       *)
(* before the clock moves.                                                 *)
(***************************************************************************)
Lose(p) ==
  /\ Idle /\ line[p] # << >>
  /\ \E i \in 1 .. Len(line[p]) : line' = [line EXCEPT ![p] = Without(@, i)]
  /\ \/ scene.regime = "any" /\ UNCHANGED losses
     \/ scene.regime = "prompt" /\ losses + 1 < RetriesMax /\ losses' = losses + 1
  /\ UNCHANGED <<peerVars, scene, userVars>>

Settled(p) ==
  /\ line[p] = << >> /\ ~PingDue(p)
  /\ \A i \in 1 .. Len(packet_list[p]) : ~transmit_expired(packet_list[p][i])

Tick ==
  /\ Idle
  /\ scene.regime = "prompt" => \A p \in Peers : Settled(p)
  /\ packet_list' = [p \in Peers |->
       [i \in 1 .. Len(packet_list[p]) |->
          [packet_list[p][i] EXCEPT !.age = Smaller(@ + 1, RetryHoldoff)]]]
  /\ last_transmitted' = [p \in Peers |-> Smaller(last_transmitted[p] + 1, PingHoldoff)]
  /\ last_received' = [p \in Peers |-> Smaller(last_received[p] + 1, AliveFor(p))]
  /\ UNCHANGED <<id_counter, it, line, losses, scene, userVars>>

Next == \/ \E p \in Peers : transmit(p) \/ receive(p) \/ main_task(p) \/ Lose(p)
        \/ Tick

(* On both sides main_task and the interface's main_task, which receives,  *)
(* are called in turns for ever, and the clock moves; strong fairness,     *)
(* because here each waits while another one's loop runs.                  *)
Fairness == /\ \A p \in Peers : SF_vars(main_task(p)) /\ SF_vars(receive(p))
            /\ SF_vars(Tick)

Spec == Init /\ [][Next]_vars /\ Fairness

-----------------------------------------------------------------------------

Types == {"ack", "ping", "data"}

(* Every variable keeps its type, and the iterator of main_task is inside  *)
(* the list or at its end.                                                 *)
TypeOK ==
  /\ packet_list \in [Peers -> Seq([type : {"ping", "data"}, id : 0 .. IdMod - 1,
                                    n : 0 .. MaxPackets, age : 0 .. RetryHoldoff,
                                    retries : Nat])]
  /\ id_counter \in [Peers -> 0 .. IdMod - 1]
  /\ it \in [Peers -> Nat]
  /\ \A p \in Peers : it[p] <= Len(packet_list[p]) + 1
  /\ last_transmitted \in [Peers -> 0 .. PingHoldoff]
  /\ last_received \in [Peers -> Nat]
  /\ line \in [Peers -> Seq([type : Types, id : 0 .. IdMod - 1, n : 0 .. MaxPackets])]
  /\ losses \in Nat /\ scene \in Scenes
  /\ accepted \in [Peers -> 0 .. MaxPackets]
  /\ received \in [Peers -> [1 .. MaxPackets -> Nat]]
  /\ acked \in [Peers -> SUBSET (1 .. MaxPackets)]
  /\ given_up \in [Peers -> SUBSET (1 .. MaxPackets)]

(* An acknowledged packet was received, and no packet is received more     *)
(* often than max(1, retries_max) times: the protocol is AckedTransfer,    *)
(* whatever is lost, late or sent again.                                   *)
Transfer == INSTANCE AckedTransfer
              WITH MaxSends <- IF RetriesMax > 1 THEN RetriesMax ELSE 1
ImplementsAckedTransfer == Transfer!Spec

(* A packet that was accepted does not stay on the list for ever, however  *)
(* often the line fails: again and again all that was accepted is settled. *)
Drains ==
  []<>(\A p \in Peers : 1 .. accepted[p] \subseteq acked[p] \union given_up[p])

(* What p puts on its list, but for what is lost; and that the queues of a *)
(* prompt line take more than both peers put on theirs: a premise about    *)
(* the constants.                                                          *)
Share(s, p) == (IF p \in s.pinging THEN 1 ELSE 0) + (IF p \in s.users THEN s.packets ELSE 0)
Spared == IF RetriesMax = 0 THEN 0 ELSE RetriesMax - 1
Ample ==
  \A s \in Scenes : s.regime = "prompt" =>
    \A p \in Peers : Spared + Share(s, p) + Share(s, Other(p)) < s.limit

(* While fewer messages are lost than a packet is sent times, retry_holdoff*)
(* is longer than a round trip and main_task is called often enough, no    *)
(* packet is given up.                                                     *)
NoneGivenUp == scene.regime = "prompt" => \A p \in Peers : given_up[p] = {}

(* And a peer that pings, once it has heard the other, never takes it for  *)
(* dead: its silence is not longer than a ping and its retries take.       *)
is_peer_alive(p) == last_received[p] < AliveFor(p)
AliveIsSeen ==
  [][\A p \in scene.pinging :
       scene.regime = "prompt" /\ is_peer_alive(p) => is_peer_alive(p)']_vars
=============================================================================
