-------------------------------- MODULE Ports --------------------------------
(***************************************************************************)
(* The ports_handler of each device, with the bypass handler and the       *)
(* interface below it and the services above it.  Services are the objects *)
(* that were bound to a port; what they do with a packet is left to the    *)
(* module that extends this one.                                           *)
(*                                                                         *)
(* Everything on a device runs in one thread, so that a packet is handled  *)
(* in one step.  The interfaces of two devices are joined by a line that   *)
(* keeps the order and may lose anything, as LossyLine allows.             *)
(***************************************************************************)
EXTENDS Naturals, Sequences, FiniteSets

CONSTANTS
  Devices,      \* the two devices
  PortMod,      \* a port of the header is a byte: 256; smaller in TLC
  FirstFree,    \* where get_free_port begins: 100
  QueueLimit    \* fragments under way from a device; the interface refuses more

ASSUME PortsAssumption ==
  /\ Cardinality(Devices) = 2
  /\ FirstFree \in Nat \ {0} /\ PortMod \in Nat /\ FirstFree < PortMod
  /\ QueueLimit \in Nat \ {0}

VARIABLES
  services,   \* _services of each device: its endpoints, in the list's order
  line        \* the packets under way to each device

portsVars == <<services, line>>

Other(d) == CHOOSE e \in Devices : e # d

(* A service_endpoint and the object whose receive is subscribed to it.    *)
Endpoint(port, owner) == [port |-> port, owner |-> owner]

(* _find_service finds one; which: the first, should there be two.         *)
IsRegistered(list, port) == \E i \in DOMAIN list : list[i].port = port
find_service(list, port) ==
  CHOOSE i \in DOMAIN list :
    /\ list[i].port = port
    /\ \A j \in DOMAIN list : list[j].port = port => i <= j

(* The object _find_service leads to.                                      *)
ServiceAt(list, port) == list[find_service(list, port)].owner

(* get_free_port counts up, in an unsigned int, until a port is free.      *)
get_free_port(list) ==
  CHOOSE p \in FirstFree .. FirstFree + Len(list) :
    /\ ~IsRegistered(list, p)
    /\ \A q \in FirstFree .. p - 1 : IsRegistered(list, q)

(* register_service refuses the invalid port and one that is taken;        *)
(* bind_to subscribes the service's receive.                               *)
CanRegister(list, port) == port # 0 /\ ~IsRegistered(list, port)
register_service(list, port, owner) == Append(list, Endpoint(port, owner))

(* bind_to without a port takes a free one.                                *)
CanBind(list) == CanRegister(list, get_free_port(list))
bind_to(list, owner) == register_service(list, get_free_port(list), owner)

(* A list without its element i.                                           *)
Without(list, i) ==
  [j \in 1 .. Len(list) - 1 |-> IF j < i THEN list[j] ELSE list[j + 1]]

(* unregister_service erases what _find_service finds, if anything.        *)
unregister_service(list, port) ==
  IF IsRegistered(list, port) THEN Without(list, find_service(list, port)) ELSE list

(* A packet as its header writes it: ports are cut to a byte.  `to' is the *)
(* port the sender meant.                                                  *)
Packet(from, to, body) ==
  [source |-> from % PortMod, destination |-> to % PortMod, to |-> to, body |-> body]

(* What is_transmit_ready asks of a packet that has data and an address.   *)
is_transmit_ready(to) == to # 0

(* ports_handler::transmit, do_transmit of the bypass handler, which drops *)
(* what is larger than a fragment, and interface::transmit, which drops    *)
(* what finds the queue full.  Nobody is told.                             *)
Accepts(d, to, fits) ==
  is_transmit_ready(to) /\ fits /\ Len(line[Other(d)]) < QueueLimit
Transmitted(lines, d, packet) == [lines EXCEPT ![Other(d)] = Append(@, packet)]

(* The line is a queue in each direction.                                  *)
Arrives(d, packet) == line[d] # << >> /\ packet = Head(line[d])
Taken(d) == [line EXCEPT ![d] = Tail(@)]

(* ports_8b::is_valid: the check agrees, unless a port is invalid.         *)
IsValid(packet) == packet.destination # 0 /\ packet.source # 0

(* transfer_receive_callback: whom a packet is handed to, if anybody.      *)
HasReceiver(d, packet) ==
  IsValid(packet) /\ IsRegistered(services[d], packet.destination)
Receiver(d, packet) == ServiceAt(services[d], packet.destination)

(* The packet that create_response_packet makes of a received one.         *)
Response(packet, body) == Packet(packet.destination, packet.source, body)
=============================================================================
