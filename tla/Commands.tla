------------------------------ MODULE Commands ------------------------------
(***************************************************************************)
(* A command_client on one device and a command_server with an             *)
(* echo_service on the other, over Ports.  The client's user makes         *)
(* queries; the server answers each with the port of the command it        *)
(* started or with an error; a user's service on the client's device       *)
(* sends data to the ports that were announced and to the echo_service.    *)
(***************************************************************************)
EXTENDS Ports

CONSTANTS
  Client, Server,                     \* the devices
  ClientPort, ServerPort, EchoPort,   \* the ports of the three services
  UserPort,                           \* the port of the user's service
  Forms,                              \* what queries may be like, see below
  MaxQueries                          \* bound: queries of the client

ASSUME CommandsAssumption ==
  /\ Client # Server /\ Devices = {Client, Server}
  /\ {ClientPort, ServerPort, EchoPort, UserPort} \subseteq 1 .. FirstFree - 1
  /\ ClientPort # UserPort /\ ServerPort # EchoPort
  /\ Forms \subseteq {"known", "unknown", "malformed", "long"}
  /\ MaxQueries \in Nat

VARIABLES
  queries,      \* the form of each query, in the order they were made
  connections,  \* _connections of the client: the queries they were made for
  active,       \* _active_cmd of the server: the queries they were made for
  running,      \* FALSE when the server's device has called std::terminate
  status,       \* what the queries that were carried out came to
  answered,     \* what the answers the client got said, "port" or "err"
  announced,    \* the ports in them
  sent,         \* the numbers of the data the user has sent, see Data
  got,          \* who received them
  lost          \* queries and data lost or refused, or their answers

serverVars == <<active, running, status, got>>
clientVars == <<queries, connections, answered, announced, sent>>
vars == <<portsVars, serverVars, clientVars, lost>>

Query(n) == [kind |-> "query", n |-> n, port |-> 0]
Answer(n, port) == [kind |-> "answer", n |-> n, port |-> port]   \* 0: an error
(* Data for the command of query n; for the echo_service if n is 0.        *)
Data(n) == [kind |-> "data", n |-> n, port |-> 0]

(* The query or the data a packet is part of.                              *)
Subject(b) == <<IF b.kind = "data" THEN "data" ELSE "query", b.n>>

Owner(kind, n) == [kind |-> kind, n |-> n]

(* A known command is carried out: its factory gives nothing, or start     *)
(* returns one of the values of exit_status.                               *)
Statuses == {"NULL", "DONE", "CONTINUE", "ERR_ARGS", "ERR_RUNTIME"}
(* A query may also be refused: it is no object or has no "cmd", no array  *)
(* "args", or a command that nobody registered.                            *)
Refused == "REFUSED"
Says(s) == IF s \in {"DONE", "CONTINUE"} THEN "port" ELSE "err"

Init ==
  /\ services = [d \in Devices |->
       IF d = Client
         THEN <<Endpoint(ClientPort, Owner("client", 0)), Endpoint(UserPort, Owner("user", 0))>>
         ELSE <<Endpoint(ServerPort, Owner("server", 0)), Endpoint(EchoPort, Owner("echo", 0))>>]
  /\ line = [d \in Devices |-> << >>]
  /\ queries = << >> /\ connections = << >> /\ active = << >> /\ running = TRUE
  /\ status = << >> /\ answered = << >> /\ announced = << >>
  /\ sent = {} /\ got = {} /\ lost = {}

(* Definitions marked (mutant) are faulty forms of the one that follows;   *)
(* no action uses them.                                                    *)

Extended(f, n, v) == [m \in DOMAIN f \union {n} |-> IF m = n THEN v ELSE f[m]]

(* device d transmits: the packet is under way, or lost.                   *)
Transmit(d, lines, packet, fits) ==
  \/ /\ Accepts(d, packet.to, fits)
     /\ line' = Transmitted(lines, d, packet)
     /\ UNCHANGED lost
  \/ /\ ~Accepts(d, packet.to, fits)
     /\ line' = lines
     /\ lost' = lost \union {Subject(packet.body)}

(***************************************************************************)
(* The client's device.                                                    *)
(***************************************************************************)

(* send_command: a connection takes a free port and stays; the query goes  *)
(* from the client's own port.                                             *)
send_command ==
  /\ Len(queries) < MaxQueries
  /\ \E form \in Forms :
       LET n == Len(queries) + 1
       IN  /\ CanBind(services[Client])
           /\ services' = [services EXCEPT ![Client] = bind_to(@, Owner("connection", n))]
           /\ connections' = Append(connections, n)
           /\ queries' = Append(queries, form)
           /\ Transmit(Client, line, Packet(ClientPort, ServerPort, Query(n)), form # "long")
  /\ UNCHANGED <<serverVars, answered, announced, sent>>

(* The user's service sends data to a port it was told, or to be echoed.   *)
UserTransmits(n, port) ==
  /\ n \notin sent
  /\ sent' = sent \union {n}
  /\ Transmit(Client, line, Packet(UserPort, port, Data(n)), TRUE)
  /\ UNCHANGED <<services, serverVars, queries, connections, answered, announced>>

UserWrites == \/ \E n \in DOMAIN announced : UserTransmits(n, announced[n])
              \/ UserTransmits(0, EchoPort)

(* command_client::receive reads the answer; the user's service takes what *)
(* comes back from the echo_service.                                       *)
ClientReceives ==
  \E packet \in {line[Client][i] : i \in DOMAIN line[Client]} :
    /\ Arrives(Client, packet)
    /\ line' = Taken(Client)
    /\ LET b == packet.body
       IN  IF HasReceiver(Client, packet)
             THEN LET owner == Receiver(Client, packet)
                  IN  \/ /\ owner.kind = "client"
                         /\ answered' = Extended(answered, b.n, IF b.port # 0 THEN "port" ELSE "err")
                         /\ announced' = (IF b.port # 0 THEN Extended(announced, b.n, b.port)
                                          ELSE announced)
                         /\ UNCHANGED got
                      \/ /\ owner.kind # "client"
                         /\ got' = got \union {[n |-> b.n, owner |-> owner]}
                         /\ UNCHANGED <<answered, announced>>
             ELSE UNCHANGED <<answered, announced, got>>
  /\ UNCHANGED <<services, active, running, status, queries, connections, sent, lost>>

(***************************************************************************)
(* The server's device.                                                    *)
(***************************************************************************)

(* (mutant) Nothing is answered.                                           *)
RefusesSilently(n, packet) ==
  /\ status' = Extended(status, n, Refused)
  /\ line' = Taken(Server)
  /\ UNCHANGED <<services, active, lost>>

(* (mutant) The answer is that of a command that was started.              *)
RefusesWithPort(n, packet) ==
  /\ status' = Extended(status, n, Refused)
  /\ Transmit(Server, Taken(Server), Response(packet, Answer(n, FirstFree)), TRUE)
  /\ UNCHANGED <<services, active>>

(* transmit_error.                                                         *)
Refuses(n, packet) ==
  /\ status' = Extended(status, n, Refused)
  /\ Transmit(Server, Taken(Server), Response(packet, Answer(n, 0)), TRUE)
  /\ UNCHANGED <<services, active>>

(* (mutant) The command stays registered when start has failed.            *)
ReleasedWhenDone(list, s, port) ==
  IF s = "DONE" THEN unregister_service(list, port) ELSE list

(* (mutant) The comparison the wrong way round.                            *)
ReleasedInverted(list, s, port) ==
  IF s = "CONTINUE" THEN unregister_service(list, port) ELSE list

(* A command that goes on keeps its port; the others give it back.         *)
Released(list, s, port) ==
  IF s = "CONTINUE" THEN list ELSE unregister_service(list, port)

(* The factory makes an instance, it is bound to a free port and started;  *)
(* the answer is sent last.                                                *)
Starts(n, packet, s) ==
  LET port  == get_free_port(services[Server])
      bound == bind_to(services[Server], Owner("command", n))
  IN  /\ CanBind(services[Server])
      /\ status' = Extended(status, n, s)
      /\ services' = [services EXCEPT ![Server] =
           IF s = "NULL" THEN @ ELSE Released(bound, s, port)]
      /\ active' = (IF s = "CONTINUE" THEN Append(active, n) ELSE active)
      /\ Transmit(Server, Taken(Server),
                  Response(packet, Answer(n, IF Says(s) = "port" THEN port ELSE 0)), TRUE)

(* command_server::receive of a query.                                     *)
ServerAnswers(n, packet) ==
  /\ \/ queries[n] # "known" /\ Refuses(n, packet)
     \/ queries[n] = "known" /\ \E s \in Statuses : Starts(n, packet, s)
  /\ UNCHANGED <<running, got>>

(* command_server::receive of something else: decode_cbor throws out of a  *)
(* noexcept function, or happens to find something in it, no query.        *)
ServerReads(n, packet) ==
  /\ got' = got \union {[n |-> n, owner |-> Owner("server", 0)]}
  /\ \/ /\ running' = FALSE
        /\ line' = Taken(Server)
        /\ UNCHANGED lost
     \/ /\ Transmit(Server, Taken(Server), Response(packet, Data(n)), TRUE)
        /\ UNCHANGED running
  /\ UNCHANGED <<services, active, status>>

(* echo_service::receive.                                                  *)
Echoes(n, packet) ==
  /\ Transmit(Server, Taken(Server), Response(packet, Data(n)), TRUE)
  /\ UNCHANGED <<services, active, status, running, got>>

(* command_base::receive takes the data.                                   *)
CommandReceives(n, owner) ==
  /\ got' = got \union {[n |-> n, owner |-> owner]}
  /\ line' = Taken(Server)
  /\ UNCHANGED <<services, active, status, running, lost>>

ServerReceives ==
  /\ running
  /\ \E packet \in {line[Server][i] : i \in DOMAIN line[Server]} :
       /\ Arrives(Server, packet)
       /\ \/ /\ ~HasReceiver(Server, packet)
             /\ line' = Taken(Server)
             /\ lost' = lost \union {Subject(packet.body)}
             /\ UNCHANGED <<services, serverVars>>
          \/ /\ HasReceiver(Server, packet)
             /\ LET owner == Receiver(Server, packet)
                    n     == packet.body.n
                IN  \/ owner.kind = "server" /\ packet.body.kind = "query"
                       /\ ServerAnswers(n, packet)
                    \/ owner.kind = "server" /\ packet.body.kind = "data"
                       /\ ServerReads(n, packet)
                    \/ owner.kind = "echo" /\ Echoes(n, packet)
                    \/ owner.kind = "command" /\ CommandReceives(n, owner)
  /\ UNCHANGED clientVars

-----------------------------------------------------------------------------

(* A packet is lost on its way.                                            *)
Lose(d) ==
  \E i \in DOMAIN line[d] :
    /\ line' = [line EXCEPT ![d] = Without(@, i)]
    /\ lost' = lost \union {Subject(line[d][i].body)}
    /\ UNCHANGED <<services, serverVars, clientVars>>

Next == \/ send_command \/ UserWrites \/ ClientReceives \/ ServerReceives
        \/ \E d \in Devices : Lose(d)

(* main_task of both interfaces is called for ever.                        *)
Spec == Init /\ [][Next]_vars /\ WF_vars(ClientReceives) /\ WF_vars(ServerReceives)

-----------------------------------------------------------------------------

FreeRange(d) == {i \in DOMAIN services[d] : services[d][i].port >= FirstFree}

(* A port has one endpoint (ports.hpp:211), and the free range holds no    *)
(* endpoint but those of the connections and the commands that go on, one  *)
(* each: a command that has ended leaves none behind, whose object is gone *)
(* (command_server.hpp:195-200).                                           *)
EndpointsAlive ==
  /\ \A d \in Devices : \A i, j \in DOMAIN services[d] :
       services[d][i].port = services[d][j].port => i = j
  /\ Cardinality(FreeRange(Server)) = Len(active)
  /\ \A i \in FreeRange(Server) :
       services[Server][i].owner = Owner("command", active[i - 2])
  /\ Cardinality(FreeRange(Client)) = Len(connections)
  /\ \A i \in FreeRange(Client) :
       services[Client][i].owner = Owner("connection", connections[i - 2])

(* Data for a command that goes on reaches that command, if anybody, and   *)
(* data for one that has ended reaches a command, if anybody: the server   *)
(* is never terminated by it.  As long as ports fit in a byte.             *)
DataReachesItsCommand ==
  \A g \in got :
    g.n # 0 /\ announced[g.n] < PortMod =>
      /\ g.owner.kind = "command"
      /\ status[g.n] = "CONTINUE" => g.owner.n = g.n

(* Client and server implement RemoteCall, whatever is lost.               *)
Calls == INSTANCE RemoteCall
  WITH Queries  <- 1 .. MaxQueries,
       Outcomes <- {"port", "err"},
       asked    <- DOMAIN queries,
       outcome  <- [n \in DOMAIN status |-> Says(status[n])],
       answered <- answered
ImplementsRemoteCall == Calls!Spec

(* Every query gets an answer and every echo comes back, refused commands  *)
(* and failed ones included, unless a packet is lost or refused on the way *)
(* or the device has terminated.                                           *)
Answered ==
  /\ \A n \in 1 .. MaxQueries :
       n \in DOMAIN queries ~>
         n \in DOMAIN answered \/ <<"query", n>> \in lost \/ ~running
  /\ 0 \in sent ~>
         (\E g \in got : g.n = 0) \/ <<"data", 0>> \in lost \/ ~running
=============================================================================
