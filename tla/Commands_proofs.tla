--------------------------- MODULE Commands_proofs ---------------------------
(***************************************************************************)
(* Proofs about Commands, for any ports, queue limit and number of         *)
(* queries: which endpoints the devices have, which packets may be under   *)
(* way, that the client and the server implement RemoteCall, and that data *)
(* reaches the command it is for.                                          *)
(***************************************************************************)
EXTENDS Commands, FiniteSetTheorems, WellFoundedInduction, TLAPS

Kinds == {"client", "user", "server", "echo", "connection", "command"}
Owners == [kind : Kinds, n : 0 .. MaxQueries]
Endpoints == [port : Nat, owner : Owners]
Bodies == [kind : {"query", "answer", "data"}, n : 0 .. MaxQueries, port : Nat]
Packets == [source : 0 .. PortMod - 1, destination : 0 .. PortMod - 1, to : Nat, body : Bodies]

TypeOK ==
  /\ services \in [Devices -> Seq(Endpoints)] /\ line \in [Devices -> Seq(Packets)]
  /\ queries \in Seq(Forms) /\ Len(queries) <= MaxQueries
  /\ connections \in Seq(1 .. MaxQueries) /\ active \in Seq(1 .. MaxQueries)
  /\ running \in BOOLEAN
  /\ status \in [DOMAIN status -> Statuses \union {Refused}]
  /\ answered \in [DOMAIN answered -> {"port", "err"}]
  /\ announced \in [DOMAIN announced -> Nat]
  /\ DOMAIN announced \subseteq DOMAIN answered
  /\ DOMAIN answered \subseteq DOMAIN status /\ DOMAIN status \subseteq DOMAIN queries
  /\ sent \subseteq 0 .. MaxQueries
  /\ got \subseteq [n : 0 .. MaxQueries, owner : Owners]

(***************************************************************************)
(* The inductive invariant.  Its parts take the state as arguments, so     *)
(* that they can be used of the next state too.                            *)
(***************************************************************************)

(* A device has an endpoint for its two services and one for each query in *)
(* `for', in the free range, and no two of them at a port.                 *)
Ends(list, first, second, kind, for) ==
  /\ Len(list) = Len(for) + 2 /\ list[1] = first /\ list[2] = second
  /\ \A i \in 1 .. Len(for) : list[i + 2].owner = Owner(kind, for[i])
                              /\ list[i + 2].port >= FirstFree
  /\ \A i, j \in 1 .. Len(list) : list[i].port = list[j].port => i = j

ServerEnds(list, for) ==
  Ends(list, Endpoint(ServerPort, Owner("server", 0)), Endpoint(EchoPort, Owner("echo", 0)),
       "command", for)
ClientEnds(list, for) ==
  Ends(list, Endpoint(ClientPort, Owner("client", 0)), Endpoint(UserPort, Owner("user", 0)),
       "connection", for)

(* A port that may be announced for query n: a command that goes on has an *)
(* endpoint there.                                                         *)
Announces(n, port, st, list) ==
  /\ port >= FirstFree
  /\ st[n] = "CONTINUE" =>
       \E i \in 1 .. Len(list) : list[i] = Endpoint(port, Owner("command", n))

(* What may be under way to the server: queries that were not carried out  *)
(* yet and data for an announced port or the echo_service.                 *)
ForServer(p, asked, st, ann) ==
  \/ \E n \in asked \ DOMAIN st : p = Packet(ClientPort, ServerPort, Query(n))
  \/ p = Packet(UserPort, EchoPort, Data(0))
  \/ \E n \in DOMAIN ann : p = Packet(UserPort, ann[n], Data(n))

(* And to the client: answers to queries that were carried out and were    *)
(* not answered yet, and data that came back, of which none was sent to a  *)
(* port that fits in a byte.                                               *)
ForClient(p, st, done, ann, list) ==
  \/ /\ p.body.kind = "answer" /\ p.destination = ClientPort
     /\ p.body.n \in DOMAIN st \ done
     /\ IF p.body.port = 0 THEN Says(st[p.body.n]) = "err"
        ELSE Says(st[p.body.n]) = "port" /\ Announces(p.body.n, p.body.port, st, list)
  \/ /\ p.body.kind = "data" /\ p.destination = UserPort
     /\ p.body.n # 0 => p.body.n \in DOMAIN ann /\ ann[p.body.n] >= PortMod

(* No two packets of a line are about the same query.                      *)
Same(p, q) == p.body.kind # "data" /\ q.body.kind # "data" /\ p.body.n = q.body.n
Distinct(s) == \A i, j \in 1 .. Len(s) : Same(s[i], s[j]) => i = j

ServerLine(s, asked, st, ann) ==
  Distinct(s) /\ \A i \in 1 .. Len(s) : ForServer(s[i], asked, st, ann)
ClientLine(s, st, done, ann, list) ==
  Distinct(s) /\ \A i \in 1 .. Len(s) : ForClient(s[i], st, done, ann, list)

(* Who got data for the command of a query, if its port fits in a byte.    *)
GotBy(g, st, ann) ==
  g.n # 0 =>
    /\ g.n \in DOMAIN ann
    /\ ann[g.n] < PortMod => /\ g.owner.kind = "command"
                             /\ st[g.n] = "CONTINUE" => g.owner.n = g.n

EndsOK == /\ ServerEnds(services[Server], active)
          /\ ClientEnds(services[Client], connections)
LinesOK == /\ ServerLine(line[Server], DOMAIN queries, status, announced)
          /\ ClientLine(line[Client], status, DOMAIN answered, announced, services[Server])
ToldOK == /\ \A n \in DOMAIN announced : Announces(n, announced[n], status, services[Server])
         /\ \A g \in got : GotBy(g, status, announced)

CInv == TypeOK /\ EndsOK /\ LinesOK /\ ToldOK

-----------------------------------------------------------------------------

(***************************************************************************)
(* Numbers and lists.                                                      *)
(***************************************************************************)

LEMMA DivMod ==
  ASSUME NEW n \in Nat, NEW m \in Nat, m > 0
  PROVE  n = m * (n \div m) + (n % m) /\ n \div m \in Int /\ n % m \in 0 .. m - 1
BY SMT

LEMMA Multiple ==
  ASSUME NEW k \in Int, NEW m \in Nat
  PROVE  (k >= 1 => k * m >= m) /\ (k <= -1 => k * m <= -m)
<1>1. ASSUME k >= 1 PROVE k * m >= m
  BY <1>1, SMT
<1>2. ASSUME k <= -1 PROVE k * m <= -m
  BY <1>2, SMT
<1> QED
  BY <1>1, <1>2

(* A port that fits in a byte is not cut.                                  *)
LEMMA Uncut ==
  ASSUME NEW n \in Nat, NEW m \in Nat, n < m
  PROVE  n % m = n
<1> DEFINE k == n \div m
           r == n % m
<1>1. n = m * k + r /\ k \in Int /\ r \in 0 .. m - 1
  BY DivMod
<1>2. (k >= 1 => k * m >= m) /\ (k <= -1 => k * m <= -m)
  BY <1>1, Multiple
<1> HIDE DEF k, r
<1>3. m * k = k * m /\ k * m \in Int
  BY <1>1
<1>4. k = 0
  BY <1>1, <1>2, <1>3
<1>5. m * k = 0
  BY <1>4
<1>6. n = r
  BY <1>1, <1>5
<1> QED
  BY <1>6 DEF r

(* A set of numbers that is not empty has a least one.                     *)
LEMMA LeastNat ==
  ASSUME NEW S \in SUBSET Nat, S # {}
  PROVE  \E x \in S : \A y \in S : x <= y
<1> DEFINE R == OpToRel(<, Nat)
<1>1. IsWellFoundedOn(R, Nat)
  BY NatLessThanWellFounded
<1>2. PICK x \in S : \A y \in S : ~(<<y, x>> \in R)
  <2> HIDE DEF R
  <2> QED
    BY <1>1, WFMin
<1>3. \A y \in S : ~(y < x)
  BY <1>2 DEF OpToRel
<1> QED
  BY <1>3

LEMMA WithoutIs ==
  ASSUME NEW S, NEW s \in Seq(S), NEW i \in 1 .. Len(s)
  PROVE  /\ Without(s, i) \in Seq(S) /\ Len(Without(s, i)) = Len(s) - 1
         /\ \A j \in 1 .. Len(s) - 1 : Without(s, i)[j] = IF j < i THEN s[j] ELSE s[j + 1]
<1> DEFINE t == [j \in 1 .. Len(s) - 1 |-> IF j < i THEN s[j] ELSE s[j + 1]]
<1>1. Len(s) - 1 \in Nat /\ \A j \in 1 .. Len(s) - 1 : t[j] \in S
  OBVIOUS
<1>2. t \in Seq(S)
  BY <1>1
<1>3. Len(t) = Len(s) - 1
  BY <1>1, <1>2
<1> QED
  BY <1>2, <1>3 DEF Without

(* Taking the first element is taking one.                                 *)
LEMMA TailIs ==
  ASSUME NEW S, NEW s \in Seq(S), s # << >>
  PROVE  /\ 1 \in 1 .. Len(s) /\ Head(s) = s[1] /\ Head(s) \in S /\ Tail(s) = Without(s, 1)
<1>1. Len(s) \in Nat /\ Len(s) >= 1
  OBVIOUS
<1>2. Len(Without(s, 1)) = Len(s) - 1 /\ Without(s, 1) \in Seq(S)
      /\ \A j \in 1 .. Len(s) - 1 : Without(s, 1)[j] = s[j + 1]
  BY <1>1, WithoutIs
<1>3. Tail(s) \in Seq(S) /\ Len(Tail(s)) = Len(s) - 1
      /\ \A j \in 1 .. Len(s) - 1 : Tail(s)[j] = s[j + 1]
  BY <1>1
<1>4. Tail(s) = Without(s, 1)
  BY <1>1, <1>2, <1>3
<1> QED
  BY <1>1, <1>4

(***************************************************************************)
(* The endpoints of a device.                                              *)
(***************************************************************************)

(* There is a free port, however many services there are.                  *)
LEMMA FreePort ==
  ASSUME NEW list \in Seq(Endpoints)
  PROVE  /\ get_free_port(list) \in Nat /\ get_free_port(list) >= FirstFree
         /\ ~IsRegistered(list, get_free_port(list)) /\ CanBind(list)
<1> DEFINE Candidates == FirstFree .. FirstFree + Len(list)
           Free == {p \in Candidates : ~IsRegistered(list, p)}
           At(p) == CHOOSE i \in 1 .. Len(list) : list[i].port = p
           f == [p \in Candidates |-> At(p)]
<1>1. Len(list) \in Nat /\ FirstFree \in Nat /\ FirstFree > 0 /\ DOMAIN list = 1 .. Len(list)
  BY PortsAssumption
<1>2. Free # {}
  <2> SUFFICES ASSUME \A p \in Candidates : IsRegistered(list, p)
               PROVE  FALSE
    OBVIOUS
  <2>1. \A p \in Candidates : \E i \in 1 .. Len(list) : list[i].port = p
    BY <1>1 DEF IsRegistered
  <2>2. \A p \in Candidates : At(p) \in 1 .. Len(list) /\ list[At(p)].port = p
    BY <2>1
  <2>3. f \in [Candidates -> 1 .. Len(list)]
    BY <2>2
  <2>4. IsFiniteSet(Candidates) /\ Cardinality(Candidates) = Len(list) + 1
    <3>1. FirstFree \in Int /\ FirstFree + Len(list) \in Int
      BY <1>1
    <3>2. /\ IsFiniteSet(Candidates)
          /\ Cardinality(Candidates) = IF FirstFree > FirstFree + Len(list) THEN 0
                                  ELSE (FirstFree + Len(list)) - FirstFree + 1
      BY <3>1, FS_Interval
    <3> QED
      BY <3>2, <1>1
  <2>5. IsFiniteSet(1 .. Len(list)) /\ Cardinality(1 .. Len(list)) = Len(list)
    <3>1. /\ IsFiniteSet(1 .. Len(list))
          /\ Cardinality(1 .. Len(list)) = IF 1 > Len(list) THEN 0 ELSE Len(list) - 1 + 1
      BY <1>1, FS_Interval
    <3> QED
      BY <3>1, <1>1
  <2>6. Cardinality(1 .. Len(list)) < Cardinality(Candidates)
    BY <2>4, <2>5, <1>1
  <2> HIDE DEF f
  <2>7. PICK p, q \in Candidates : p # q /\ f[p] = f[q]
    <3> HIDE DEF Candidates
    <3> QED
      BY <2>3, <2>4, <2>5, <2>6, FS_PigeonHole
  <2>8. f[p] = At(p) /\ f[q] = At(q)
    BY <2>7 DEF f
  <2> HIDE DEF Candidates, At
  <2> QED
    BY <2>2, <2>7, <2>8
<1>3. Free \in SUBSET Nat
  BY <1>1
<1>4. PICK p \in Free : \A q \in Free : p <= q
  BY <1>2, <1>3, LeastNat
<1>5. p \in Candidates /\ ~IsRegistered(list, p)
  OBVIOUS
<1>6. \A q \in FirstFree .. p - 1 : IsRegistered(list, q)
  <2> SUFFICES ASSUME NEW q \in FirstFree .. p - 1, ~IsRegistered(list, q)
               PROVE  FALSE
    OBVIOUS
  <2>1. p \in Nat /\ q \in Candidates /\ q < p
    BY <1>1, <1>5
  <2> QED
    BY <2>1, <1>4
<1>7. get_free_port(list) \in Candidates /\ ~IsRegistered(list, get_free_port(list))
  BY <1>5, <1>6 DEF get_free_port
<1>8. get_free_port(list) \in Nat /\ get_free_port(list) >= FirstFree
  BY <1>7, <1>1
<1> QED
  BY <1>7, <1>8, <1>1 DEF CanBind, CanRegister

(* _find_service finds the endpoint at a port, as there is only one.       *)
LEMMA FindIs ==
  ASSUME NEW list \in Seq(Endpoints), NEW i \in 1 .. Len(list),
         \A j \in 1 .. Len(list) : list[j].port = list[i].port => j = i
  PROVE  /\ IsRegistered(list, list[i].port) /\ find_service(list, list[i].port) = i
         /\ ServiceAt(list, list[i].port) = list[i].owner
<1>1. DOMAIN list = 1 .. Len(list) /\ Len(list) \in Nat
  OBVIOUS
<1>2. IsRegistered(list, list[i].port)
  BY <1>1 DEF IsRegistered
<1>3. find_service(list, list[i].port) = i
  BY <1>1 DEF find_service
<1> QED
  BY <1>2, <1>3 DEF ServiceAt

LEMMA AppendIs ==
  ASSUME NEW S, NEW s \in Seq(S), NEW x \in S
  PROVE  /\ Append(s, x) \in Seq(S) /\ Len(Append(s, x)) = Len(s) + 1
         /\ Append(s, x)[Len(s) + 1] = x
         /\ \A i \in 1 .. Len(s) : Append(s, x)[i] = s[i]
OBVIOUS

(* An endpoint that was bound last and is unregistered leaves the list as  *)
(* it was.                                                                 *)
LEMMA Unregistered ==
  ASSUME NEW list \in Seq(Endpoints), NEW e \in Endpoints, ~IsRegistered(list, e.port)
  PROVE  unregister_service(Append(list, e), e.port) = list
<1> DEFINE bound == Append(list, e)
           last == Len(list) + 1
<1>1. /\ bound \in Seq(Endpoints) /\ Len(bound) = last /\ bound[last] = e
      /\ \A i \in 1 .. Len(list) : bound[i] = list[i]
  BY AppendIs
<1>2. last \in 1 .. Len(bound) /\ Len(list) \in Nat
  BY <1>1
<1>3. \A j \in 1 .. Len(list) : list[j].port # e.port
  BY DEF IsRegistered
<1> HIDE DEF bound
<1>4. \A j \in 1 .. Len(bound) : bound[j].port = bound[last].port => j = last
  BY <1>1, <1>2, <1>3
<1>5. IsRegistered(bound, e.port) /\ find_service(bound, e.port) = last
  BY <1>1, <1>2, <1>4, FindIs
<1>6. unregister_service(bound, e.port) = Without(bound, last)
  BY <1>5 DEF unregister_service
<1>7. /\ Without(bound, last) \in Seq(Endpoints) /\ Len(Without(bound, last)) = Len(list)
      /\ \A j \in 1 .. Len(list) : Without(bound, last)[j] = bound[j]
  <2>1. /\ Without(bound, last) \in Seq(Endpoints) /\ Len(Without(bound, last)) = Len(bound) - 1
        /\ \A j \in 1 .. Len(bound) - 1 :
             Without(bound, last)[j] = IF j < last THEN bound[j] ELSE bound[j + 1]
    <3> HIDE DEF last
    <3> QED
      BY <1>1, <1>2, WithoutIs
  <2>2. Len(bound) - 1 = Len(list)
    BY <1>1, <1>2
  <2> QED
    BY <1>2, <2>1, <2>2
<1>8. Without(bound, last) = list
  BY <1>1, <1>2, <1>7
<1> QED
  BY <1>6, <1>8 DEF bound

(* A service bound to a free port takes its place behind the others.       *)
LEMMA EndsBound ==
  ASSUME NEW list \in Seq(Endpoints), NEW first, NEW second, NEW kind \in Kinds,
         NEW for \in Seq(1 .. MaxQueries), NEW n \in 1 .. MaxQueries,
         Ends(list, first, second, kind, for)
  PROVE  /\ bind_to(list, Owner(kind, n)) = Append(list, Endpoint(get_free_port(list), Owner(kind, n)))
         /\ Endpoint(get_free_port(list), Owner(kind, n)) \in Endpoints
         /\ bind_to(list, Owner(kind, n)) \in Seq(Endpoints)
         /\ Ends(bind_to(list, Owner(kind, n)), first, second, kind, Append(for, n))
<1> DEFINE port == get_free_port(list)
           e == Endpoint(port, Owner(kind, n))
           list2 == Append(list, e)
           for2 == Append(for, n)
<1>1. port \in Nat /\ port >= FirstFree /\ ~IsRegistered(list, port)
  BY FreePort
<1>2. bind_to(list, Owner(kind, n)) = list2
  BY DEF bind_to, register_service
<1>3. Owner(kind, n) \in Owners
  BY CommandsAssumption DEF Owner, Owners
<1>4. e \in Endpoints /\ e.port = port /\ e.owner = Owner(kind, n)
  BY <1>1, <1>3 DEF Endpoint, Endpoints
<1>5. /\ list2 \in Seq(Endpoints) /\ Len(list2) = Len(list) + 1
      /\ list2[Len(list) + 1] = e /\ \A i \in 1 .. Len(list) : list2[i] = list[i]
  BY <1>4, AppendIs
<1>6. /\ Len(for2) = Len(for) + 1
      /\ for2[Len(for) + 1] = n /\ \A i \in 1 .. Len(for) : for2[i] = for[i]
  BY AppendIs
<1>7. Len(list) = Len(for) + 2 /\ Len(for) \in Nat
  BY DEF Ends
<1>8. \A j \in 1 .. Len(list) : list[j].port # port
  BY <1>1 DEF IsRegistered
<1> HIDE DEF port, e, list2, for2
<1>9. Len(list2) = Len(for2) + 2 /\ list2[1] = first /\ list2[2] = second
  BY <1>5, <1>6, <1>7 DEF Ends
<1>10. ASSUME NEW i \in 1 .. Len(for2)
       PROVE  list2[i + 2].owner = Owner(kind, for2[i]) /\ list2[i + 2].port >= FirstFree
  <2>1. CASE i = Len(for2)
    BY <2>1, <1>1, <1>4, <1>5, <1>6, <1>7
  <2>2. CASE i # Len(for2)
    <3>1. i \in 1 .. Len(for) /\ i + 2 \in 1 .. Len(list)
      BY <2>2, <1>6, <1>7
    <3> QED
      BY <3>1, <1>5, <1>6 DEF Ends
  <2> QED
    BY <2>1, <2>2
<1>11. ASSUME NEW i \in 1 .. Len(list2), NEW j \in 1 .. Len(list2), list2[i].port = list2[j].port
       PROVE  i = j
  <2>1. /\ i \in 1 .. Len(list) \/ i = Len(list) + 1
        /\ j \in 1 .. Len(list) \/ j = Len(list) + 1
    BY <1>5, <1>7
  <2> QED
    BY <2>1, <1>4, <1>5, <1>8, <1>11 DEF Ends
<1>12. Ends(list2, first, second, kind, for2)
  BY <1>9, <1>10, <1>11 DEF Ends
<1> QED
  BY <1>2, <1>4, <1>5, <1>12 DEF port, e, list2, for2

(* Which objects the ports of the server lead to.                          *)
LEMMA ServerAt ==
  ASSUME NEW list \in Seq(Endpoints), NEW for \in Seq(1 .. MaxQueries), ServerEnds(list, for)
  PROVE  /\ ServiceAt(list, ServerPort) = Owner("server", 0)
         /\ ServiceAt(list, EchoPort) = Owner("echo", 0)
         /\ \A i \in 1 .. Len(list) : ServiceAt(list, list[i].port) = list[i].owner
         /\ \A port \in Nat : port >= FirstFree /\ IsRegistered(list, port) =>
              ServiceAt(list, port).kind = "command"
<1>1. /\ Len(list) = Len(for) + 2 /\ Len(for) \in Nat
      /\ list[1] = Endpoint(ServerPort, Owner("server", 0))
      /\ list[2] = Endpoint(EchoPort, Owner("echo", 0))
      /\ \A i \in 1 .. Len(for) : list[i + 2].owner = Owner("command", for[i])
      /\ \A i, j \in 1 .. Len(list) : list[i].port = list[j].port => i = j
  BY DEF ServerEnds, Ends
<1>2. \A i \in 1 .. Len(list) : ServiceAt(list, list[i].port) = list[i].owner
  BY <1>1, FindIs
<1>3. 1 \in 1 .. Len(list) /\ 2 \in 1 .. Len(list)
  BY <1>1
<1>4. /\ list[1].port = ServerPort /\ list[1].owner = Owner("server", 0)
      /\ list[2].port = EchoPort /\ list[2].owner = Owner("echo", 0)
  BY <1>1 DEF Endpoint
<1>5. ASSUME NEW port \in Nat, port >= FirstFree, IsRegistered(list, port)
      PROVE  ServiceAt(list, port).kind = "command"
  <2>1. PICK i \in 1 .. Len(list) : list[i].port = port
    BY <1>5 DEF IsRegistered
  <2>2. i # 1 /\ i # 2
    BY <1>4, <1>5, <2>1, PortsAssumption, CommandsAssumption
  <2>3. i - 2 \in 1 .. Len(for) /\ (i - 2) + 2 = i
    BY <1>1, <2>1, <2>2
  <2>4. list[i].owner = Owner("command", for[i - 2])
    BY <1>1, <2>3
  <2> QED
    BY <1>2, <2>1, <2>4 DEF Owner
<1> QED
  BY <1>2, <1>3, <1>4, <1>5

LEMMA ClientAt ==
  ASSUME NEW list \in Seq(Endpoints), NEW for \in Seq(1 .. MaxQueries), ClientEnds(list, for)
  PROVE  /\ ServiceAt(list, ClientPort) = Owner("client", 0)
         /\ ServiceAt(list, UserPort) = Owner("user", 0)
<1>1. /\ Len(list) = Len(for) + 2 /\ Len(for) \in Nat
      /\ list[1] = Endpoint(ClientPort, Owner("client", 0))
      /\ list[2] = Endpoint(UserPort, Owner("user", 0))
      /\ \A i, j \in 1 .. Len(list) : list[i].port = list[j].port => i = j
  BY DEF ClientEnds, Ends
<1>2. \A i \in 1 .. Len(list) : ServiceAt(list, list[i].port) = list[i].owner
  BY <1>1, FindIs
<1>3. 1 \in 1 .. Len(list) /\ 2 \in 1 .. Len(list)
  BY <1>1
<1> QED
  BY <1>1, <1>2, <1>3 DEF Endpoint

(***************************************************************************)
(* Packets.                                                                *)
(***************************************************************************)

LEMMA DevicesAre == Client \in Devices /\ Server \in Devices /\ Client # Server
                  /\ Other(Client) = Server /\ Other(Server) = Client
                  /\ Devices = {Client, Server}
<1>1. Client # Server /\ Devices = {Client, Server}
  BY CommandsAssumption
<1> QED
  BY <1>1 DEF Other

LEMMA PortsAre ==
  /\ PortMod \in Nat /\ PortMod > 0 /\ FirstFree \in Nat /\ FirstFree < PortMod /\ FirstFree > 0
  /\ \A port \in {ClientPort, ServerPort, EchoPort, UserPort} :
       port \in Nat /\ port > 0 /\ port < FirstFree /\ port % PortMod = port
<1>1. PortMod \in Nat /\ PortMod > 0 /\ FirstFree \in Nat /\ FirstFree < PortMod /\ FirstFree > 0
  BY PortsAssumption
<1>2. ASSUME NEW port \in {ClientPort, ServerPort, EchoPort, UserPort}
      PROVE  port \in Nat /\ port > 0 /\ port < FirstFree /\ port % PortMod = port
  <2>1. port \in Nat /\ port > 0 /\ port < FirstFree
    BY <1>1, CommandsAssumption
  <2>2. port % PortMod = port
    BY <1>1, <2>1, Uncut
  <2> QED
    BY <2>1, <2>2
<1> QED
  BY <1>1, <1>2

LEMMA PacketIs ==
  ASSUME NEW from \in Nat, NEW to \in Nat, NEW body \in Bodies
  PROVE  /\ Packet(from, to, body) \in Packets
         /\ Packet(from, to, body).body = body
         /\ Packet(from, to, body).source = from % PortMod
         /\ Packet(from, to, body).destination = to % PortMod
         /\ Packet(from, to, body).to = to
<1>1. from % PortMod \in 0 .. PortMod - 1 /\ to % PortMod \in 0 .. PortMod - 1
  BY PortsAre, DivMod
<1> QED
  BY <1>1 DEF Packet, Packets

LEMMA BodiesAre ==
  ASSUME NEW n \in 0 .. MaxQueries, NEW port \in Nat
  PROVE  Query(n) \in Bodies /\ Answer(n, port) \in Bodies /\ Data(n) \in Bodies
BY DEF Query, Answer, Data, Bodies

(* The packets that are sent to the server.                                *)
LEMMA QueryIs ==
  ASSUME NEW n \in 0 .. MaxQueries
  PROVE  LET p == Packet(ClientPort, ServerPort, Query(n))
         IN  /\ p \in Packets /\ p.destination = ServerPort /\ p.source = ClientPort
             /\ p.body.kind = "query" /\ p.body.n = n
<1> DEFINE p == Packet(ClientPort, ServerPort, Query(n))
<1>1. Query(n) \in Bodies /\ ClientPort \in Nat /\ ServerPort \in Nat
  BY PortsAre, BodiesAre
<1>2. /\ p \in Packets /\ p.body = Query(n) /\ p.source = ClientPort % PortMod
      /\ p.destination = ServerPort % PortMod
  BY <1>1, PacketIs
<1> QED
  BY <1>2, PortsAre DEF Query

LEMMA DataIs ==
  ASSUME NEW n \in 0 .. MaxQueries, NEW to \in Nat
  PROVE  LET p == Packet(UserPort, to, Data(n))
         IN  /\ p \in Packets /\ p.source = UserPort
             /\ p.destination = to % PortMod /\ (to < PortMod => p.destination = to)
             /\ p.body.kind = "data" /\ p.body.n = n
<1> DEFINE p == Packet(UserPort, to, Data(n))
<1>1. Data(n) \in Bodies /\ UserPort \in Nat
  BY PortsAre, BodiesAre
<1>2. /\ p \in Packets /\ p.body = Data(n) /\ p.source = UserPort % PortMod
      /\ p.destination = to % PortMod
  BY <1>1, PacketIs
<1>3. to < PortMod => to % PortMod = to
  BY PortsAre, Uncut
<1> QED
  BY <1>2, <1>3, PortsAre DEF Data

(* A response goes to the port the packet came from.                       *)
LEMMA ResponseIs ==
  ASSUME NEW q \in Packets, NEW body \in Bodies
  PROVE  /\ Response(q, body) \in Packets /\ Response(q, body).body = body
         /\ Response(q, body).destination = q.source
<1>1. /\ q.source \in Nat /\ q.source < PortMod /\ q.destination \in Nat
  BY PortsAre DEF Packets
<1>2. q.source % PortMod = q.source
  BY <1>1, PortsAre, Uncut
<1> QED
  BY <1>1, <1>2, PacketIs DEF Response

(***************************************************************************)
(* Lines.                                                                  *)
(***************************************************************************)

LEMMA DistinctWithout ==
  ASSUME NEW s \in Seq(Packets), NEW i \in 1 .. Len(s), Distinct(s)
  PROVE  /\ Without(s, i) \in Seq(Packets) /\ Distinct(Without(s, i))
         /\ \A j \in 1 .. Len(Without(s, i)) : /\ \E k \in 1 .. Len(s) : Without(s, i)[j] = s[k]
                                               /\ ~Same(Without(s, i)[j], s[i])
<1> DEFINE t == Without(s, i)
           At(j) == IF j < i THEN j ELSE j + 1
<1>1. /\ t \in Seq(Packets) /\ Len(t) = Len(s) - 1
      /\ \A j \in 1 .. Len(s) - 1 : t[j] = IF j < i THEN s[j] ELSE s[j + 1]
  BY WithoutIs
<1>2. Len(s) \in Nat
  OBVIOUS
<1>3. ASSUME NEW j \in 1 .. Len(t)
      PROVE  At(j) \in 1 .. Len(s) /\ At(j) # i /\ t[j] = s[At(j)]
  BY <1>1, <1>2
<1>4. \A j, k \in 1 .. Len(t) : At(j) = At(k) => j = k
  BY <1>1, <1>2
<1> HIDE DEF t, At
<1>5. Distinct(t)
  <2> SUFFICES ASSUME NEW j \in 1 .. Len(t), NEW k \in 1 .. Len(t), Same(t[j], t[k])
               PROVE  j = k
    BY DEF Distinct
  <2>1. Same(s[At(j)], s[At(k)]) /\ At(j) \in 1 .. Len(s) /\ At(k) \in 1 .. Len(s)
    BY <1>3
  <2>2. At(j) = At(k)
    BY <2>1 DEF Distinct
  <2> QED
    BY <2>2, <1>4
<1>6. \A j \in 1 .. Len(t) : ~Same(t[j], s[i])
  BY <1>3 DEF Distinct
<1> QED
  BY <1>1, <1>3, <1>5, <1>6 DEF t

LEMMA DistinctAppend ==
  ASSUME NEW s \in Seq(Packets), NEW p \in Packets, Distinct(s),
         \A i \in 1 .. Len(s) : ~Same(s[i], p)
  PROVE  /\ Append(s, p) \in Seq(Packets) /\ Distinct(Append(s, p))
         /\ \A j \in 1 .. Len(Append(s, p)) :
              Append(s, p)[j] = p \/ \E k \in 1 .. Len(s) : Append(s, p)[j] = s[k]
<1> DEFINE t == Append(s, p)
<1>1. /\ t \in Seq(Packets) /\ Len(t) = Len(s) + 1 /\ t[Len(s) + 1] = p
      /\ \A i \in 1 .. Len(s) : t[i] = s[i]
  BY AppendIs
<1>2. Len(s) \in Nat
  OBVIOUS
<1> HIDE DEF t
<1>3. \A j \in 1 .. Len(t) : j = Len(s) + 1 \/ j \in 1 .. Len(s)
  BY <1>1, <1>2
<1>4. Distinct(t)
  <2> SUFFICES ASSUME NEW j \in 1 .. Len(t), NEW k \in 1 .. Len(t), Same(t[j], t[k])
               PROVE  j = k
    BY DEF Distinct
  <2>1. \A i \in 1 .. Len(s) : ~Same(p, s[i])
    BY DEF Same
  <2> QED
    BY <1>1, <1>3, <2>1 DEF Distinct
<1> QED
  BY <1>1, <1>3, <1>4 DEF t

(***************************************************************************)
(* What stays true while the state grows.                                  *)
(***************************************************************************)

Agrees(f, g) == DOMAIN f \subseteq DOMAIN g /\ \A x \in DOMAIN f : g[x] = f[x]
Begins(s, t) == Len(s) <= Len(t) /\ \A i \in 1 .. Len(s) : t[i] = s[i]

LEMMA ExtendedIs ==
  ASSUME NEW f, NEW n, NEW v, n \notin DOMAIN f
  PROVE  /\ Agrees(f, Extended(f, n, v)) /\ Extended(f, n, v)[n] = v
         /\ DOMAIN Extended(f, n, v) = DOMAIN f \union {n}
BY DEF Extended, Agrees

LEMMA AnnouncesStays ==
  ASSUME NEW n, NEW port, NEW st, NEW list \in Seq(Endpoints), NEW st2, NEW list2 \in Seq(Endpoints),
         Announces(n, port, st, list), n \in DOMAIN st, Agrees(st, st2), Begins(list, list2)
  PROVE  Announces(n, port, st2, list2)
<1>1. port >= FirstFree /\ st2[n] = st[n]
  BY DEF Announces, Agrees
<1>2. ASSUME st2[n] = "CONTINUE"
      PROVE  \E i \in 1 .. Len(list2) : list2[i] = Endpoint(port, Owner("command", n))
  <2>1. PICK i \in 1 .. Len(list) : list[i] = Endpoint(port, Owner("command", n))
    BY <1>1, <1>2 DEF Announces
  <2>2. i \in 1 .. Len(list2) /\ list2[i] = list[i]
    BY DEF Begins
  <2> QED
    BY <2>1, <2>2
<1> QED
  BY <1>1, <1>2 DEF Announces

LEMMA ForServerStays ==
  ASSUME NEW p, NEW asked \in SUBSET (1 .. MaxQueries), NEW st, NEW ann,
         NEW asked2, NEW st2, NEW ann2,
         ForServer(p, asked, st, ann), asked \subseteq asked2, Agrees(ann, ann2),
         p.body.kind = "query" => p.body.n \notin DOMAIN st2
  PROVE  ForServer(p, asked2, st2, ann2)
<1>1. CASE \E n \in asked \ DOMAIN st : p = Packet(ClientPort, ServerPort, Query(n))
  <2>1. PICK n \in asked \ DOMAIN st : p = Packet(ClientPort, ServerPort, Query(n))
    BY <1>1
  <2>2. n \in 0 .. MaxQueries
    BY CommandsAssumption
  <2>3. p.body.kind = "query" /\ p.body.n = n
    BY <2>1, <2>2, QueryIs
  <2>4. n \in asked2 \ DOMAIN st2
    BY <2>3
  <2> QED
    BY <2>1, <2>4 DEF ForServer
<1>2. CASE \E n \in DOMAIN ann : p = Packet(UserPort, ann[n], Data(n))
  BY <1>2 DEF ForServer, Agrees
<1> QED
  BY <1>1, <1>2 DEF ForServer

LEMMA ForClientStays ==
  ASSUME NEW p, NEW st, NEW done, NEW ann, NEW list \in Seq(Endpoints),
         NEW st2, NEW done2, NEW ann2, NEW list2 \in Seq(Endpoints),
         ForClient(p, st, done, ann, list), Agrees(st, st2), Agrees(ann, ann2),
         Begins(list, list2), p.body.kind = "answer" => p.body.n \notin done2
  PROVE  ForClient(p, st2, done2, ann2, list2)
<1>1. CASE p.body.kind = "answer"
  <2>1. /\ p.destination = ClientPort /\ p.body.n \in DOMAIN st
        /\ IF p.body.port = 0 THEN Says(st[p.body.n]) = "err"
           ELSE Says(st[p.body.n]) = "port" /\ Announces(p.body.n, p.body.port, st, list)
    BY <1>1 DEF ForClient
  <2>2. p.body.n \in DOMAIN st2 \ done2 /\ st2[p.body.n] = st[p.body.n]
    BY <1>1, <2>1 DEF Agrees
  <2>3. p.body.port # 0 => Announces(p.body.n, p.body.port, st2, list2)
    BY <2>1, AnnouncesStays
  <2> QED
    BY <1>1, <2>1, <2>2, <2>3 DEF ForClient
<1>2. CASE p.body.kind # "answer"
  BY <1>2 DEF ForClient, Agrees
<1> QED
  BY <1>1, <1>2

LEMMA GotByStays ==
  ASSUME NEW g, NEW st, NEW ann, NEW st2, NEW ann2,
         GotBy(g, st, ann), Agrees(st, st2), Agrees(ann, ann2), DOMAIN ann \subseteq DOMAIN st
  PROVE  GotBy(g, st2, ann2)
BY DEF GotBy, Agrees

(* A packet of a line is one of those described.                           *)
LEMMA ForServerIs ==
  ASSUME NEW p, NEW asked \in SUBSET (1 .. MaxQueries), NEW st, NEW ann,
         ann \in [DOMAIN ann -> Nat], DOMAIN ann \subseteq 1 .. MaxQueries, ForServer(p, asked, st, ann)
  PROVE  /\ p.body.n \in 0 .. MaxQueries
         /\ \/ /\ p.body.kind = "query" /\ p.body.n \in asked \ DOMAIN st
               /\ p.source = ClientPort /\ p.destination = ServerPort
            \/ /\ p.body.kind = "data" /\ p.source = UserPort
               /\ p.body.n # 0 => /\ p.body.n \in DOMAIN ann
                                  /\ ann[p.body.n] < PortMod => p.destination = ann[p.body.n]
<1>0. MaxQueries \in Nat
  BY CommandsAssumption
<1>1. CASE \E n \in asked \ DOMAIN st : p = Packet(ClientPort, ServerPort, Query(n))
  BY <1>0, <1>1, QueryIs
<1>2. CASE p = Packet(UserPort, EchoPort, Data(0))
  BY <1>0, <1>2, DataIs, PortsAre
<1>3. CASE \E n \in DOMAIN ann : p = Packet(UserPort, ann[n], Data(n))
  <2>1. PICK n \in DOMAIN ann : p = Packet(UserPort, ann[n], Data(n))
    BY <1>3
  <2>2. n \in 0 .. MaxQueries /\ ann[n] \in Nat
    BY <1>0
  <2> QED
    BY <2>1, <2>2, DataIs
<1> QED
  BY <1>1, <1>2, <1>3 DEF ForServer

(* The types that the proofs of the steps need most.                       *)
LEMMA Facts ==
  ASSUME CInv
  PROVE  /\ line[Server] \in Seq(Packets) /\ line[Client] \in Seq(Packets)
         /\ services[Server] \in Seq(Endpoints) /\ services[Client] \in Seq(Endpoints)
         /\ DOMAIN queries = 1 .. Len(queries) /\ Len(queries) \in 0 .. MaxQueries
         /\ DOMAIN queries \subseteq 1 .. MaxQueries
         /\ DOMAIN announced \subseteq 1 .. MaxQueries
         /\ DOMAIN announced \subseteq DOMAIN status /\ announced \in [DOMAIN announced -> Nat]
         /\ MaxQueries \in Nat
<1>1. MaxQueries \in Nat
  BY CommandsAssumption
<1>2. line[Server] \in Seq(Packets) /\ line[Client] \in Seq(Packets)
  BY DevicesAre DEF CInv, TypeOK
<1>3. services[Server] \in Seq(Endpoints) /\ services[Client] \in Seq(Endpoints)
  BY DevicesAre DEF CInv, TypeOK
<1>4. DOMAIN queries = 1 .. Len(queries) /\ Len(queries) \in 0 .. MaxQueries
  <2>1. queries \in Seq(Forms) /\ Len(queries) <= MaxQueries
    BY DEF CInv, TypeOK
  <2> QED
    BY <1>1, <2>1
<1>5. DOMAIN queries \subseteq 1 .. MaxQueries
  BY <1>1, <1>4
<1>6. DOMAIN announced \subseteq 1 .. MaxQueries /\ DOMAIN announced \subseteq DOMAIN status
      /\ announced \in [DOMAIN announced -> Nat]
  BY <1>5 DEF CInv, TypeOK
<1> QED
  BY <1>1, <1>2, <1>3, <1>4, <1>5, <1>6

(* device d transmits: its own line is left, the other gets the packet or  *)
(* nothing.                                                                *)
LEMMA TransmitIs ==
  ASSUME NEW d \in Devices, NEW lines \in [Devices -> Seq(Packets)], NEW packet \in Packets,
         NEW fits, Transmit(d, lines, packet, fits)
  PROVE  /\ line' \in [Devices -> Seq(Packets)] /\ line'[d] = lines[d]
         /\ line'[Other(d)] \in {lines[Other(d)], Append(lines[Other(d)], packet)}
<1>1. Other(d) \in Devices /\ Other(d) # d
  BY DevicesAre
<1>2. lines[Other(d)] \in Seq(Packets)
  BY <1>1
<1>3. Append(lines[Other(d)], packet) \in Seq(Packets)
  BY <1>2
<1>4. \/ line' = lines
      \/ line' = [lines EXCEPT ![Other(d)] = Append(lines[Other(d)], packet)]
  BY DEF Transmit, Transmitted
<1> QED
  BY <1>1, <1>3, <1>4

(* Taking the first packet of a line.                                      *)
LEMMA TakenIs ==
  ASSUME NEW d \in Devices, NEW packet, line \in [Devices -> Seq(Packets)], Arrives(d, packet)
  PROVE  /\ Taken(d) \in [Devices -> Seq(Packets)] /\ packet = line[d][1] /\ packet \in Packets
         /\ 1 \in 1 .. Len(line[d]) /\ Taken(d)[d] = Without(line[d], 1)
         /\ Taken(d)[Other(d)] = line[Other(d)]
<1>1. line[d] \in Seq(Packets) /\ line[d] # << >> /\ packet = Head(line[d])
  BY DEF Arrives
<1>2. /\ 1 \in 1 .. Len(line[d]) /\ Head(line[d]) = line[d][1] /\ Head(line[d]) \in Packets
      /\ Tail(line[d]) = Without(line[d], 1)
  BY <1>1, TailIs
<1>3. Tail(line[d]) \in Seq(Packets)
  BY <1>1
<1>4. Other(d) # d /\ Other(d) \in Devices
  BY DevicesAre
<1>5. Taken(d) = [line EXCEPT ![d] = Tail(line[d])]
  BY DEF Taken
<1> QED
  BY <1>1, <1>2, <1>3, <1>4, <1>5

-----------------------------------------------------------------------------

(***************************************************************************)
(* The steps.                                                              *)
(***************************************************************************)

LEMMA Stutters ==
  ASSUME UNCHANGED <<queries, status, answered>>
  PROVE  UNCHANGED Calls!vars
BY DEF Calls!vars

(* Packets of the server's line stay good when a step takes none of them   *)
(* but those whose query it carries out.                                   *)
LEMMA ServerLineStays ==
  ASSUME CInv, NEW t \in Seq(Packets), Distinct(t),
         \A j \in 1 .. Len(t) : \E k \in 1 .. Len(line[Server]) : t[j] = line[Server][k],
         NEW asked2, NEW st2, NEW ann2, DOMAIN queries \subseteq asked2, Agrees(announced, ann2),
         \A j \in 1 .. Len(t) : t[j].body.kind = "query" => t[j].body.n \notin DOMAIN st2
  PROVE  ServerLine(t, asked2, st2, ann2)
<1>1. DOMAIN queries \in SUBSET (1 .. MaxQueries)
  BY Facts
<1>2. \A k \in 1 .. Len(line[Server]) :
        ForServer(line[Server][k], DOMAIN queries, status, announced)
  BY DEF CInv, LinesOK, ServerLine
<1>3. ASSUME NEW j \in 1 .. Len(t)
      PROVE  ForServer(t[j], asked2, st2, ann2)
  <2>1. ForServer(t[j], DOMAIN queries, status, announced)
    BY <1>2
  <2> QED
    BY <1>1, <2>1, ForServerStays
<1> QED
  BY <1>3 DEF ServerLine

LEMMA ClientLineStays ==
  ASSUME CInv, NEW t \in Seq(Packets), Distinct(t),
         \A j \in 1 .. Len(t) : \E k \in 1 .. Len(line[Client]) : t[j] = line[Client][k],
         NEW st2, NEW done2, NEW ann2, NEW list2 \in Seq(Endpoints),
         Agrees(status, st2), Agrees(announced, ann2), Begins(services[Server], list2),
         \A j \in 1 .. Len(t) : t[j].body.kind = "answer" => t[j].body.n \notin done2
  PROVE  ClientLine(t, st2, done2, ann2, list2)
<1>1. services[Server] \in Seq(Endpoints)
  BY Facts
<1>2. \A k \in 1 .. Len(line[Client]) :
        ForClient(line[Client][k], status, DOMAIN answered, announced, services[Server])
  BY DEF CInv, LinesOK, ClientLine
<1>3. ASSUME NEW j \in 1 .. Len(t)
      PROVE  ForClient(t[j], st2, done2, ann2, list2)
  <2>1. ForClient(t[j], status, DOMAIN answered, announced, services[Server])
    BY <1>2
  <2> QED
    BY <1>1, <2>1, ForClientStays
<1> QED
  BY <1>3 DEF ClientLine

(* What a line held is still right in it.                                  *)
LEMMA LinesAre ==
  ASSUME CInv
  PROVE  /\ Distinct(line[Server]) /\ Distinct(line[Client])
         /\ \A k \in 1 .. Len(line[Server]) :
              line[Server][k].body.kind = "query" =>
                line[Server][k].body.n \in DOMAIN queries \ DOMAIN status
         /\ \A k \in 1 .. Len(line[Client]) :
              line[Client][k].body.kind = "answer" =>
                line[Client][k].body.n \in DOMAIN status \ DOMAIN answered
<1>1. Distinct(line[Server]) /\ Distinct(line[Client])
  BY DEF CInv, LinesOK, ServerLine, ClientLine
<1>2. ASSUME NEW k \in 1 .. Len(line[Server]), line[Server][k].body.kind = "query"
      PROVE  line[Server][k].body.n \in DOMAIN queries \ DOMAIN status
  <2>1. ForServer(line[Server][k], DOMAIN queries, status, announced)
    BY DEF CInv, LinesOK, ServerLine
  <2> QED
    BY <1>2, <2>1, Facts, ForServerIs
<1>3. ASSUME NEW k \in 1 .. Len(line[Client]), line[Client][k].body.kind = "answer"
      PROVE  line[Client][k].body.n \in DOMAIN status \ DOMAIN answered
  BY <1>3 DEF CInv, LinesOK, ClientLine, ForClient
<1> QED
  BY <1>1, <1>2, <1>3

LEMMA SendStep ==
  ASSUME CInv, send_command
  PROVE  CInv' /\ [Calls!Next]_(Calls!vars)
<1> DEFINE n == Len(queries) + 1
           list == services[Client]
           packet == Packet(ClientPort, ServerPort, Query(n))
<1>1. PICK form \in Forms :
        /\ services' = [services EXCEPT ![Client] = bind_to(list, Owner("connection", n))]
        /\ connections' = Append(connections, n) /\ queries' = Append(queries, form)
        /\ Transmit(Client, line, packet, form # "long")
  BY DEF send_command
<1>2. /\ Len(queries) < MaxQueries
      /\ UNCHANGED <<active, running, status, got, answered, announced, sent>>
  BY DEF send_command, serverVars
<1>3. /\ n \in 1 .. MaxQueries /\ n \notin DOMAIN queries /\ n \in Nat
      /\ DOMAIN queries' = DOMAIN queries \union {n}
      /\ queries' \in Seq(Forms) /\ Len(queries') <= MaxQueries
  <2>1. queries \in Seq(Forms) /\ DOMAIN queries = 1 .. Len(queries) /\ Len(queries) \in 0 .. MaxQueries
    BY Facts DEF CInv, TypeOK
  <2> QED
    BY <1>1, <1>2, <2>1, CommandsAssumption
<1>4. /\ services \in [Devices -> Seq(Endpoints)] /\ line \in [Devices -> Seq(Packets)]
      /\ connections \in Seq(1 .. MaxQueries)
  BY DEF CInv, TypeOK
<1>5. list \in Seq(Endpoints) /\ ClientEnds(list, connections)
  BY <1>4, DevicesAre DEF CInv, EndsOK
<1>6. /\ bind_to(list, Owner("connection", n)) \in Seq(Endpoints)
      /\ ClientEnds(bind_to(list, Owner("connection", n)), Append(connections, n))
  <2> HIDE DEF n, list
  <2> QED
    BY <1>3, <1>4, <1>5, EndsBound DEF ClientEnds, Kinds
<1>7. /\ services' \in [Devices -> Seq(Endpoints)] /\ services'[Server] = services[Server]
      /\ services'[Client] = bind_to(list, Owner("connection", n))
  <2> HIDE DEF list
  <2> QED
    BY <1>1, <1>4, <1>6, DevicesAre
<1>8. /\ packet \in Packets /\ packet.body.kind = "query" /\ packet.body.n = n
  BY <1>3, QueryIs
<1>9. /\ line' \in [Devices -> Seq(Packets)] /\ line'[Client] = line[Client]
      /\ line'[Server] \in {line[Server], Append(line[Server], packet)}
  <2> HIDE DEF packet
  <2> QED
    BY <1>1, <1>4, <1>8, DevicesAre, TransmitIs
<1>10. TypeOK'
  <2>1. connections' \in Seq(1 .. MaxQueries)
    BY <1>1, <1>3, <1>4
  <2>2. DOMAIN status \subseteq DOMAIN queries'
    BY <1>3 DEF CInv, TypeOK
  <2> QED
    BY <1>2, <1>3, <1>7, <1>9, <2>1, <2>2 DEF CInv, TypeOK
<1>11. EndsOK'
  BY <1>1, <1>2, <1>6, <1>7 DEF CInv, EndsOK
<1>12. ServerLine(line'[Server], DOMAIN queries', status, announced)
  <2> HIDE DEF packet, n
  <2>1. /\ Distinct(line[Server]) /\ line[Server] \in Seq(Packets)
        /\ \A k \in 1 .. Len(line[Server]) :
             line[Server][k].body.kind = "query" =>
               line[Server][k].body.n \in DOMAIN queries \ DOMAIN status
    BY LinesAre, Facts
  <2>2. Agrees(announced, announced) /\ DOMAIN queries \subseteq DOMAIN queries'
    BY <1>3 DEF Agrees
  <2>3. ServerLine(line[Server], DOMAIN queries', status, announced)
    BY <2>1, <2>2, ServerLineStays
  <2>4. n \in DOMAIN queries' \ DOMAIN status
    BY <1>3 DEF CInv, TypeOK
  <2>5. ForServer(packet, DOMAIN queries', status, announced)
    BY <2>4 DEF ForServer, packet
  <2>6. \A k \in 1 .. Len(line[Server]) : ~Same(line[Server][k], packet)
    <3> SUFFICES ASSUME NEW k \in 1 .. Len(line[Server]), Same(line[Server][k], packet)
                 PROVE  FALSE
      OBVIOUS
    <3>1. line[Server][k].body.kind # "data" /\ line[Server][k].body.n = n
      BY <1>8 DEF Same
    <3>2. ForServer(line[Server][k], DOMAIN queries, status, announced)
      BY DEF CInv, LinesOK, ServerLine
    <3>3. line[Server][k].body.kind = "query"
      BY <3>1, <3>2, Facts, ForServerIs
    <3> QED
      BY <3>1, <3>3, <2>1, <1>3
  <2>7. ServerLine(Append(line[Server], packet), DOMAIN queries', status, announced)
    BY <1>8, <2>1, <2>3, <2>5, <2>6, DistinctAppend DEF ServerLine
  <2> QED
    BY <1>9, <2>3, <2>7
<1>13. LinesOK' /\ ToldOK'
  BY <1>2, <1>7, <1>9, <1>12 DEF CInv, LinesOK, ToldOK
<1>14. Calls!Next
  <2>1. Calls!Ask(n)
    BY <1>2, <1>3 DEF Calls!Ask
  <2> HIDE DEF n
  <2> QED
    BY <1>3, <2>1 DEF Calls!Next
<1> QED
  BY <1>10, <1>11, <1>13, <1>14 DEF CInv

LEMMA UserStep ==
  ASSUME CInv, UserWrites
  PROVE  CInv' /\ [Calls!Next]_(Calls!vars)
<1>1. PICK n, to : /\ UserTransmits(n, to)
                   /\ \/ n \in DOMAIN announced /\ to = announced[n]
                      \/ n = 0 /\ to = EchoPort
  BY DEF UserWrites
<1> DEFINE packet == Packet(UserPort, to, Data(n))
<1>2. n \in 0 .. MaxQueries /\ to \in Nat
  <2>1. CASE n \in DOMAIN announced /\ to = announced[n]
    <3>1. n \in 1 .. MaxQueries /\ MaxQueries \in Nat /\ announced[n] \in Nat
      BY <2>1, Facts
    <3> QED
      BY <2>1, <3>1
  <2>2. CASE n = 0 /\ to = EchoPort
    BY <2>2, PortsAre, CommandsAssumption
  <2> QED
    BY <1>1, <2>1, <2>2
<1>3. /\ sent' = sent \union {n} /\ Transmit(Client, line, packet, TRUE)
      /\ UNCHANGED <<services, active, running, status, got, queries, connections, answered, announced>>
  BY <1>1 DEF UserTransmits, serverVars
<1>4. packet \in Packets /\ packet.body.kind = "data"
  BY <1>2, DataIs
<1>5. /\ line' \in [Devices -> Seq(Packets)] /\ line'[Client] = line[Client]
      /\ line'[Server] \in {line[Server], Append(line[Server], packet)}
  <2>1. line \in [Devices -> Seq(Packets)]
    BY DEF CInv, TypeOK
  <2> HIDE DEF packet
  <2> QED
    BY <1>3, <1>4, <2>1, DevicesAre, TransmitIs
<1>6. ForServer(packet, DOMAIN queries, status, announced)
  BY <1>1 DEF ForServer
<1> HIDE DEF packet
<1>7. ServerLine(line'[Server], DOMAIN queries, status, announced)
  <2>1. ServerLine(line[Server], DOMAIN queries, status, announced) /\ line[Server] \in Seq(Packets)
    BY Facts DEF CInv, LinesOK
  <2>2. Distinct(line[Server]) /\ \A k \in 1 .. Len(line[Server]) : ~Same(line[Server][k], packet)
    BY <1>4, LinesAre DEF Same
  <2>3. ServerLine(Append(line[Server], packet), DOMAIN queries, status, announced)
    BY <1>4, <1>6, <2>1, <2>2, DistinctAppend DEF ServerLine
  <2> QED
    BY <1>5, <2>1, <2>3
<1>8. TypeOK'
  BY <1>2, <1>3, <1>5 DEF CInv, TypeOK
<1>9. EndsOK' /\ LinesOK' /\ ToldOK'
  BY <1>3, <1>5, <1>7 DEF CInv, EndsOK, LinesOK, ToldOK
<1> QED
  BY <1>3, <1>8, <1>9, Stutters DEF CInv

(* Whom the client hands a packet to.                                      *)
LEMMA ClientReceiver ==
  ASSUME CInv, NEW packet \in Packets, HasReceiver(Client, packet),
         ForClient(packet, status, DOMAIN answered, announced, services[Server])
  PROVE  /\ packet.body.kind = "answer" => Receiver(Client, packet) = Owner("client", 0)
         /\ packet.body.kind = "data" => Receiver(Client, packet) = Owner("user", 0)
         /\ packet.body.kind \in {"answer", "data"}
<1>1. /\ ServiceAt(services[Client], ClientPort) = Owner("client", 0)
      /\ ServiceAt(services[Client], UserPort) = Owner("user", 0)
  <2>1. services[Client] \in Seq(Endpoints) /\ connections \in Seq(1 .. MaxQueries)
        /\ ClientEnds(services[Client], connections)
    BY Facts DEF CInv, TypeOK, EndsOK
  <2> QED
    BY <2>1, ClientAt
<1>2. \/ packet.body.kind = "answer" /\ packet.destination = ClientPort
      \/ packet.body.kind = "data" /\ packet.destination = UserPort
  BY DEF ForClient
<1> QED
  BY <1>1, <1>2 DEF Receiver

(* Whom the server hands a packet to.                                      *)
LEMMA ServerReceiver ==
  ASSUME CInv, NEW packet \in Packets, HasReceiver(Server, packet),
         ForServer(packet, DOMAIN queries, status, announced)
  PROVE  LET owner == Receiver(Server, packet)
             n == packet.body.n
         IN  /\ owner \in Owners
             /\ packet.body.kind = "query" => owner = Owner("server", 0)
             /\ packet.body.kind = "data" => GotBy([n |-> n, owner |-> owner], status, announced)
<1> DEFINE list == services[Server]
           owner == Receiver(Server, packet)
           n == packet.body.n
<1>1. list \in Seq(Endpoints) /\ active \in Seq(1 .. MaxQueries) /\ ServerEnds(list, active)
  BY Facts DEF CInv, TypeOK, EndsOK
<1>2. /\ ServiceAt(list, ServerPort) = Owner("server", 0)
      /\ \A i \in 1 .. Len(list) : ServiceAt(list, list[i].port) = list[i].owner
      /\ \A port \in Nat : port >= FirstFree /\ IsRegistered(list, port) =>
           ServiceAt(list, port).kind = "command"
  BY <1>1, ServerAt
<1>3. IsRegistered(list, packet.destination) /\ owner = ServiceAt(list, packet.destination)
  BY DEF HasReceiver, Receiver
<1>4. /\ DOMAIN queries \in SUBSET (1 .. MaxQueries) /\ announced \in [DOMAIN announced -> Nat]
      /\ DOMAIN announced \subseteq 1 .. MaxQueries
  BY Facts
<1>5. \/ /\ packet.body.kind = "query" /\ n \in DOMAIN queries \ DOMAIN status
         /\ packet.source = ClientPort /\ packet.destination = ServerPort
      \/ /\ packet.body.kind = "data" /\ packet.source = UserPort
         /\ n # 0 => /\ n \in DOMAIN announced
                     /\ announced[n] < PortMod => packet.destination = announced[n]
  BY <1>4, ForServerIs
<1> HIDE DEF list, owner, n
<1>6. owner \in Owners
  <2>1. PICK i \in 1 .. Len(list) : list[i].port = packet.destination
    BY <1>1, <1>3 DEF IsRegistered
  <2>2. owner = list[i].owner
    BY <1>2, <1>3, <2>1
  <2>3. list[i] \in Endpoints
    BY <1>1, <2>1
  <2> QED
    BY <2>2, <2>3 DEF Endpoints
<1>7. ASSUME packet.body.kind = "data", n # 0, announced[n] < PortMod
      PROVE  owner.kind = "command" /\ (status[n] = "CONTINUE" => owner.n = n)
  <2>1. n \in DOMAIN announced /\ packet.destination = announced[n]
    BY <1>5, <1>7
  <2>2. Announces(n, announced[n], status, list)
    BY <2>1 DEF CInv, ToldOK, list
  <2>3. announced[n] \in Nat /\ announced[n] >= FirstFree
    BY <1>4, <2>1, <2>2 DEF Announces
  <2>4. owner.kind = "command"
    BY <1>2, <1>3, <2>1, <2>3
  <2>5. ASSUME status[n] = "CONTINUE"
        PROVE  owner.n = n
    <3>1. PICK i \in 1 .. Len(list) : list[i] = Endpoint(announced[n], Owner("command", n))
      BY <2>2, <2>5 DEF Announces
    <3>2. list[i].port = announced[n] /\ list[i].owner = Owner("command", n)
      BY <3>1 DEF Endpoint
    <3>3. owner = Owner("command", n)
      BY <1>2, <1>3, <2>1, <3>2
    <3> QED
      BY <3>3 DEF Owner
  <2> QED
    BY <2>4, <2>5
<1>8. packet.body.kind = "data" => GotBy([n |-> n, owner |-> owner], status, announced)
  BY <1>5, <1>7 DEF GotBy
<1>9. packet.body.kind = "query" => owner = Owner("server", 0)
  BY <1>2, <1>3, <1>5
<1> QED
  BY <1>6, <1>8, <1>9 DEF owner, n

LEMMA ClientStep ==
  ASSUME CInv, ClientReceives
  PROVE  CInv' /\ [Calls!Next]_(Calls!vars)
<1>1. PICK packet : /\ Arrives(Client, packet) /\ line' = Taken(Client)
                    /\ \/ /\ ~HasReceiver(Client, packet)
                          /\ UNCHANGED <<answered, announced, got>>
                       \/ /\ HasReceiver(Client, packet) /\ Receiver(Client, packet).kind = "client"
                          /\ answered' = Extended(answered, packet.body.n,
                                                  IF packet.body.port # 0 THEN "port" ELSE "err")
                          /\ announced' = (IF packet.body.port # 0
                                             THEN Extended(announced, packet.body.n, packet.body.port)
                                           ELSE announced)
                          /\ UNCHANGED got
                       \/ /\ HasReceiver(Client, packet) /\ Receiver(Client, packet).kind # "client"
                          /\ got' = got \union {[n |-> packet.body.n, owner |-> Receiver(Client, packet)]}
                          /\ UNCHANGED <<answered, announced>>
  BY DEF ClientReceives
<1>2. UNCHANGED <<services, active, running, status, queries, connections, sent, lost>>
  BY DEF ClientReceives
<1> DEFINE n == packet.body.n
           old == line[Client]
           new == Without(old, 1)
<1>3. line \in [Devices -> Seq(Packets)]
  BY DEF CInv, TypeOK
<1>4. /\ line' \in [Devices -> Seq(Packets)] /\ packet = old[1] /\ packet \in Packets
      /\ 1 \in 1 .. Len(old) /\ line'[Client] = new /\ line'[Server] = line[Server]
  BY <1>1, <1>3, TakenIs, DevicesAre
<1>5. ForClient(packet, status, DOMAIN answered, announced, services[Server])
  BY <1>4 DEF CInv, LinesOK, ClientLine
<1>6. /\ old \in Seq(Packets) /\ Distinct(old)
      /\ \A k \in 1 .. Len(old) :
           old[k].body.kind = "answer" => old[k].body.n \in DOMAIN status \ DOMAIN answered
  BY LinesAre, Facts
<1>7. /\ new \in Seq(Packets) /\ Distinct(new)
      /\ \A j \in 1 .. Len(new) : (\E k \in 1 .. Len(old) : new[j] = old[k]) /\ ~Same(new[j], packet)
  <2> HIDE DEF old
  <2> QED
    BY <1>4, <1>6, DistinctWithout
<1>8. EndsOK'
  BY <1>2 DEF CInv, EndsOK
<1>9. Agrees(status, status) /\ Begins(services[Server], services[Server])
      /\ Agrees(announced, announced) /\ services[Server] \in Seq(Endpoints)
  <2>1. services[Server] \in Seq(Endpoints)
    BY Facts
  <2>2. Len(services[Server]) \in Nat
    BY <2>1
  <2> QED
    BY <2>1, <2>2 DEF Agrees, Begins
<1> HIDE DEF old, new
<1>10. CASE UNCHANGED <<answered, announced>>
  <2>1. \A j \in 1 .. Len(new) : new[j].body.kind = "answer" => new[j].body.n \notin DOMAIN answered
    BY <1>6, <1>7
  <2>2. ClientLine(new, status, DOMAIN answered, announced, services[Server])
    BY <1>7, <1>9, <2>1, ClientLineStays DEF old
  <2>3. LinesOK'
    BY <1>2, <1>4, <1>10, <2>2 DEF CInv, LinesOK
  <2>4. /\ \A g \in got' : GotBy(g, status, announced)
        /\ got' \subseteq [n : 0 .. MaxQueries, owner : Owners]
    <3>1. CASE UNCHANGED got
      BY <3>1 DEF CInv, ToldOK, TypeOK
    <3>2. CASE /\ HasReceiver(Client, packet) /\ Receiver(Client, packet).kind # "client"
               /\ got' = got \union {[n |-> n, owner |-> Receiver(Client, packet)]}
      <4>1. packet.body.kind = "data" /\ Receiver(Client, packet) = Owner("user", 0)
        BY <1>4, <1>5, <3>2, ClientReceiver DEF Owner
      <4>2. n # 0 => n \in DOMAIN announced /\ announced[n] >= PortMod
        BY <1>5, <4>1 DEF ForClient
      <4>3. GotBy([n |-> n, owner |-> Owner("user", 0)], status, announced)
        <5>1. n # 0 => announced[n] \in Nat /\ PortMod \in Nat
          BY <4>2, Facts, PortsAre
        <5>2. n # 0 => ~(announced[n] < PortMod)
          BY <4>2, <5>1
        <5> QED
          BY <4>2, <5>2 DEF GotBy
      <4>4. n \in 0 .. MaxQueries /\ Owner("user", 0) \in Owners
        BY <1>4, Facts DEF Packets, Bodies, Owner, Owners, Kinds
      <4> QED
        BY <3>2, <4>1, <4>3, <4>4 DEF CInv, ToldOK, TypeOK
    <3>3. \/ UNCHANGED got
          \/ /\ HasReceiver(Client, packet) /\ Receiver(Client, packet).kind # "client"
             /\ got' = got \union {[n |-> n, owner |-> Receiver(Client, packet)]}
      BY <1>1
    <3> QED
      BY <3>1, <3>2, <3>3
  <2>5. ToldOK'
    BY <1>2, <1>10, <2>4 DEF CInv, ToldOK
  <2>6. TypeOK'
    BY <1>2, <1>4, <1>10, <2>4 DEF CInv, TypeOK
  <2> QED
    BY <1>2, <1>8, <1>10, <2>3, <2>5, <2>6, Stutters DEF CInv
<1>11. CASE /\ HasReceiver(Client, packet) /\ Receiver(Client, packet).kind = "client"
            /\ answered' = Extended(answered, n, IF packet.body.port # 0 THEN "port" ELSE "err")
            /\ announced' = (IF packet.body.port # 0 THEN Extended(announced, n, packet.body.port)
                             ELSE announced)
            /\ UNCHANGED got
  <2>1. packet.body.kind = "answer"
    BY <1>4, <1>5, <1>11, ClientReceiver DEF Owner
  <2>2. /\ n \in DOMAIN status /\ n \notin DOMAIN answered /\ n \notin DOMAIN announced
        /\ packet.body.port = 0 => Says(status[n]) = "err"
        /\ packet.body.port # 0 => /\ Says(status[n]) = "port"
                                   /\ Announces(n, packet.body.port, status, services[Server])
    BY <1>5, <2>1 DEF ForClient, CInv, TypeOK
  <2>3. packet.body.port \in Nat
    BY <1>4 DEF Packets, Bodies
  <2>4. /\ DOMAIN answered' = DOMAIN answered \union {n} /\ Agrees(answered, answered')
        /\ answered'[n] \in {"port", "err"}
    BY <1>11, <2>2, ExtendedIs
  <2>5. /\ Agrees(announced, announced')
        /\ packet.body.port = 0 => announced' = announced
        /\ packet.body.port # 0 => /\ DOMAIN announced' = DOMAIN announced \union {n}
                                   /\ announced'[n] = packet.body.port
    <3>1. CASE packet.body.port = 0
      BY <1>9, <1>11, <3>1
    <3>2. CASE packet.body.port # 0
      <4>1. announced' = Extended(announced, n, packet.body.port)
        BY <1>11, <3>2
      <4>2. n \notin DOMAIN announced
        BY <2>2
      <4> DEFINE port == packet.body.port
                 longer == Extended(announced, n, port)
      <4>3. /\ Agrees(announced, longer) /\ longer[n] = port
            /\ DOMAIN longer = DOMAIN announced \union {n}
        <5> HIDE DEF n, port
        <5> QED
          BY <4>2, ExtendedIs DEF longer
      <4>4. announced' = longer
        BY <4>1
      <4> HIDE DEF n, longer
      <4> QED
        BY <3>2, <4>3, <4>4
    <3> QED
      BY <3>1, <3>2
  <2>6. /\ answered' = [m \in DOMAIN answered' |-> answered'[m]]
        /\ announced' = [m \in DOMAIN announced' |-> announced'[m]]
    BY <1>11 DEF Extended, CInv, TypeOK
  <2>7. TypeOK'
    <3>1. answered' \in [DOMAIN answered' -> {"port", "err"}]
      BY <2>4, <2>6 DEF CInv, TypeOK, Agrees
    <3>2. announced' \in [DOMAIN announced' -> Nat]
      BY <2>3, <2>5, <2>6 DEF CInv, TypeOK, Agrees
    <3>3. DOMAIN announced' \subseteq DOMAIN answered' /\ DOMAIN answered' \subseteq DOMAIN status
      BY <2>2, <2>4, <2>5 DEF CInv, TypeOK
    <3> QED
      BY <1>2, <1>4, <1>11, <3>1, <3>2, <3>3 DEF CInv, TypeOK
  <2>8. ClientLine(new, status, DOMAIN answered', announced', services[Server])
    <3>1. \A j \in 1 .. Len(new) : new[j].body.kind = "answer" => new[j].body.n \notin DOMAIN answered'
      BY <1>6, <1>7, <2>1, <2>4 DEF Same
    <3> QED
      BY <1>7, <1>9, <2>5, <3>1, ClientLineStays DEF old
  <2>9. ServerLine(line[Server], DOMAIN queries, status, announced')
    BY <2>5, LinesAre, Facts, ServerLineStays
  <2>10. LinesOK'
    BY <1>2, <1>4, <2>8, <2>9 DEF LinesOK
  <2>11. ToldOK'
    <3>1. ASSUME NEW m \in DOMAIN announced'
          PROVE  Announces(m, announced'[m], status, services[Server])
      <4>1. CASE m \in DOMAIN announced
        BY <2>5, <4>1 DEF CInv, ToldOK, Agrees
      <4>2. CASE m \notin DOMAIN announced
        BY <2>2, <2>5, <3>1, <4>2
      <4> QED
        BY <4>1, <4>2
    <3>2. \A g \in got : GotBy(g, status, announced')
      BY <1>9, <2>5, Facts, GotByStays DEF CInv, ToldOK
    <3> QED
      BY <1>2, <1>11, <3>1, <3>2 DEF ToldOK
  <2>12. Calls!Next
    <3> DEFINE outcome == [m \in DOMAIN status |-> Says(status[m])]
    <3>1. n \in DOMAIN outcome /\ outcome[n] = IF packet.body.port # 0 THEN "port" ELSE "err"
      BY <2>2
    <3>2. answered' = Calls!Extended(answered, n, outcome[n])
      BY <1>11, <3>1 DEF Calls!Extended, Extended
    <3>3. DOMAIN queries' = DOMAIN queries /\ status' = status
      BY <1>2
    <3>4. Calls!Answer(n)
      BY <2>2, <3>1, <3>2, <3>3 DEF Calls!Answer
    <3>5. n \in 1 .. MaxQueries
      BY <2>2, Facts DEF CInv, TypeOK
    <3> HIDE DEF n
    <3> QED
      BY <3>4, <3>5 DEF Calls!Next
  <2> QED
    BY <1>8, <2>7, <2>10, <2>11, <2>12 DEF CInv
<1> QED
  BY <1>1, <1>10, <1>11

(* What the server takes from its line, and what remains.                  *)
LEMMA ServerTakes ==
  ASSUME CInv, NEW packet, Arrives(Server, packet)
  PROVE  /\ Taken(Server) \in [Devices -> Seq(Packets)]
         /\ Taken(Server)[Client] = line[Client]
         /\ packet \in Packets /\ ForServer(packet, DOMAIN queries, status, announced)
         /\ packet.body.n \in 0 .. MaxQueries /\ packet.body.kind \in {"query", "data"}
         /\ LET new == Taken(Server)[Server]
            IN  /\ new \in Seq(Packets) /\ Distinct(new)
                /\ \A j \in 1 .. Len(new) : /\ \E k \in 1 .. Len(line[Server]) : new[j] = line[Server][k]
                                            /\ ~Same(new[j], packet)
<1> DEFINE old == line[Server]
           new == Without(old, 1)
<1>1. line \in [Devices -> Seq(Packets)]
  BY DEF CInv, TypeOK
<1>2. /\ Taken(Server) \in [Devices -> Seq(Packets)] /\ packet = old[1] /\ packet \in Packets
      /\ 1 \in 1 .. Len(old) /\ Taken(Server)[Server] = new /\ Taken(Server)[Client] = line[Client]
  BY <1>1, TakenIs, DevicesAre
<1>3. old \in Seq(Packets) /\ Distinct(old)
  BY LinesAre, Facts
<1>4. /\ new \in Seq(Packets) /\ Distinct(new)
      /\ \A j \in 1 .. Len(new) : (\E k \in 1 .. Len(old) : new[j] = old[k]) /\ ~Same(new[j], packet)
  <2> HIDE DEF old
  <2> QED
    BY <1>2, <1>3, DistinctWithout
<1>5. ForServer(packet, DOMAIN queries, status, announced)
  BY <1>2 DEF CInv, LinesOK, ServerLine
<1>6. packet.body.n \in 0 .. MaxQueries /\ packet.body.kind \in {"query", "data"}
  BY <1>5, Facts, ForServerIs
<1> HIDE DEF old, new
<1> QED
  BY <1>2, <1>4, <1>5, <1>6 DEF old

(* What a step leaves alone agrees with itself.                            *)
LEMMA AsBefore ==
  ASSUME CInv
  PROVE  /\ Agrees(status, status) /\ Agrees(announced, announced)
         /\ services[Server] \in Seq(Endpoints) /\ Begins(services[Server], services[Server])
         /\ ClientLine(line[Client], status, DOMAIN answered, announced, services[Server])
<1>1. services[Server] \in Seq(Endpoints)
  BY Facts
<1>2. Len(services[Server]) \in Nat
  BY <1>1
<1> QED
  BY <1>1, <1>2 DEF Agrees, Begins, CInv, LinesOK

(* A packet that carries out no query.                                     *)
LEMMA ServerKeeps ==
  ASSUME CInv, NEW packet, Arrives(Server, packet), running' \in BOOLEAN,
         UNCHANGED <<services, active, status, clientVars>>,
         line' \in [Devices -> Seq(Packets)], line'[Server] = Taken(Server)[Server],
         ClientLine(line'[Client], status, DOMAIN answered, announced, services[Server]),
         got' \subseteq [n : 0 .. MaxQueries, owner : Owners],
         \A g \in got' : GotBy(g, status, announced)
  PROVE  CInv' /\ [Calls!Next]_(Calls!vars)
<1> DEFINE new == Taken(Server)[Server]
<1>1. UNCHANGED <<queries, connections, answered, announced, sent>>
  BY DEF clientVars
<1>2. /\ new \in Seq(Packets) /\ Distinct(new)
      /\ \A j \in 1 .. Len(new) : \E k \in 1 .. Len(line[Server]) : new[j] = line[Server][k]
  BY ServerTakes
<1> HIDE DEF new
<1>3. ServerLine(new, DOMAIN queries, status, announced)
  <2>1. \A j \in 1 .. Len(new) : new[j].body.kind = "query" => new[j].body.n \notin DOMAIN status
    BY <1>2, LinesAre
  <2> QED
    BY <1>2, <2>1, AsBefore, ServerLineStays
<1>4. TypeOK'
  BY <1>1 DEF CInv, TypeOK
<1>5. EndsOK' /\ LinesOK' /\ ToldOK'
  BY <1>1, <1>3 DEF CInv, EndsOK, LinesOK, ToldOK, new
<1> QED
  BY <1>1, <1>4, <1>5, Stutters DEF CInv

(* Data that the server's services send back.                              *)
LEMMA Returned ==
  ASSUME CInv, NEW packet, Arrives(Server, packet), HasReceiver(Server, packet),
         packet.body.kind = "data", Receiver(Server, packet).kind # "command",
         Transmit(Server, Taken(Server), Response(packet, Data(packet.body.n)), TRUE)
  PROVE  /\ line' \in [Devices -> Seq(Packets)] /\ line'[Server] = Taken(Server)[Server]
         /\ ClientLine(line'[Client], status, DOMAIN answered, announced, services[Server])
<1> DEFINE n == packet.body.n
           r == Response(packet, Data(n))
           lines == Taken(Server)
<1>1. /\ lines \in [Devices -> Seq(Packets)] /\ lines[Client] = line[Client]
      /\ packet \in Packets /\ ForServer(packet, DOMAIN queries, status, announced)
      /\ n \in 0 .. MaxQueries
  BY ServerTakes
<1>2. r \in Packets /\ r.body = Data(n) /\ r.destination = packet.source
  <2>1. Data(n) \in Bodies
    BY <1>1, BodiesAre
  <2> QED
    BY <1>1, <2>1, ResponseIs
<1>3. packet.source = UserPort
  BY <1>1, Facts, ForServerIs
<1>4. n # 0 => n \in DOMAIN announced /\ announced[n] >= PortMod
  <2>1. GotBy([n |-> n, owner |-> Receiver(Server, packet)], status, announced)
    BY <1>1, ServerReceiver
  <2>2. ASSUME n # 0
        PROVE  n \in DOMAIN announced /\ announced[n] >= PortMod
    <3>1. n \in DOMAIN announced /\ ~(announced[n] < PortMod)
      BY <2>1, <2>2 DEF GotBy
    <3>2. announced[n] \in Nat /\ PortMod \in Nat
      BY <3>1, Facts, PortsAre
    <3> QED
      BY <3>1, <3>2
  <2> QED
    BY <2>2
<1>5. r.body.kind = "data" /\ r.body.n = n
  BY <1>2 DEF Data
<1>6. ForClient(r, status, DOMAIN answered, announced, services[Server])
  BY <1>2, <1>3, <1>4, <1>5 DEF ForClient
<1> HIDE DEF r, lines, n
<1>7. /\ line' \in [Devices -> Seq(Packets)] /\ line'[Server] = lines[Server]
      /\ line'[Client] \in {line[Client], Append(line[Client], r)}
  <2>1. Transmit(Server, lines, r, TRUE)
    BY DEF lines, r, n
  <2>2. Server \in Devices /\ Other(Server) = Client
    BY DevicesAre
  <2>3. /\ line' \in [Devices -> Seq(Packets)] /\ line'[Server] = lines[Server]
        /\ line'[Other(Server)] \in {lines[Other(Server)], Append(lines[Other(Server)], r)}
    BY <1>1, <1>2, <2>1, <2>2, TransmitIs
  <2> QED
    BY <1>1, <2>2, <2>3
<1>8. ClientLine(Append(line[Client], r), status, DOMAIN answered, announced, services[Server])
  <2>1. \A k \in 1 .. Len(line[Client]) : ~Same(line[Client][k], r)
    BY <1>5 DEF Same
  <2>2. line[Client] \in Seq(Packets)
    BY Facts
  <2> QED
    BY <1>2, <1>6, <2>1, <2>2, AsBefore, DistinctAppend DEF ClientLine
<1> QED
  BY <1>7, <1>8, AsBefore DEF lines

(* A query is carried out and answered.                                    *)
LEMMA CarriesOut ==
  ASSUME CInv, NEW packet, Arrives(Server, packet), packet.body.kind = "query",
         NEW s \in Statuses \union {Refused}, NEW port \in Nat,
         status' = Extended(status, packet.body.n, s),
         services' \in [Devices -> Seq(Endpoints)], services'[Client] = services[Client],
         Begins(services[Server], services'[Server]), ServerEnds(services'[Server], active'),
         active' \in Seq(1 .. MaxQueries),
         Transmit(Server, Taken(Server), Response(packet, Answer(packet.body.n, port)), TRUE),
         UNCHANGED <<running, got, clientVars>>,
         IF port = 0 THEN Says(s) = "err"
         ELSE Says(s) = "port" /\ Announces(packet.body.n, port, status', services'[Server])
  PROVE  CInv' /\ [Calls!Next]_(Calls!vars)
<1> DEFINE n == packet.body.n
           r == Response(packet, Answer(n, port))
           lines == Taken(Server)
           new == lines[Server]
<1>1. /\ lines \in [Devices -> Seq(Packets)] /\ lines[Client] = line[Client]
      /\ packet \in Packets /\ ForServer(packet, DOMAIN queries, status, announced)
      /\ n \in 0 .. MaxQueries
      /\ new \in Seq(Packets) /\ Distinct(new)
      /\ \A j \in 1 .. Len(new) : /\ \E k \in 1 .. Len(line[Server]) : new[j] = line[Server][k]
                                  /\ ~Same(new[j], packet)
  BY ServerTakes
<1>2. UNCHANGED <<queries, connections, answered, announced, sent, running, got>>
  BY DEF clientVars
<1>3. packet.source = ClientPort /\ n \in DOMAIN queries /\ n \notin DOMAIN status
  BY <1>1, Facts, ForServerIs
<1>4. n \in 1 .. MaxQueries
  BY <1>3, Facts
<1>5. r \in Packets /\ r.body = Answer(n, port) /\ r.destination = ClientPort
  <2>1. Answer(n, port) \in Bodies
    BY <1>1, BodiesAre
  <2> QED
    BY <1>1, <1>3, <2>1, ResponseIs
<1>6. r.body.kind = "answer" /\ r.body.n = n /\ r.body.port = port
  BY <1>5 DEF Answer
<1>7. /\ DOMAIN status' = DOMAIN status \union {n} /\ Agrees(status, status') /\ status'[n] = s
      /\ n \notin DOMAIN answered
  <2>1. n \notin DOMAIN answered
    BY <1>3 DEF CInv, TypeOK
  <2> DEFINE longer == Extended(status, n, s)
  <2>2. /\ Agrees(status, longer) /\ longer[n] = s /\ DOMAIN longer = DOMAIN status \union {n}
    <3> HIDE DEF n
    <3> QED
      BY <1>3, ExtendedIs DEF longer
  <2>3. status' = longer
    OBVIOUS
  <2> HIDE DEF n, longer
  <2> QED
    BY <2>1, <2>2, <2>3
<1>8. services'[Server] \in Seq(Endpoints) /\ Agrees(announced, announced)
  BY DevicesAre DEF Agrees
<1>9. ForClient(r, status', DOMAIN answered, announced, services'[Server])
  BY <1>5, <1>6, <1>7 DEF ForClient
<1> HIDE DEF r, lines, new
<1>10. /\ line' \in [Devices -> Seq(Packets)] /\ line'[Server] = new
       /\ line'[Client] \in {line[Client], Append(line[Client], r)}
  <2>1. Transmit(Server, lines, r, TRUE)
    BY DEF lines, r
  <2>2. Server \in Devices /\ Other(Server) = Client
    BY DevicesAre
  <2>3. /\ line' \in [Devices -> Seq(Packets)] /\ line'[Server] = lines[Server]
        /\ line'[Other(Server)] \in {lines[Other(Server)], Append(lines[Other(Server)], r)}
    BY <1>1, <1>5, <2>1, <2>2, TransmitIs
  <2> QED
    BY <1>1, <2>2, <2>3 DEF new
<1>11. ServerLine(new, DOMAIN queries, status', announced)
  <2>1. \A j \in 1 .. Len(new) : new[j].body.kind = "query" => new[j].body.n \notin DOMAIN status'
    <3> SUFFICES ASSUME NEW j \in 1 .. Len(new), new[j].body.kind = "query"
                 PROVE  new[j].body.n \notin DOMAIN status'
      OBVIOUS
    <3>1. new[j].body.n \notin DOMAIN status
      BY <1>1, LinesAre
    <3>2. new[j].body.n # n
      BY <1>1 DEF Same
    <3> HIDE DEF n
    <3> QED
      BY <1>7, <3>1, <3>2
  <2> QED
    BY <1>1, <1>8, <2>1, ServerLineStays
<1>12. ClientLine(line[Client], status', DOMAIN answered, announced, services'[Server])
  <2>1. /\ line[Client] \in Seq(Packets) /\ Distinct(line[Client])
        /\ \A j \in 1 .. Len(line[Client]) :
             line[Client][j].body.kind = "answer" => line[Client][j].body.n \notin DOMAIN answered
    BY LinesAre, Facts
  <2> QED
    BY <1>7, <1>8, <2>1, ClientLineStays
<1>13. ClientLine(Append(line[Client], r), status', DOMAIN answered, announced, services'[Server])
  <2>1. line[Client] \in Seq(Packets) /\ Distinct(line[Client])
    BY LinesAre, Facts
  <2>2. \A k \in 1 .. Len(line[Client]) : ~Same(line[Client][k], r)
    <3> SUFFICES ASSUME NEW k \in 1 .. Len(line[Client]), Same(line[Client][k], r)
                 PROVE  FALSE
      OBVIOUS
    <3>1. line[Client][k].body.kind # "data" /\ line[Client][k].body.n = n
      BY <1>6 DEF Same
    <3>2. ForClient(line[Client][k], status, DOMAIN answered, announced, services[Server])
      BY DEF CInv, LinesOK, ClientLine
    <3>3. line[Client][k].body.n \in DOMAIN status
      BY <3>1, <3>2 DEF ForClient
    <3> QED
      BY <1>3, <3>1, <3>3
  <2> QED
    BY <1>5, <1>9, <1>12, <2>1, <2>2, DistinctAppend DEF ClientLine
<1>14. LinesOK'
  BY <1>2, <1>10, <1>11, <1>12, <1>13 DEF LinesOK
<1>15. EndsOK'
  BY <1>2 DEF CInv, EndsOK
<1>16. ToldOK'
  <2>1. services[Server] \in Seq(Endpoints) /\ DOMAIN announced \subseteq DOMAIN status
    BY Facts
  <2>2. ASSUME NEW m \in DOMAIN announced
        PROVE  Announces(m, announced[m], status', services'[Server])
    <3> DEFINE to == announced[m]
    <3>1. m \in DOMAIN status /\ Announces(m, to, status, services[Server])
      BY <2>1 DEF CInv, ToldOK
    <3> HIDE DEF to
    <3>2. Announces(m, to, status', services'[Server])
      BY <1>7, <1>8, <2>1, <3>1, AnnouncesStays
    <3> QED
      BY <3>2 DEF to
  <2>3. \A g \in got : GotBy(g, status', announced)
    BY <1>7, <1>8, <2>1, GotByStays DEF CInv, ToldOK
  <2> QED
    BY <1>2, <2>2, <2>3 DEF ToldOK
<1>17. TypeOK'
  <2>1. status' = [m \in DOMAIN status' |-> status'[m]]
    BY DEF Extended
  <2>2. status' \in [DOMAIN status' -> Statuses \union {Refused}]
    BY <1>7, <2>1 DEF CInv, TypeOK, Agrees
  <2>3. DOMAIN answered \subseteq DOMAIN status' /\ DOMAIN status' \subseteq DOMAIN queries
    BY <1>3, <1>7 DEF CInv, TypeOK
  <2> QED
    BY <1>2, <1>10, <2>2, <2>3 DEF CInv, TypeOK
<1>18. Calls!Next
  <2> DEFINE outcome == [m \in DOMAIN status |-> Says(status[m])]
             outcome2 == [m \in DOMAIN status' |-> Says(status'[m])]
  <2>1. \A m \in DOMAIN status : status'[m] = status[m]
    BY <1>7 DEF Agrees
  <2>2. outcome2 = Calls!Extended(outcome, n, Says(s))
    BY <1>3, <1>7, <2>1 DEF Calls!Extended
  <2>3. Says(s) \in {"port", "err"}
    BY DEF Says
  <2>4. DOMAIN queries' = DOMAIN queries /\ answered' = answered
    BY <1>2
  <2>5. Calls!CarryOut(n)
    BY <1>3, <2>2, <2>3, <2>4 DEF Calls!CarryOut
  <2> HIDE DEF n
  <2> QED
    BY <1>4, <2>5 DEF Calls!Next
<1> QED
  BY <1>14, <1>15, <1>16, <1>17, <1>18 DEF CInv

LEMMA RefuseStep ==
  ASSUME CInv, NEW packet, Arrives(Server, packet), packet.body.kind = "query",
         Refuses(packet.body.n, packet), UNCHANGED <<running, got, clientVars>>
  PROVE  CInv' /\ [Calls!Next]_(Calls!vars)
<1>1. /\ status' = Extended(status, packet.body.n, Refused) /\ UNCHANGED <<services, active>>
      /\ Transmit(Server, Taken(Server), Response(packet, Answer(packet.body.n, 0)), TRUE)
  BY DEF Refuses
<1>2. /\ services' \in [Devices -> Seq(Endpoints)] /\ services'[Client] = services[Client]
      /\ Begins(services[Server], services'[Server]) /\ ServerEnds(services'[Server], active')
      /\ active' \in Seq(1 .. MaxQueries)
  BY <1>1, AsBefore DEF CInv, TypeOK, EndsOK
<1>3. Refused \in Statuses \union {Refused} /\ Says(Refused) = "err" /\ 0 \in Nat
  BY DEF Says, Refused
<1> HIDE DEF Refused
<1> QED
  BY <1>1, <1>2, <1>3, CarriesOut

LEMMA StartStep ==
  ASSUME CInv, NEW packet, Arrives(Server, packet), packet.body.kind = "query",
         NEW s \in Statuses, Starts(packet.body.n, packet, s),
         UNCHANGED <<running, got, clientVars>>
  PROVE  CInv' /\ [Calls!Next]_(Calls!vars)
<1> DEFINE n == packet.body.n
           list == services[Server]
           port == get_free_port(list)
           bound == bind_to(list, Owner("command", n))
           to == IF Says(s) = "port" THEN port ELSE 0
<1>1. /\ status' = Extended(status, n, s)
      /\ services' = [services EXCEPT ![Server] =
           IF s = "NULL" THEN list ELSE Released(bound, s, port)]
      /\ active' = (IF s = "CONTINUE" THEN Append(active, n) ELSE active)
      /\ Transmit(Server, Taken(Server), Response(packet, Answer(n, to)), TRUE)
  BY DEF Starts
<1>2. /\ list \in Seq(Endpoints) /\ ServerEnds(list, active) /\ active \in Seq(1 .. MaxQueries)
      /\ services \in [Devices -> Seq(Endpoints)]
  BY Facts DEF CInv, TypeOK, EndsOK
<1>3. n \in 1 .. MaxQueries
  <2>1. packet \in Packets /\ ForServer(packet, DOMAIN queries, status, announced)
    BY ServerTakes
  <2> QED
    BY <2>1, Facts, ForServerIs
<1>4. port \in Nat /\ port >= FirstFree /\ port # 0 /\ ~IsRegistered(list, port)
  <2> HIDE DEF list
  <2>1. port \in Nat /\ port >= FirstFree /\ ~IsRegistered(list, port)
    BY <1>2, FreePort
  <2> HIDE DEF port
  <2> QED
    BY <2>1, PortsAre
<1> DEFINE e == Endpoint(port, Owner("command", n))
<1>5. /\ bound = Append(list, e) /\ e \in Endpoints /\ bound \in Seq(Endpoints)
      /\ ServerEnds(bound, Append(active, n)) /\ e.port = port
  <2>1. "command" \in Kinds
    BY DEF Kinds
  <2> DEFINE first == Endpoint(ServerPort, Owner("server", 0))
             second == Endpoint(EchoPort, Owner("echo", 0))
  <2> HIDE DEF n, list, first, second
  <2>2. /\ list \in Seq(Endpoints) /\ active \in Seq(1 .. MaxQueries) /\ n \in 1 .. MaxQueries
        /\ Ends(list, first, second, "command", active)
    BY <1>2, <1>3 DEF ServerEnds, first, second
  <2>3. /\ bind_to(list, Owner("command", n))
             = Append(list, Endpoint(get_free_port(list), Owner("command", n)))
        /\ Endpoint(get_free_port(list), Owner("command", n)) \in Endpoints
        /\ bind_to(list, Owner("command", n)) \in Seq(Endpoints)
        /\ Ends(bind_to(list, Owner("command", n)), first, second, "command", Append(active, n))
    BY <2>1, <2>2, EndsBound
  <2>4. e.port = port
    BY DEF Endpoint
  <2> QED
    BY <2>3, <2>4 DEF ServerEnds, first, second
<1>6. s # "CONTINUE" => Released(bound, s, port) = list
  <2> HIDE DEF list, port, bound, e
  <2>1. unregister_service(Append(list, e), e.port) = list
    BY <1>2, <1>4, <1>5, Unregistered
  <2> QED
    BY <1>5, <2>1 DEF Released
<1>7. s = "CONTINUE" => Released(bound, s, port) = bound
  BY DEF Released
<1> DEFINE after == IF s = "CONTINUE" THEN bound ELSE list
<1> HIDE DEF n, list, port, bound, e
<1>8. services' = [services EXCEPT ![Server] = after]
  BY <1>1, <1>6, <1>7
<1>9. after \in Seq(Endpoints)
  BY <1>2, <1>5
<1>10. /\ services' \in [Devices -> Seq(Endpoints)] /\ services'[Server] = after
       /\ services'[Client] = services[Client]
  <2> HIDE DEF after
  <2> QED
    BY <1>2, <1>8, <1>9, DevicesAre
<1>11. Begins(list, after)
  <2>1. Len(list) \in Nat /\ Len(bound) = Len(list) + 1
        /\ \A i \in 1 .. Len(list) : bound[i] = list[i]
    BY <1>2, <1>5, AppendIs
  <2> QED
    BY <2>1 DEF Begins
<1>12. ServerEnds(after, active') /\ active' \in Seq(1 .. MaxQueries)
  <2>1. CASE s = "CONTINUE"
    <3>1. after = bound /\ active' = Append(active, n)
      BY <1>1, <2>1
    <3>2. Append(active, n) \in Seq(1 .. MaxQueries)
      BY <1>2, <1>3
    <3> QED
      BY <1>5, <3>1, <3>2
  <2>2. CASE s # "CONTINUE"
    <3>1. after = list /\ active' = active
      BY <1>1, <2>2
    <3> QED
      BY <1>2, <3>1
  <2> QED
    BY <2>1, <2>2
<1>13. ASSUME Says(s) = "port"
       PROVE  Announces(n, port, status', after)
  <2>1. status'[n] = s
    BY <1>1 DEF Extended
  <2>2. s = "CONTINUE" => \E i \in 1 .. Len(after) : after[i] = e
    <3>1. Len(list) \in Nat /\ Len(bound) = Len(list) + 1 /\ bound[Len(list) + 1] = e
      BY <1>2, <1>5, AppendIs
    <3> QED
      BY <3>1
  <2> QED
    BY <1>4, <2>1, <2>2 DEF Announces, e
<1>14. /\ to \in Nat
       /\ IF to = 0 THEN Says(s) = "err"
          ELSE Says(s) = "port" /\ Announces(n, to, status', services'[Server])
  BY <1>4, <1>10, <1>13 DEF Says
<1> HIDE DEF to, after
<1>15. /\ status' = Extended(status, packet.body.n, s) /\ s \in Statuses \union {Refused}
       /\ Transmit(Server, Taken(Server), Response(packet, Answer(packet.body.n, to)), TRUE)
       /\ Begins(services[Server], services'[Server]) /\ ServerEnds(services'[Server], active')
       /\ IF to = 0 THEN Says(s) = "err"
          ELSE Says(s) = "port" /\ Announces(packet.body.n, to, status', services'[Server])
  BY <1>1, <1>10, <1>11, <1>12, <1>14 DEF n, list
<1> QED
  BY <1>10, <1>12, <1>14, <1>15, CarriesOut

LEMMA ServerStep ==
  ASSUME CInv, ServerReceives
  PROVE  CInv' /\ [Calls!Next]_(Calls!vars)
<1>1. PICK packet :
        /\ Arrives(Server, packet)
        /\ \/ /\ ~HasReceiver(Server, packet) /\ line' = Taken(Server)
              /\ UNCHANGED <<services, serverVars>>
           \/ /\ HasReceiver(Server, packet)
              /\ \/ /\ Receiver(Server, packet).kind = "server" /\ packet.body.kind = "query"
                    /\ ServerAnswers(packet.body.n, packet)
                 \/ /\ Receiver(Server, packet).kind = "server" /\ packet.body.kind = "data"
                    /\ ServerReads(packet.body.n, packet)
                 \/ Receiver(Server, packet).kind = "echo" /\ Echoes(packet.body.n, packet)
                 \/ /\ Receiver(Server, packet).kind = "command"
                    /\ CommandReceives(packet.body.n, Receiver(Server, packet))
  BY DEF ServerReceives
<1>2. UNCHANGED clientVars
  BY DEF ServerReceives
<1> DEFINE n == packet.body.n
           owner == Receiver(Server, packet)
<1>3. /\ Taken(Server) \in [Devices -> Seq(Packets)] /\ Taken(Server)[Client] = line[Client]
      /\ packet \in Packets /\ n \in 0 .. MaxQueries /\ packet.body.kind \in {"query", "data"}
      /\ ForServer(packet, DOMAIN queries, status, announced)
  BY <1>1, ServerTakes
<1>4. HasReceiver(Server, packet) =>
        /\ owner \in Owners
        /\ packet.body.kind = "query" => owner = Owner("server", 0)
        /\ packet.body.kind = "data" => GotBy([n |-> n, owner |-> owner], status, announced)
  BY <1>3, ServerReceiver
<1>5. ClientLine(line[Client], status, DOMAIN answered, announced, services[Server])
  BY AsBefore
<1>6. /\ got \subseteq [n : 0 .. MaxQueries, owner : Owners] /\ running \in BOOLEAN
      /\ \A g \in got : GotBy(g, status, announced)
  BY DEF CInv, TypeOK, ToldOK
<1>7. CASE /\ ~HasReceiver(Server, packet) /\ line' = Taken(Server)
           /\ UNCHANGED <<services, serverVars>>
  <2>1. UNCHANGED <<services, active, running, status, got>>
    BY <1>7 DEF serverVars
  <2>2. running' \in BOOLEAN
    BY <1>6, <2>1
  <2>3. /\ line' \in [Devices -> Seq(Packets)] /\ line'[Server] = Taken(Server)[Server]
        /\ ClientLine(line'[Client], status, DOMAIN answered, announced, services[Server])
    BY <1>3, <1>5, <1>7
  <2>4. got' \subseteq [n : 0 .. MaxQueries, owner : Owners] /\ \A g \in got' : GotBy(g, status, announced)
    BY <1>6, <2>1
  <2> QED
    BY <1>1, <1>2, <2>1, <2>2, <2>3, <2>4, ServerKeeps
<1>8. CASE HasReceiver(Server, packet) /\ packet.body.kind = "query" /\ ServerAnswers(n, packet)
  <2>1. UNCHANGED <<running, got>>
    BY <1>8 DEF ServerAnswers
  <2>2. CASE Refuses(n, packet)
    BY <1>1, <1>2, <1>8, <2>1, <2>2, RefuseStep
  <2>3. CASE \E s \in Statuses : Starts(n, packet, s)
    <3>1. PICK s \in Statuses : Starts(n, packet, s)
      BY <2>3
    <3> QED
      BY <1>1, <1>2, <1>8, <2>1, <3>1, StartStep
  <2> QED
    BY <1>8, <2>2, <2>3 DEF ServerAnswers
<1>9. ASSUME HasReceiver(Server, packet), packet.body.kind = "data",
             got' = got \/ got' = got \union {[n |-> n, owner |-> owner]}
      PROVE  /\ got' \subseteq [n : 0 .. MaxQueries, owner : Owners]
             /\ \A g \in got' : GotBy(g, status, announced)
  <2> HIDE DEF n, owner
  <2> QED
    BY <1>3, <1>4, <1>6, <1>9
<1>10. CASE HasReceiver(Server, packet) /\ owner.kind = "server" /\ packet.body.kind = "data"
            /\ ServerReads(n, packet)
  <2>1. /\ got' = got \union {[n |-> n, owner |-> Owner("server", 0)]}
        /\ UNCHANGED <<services, active, status>>
        /\ \/ running' = FALSE /\ line' = Taken(Server)
           \/ /\ Transmit(Server, Taken(Server), Response(packet, Data(n)), TRUE)
              /\ running' = running
    BY <1>10 DEF ServerReads
  <2>2. running' \in BOOLEAN
    BY <1>6, <2>1
  <2>3. /\ line' \in [Devices -> Seq(Packets)] /\ line'[Server] = Taken(Server)[Server]
        /\ ClientLine(line'[Client], status, DOMAIN answered, announced, services[Server])
    <3>1. CASE line' = Taken(Server)
      BY <1>3, <1>5, <3>1
    <3>2. CASE Transmit(Server, Taken(Server), Response(packet, Data(n)), TRUE)
      <4>1. owner.kind # "command"
        BY <1>10
      <4> QED
        BY <1>1, <1>10, <3>2, <4>1, Returned
    <3> QED
      BY <2>1, <3>1, <3>2
  <2>4. got' \subseteq [n : 0 .. MaxQueries, owner : Owners] /\ \A g \in got' : GotBy(g, status, announced)
    <3>1. \A g \in got' : GotBy(g, status, announced)
      <4>1. GotBy([n |-> n, owner |-> owner], status, announced)
        BY <1>4, <1>10
      <4>2. GotBy([n |-> n, owner |-> Owner("server", 0)], status, announced)
        <5>1. owner.kind # "command"
          BY <1>10
        <5> HIDE DEF n, owner
        <5> QED
          BY <4>1, <5>1 DEF GotBy
      <4> QED
        BY <1>6, <2>1, <4>2
    <3>2. Owner("server", 0) \in Owners
      BY CommandsAssumption DEF Owner, Owners, Kinds
    <3> HIDE DEF n
    <3> QED
      BY <1>3, <1>6, <2>1, <3>1, <3>2
  <2> QED
    BY <1>1, <1>2, <2>1, <2>2, <2>3, <2>4, ServerKeeps
<1>11. CASE HasReceiver(Server, packet) /\ owner.kind = "echo" /\ Echoes(n, packet)
  <2>1. /\ UNCHANGED <<services, active, status, running, got>>
        /\ Transmit(Server, Taken(Server), Response(packet, Data(n)), TRUE)
    BY <1>11 DEF Echoes
  <2>2. packet.body.kind = "data" /\ owner.kind # "command"
    BY <1>3, <1>4, <1>11 DEF Owner
  <2>3. /\ line' \in [Devices -> Seq(Packets)] /\ line'[Server] = Taken(Server)[Server]
        /\ ClientLine(line'[Client], status, DOMAIN answered, announced, services[Server])
    BY <1>1, <1>11, <2>1, <2>2, Returned
  <2>4. running' \in BOOLEAN
    BY <1>6, <2>1
  <2>5. got' \subseteq [n : 0 .. MaxQueries, owner : Owners] /\ \A g \in got' : GotBy(g, status, announced)
    BY <1>6, <2>1
  <2> QED
    BY <1>1, <1>2, <2>1, <2>3, <2>4, <2>5, ServerKeeps
<1>12. CASE HasReceiver(Server, packet) /\ owner.kind = "command" /\ CommandReceives(n, owner)
  <2>1. /\ UNCHANGED <<services, active, status, running>> /\ line' = Taken(Server)
        /\ got' = got \union {[n |-> n, owner |-> owner]}
    BY <1>12 DEF CommandReceives
  <2>2. packet.body.kind = "data"
    BY <1>3, <1>4, <1>12 DEF Owner
  <2>3. /\ line' \in [Devices -> Seq(Packets)] /\ line'[Server] = Taken(Server)[Server]
        /\ ClientLine(line'[Client], status, DOMAIN answered, announced, services[Server])
    BY <1>3, <1>5, <2>1
  <2>4. running' \in BOOLEAN
    BY <1>6, <2>1
  <2>5. got' \subseteq [n : 0 .. MaxQueries, owner : Owners] /\ \A g \in got' : GotBy(g, status, announced)
    BY <1>9, <1>12, <2>1, <2>2
  <2> QED
    BY <1>1, <1>2, <2>1, <2>3, <2>4, <2>5, ServerKeeps
<1> QED
  BY <1>1, <1>7, <1>8, <1>10, <1>11, <1>12

LEMMA LoseStep ==
  ASSUME CInv, NEW d \in Devices, Lose(d)
  PROVE  CInv' /\ [Calls!Next]_(Calls!vars)
<1>1. PICK i \in DOMAIN line[d] : line' = [line EXCEPT ![d] = Without(@, i)]
  BY DEF Lose
<1>2. UNCHANGED <<services, active, running, status, got, queries, connections, answered, announced, sent>>
  BY DEF Lose, serverVars, clientVars
<1> DEFINE old == line[d]
           new == Without(old, i)
<1>3. line \in [Devices -> Seq(Packets)] /\ old \in Seq(Packets) /\ Distinct(old)
  <2>1. line \in [Devices -> Seq(Packets)] /\ d \in {Client, Server}
    BY DevicesAre DEF CInv, TypeOK
  <2> QED
    BY <2>1, LinesAre
<1>4. i \in 1 .. Len(old)
  BY <1>3
<1>5. /\ new \in Seq(Packets) /\ Distinct(new)
      /\ \A j \in 1 .. Len(new) : \E k \in 1 .. Len(old) : new[j] = old[k]
  <2> HIDE DEF old
  <2> QED
    BY <1>3, <1>4, DistinctWithout
<1>6. line' = [line EXCEPT ![d] = new]
  BY <1>1
<1> HIDE DEF new
<1>7. /\ line' \in [Devices -> Seq(Packets)] /\ line'[d] = new
      /\ \A b \in Devices \ {d} : line'[b] = line[b]
  BY <1>3, <1>5, <1>6
<1>8. ServerLine(line'[Server], DOMAIN queries, status, announced)
  <2>1. CASE d = Server
    <3>1. \A j \in 1 .. Len(new) : new[j].body.kind = "query" => new[j].body.n \notin DOMAIN status
      BY <1>5, <2>1, LinesAre
    <3> QED
      BY <1>5, <1>7, <2>1, <3>1, AsBefore, ServerLineStays
  <2>2. CASE d # Server
    BY <1>7, <2>2, DevicesAre DEF CInv, LinesOK
  <2> QED
    BY <2>1, <2>2
<1>9. ClientLine(line'[Client], status, DOMAIN answered, announced, services[Server])
  <2>1. CASE d = Client
    <3>1. \A j \in 1 .. Len(new) : new[j].body.kind = "answer" => new[j].body.n \notin DOMAIN answered
      BY <1>5, <2>1, LinesAre
    <3>2. \A j \in 1 .. Len(new) : \E k \in 1 .. Len(line[Client]) : new[j] = line[Client][k]
      BY <1>5, <2>1
    <3>3. ClientLine(new, status, DOMAIN answered, announced, services[Server])
      BY <1>5, <3>1, <3>2, AsBefore, ClientLineStays
    <3> QED
      BY <1>7, <2>1, <3>3
  <2>2. CASE d # Client
    BY <1>7, <2>2, DevicesAre DEF CInv, LinesOK
  <2> QED
    BY <2>1, <2>2
<1>10. TypeOK'
  BY <1>2, <1>7 DEF CInv, TypeOK
<1>11. EndsOK' /\ LinesOK' /\ ToldOK'
  BY <1>2, <1>8, <1>9 DEF CInv, EndsOK, LinesOK, ToldOK
<1> QED
  BY <1>2, <1>10, <1>11, Stutters DEF CInv

LEMMA InitStep ==
  ASSUME Init
  PROVE  CInv /\ Calls!Init
<1>1. /\ services = [d \in Devices |->
           IF d = Client
             THEN <<Endpoint(ClientPort, Owner("client", 0)), Endpoint(UserPort, Owner("user", 0))>>
             ELSE <<Endpoint(ServerPort, Owner("server", 0)), Endpoint(EchoPort, Owner("echo", 0))>>]
      /\ line = [d \in Devices |-> << >>]
      /\ queries = << >> /\ connections = << >> /\ active = << >> /\ running = TRUE
      /\ status = << >> /\ answered = << >> /\ announced = << >>
      /\ sent = {} /\ got = {}
  BY DEF Init
<1>2. \A kind \in Kinds, port \in Nat : Endpoint(port, Owner(kind, 0)) \in Endpoints
  BY CommandsAssumption DEF Endpoint, Endpoints, Owner, Owners
<1>3. "client" \in Kinds /\ "user" \in Kinds /\ "server" \in Kinds /\ "echo" \in Kinds
  BY DEF Kinds
<1> DEFINE client == <<Endpoint(ClientPort, Owner("client", 0)), Endpoint(UserPort, Owner("user", 0))>>
           server == <<Endpoint(ServerPort, Owner("server", 0)), Endpoint(EchoPort, Owner("echo", 0))>>
<1>4. client \in Seq(Endpoints) /\ server \in Seq(Endpoints)
  <2>1. /\ Endpoint(ClientPort, Owner("client", 0)) \in Endpoints
        /\ Endpoint(UserPort, Owner("user", 0)) \in Endpoints
        /\ Endpoint(ServerPort, Owner("server", 0)) \in Endpoints
        /\ Endpoint(EchoPort, Owner("echo", 0)) \in Endpoints
    BY <1>2, <1>3, PortsAre
  <2> QED
    BY <2>1
<1>5. ClientEnds(client, << >>)
  <2>1. ClientPort # UserPort
    BY CommandsAssumption
  <2>2. /\ Len(client) = 2 /\ client[1].port = ClientPort /\ client[2].port = UserPort
        /\ client[1] = Endpoint(ClientPort, Owner("client", 0))
        /\ client[2] = Endpoint(UserPort, Owner("user", 0))
    BY DEF Endpoint
  <2> HIDE DEF client
  <2> QED
    BY <2>1, <2>2 DEF ClientEnds, Ends
<1>6. ServerEnds(server, << >>)
  <2>1. ServerPort # EchoPort
    BY CommandsAssumption
  <2>2. /\ Len(server) = 2 /\ server[1].port = ServerPort /\ server[2].port = EchoPort
        /\ server[1] = Endpoint(ServerPort, Owner("server", 0))
        /\ server[2] = Endpoint(EchoPort, Owner("echo", 0))
    BY DEF Endpoint
  <2> HIDE DEF server
  <2> QED
    BY <2>1, <2>2 DEF ServerEnds, Ends
<1>7. services = [d \in Devices |-> IF d = Client THEN client ELSE server]
  BY <1>1
<1> HIDE DEF client, server
<1>8. services[Client] = client /\ services[Server] = server
      /\ services \in [Devices -> Seq(Endpoints)]
  BY <1>4, <1>7, DevicesAre
<1>9. line \in [Devices -> Seq(Packets)] /\ line[Server] = << >> /\ line[Client] = << >>
  <2>1. << >> \in Seq(Packets)
    OBVIOUS
  <2> QED
    BY <1>1, <2>1, DevicesAre
<1>10. TypeOK
  <2>1. /\ status \in [DOMAIN status -> Statuses \union {Refused}] /\ DOMAIN status = {}
        /\ answered \in [DOMAIN answered -> {"port", "err"}] /\ DOMAIN answered = {}
        /\ announced \in [DOMAIN announced -> Nat] /\ DOMAIN announced = {}
    BY <1>1
  <2>2. /\ queries \in Seq(Forms) /\ Len(queries) <= MaxQueries
        /\ connections \in Seq(1 .. MaxQueries) /\ active \in Seq(1 .. MaxQueries)
    BY <1>1, CommandsAssumption
  <2> QED
    BY <1>1, <1>8, <1>9, <2>1, <2>2 DEF TypeOK
<1>11. EndsOK
  BY <1>1, <1>5, <1>6, <1>8 DEF EndsOK
<1>12. LinesOK /\ ToldOK
  BY <1>1, <1>9 DEF LinesOK, ServerLine, ClientLine, Distinct, ToldOK
<1>13. Calls!Init
  <2>1. DOMAIN queries = {}
    BY <1>1
  <2>2. [n \in DOMAIN status |-> Says(status[n])] = << >>
    BY <1>1
  <2> QED
    BY <1>1, <2>1, <2>2 DEF Calls!Init
<1> QED
  BY <1>10, <1>11, <1>12, <1>13 DEF CInv

LEMMA NextStep ==
  ASSUME CInv, [Next]_vars
  PROVE  CInv' /\ [Calls!Next]_(Calls!vars)
<1>1. CASE UNCHANGED vars
  <2>1. UNCHANGED <<services, line, active, running, status, got, queries, connections, answered,
                    announced, sent>>
    BY <1>1 DEF vars, portsVars, serverVars, clientVars
  <2>2. CInv'
    BY <2>1 DEF CInv, TypeOK, EndsOK, LinesOK, ToldOK
  <2> QED
    BY <2>1, <2>2, Stutters
<1> QED
  BY <1>1, SendStep, UserStep, ClientStep, ServerStep, LoseStep DEF Next

-----------------------------------------------------------------------------

(***************************************************************************)
(* The theorems.                                                           *)
(***************************************************************************)

THEOREM CInvHolds == Spec => []CInv
<1>1. Init => CInv
  BY InitStep
<1>2. CInv /\ [Next]_vars => CInv'
  BY NextStep
<1> QED
  BY <1>1, <1>2, PTL DEF Spec

(* Ports, packets and what is known of the queries stay what they are: an  *)
(* answer is to a query that was carried out, a port is told to nobody     *)
(* else.                                                                   *)
THEOREM TypeCorrect == Spec => []TypeOK
<1>1. CInv => TypeOK
  BY DEF CInv
<1> QED
  BY <1>1, CInvHolds, PTL

(* Client and server implement RemoteCall, whatever is lost: a query is    *)
(* carried out at most once, and its one answer says what it came to.      *)
THEOREM ImplementsCalls == Spec => ImplementsRemoteCall
<1>1. Init => Calls!Init
  BY InitStep
<1>2. CInv /\ [Next]_vars => [Calls!Next]_(Calls!vars)
  BY NextStep
<1> QED
  BY <1>1, <1>2, CInvHolds, PTL DEF Spec, ImplementsRemoteCall, Calls!Spec

LEMMA FreeRangeIs ==
  ASSUME NEW d \in Devices, NEW first \in Endpoints, NEW second \in Endpoints, NEW kind,
         NEW for \in Seq(1 .. MaxQueries), services[d] \in Seq(Endpoints),
         Ends(services[d], first, second, kind, for),
         first.port < FirstFree, second.port < FirstFree
  PROVE  /\ FreeRange(d) = 3 .. Len(for) + 2 /\ Cardinality(FreeRange(d)) = Len(for)
         /\ \A i \in FreeRange(d) : services[d][i].owner = Owner(kind, for[i - 2])
<1> DEFINE list == services[d]
<1>1. Len(list) = Len(for) + 2 /\ Len(for) \in Nat /\ DOMAIN list = 1 .. Len(for) + 2
  BY DEF Ends
<1>2. list[1].port < FirstFree /\ list[2].port < FirstFree
      /\ first.port \in Nat /\ second.port \in Nat
  BY DEF Ends, Endpoints
<1>3. \A i \in 1 .. Len(for) : list[i + 2].owner = Owner(kind, for[i])
                               /\ list[i + 2].port >= FirstFree
  BY DEF Ends
<1>4. list[1].port \in Nat /\ list[2].port \in Nat /\ FirstFree \in Nat
  BY <1>2, PortsAre DEF Ends
<1> HIDE DEF list
<1>5. ASSUME NEW i \in 3 .. Len(for) + 2
      PROVE  /\ i \in DOMAIN list /\ list[i].port >= FirstFree
             /\ list[i].owner = Owner(kind, for[i - 2])
  <2>1. i - 2 \in 1 .. Len(for) /\ (i - 2) + 2 = i /\ i \in DOMAIN list
    BY <1>1
  <2> QED
    BY <1>3, <2>1
<1>6. ASSUME NEW i \in DOMAIN list, list[i].port >= FirstFree
      PROVE  i \in 3 .. Len(for) + 2
  <2>1. i # 1 /\ i # 2
    BY <1>2, <1>4, <1>6
  <2> QED
    BY <1>1, <2>1
<1>7. FreeRange(d) = 3 .. Len(for) + 2
  BY <1>5, <1>6 DEF FreeRange, list
<1>8. Cardinality(3 .. Len(for) + 2) = Len(for)
  <2>1. 3 \in Int /\ Len(for) + 2 \in Int
    BY <1>1
  <2>2. Cardinality(3 .. Len(for) + 2) = IF 3 > Len(for) + 2 THEN 0 ELSE (Len(for) + 2) - 3 + 1
    BY <2>1, FS_Interval
  <2> QED
    BY <1>1, <2>2
<1> QED
  BY <1>5, <1>7, <1>8 DEF list

(* A port has one endpoint, and a command that has ended leaves none       *)
(* behind: the free range holds those of the connections and of the        *)
(* commands that go on, however many queries there are.                    *)
THEOREM EndpointsStayAlive == Spec => []EndpointsAlive
<1>1. ASSUME CInv
      PROVE  EndpointsAlive
  <2>1. /\ services[Server] \in Seq(Endpoints) /\ services[Client] \in Seq(Endpoints)
        /\ ServerEnds(services[Server], active) /\ ClientEnds(services[Client], connections)
        /\ active \in Seq(1 .. MaxQueries) /\ connections \in Seq(1 .. MaxQueries)
    BY <1>1, Facts DEF CInv, EndsOK, TypeOK
  <2>2. \A kind \in Kinds, port \in Nat :
          Endpoint(port, Owner(kind, 0)) \in Endpoints /\ Endpoint(port, Owner(kind, 0)).port = port
    BY CommandsAssumption DEF Endpoint, Endpoints, Owner, Owners
  <2>3. "client" \in Kinds /\ "user" \in Kinds /\ "server" \in Kinds /\ "echo" \in Kinds
    BY DEF Kinds
  <2>4. /\ Cardinality(FreeRange(Server)) = Len(active)
        /\ \A i \in FreeRange(Server) :
             services[Server][i].owner = Owner("command", active[i - 2])
    <3> DEFINE first == Endpoint(ServerPort, Owner("server", 0))
               second == Endpoint(EchoPort, Owner("echo", 0))
    <3>1. /\ first \in Endpoints /\ first.port < FirstFree
          /\ second \in Endpoints /\ second.port < FirstFree
      BY <2>2, <2>3, PortsAre
    <3>2. Ends(services[Server], first, second, "command", active)
      BY <2>1 DEF ServerEnds
    <3> HIDE DEF first, second
    <3> QED
      BY <2>1, <3>1, <3>2, DevicesAre, FreeRangeIs
  <2>5. /\ Cardinality(FreeRange(Client)) = Len(connections)
        /\ \A i \in FreeRange(Client) :
             services[Client][i].owner = Owner("connection", connections[i - 2])
    <3> DEFINE first == Endpoint(ClientPort, Owner("client", 0))
               second == Endpoint(UserPort, Owner("user", 0))
    <3>1. /\ first \in Endpoints /\ first.port < FirstFree
          /\ second \in Endpoints /\ second.port < FirstFree
      BY <2>2, <2>3, PortsAre
    <3>2. Ends(services[Client], first, second, "connection", connections)
      BY <2>1 DEF ClientEnds
    <3> HIDE DEF first, second
    <3> QED
      BY <2>1, <3>1, <3>2, DevicesAre, FreeRangeIs
  <2>6. ASSUME NEW d \in Devices, NEW i \in DOMAIN services[d], NEW j \in DOMAIN services[d],
               services[d][i].port = services[d][j].port
        PROVE  i = j
    <3>1. d = Server \/ d = Client
      BY DevicesAre
    <3>2. i \in 1 .. Len(services[d]) /\ j \in 1 .. Len(services[d])
      BY <2>1, <3>1
    <3> QED
      BY <2>1, <2>6, <3>1, <3>2 DEF ServerEnds, ClientEnds, Ends
  <2> QED
    BY <2>4, <2>5, <2>6 DEF EndpointsAlive
<1> QED
  BY <1>1, CInvHolds, PTL

(* Data for the command of a query is handed to that command if it goes    *)
(* on, and to a command in any case, as long as ports fit in a byte.       *)
THEOREM DataIsForItsCommand == Spec => []DataReachesItsCommand
<1>1. CInv => DataReachesItsCommand
  BY DEF CInv, ToldOK, GotBy, DataReachesItsCommand
<1> QED
  BY <1>1, CInvHolds, PTL
=============================================================================
