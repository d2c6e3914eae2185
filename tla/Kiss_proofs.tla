----------------------------- MODULE Kiss_proofs -----------------------------
(***************************************************************************)
(* Theorems about Kiss, for every number of packets, ids, retries, queue   *)
(* limits and times: kiss_protocol implements AckedTransfer, whatever the  *)
(* line loses; and on a prompt line whose queues are ample nothing is      *)
(* refused, no packet is given up and nobody is taken for dead.            *)
(*                                                                         *)
(* The invariant relates, for each peer, its list to the messages it has   *)
(* under way (`out'), to the acknowledgements that come back (`in'), and   *)
(* to what the other side has received.  Its parts are operators of these  *)
(* values, so that what a step does to them is a lemma of its own.         *)
(***************************************************************************)
EXTENDS Kiss, FiniteSetTheorems, TLAPS

Id == 0 .. IdMod - 1
Entry == [type : {"ping", "data"}, id : Id, n : 0 .. MaxPackets,
          age : 0 .. RetryHoldoff, retries : Nat]
Msg == [type : Types, id : Id, n : 0 .. MaxPackets]
MaxSends == IF RetriesMax > 1 THEN RetriesMax ELSE 1

(* The copies of data packet n among the messages s.                       *)
Copies(s, n) == {k \in 1 .. Len(s) : s[k].type = "data" /\ s[k].n = n}

(* Ids and packets are listed once, and what is listed was accepted and    *)
(* has not been settled.                                                   *)
ListOK(list, acc, settled) ==
  /\ settled \subseteq 1 .. acc
  /\ \A i \in 1 .. Len(list) :
       /\ list[i].retries \in 1 .. MaxSends
       /\ list[i].type = "data" => list[i].n \in 1 .. acc /\ list[i].n \notin settled
  /\ \A i, j \in 1 .. Len(list) :
       /\ list[i].id = list[j].id => i = j
       /\ list[i].type = "data" /\ list[j].type = "data" /\ list[i].n = list[j].n => i = j

(* A message under way carries an accepted packet, and the same one as the *)
(* element of the list with its id, if there is one.                       *)
OutOK(list, out, acc) ==
  \A k \in 1 .. Len(out) :
    /\ out[k].type = "data" => out[k].n \in 1 .. acc
    /\ \A i \in 1 .. Len(list) :
         out[k].type # "ack" /\ out[k].id = list[i].id =>
           out[k].type = list[i].type /\ out[k].n = list[i].n

(* What is about to be acknowledged was received.                          *)
InOK(list, in, rec) ==
  \A k \in 1 .. Len(in), i \in 1 .. Len(list) :
    in[k].type = "ack" /\ in[k].id = list[i].id /\ list[i].type = "data" =>
      rec[list[i].n] > 0

(* A packet was received and is under way at most as often as it was sent. *)
CountOK(list, out, acc, rec) ==
  \A n \in 1 .. MaxPackets :
    /\ n > acc => rec[n] = 0
    /\ rec[n] + Cardinality(Copies(out, n)) <= MaxSends
    /\ \A i \in 1 .. Len(list) :
         list[i].type = "data" /\ list[i].n = n =>
           rec[n] + Cardinality(Copies(out, n)) <= list[i].retries

PeerOK(list, out, in, acc, rec, settled) ==
  /\ ListOK(list, acc, settled) /\ OutOK(list, out, acc)
  /\ InOK(list, in, rec) /\ CountOK(list, out, acc, rec)

PeerInv(p) == PeerOK(packet_list[p], line[Other(p)], line[p], accepted[p], received[p],
                     acked[p] \union given_up[p])

KInv == TypeOK /\ \A p \in Peers : PeerInv(p)

(* On a prompt line an element of the list has at most one message under   *)
(* way, its own or its acknowledgement, and none once its holdoff has      *)
(* passed; without one it was lost as often as it was sent.                *)
Of(s, kinds, id) == {k \in 1 .. Len(s) : s[k].type \in kinds /\ s[k].id = id}
Single(ks) == \A j, k \in ks : j = k

(* For an element with so many retries and that age, and the messages of   *)
(* its own and the acknowledgements that are under way for it.             *)
Answerable(own, acks, retries, age, lost) ==
  /\ Single(own) /\ Single(acks) /\ (own = {} \/ acks = {})
  /\ own = {} /\ acks = {} => retries <= lost
  /\ own # {} \/ acks # {} => retries <= lost + 1 /\ age < RetryHoldoff

PromptOK(list, out, in, lost) ==
  \A i \in 1 .. Len(list) :
    Answerable(Of(out, {"ping", "data"}, list[i].id), Of(in, {"ack"}, list[i].id),
               list[i].retries, list[i].age, lost)

(* What the element with so many retries and that age allows the silence   *)
(* of a pinging peer to be: it has sent something in time, and sends it    *)
(* again at every holdoff.                                                 *)
Allows(retries, age) == PingHoldoff + (retries - 1) * RetryHoldoff + age

SilenceOK(list, silence, quiet) ==
  \/ list = << >> /\ silence <= quiet
  \/ \E i \in 1 .. Len(list) : silence <= Allows(list[i].retries, list[i].age)

PromptPeer(p) ==
  /\ PromptOK(packet_list[p], line[Other(p)], line[p], losses)
  /\ given_up[p] = {}
  /\ p \in scene.pinging /\ is_peer_alive(p) =>
       SilenceOK(packet_list[p], last_received[p], last_transmitted[p])

Prompt == (losses = 0 \/ losses < RetriesMax) /\ \A p \in Peers : PromptPeer(p)

PromptInv == scene.regime = "prompt" => Prompt

(* The ids of a list, and those that have a message under way: a packet or *)
(* ping that goes out, or an acknowledgement that comes in.                *)
Ids(list) == {list[i].id : i \in 1 .. Len(list)}
Under(out, in) ==
  {out[k].id : k \in {j \in 1 .. Len(out) : out[j].type # "ack"}} \union
  {in[k].id : k \in {j \in 1 .. Len(in) : in[j].type = "ack"}}

(* The elements that have lost a message, and the pings that have not and  *)
(* whose message is under way.                                             *)
LostIds(list, under) ==
  {list[i].id : i \in {j \in 1 .. Len(list) : list[j].retries > 1 \/ list[j].id \notin under}}
NewPings(list, under) ==
  {list[i].id : i \in {j \in 1 .. Len(list) : /\ list[j].type = "ping" /\ list[j].retries = 1
                                              /\ list[j].id \in under}}

(* What is under way to a peer.                                            *)
UnderWay(p) == Under(line[Other(p)], line[p])
Lost(p) == LostIds(packet_list[p], UnderWay(p))

(* Every message under way belongs to an element of a list; between two    *)
(* ticks a peer pings once; and only what was lost has been sent twice, or *)
(* has nothing under way.                                                  *)
RoomOK(list, under, pings, quiet) ==
  /\ under \subseteq Ids(list)
  /\ \A x, y \in NewPings(list, under) : x = y
  /\ NewPings(list, under) # {} => pings /\ quiet < PingHoldoff

RoomPeer(p) ==
  /\ RoomOK(packet_list[p], UnderWay(p), p \in scene.pinging, last_transmitted[p])
  /\ accepted[p] <= (IF p \in scene.users THEN scene.packets ELSE 0)
  /\ Cardinality(Lost(p)) + Cardinality(Lost(Other(p))) <= losses

RoomInv == scene.regime = "prompt" => \A p \in Peers : RoomPeer(p)

(* The queues of a prompt line refuse nothing.                             *)
Room == scene.regime = "prompt" => \A p \in Peers : Len(line[p]) < scene.limit

-----------------------------------------------------------------------------
(* The operators.                                                          *)

LEMMA OtherIs ==
  /\ \A p \in Peers : Other(p) \in Peers /\ Other(p) # p /\ Other(Other(p)) = p
  /\ \A p, q \in Peers : q = p \/ q = Other(p)
<1>1. PICK a \in Peers, b \in Peers : a # b /\ Peers = {a, b}
  BY KissAssumption
<1>2. Other(a) = b /\ Other(b) = a
  BY <1>1 DEF Other
<1> QED
  BY <1>1, <1>2

(* One element is taken out.                                               *)
LEMMA WithoutIs ==
  ASSUME NEW S, NEW s \in Seq(S), NEW i \in 1 .. Len(s)
  PROVE  /\ Without(s, i) \in Seq(S)
         /\ Len(s) \in Nat /\ Len(Without(s, i)) = Len(s) - 1
         /\ \A j \in 1 .. Len(s) - 1 :
              Without(s, i)[j] = IF j < i THEN s[j] ELSE s[j + 1]
<1> DEFINE w == Without(s, i)
<1>1. Len(s) - 1 \in Nat /\ \A j \in 1 .. Len(s) : s[j] \in S
  OBVIOUS
<1>2. w = [j \in 1 .. Len(s) - 1 |-> IF j < i THEN s[j] ELSE s[j + 1]]
  BY DEF Without
<1>3. \A j \in 1 .. Len(s) - 1 : (IF j < i THEN s[j] ELSE s[j + 1]) \in S
  BY <1>1
<1>4. w \in [1 .. Len(s) - 1 -> S]
  BY <1>2, <1>3
<1> HIDE DEF w
<1>5. w \in Seq(S) /\ Len(w) = Len(s) - 1
  BY <1>1, <1>4
<1> QED
  BY <1>1, <1>2, <1>5 DEF w

(* Nothing new is put in.                                                  *)
LEMMA WithoutOld ==
  ASSUME NEW S, NEW s \in Seq(S), NEW i \in 1 .. Len(s), NEW j \in 1 .. Len(Without(s, i))
  PROVE  \E l \in 1 .. Len(s) : Without(s, i)[j] = s[l]
<1>1. /\ Len(s) \in Nat /\ Len(Without(s, i)) = Len(s) - 1
      /\ \A k \in 1 .. Len(s) - 1 :
           Without(s, i)[k] = IF k < i THEN s[k] ELSE s[k + 1]
  BY WithoutIs
<1>2. CASE j < i
  <2>1. j \in 1 .. Len(s) /\ Without(s, i)[j] = s[j]
    BY <1>1, <1>2
  <2> QED
    BY <2>1
<1>3. CASE ~(j < i)
  <2>1. j + 1 \in 1 .. Len(s) /\ Without(s, i)[j] = s[j + 1]
    BY <1>1, <1>3
  <2> QED
    BY <2>1
<1> QED
  BY <1>2, <1>3

(* The first element is taken out.                                         *)
LEMMA TailIs ==
  ASSUME NEW S, NEW s \in Seq(S), s # << >>
  PROVE  1 \in 1 .. Len(s) /\ Head(s) = s[1] /\ Tail(s) = Without(s, 1)
<1>1. 1 \in 1 .. Len(s) /\ Head(s) = s[1]
  OBVIOUS
<1>2. /\ Tail(s) \in Seq(S) /\ Len(Tail(s)) = Len(s) - 1
      /\ \A j \in 1 .. Len(s) - 1 : Tail(s)[j] = s[j + 1]
  OBVIOUS
<1>3. /\ Without(s, 1) \in Seq(S) /\ Len(Without(s, 1)) = Len(s) - 1
      /\ \A j \in 1 .. Len(s) - 1 : Without(s, 1)[j] = s[j + 1]
  BY <1>1, WithoutIs
<1>4. Tail(s) = Without(s, 1)
  BY <1>2, <1>3
<1> QED
  BY <1>1, <1>4

(* `part' holds elements of `whole', none of them twice.                   *)
PartOf(part, whole) ==
  \E f \in [1 .. Len(part) -> 1 .. Len(whole)] :
    \A k \in 1 .. Len(part) :
      part[k] = whole[f[k]] /\ \A j \in 1 .. Len(part) : f[j] = f[k] => j = k

LEMMA WithoutPart ==
  ASSUME NEW S, NEW s \in Seq(S), NEW i \in 1 .. Len(s)
  PROVE  PartOf(Without(s, i), s)
<1> DEFINE w == Without(s, i)
           f == [k \in 1 .. Len(w) |-> IF k < i THEN k ELSE k + 1]
<1>1. /\ Len(w) = Len(s) - 1
      /\ \A j \in 1 .. Len(s) - 1 : w[j] = IF j < i THEN s[j] ELSE s[j + 1]
  BY WithoutIs
<1> HIDE DEF w
<1>2. f \in [1 .. Len(w) -> 1 .. Len(s)]
  BY <1>1
<1>3. \A k \in 1 .. Len(w) :
        w[k] = s[f[k]] /\ \A j \in 1 .. Len(w) : f[j] = f[k] => j = k
  BY <1>1
<1> QED
  BY <1>2, <1>3 DEF PartOf, w

(* A set of positions has as many members as it has ranks.                 *)
LEMMA RankThere ==
  ASSUME NEW len \in Nat, NEW kept \in SUBSET (1 .. len)
  PROVE  /\ Cardinality(kept) \in Nat
         /\ \A k \in 1 .. Cardinality(kept) :
              \E i \in kept : Cardinality({j \in kept : j <= i}) = k
         /\ \A i \in kept : Cardinality({j \in kept : j <= i}) \in 1 .. Cardinality(kept)
         /\ \A i, k \in kept :
              Cardinality({j \in kept : j <= i}) = Cardinality({j \in kept : j <= k}) => i = k
<1> DEFINE upto(i) == {j \in kept : j <= i}
           rank == [i \in kept |-> Cardinality(upto(i))]
<1>1. IsFiniteSet(1 .. len)
  BY FS_Interval
<1>2. IsFiniteSet(kept) /\ Cardinality(kept) \in Nat
  BY <1>1, FS_Subset, FS_CardinalityType
<1>3. ASSUME NEW i \in kept
      PROVE  /\ IsFiniteSet(upto(i)) /\ Cardinality(upto(i)) \in Nat
             /\ 1 <= Cardinality(upto(i)) /\ Cardinality(upto(i)) <= Cardinality(kept)
  <2>1. upto(i) \in SUBSET kept /\ i \in upto(i)
    OBVIOUS
  <2>2. IsFiniteSet(upto(i)) /\ Cardinality(upto(i)) <= Cardinality(kept)
    BY <2>1, <1>2, FS_Subset
  <2>3. Cardinality(upto(i)) \in Nat /\ Cardinality(upto(i)) # 0
    BY <2>1, <2>2, FS_CardinalityType, FS_EmptySet
  <2> QED
    BY <2>2, <2>3
<1>4. ASSUME NEW i \in kept, NEW j \in kept, i < j
      PROVE  Cardinality(upto(i)) # Cardinality(upto(j))
  <2>1. i \in Nat /\ j \in Nat /\ kept \subseteq Nat
    OBVIOUS
  <2>2. upto(i) \subseteq upto(j) /\ j \in upto(j) /\ j \notin upto(i)
    <3>1. \A x \in kept : x <= i => x <= j
      BY <2>1, <1>4
    <3>2. j <= j /\ ~(j <= i)
      BY <2>1, <1>4
    <3> QED
      BY <3>1, <3>2
  <2>3. IsFiniteSet(upto(j))
    BY <1>3
  <2> HIDE DEF upto
  <2>4. Cardinality(upto(j)) = Cardinality(upto(i)) => upto(j) = upto(i)
    BY <2>2, <2>3, FS_Subset
  <2> QED
    BY <2>2, <2>4
<1>5. rank \in [kept -> 1 .. Cardinality(kept)]
  BY <1>2, <1>3
<1>6. \A i, j \in kept : rank[i] = rank[j] => i = j
  <2>1. \A i, j \in kept : i < j \/ j < i \/ i = j
    OBVIOUS
  <2> QED
    BY <2>1, <1>4
<1> HIDE DEF rank
<1>7. rank \in Injection(kept, 1 .. Cardinality(kept))
  BY <1>5, <1>6 DEF Injection, IsInjective
<1>8. /\ IsFiniteSet(1 .. Cardinality(kept))
      /\ Cardinality(1 .. Cardinality(kept)) = Cardinality(kept)
  BY <1>2, FS_Interval
<1>9. rank \in Surjection(kept, 1 .. Cardinality(kept))
  BY <1>7, <1>8, FS_Injection
<1>10. \A k \in 1 .. Cardinality(kept) : \E i \in kept : rank[i] = k
  BY <1>9 DEF Surjection
<1>11. \A i \in kept : rank[i] \in 1 .. Cardinality(kept)
  BY <1>5
<1> QED
  BY <1>2, <1>6, <1>10, <1>11, Zenon DEF rank

(* What an acknowledgement leaves is the list without its id.              *)
LEMMA UnmatchedIs ==
  ASSUME NEW S, NEW s \in Seq(S), NEW id
  PROVE  /\ Unmatched(s, id) \in Seq(S)
         /\ PartOf(Unmatched(s, id), s)
         /\ \A k \in 1 .. Len(Unmatched(s, id)) : Unmatched(s, id)[k].id # id
         /\ \A i \in 1 .. Len(s) :
              s[i].id # id => \E k \in 1 .. Len(Unmatched(s, id)) : Unmatched(s, id)[k] = s[i]
<1> DEFINE kept == {i \in 1 .. Len(s) : ~Matches(s[i], id)}
           upto(i) == {j \in kept : j <= i}
           Nth(k) == CHOOSE i \in kept : Cardinality(upto(i)) = k
           f == [k \in 1 .. Cardinality(kept) |-> Nth(k)]
           u == Unmatched(s, id)
<1>1. /\ Cardinality(kept) \in Nat
      /\ \A k \in 1 .. Cardinality(kept) : \E i \in kept : Cardinality(upto(i)) = k
      /\ \A i \in kept : Cardinality(upto(i)) \in 1 .. Cardinality(kept)
      /\ \A i, k \in kept : Cardinality(upto(i)) = Cardinality(upto(k)) => i = k
  <2>1. Len(s) \in Nat /\ kept \in SUBSET (1 .. Len(s))
    OBVIOUS
  <2> HIDE DEF kept
  <2> QED
    BY <2>1, RankThere
<1>2. u = [k \in 1 .. Cardinality(kept) |-> s[Nth(k)]]
  BY DEF Unmatched
<1>3. \A k \in 1 .. Cardinality(kept) : Nth(k) \in kept /\ Cardinality(upto(Nth(k))) = k
  BY <1>1
<1> HIDE DEF Nth, upto, u
<1>12. ASSUME NEW i \in 1 .. Len(s), s[i].id # id
       PROVE  \E k \in 1 .. Cardinality(kept) : u[k] = s[i]
  <2> DEFINE k == Cardinality(upto(i))
  <2>1. i \in kept
    BY <1>12 DEF Matches
  <2>2. k \in 1 .. Cardinality(kept)
    BY <2>1, <1>1
  <2>3. Nth(k) = i
    BY <2>1, <2>2, <1>1, <1>3
  <2>4. u[k] = s[Nth(k)]
    BY <2>2, <1>2
  <2> QED
    BY <2>2, <2>3, <2>4
<1>4. /\ \A k \in 1 .. Cardinality(kept) : f[k] = Nth(k) /\ u[k] = s[f[k]]
      /\ \A k \in 1 .. Cardinality(kept) : f[k] \in kept
  BY <1>2, <1>3
<1>5. \A j, k \in 1 .. Cardinality(kept) : f[j] = f[k] => j = k
  BY <1>3, <1>4, Zenon
<1>6. f \in [1 .. Cardinality(kept) -> 1 .. Len(s)]
  BY <1>3
<1>7. \A k \in 1 .. Cardinality(kept) : s[Nth(k)] \in S /\ s[Nth(k)].id # id
  BY <1>3 DEF Matches
<1> DEFINE c == Cardinality(kept)
<1>8. u \in [1 .. c -> S] /\ \A k \in 1 .. c : u[k].id # id
  BY <1>2, <1>7
<1>9. c \in Nat
  BY <1>1
<1> HIDE DEF c
<1>10. u \in Seq(S) /\ Len(u) = c
  BY <1>8, <1>9
<1> HIDE DEF f
<1>11. PartOf(u, s)
  <2>1. f \in [1 .. Len(u) -> 1 .. Len(s)]
    BY <1>6, <1>10 DEF c
  <2>2. \A k \in 1 .. Len(u) : u[k] = s[f[k]] /\ \A j \in 1 .. Len(u) : f[j] = f[k] => j = k
    BY <1>4, <1>5, <1>10, Zenon DEF c
  <2> QED
    BY <2>1, <2>2, Zenon DEF PartOf
<1>13. \A i \in 1 .. Len(s) : s[i].id # id => \E k \in 1 .. Len(u) : u[k] = s[i]
  BY <1>10, <1>12, Zenon DEF c
<1> QED
  BY <1>8, <1>10, <1>11, <1>13 DEF u

-----------------------------------------------------------------------------
(* Copies under way.                                                       *)

LEMMA CopiesFinite ==
  ASSUME NEW s \in Seq(Msg), NEW n
  PROVE  IsFiniteSet(Copies(s, n)) /\ Cardinality(Copies(s, n)) \in Nat
<1>1. Copies(s, n) \in SUBSET (1 .. Len(s)) /\ Len(s) \in Nat
  BY DEF Copies
<1>2. IsFiniteSet(1 .. Len(s))
  BY <1>1, FS_Interval
<1> QED
  BY <1>1, <1>2, FS_Subset, FS_CardinalityType

LEMMA CopiesAppend ==
  ASSUME NEW s \in Seq(Msg), NEW m \in Msg, NEW n
  PROVE  Cardinality(Copies(Append(s, m), n)) =
           Cardinality(Copies(s, n)) + (IF m.type = "data" /\ m.n = n THEN 1 ELSE 0)
<1> DEFINE a == Append(s, m)
           new == Len(s) + 1
<1>1. /\ Len(s) \in Nat /\ Len(a) = new /\ a[new] = m
      /\ \A k \in 1 .. Len(s) : a[k] = s[k] /\ k # new
      /\ 1 .. new = (1 .. Len(s)) \union {new}
  OBVIOUS
<1>2. IsFiniteSet(Copies(s, n)) /\ Cardinality(Copies(s, n)) \in Nat
  BY CopiesFinite
<1> HIDE DEF a, new
<1>3. new \notin Copies(s, n)
  BY <1>1 DEF Copies
<1>4. CASE m.type = "data" /\ m.n = n
  <2>1. Copies(a, n) = Copies(s, n) \union {new}
    BY <1>1, <1>4 DEF Copies
  <2> QED
    BY <2>1, <1>2, <1>3, <1>4, FS_AddElement DEF a
<1>5. CASE ~(m.type = "data" /\ m.n = n)
  <2>1. Copies(a, n) = Copies(s, n)
    BY <1>1, <1>5 DEF Copies
  <2> QED
    BY <2>1, <1>2, <1>5 DEF a
<1> QED
  BY <1>4, <1>5

LEMMA CopiesWithout ==
  ASSUME NEW s \in Seq(Msg), NEW i \in 1 .. Len(s), NEW n
  PROVE  Cardinality(Copies(Without(s, i), n)) + (IF s[i].type = "data" /\ s[i].n = n THEN 1 ELSE 0)
           <= Cardinality(Copies(s, n))
<1> DEFINE w == Without(s, i)
           old == Copies(s, n) \ {i}
           f == [k \in Copies(w, n) |-> IF k < i THEN k ELSE k + 1]
<1>1. /\ Len(s) \in Nat /\ Len(w) = Len(s) - 1 /\ w \in Seq(Msg)
      /\ \A j \in 1 .. Len(s) - 1 : w[j] = IF j < i THEN s[j] ELSE s[j + 1]
  BY WithoutIs, Zenon
<1>2. IsFiniteSet(Copies(s, n)) /\ Cardinality(Copies(s, n)) \in Nat
  BY CopiesFinite
<1>3. /\ IsFiniteSet(old)
      /\ Cardinality(old) = IF i \in Copies(s, n) THEN Cardinality(Copies(s, n)) - 1
                            ELSE Cardinality(Copies(s, n))
  BY <1>2, FS_RemoveElement
<1> HIDE DEF w
<1>4. Cardinality(Copies(w, n)) \in Nat
  BY <1>1, CopiesFinite
<1>5. f \in [Copies(w, n) -> old]
  BY <1>1 DEF Copies
<1>6. \A j, k \in Copies(w, n) : f[j] = f[k] => j = k
  BY <1>1 DEF Copies
<1> HIDE DEF f, old
<1>7. f \in Injection(Copies(w, n), old)
  BY <1>5, <1>6 DEF Injection, IsInjective
<1>8. Cardinality(Copies(w, n)) <= Cardinality(old)
  BY <1>7, <1>3, FS_Injection
<1>9. i \in Copies(s, n) <=> s[i].type = "data" /\ s[i].n = n
  BY DEF Copies
<1> QED
  BY <1>2, <1>3, <1>4, <1>8, <1>9 DEF w

-----------------------------------------------------------------------------
(* What a step does to one peer's view.                                    *)

LEMMA SendsIs ==
  /\ MaxSends \in Nat /\ MaxSends >= 1 /\ RetriesMax \in Nat
  /\ \A r \in Nat : r < RetriesMax => r + 1 <= MaxSends
BY KissAssumption DEF MaxSends

LEMMA EntryIs ==
  ASSUME NEW list \in Seq(Entry), NEW i \in 1 .. Len(list)
  PROVE  /\ list[i] \in Entry /\ list[i].type \in {"ping", "data"} /\ list[i].id \in Id
         /\ list[i].n \in 0 .. MaxPackets /\ list[i].age \in 0 .. RetryHoldoff
         /\ list[i].retries \in Nat
<1>1. list[i] \in Entry
  OBVIOUS
<1> QED
  BY <1>1 DEF Entry

(* Packets are received from the line: what was received and what is under *)
(* way together do not grow.                                               *)
LEMMA CountFalls ==
  ASSUME NEW list \in Seq(Entry), NEW out \in Seq(Msg), NEW out2 \in Seq(Msg), NEW acc,
         NEW rec \in [1 .. MaxPackets -> Nat], NEW rec2 \in [1 .. MaxPackets -> Nat],
         CountOK(list, out, acc, rec),
         \A n \in 1 .. MaxPackets : n > acc => rec2[n] = 0,
         \A n \in 1 .. MaxPackets :
           rec2[n] + Cardinality(Copies(out2, n)) <= rec[n] + Cardinality(Copies(out, n))
  PROVE  CountOK(list, out2, acc, rec2)
<1> SUFFICES ASSUME NEW n \in 1 .. MaxPackets
             PROVE  /\ rec2[n] + Cardinality(Copies(out2, n)) <= MaxSends
                    /\ \A i \in 1 .. Len(list) :
                         list[i].type = "data" /\ list[i].n = n =>
                           rec2[n] + Cardinality(Copies(out2, n)) <= list[i].retries
  BY DEF CountOK
<1> DEFINE was == rec[n] + Cardinality(Copies(out, n))
           is == rec2[n] + Cardinality(Copies(out2, n))
<1>1. was \in Nat /\ is \in Nat /\ is <= was
  <2>1. Cardinality(Copies(out, n)) \in Nat /\ Cardinality(Copies(out2, n)) \in Nat
    BY CopiesFinite
  <2>2. rec[n] \in Nat /\ rec2[n] \in Nat
    OBVIOUS
  <2>3. is <= was
    OBVIOUS
  <2> QED
    BY <2>1, <2>2, <2>3
<1>2. /\ was <= MaxSends
      /\ \A i \in 1 .. Len(list) : list[i].type = "data" /\ list[i].n = n => was <= list[i].retries
  BY DEF CountOK
<1>3. MaxSends \in Nat /\ \A i \in 1 .. Len(list) : list[i].retries \in Nat
  <2>1. \A i \in 1 .. Len(list) : list[i] \in Entry
    OBVIOUS
  <2> QED
    BY <2>1, KissAssumption DEF MaxSends, Entry
<1> HIDE DEF was, is
<1>4. /\ is <= MaxSends
      /\ \A i \in 1 .. Len(list) : list[i].type = "data" /\ list[i].n = n => is <= list[i].retries
  BY <1>1, <1>2, <1>3
<1> QED
  BY <1>4 DEF is

(* A message to the other peer is lost.                                    *)
LEMMA OutShrinks ==
  ASSUME NEW list \in Seq(Entry), NEW out \in Seq(Msg), NEW in, NEW acc \in 0 .. MaxPackets,
         NEW rec \in [1 .. MaxPackets -> Nat], NEW settled,
         PeerOK(list, out, in, acc, rec, settled), NEW k \in 1 .. Len(out)
  PROVE  PeerOK(list, Without(out, k), in, acc, rec, settled)
<1> DEFINE w == Without(out, k)
<1>1. w \in Seq(Msg)
  BY WithoutIs, Zenon
<1>2. \A n \in 1 .. MaxPackets : Cardinality(Copies(w, n)) \in Nat /\ Cardinality(Copies(out, n)) \in Nat
  BY <1>1, CopiesFinite
<1>3. \A n \in 1 .. MaxPackets : Cardinality(Copies(w, n)) <= Cardinality(Copies(out, n))
  BY <1>2, CopiesWithout
<1> HIDE DEF w
<1>4. OutOK(list, w, acc)
  <2>1. \A j \in 1 .. Len(w) : \E l \in 1 .. Len(out) : w[j] = out[l]
    BY WithoutOld, ZenonT(30) DEF w
  <2> QED
    BY <2>1 DEF PeerOK, OutOK
<1>5. CountOK(list, w, acc, rec)
  <2>1. CountOK(list, out, acc, rec)
    BY DEF PeerOK
  <2>2. \A n \in 1 .. MaxPackets :
          rec[n] + Cardinality(Copies(w, n)) <= rec[n] + Cardinality(Copies(out, n))
    BY <1>2, <1>3
  <2>3. \A n \in 1 .. MaxPackets : n > acc => rec[n] = 0
    BY <2>1 DEF CountOK
  <2> QED
    BY <1>1, <2>1, <2>2, <2>3, CountFalls
<1> QED
  BY <1>4, <1>5 DEF PeerOK, w

(* A message from the other peer is lost or taken.                         *)
LEMMA InShrinks ==
  ASSUME NEW list, NEW out, NEW in \in Seq(Msg), NEW acc, NEW rec, NEW settled,
         PeerOK(list, out, in, acc, rec, settled), NEW k \in 1 .. Len(in)
  PROVE  PeerOK(list, out, Without(in, k), acc, rec, settled)
<1> DEFINE w == Without(in, k)
<1>2. \A j \in 1 .. Len(w) : \E l \in 1 .. Len(in) : w[j] = in[l]
  BY WithoutOld, ZenonT(30)
<1> HIDE DEF w
<1>3. InOK(list, w, rec)
  <2>1. InOK(list, in, rec)
    BY DEF PeerOK
  <2>2. ASSUME NEW j \in 1 .. Len(w), NEW i \in 1 .. Len(list),
               w[j].type = "ack", w[j].id = list[i].id, list[i].type = "data"
        PROVE  rec[list[i].n] > 0
    <3>1. PICK l \in 1 .. Len(in) : w[j] = in[l]
      BY <1>2
    <3>2. in[l].type = "ack" /\ in[l].id = list[i].id
      BY <3>1, <2>2
    <3> QED
      BY <3>2, <2>1, <2>2 DEF InOK
  <2> QED
    BY <2>2 DEF InOK
<1> QED
  BY <1>3 DEF PeerOK, w

(* An acknowledgement goes to the other peer.                              *)
LEMMA OutAck ==
  ASSUME NEW list, NEW out \in Seq(Msg), NEW in, NEW acc, NEW rec, NEW settled,
         PeerOK(list, out, in, acc, rec, settled), NEW m \in Msg, m.type = "ack"
  PROVE  PeerOK(list, Append(out, m), in, acc, rec, settled)
<1>1. \A n \in 1 .. MaxPackets : Cardinality(Copies(Append(out, m), n)) = Cardinality(Copies(out, n))
  BY CopiesAppend, CopiesFinite
<1>2. CountOK(list, Append(out, m), acc, rec)
  BY <1>1 DEF PeerOK, CountOK
<1>3. OutOK(list, Append(out, m), acc)
  BY DEF PeerOK, OutOK
<1> QED
  BY <1>2, <1>3 DEF PeerOK

(* A packet or a ping of the other peer comes.                             *)
LEMMA InPacket ==
  ASSUME NEW list, NEW out, NEW in \in Seq(Msg), NEW acc, NEW rec, NEW settled,
         PeerOK(list, out, in, acc, rec, settled), NEW m \in Msg, m.type # "ack"
  PROVE  PeerOK(list, out, Append(in, m), acc, rec, settled)
<1>1. InOK(list, Append(in, m), rec)
  BY DEF PeerOK, InOK
<1> QED
  BY <1>1 DEF PeerOK

(* A packet or a ping is received and acknowledged, if the queue has room. *)
LEMMA Delivered ==
  ASSUME NEW list \in Seq(Entry), NEW out \in Seq(Msg), NEW in \in Seq(Msg),
         NEW acc \in 0 .. MaxPackets, NEW rec \in [1 .. MaxPackets -> Nat], NEW settled,
         PeerOK(list, out, in, acc, rec, settled),
         out # << >>, out[1].type # "ack",
         NEW in2, in2 \in {in, Append(in, Message("ack", out[1].id, 0))},
         NEW rec2 \in [1 .. MaxPackets -> Nat],
         \A n \in 1 .. MaxPackets :
           rec2[n] = rec[n] + (IF out[1].type = "data" /\ out[1].n = n THEN 1 ELSE 0)
  PROVE  /\ PeerOK(list, Without(out, 1), in2, acc, rec2, settled)
         /\ out[1].type = "data" => out[1].n \in 1 .. acc /\ rec[out[1].n] < MaxSends
<1> DEFINE w == Without(out, 1)
           m == out[1]
<1>1. /\ 1 \in 1 .. Len(out) /\ m \in Msg /\ acc \in Nat /\ MaxPackets \in Nat
      /\ 1 .. acc \subseteq 1 .. MaxPackets
  BY KissAssumption
<1>2. m.type = "data" => m.n \in 1 .. acc
  BY <1>1 DEF PeerOK, OutOK
<1>3. PeerOK(list, w, in, acc, rec, settled)
  BY <1>1, OutShrinks
<1>4. \A n \in 1 .. MaxPackets :
        /\ rec[n] \in Nat /\ rec2[n] \in Nat
        /\ rec2[n] = rec[n] + (IF m.type = "data" /\ m.n = n THEN 1 ELSE 0)
  OBVIOUS
<1>5. \A n \in 1 .. MaxPackets :
        /\ Cardinality(Copies(w, n)) \in Nat /\ Cardinality(Copies(out, n)) \in Nat
        /\ Cardinality(Copies(w, n)) + (IF m.type = "data" /\ m.n = n THEN 1 ELSE 0)
             <= Cardinality(Copies(out, n))
  <2>1. w \in Seq(Msg)
    BY <1>1, WithoutIs, Zenon
  <2> QED
    BY <2>1, <1>1, CopiesFinite, CopiesWithout
<1> HIDE DEF w
<1>6. w \in Seq(Msg)
  BY <1>1, WithoutIs, Zenon DEF w
<1>7. CountOK(list, w, acc, rec2)
  <2>1. CountOK(list, out, acc, rec)
    BY DEF PeerOK
  <2>2. \A n \in 1 .. MaxPackets :
          rec2[n] + Cardinality(Copies(w, n)) <= rec[n] + Cardinality(Copies(out, n))
    <3> SUFFICES ASSUME NEW n \in 1 .. MaxPackets
                 PROVE  rec2[n] + Cardinality(Copies(w, n)) <= rec[n] + Cardinality(Copies(out, n))
      OBVIOUS
    <3> DEFINE c == Cardinality(Copies(w, n))
               d == Cardinality(Copies(out, n))
    <3>1. CASE m.type = "data" /\ m.n = n
      <4>1. c \in Nat /\ d \in Nat /\ c + 1 <= d /\ rec[n] \in Nat /\ rec2[n] = rec[n] + 1
        BY <3>1, <1>4, <1>5
      <4> HIDE DEF c, d
      <4>2. rec2[n] + c <= rec[n] + d
        BY <4>1
      <4> QED
        BY <4>2 DEF c, d
    <3>2. CASE ~(m.type = "data" /\ m.n = n)
      <4>1. c \in Nat /\ d \in Nat /\ c <= d /\ rec[n] \in Nat /\ rec2[n] = rec[n]
        BY <3>2, <1>4, <1>5
      <4> HIDE DEF c, d
      <4>2. rec2[n] + c <= rec[n] + d
        BY <4>1
      <4> QED
        BY <4>2 DEF c, d
    <3> QED
      BY <3>1, <3>2
  <2>3. \A n \in 1 .. MaxPackets : n > acc => rec2[n] = 0
    BY <1>1, <1>2, <1>4, <2>1 DEF CountOK
  <2> QED
    BY <1>4, <1>6, <2>1, <2>2, <2>3, CountFalls
<1>8. InOK(list, in2, rec2)
  <2> SUFFICES ASSUME NEW k \in 1 .. Len(in2), NEW i \in 1 .. Len(list),
                      in2[k].type = "ack", in2[k].id = list[i].id, list[i].type = "data"
               PROVE  rec2[list[i].n] > 0
    BY DEF InOK
  <2>1. list[i].n \in 1 .. MaxPackets
    BY <1>1 DEF PeerOK, ListOK
  <2>5. /\ rec[list[i].n] > 0 => rec2[list[i].n] > 0
        /\ m.type = "data" /\ m.n = list[i].n => rec2[list[i].n] > 0
    <3> DEFINE n == list[i].n
               add == IF m.type = "data" /\ m.n = n THEN 1 ELSE 0
    <3>1. n \in 1 .. MaxPackets
      BY <2>1
    <3> HIDE DEF n
    <3>2. rec[n] \in Nat /\ rec2[n] = rec[n] + add
      BY <3>1, <1>4
    <3>3. /\ rec[n] > 0 => rec2[n] > 0
          /\ m.type = "data" /\ m.n = n => rec2[n] > 0
      BY <3>2
    <3> QED
      BY <3>3 DEF n
  <2>2. CASE k \in 1 .. Len(in) /\ in2[k] = in[k]
    <3>1. rec[list[i].n] > 0
      BY <2>2 DEF PeerOK, InOK
    <3> QED
      BY <3>1, <2>5
  <2>3. CASE in2[k] = Message("ack", m.id, 0)
    <3>1. in2[k].id = m.id
      BY <2>3 DEF Message
    <3>2. m.type # "ack" /\ m.id = list[i].id /\ 1 \in 1 .. Len(out) /\ OutOK(list, out, acc)
      BY <3>1, <1>1 DEF PeerOK
    <3>3. m.type = list[i].type /\ m.n = list[i].n
      BY <3>2 DEF OutOK
    <3> QED
      BY <3>3, <2>5
  <2>4. Message("ack", m.id, 0) \in Msg
    BY <1>1, KissAssumption DEF Message, Msg, Types
  <2>6. CASE in2 = in
    BY <2>6, <2>2
  <2>7. CASE in2 = Append(in, Message("ack", m.id, 0))
    <3>1. k \in 1 .. Len(in) + 1
      BY <2>7, <2>4
    <3>2. /\ k \in 1 .. Len(in) => in2[k] = in[k]
          /\ k = Len(in) + 1 => in2[k] = Message("ack", m.id, 0)
      BY <2>7, <2>4, <3>1
    <3>3. k \in 1 .. Len(in) \/ k = Len(in) + 1
      BY <3>1
    <3> QED
      BY <3>2, <3>3, <2>2, <2>3, Zenon
  <2> QED
    BY <2>6, <2>7
<1>9. m.type = "data" => rec[m.n] < MaxSends
  <2> SUFFICES ASSUME m.type = "data" PROVE rec[m.n] < MaxSends
    OBVIOUS
  <2>1. m.n \in 1 .. MaxPackets
    BY <1>1, <1>2
  <2>2. rec2[m.n] + Cardinality(Copies(w, m.n)) <= MaxSends
    BY <1>7, <2>1 DEF CountOK
  <2>3. rec2[m.n] = rec[m.n] + 1 /\ rec[m.n] \in Nat /\ Cardinality(Copies(w, m.n)) \in Nat
    BY <2>1, <1>4, <1>5
  <2>4. MaxSends \in Nat
    BY KissAssumption DEF MaxSends
  <2> QED
    BY <2>2, <2>3, <2>4
<1> QED
  BY <1>2, <1>3, <1>7, <1>8, <1>9 DEF PeerOK, w

(* Elements leave the list, acknowledged or given up.                      *)
LEMMA ListShrinks ==
  ASSUME NEW list \in Seq(Entry), NEW out, NEW in, NEW acc, NEW rec, NEW settled,
         PeerOK(list, out, in, acc, rec, settled),
         NEW list2 \in Seq(Entry), PartOf(list2, list),
         NEW settled2, settled2 \subseteq 1 .. acc,
         \A k \in 1 .. Len(list2) : list2[k].type = "data" => list2[k].n \notin settled2
  PROVE  PeerOK(list2, out, in, acc, rec, settled2)
<1>1. PICK f \in [1 .. Len(list2) -> 1 .. Len(list)] :
        \A k \in 1 .. Len(list2) :
          list2[k] = list[f[k]] /\ \A j \in 1 .. Len(list2) : f[j] = f[k] => j = k
  BY DEF PartOf
<1>2. /\ \A k \in 1 .. Len(list2) : \E i \in 1 .. Len(list) : i = f[k] /\ list2[k] = list[i]
      /\ \A j, k \in 1 .. Len(list2) : f[j] = f[k] => j = k
  BY <1>1
<1>3. ListOK(list2, acc, settled2)
  <2>1. \A i \in 1 .. Len(list) :
          /\ list[i].retries \in 1 .. MaxSends
          /\ list[i].type = "data" => list[i].n \in 1 .. acc
    BY DEF PeerOK, ListOK
  <2>2. ASSUME NEW k \in 1 .. Len(list2)
        PROVE  /\ list2[k].retries \in 1 .. MaxSends
               /\ list2[k].type = "data" => list2[k].n \in 1 .. acc /\ list2[k].n \notin settled2
    BY <1>2, <2>1
  <2>3. ASSUME NEW j \in 1 .. Len(list2), NEW k \in 1 .. Len(list2)
        PROVE  /\ list2[j].id = list2[k].id => j = k
               /\ /\ list2[j].type = "data" /\ list2[k].type = "data"
                  /\ list2[j].n = list2[k].n
                  => j = k
    <3>1. PICK i \in 1 .. Len(list), l \in 1 .. Len(list) :
            i = f[j] /\ list2[j] = list[i] /\ l = f[k] /\ list2[k] = list[l]
      BY <1>2
    <3>2. /\ list[i].id = list[l].id => i = l
          /\ list[i].type = "data" /\ list[l].type = "data" /\ list[i].n = list[l].n => i = l
      BY DEF PeerOK, ListOK
    <3> QED
      BY <3>1, <3>2, <1>2
  <2> QED
    BY <2>2, <2>3 DEF ListOK
<1>4. OutOK(list2, out, acc) /\ InOK(list2, in, rec)
  <2>1. \A k \in 1 .. Len(list2) : \E i \in 1 .. Len(list) : list2[k] = list[i]
    BY <1>2
  <2>2. OutOK(list2, out, acc)
    <3>1. ASSUME NEW k \in 1 .. Len(out), NEW i \in 1 .. Len(list2),
                 out[k].type # "ack", out[k].id = list2[i].id
          PROVE  out[k].type = list2[i].type /\ out[k].n = list2[i].n
      <4>1. PICK j \in 1 .. Len(list) : list2[i] = list[j]
        BY <2>1
      <4> QED
        BY <3>1, <4>1 DEF PeerOK, OutOK
    <3>2. \A k \in 1 .. Len(out) : out[k].type = "data" => out[k].n \in 1 .. acc
      BY DEF PeerOK, OutOK
    <3> QED
      BY <3>1, <3>2 DEF OutOK
  <2>3. InOK(list2, in, rec)
    BY <2>1 DEF PeerOK, InOK
  <2> QED
    BY <2>2, <2>3
<1>5. CountOK(list2, out, acc, rec)
  <2>1. \A n \in 1 .. MaxPackets :
          /\ n > acc => rec[n] = 0
          /\ rec[n] + Cardinality(Copies(out, n)) <= MaxSends
    BY DEF PeerOK, CountOK
  <2>2. ASSUME NEW n \in 1 .. MaxPackets, NEW k \in 1 .. Len(list2),
               list2[k].type = "data", list2[k].n = n
        PROVE  rec[n] + Cardinality(Copies(out, n)) <= list2[k].retries
    <3>1. PICK i \in 1 .. Len(list) : list2[k] = list[i]
      BY <1>2
    <3>2. list[i].type = "data" /\ list[i].n = n
      BY <3>1, <2>2
    <3>3. rec[n] + Cardinality(Copies(out, n)) <= list[i].retries
      BY <3>2 DEF PeerOK, CountOK
    <3> QED
      BY <3>1, <3>3
  <2> QED
    BY <2>1, <2>2 DEF CountOK
<1> QED
  BY <1>3, <1>4, <1>5 DEF PeerOK

(* Only the times of the list's elements change.                           *)
LEMMA Aged ==
  ASSUME NEW list, NEW out, NEW in, NEW acc, NEW rec, NEW settled,
         PeerOK(list, out, in, acc, rec, settled),
         NEW list2, Len(list2) = Len(list),
         \A i \in 1 .. Len(list) : /\ list2[i].type = list[i].type /\ list2[i].id = list[i].id
                                   /\ list2[i].n = list[i].n /\ list2[i].retries = list[i].retries
  PROVE  PeerOK(list2, out, in, acc, rec, settled)
<1>1. ListOK(list2, acc, settled)
  BY DEF PeerOK, ListOK
<1>2. OutOK(list2, out, acc) /\ InOK(list2, in, rec)
  BY DEF PeerOK, OutOK, InOK
<1>3. CountOK(list2, out, acc, rec)
  BY DEF PeerOK, CountOK
<1> QED
  BY <1>1, <1>2, <1>3 DEF PeerOK

(* A message that may have been refused by the queue.                      *)
LEMMA CopiesPut ==
  ASSUME NEW out \in Seq(Msg), NEW m \in Msg, NEW out2 \in {out, Append(out, m)},
         NEW n \in 1 .. MaxPackets
  PROVE  /\ Cardinality(Copies(out, n)) \in Nat /\ Cardinality(Copies(out2, n)) \in Nat
         /\ Cardinality(Copies(out2, n)) <= Cardinality(Copies(out, n)) + 1
         /\ ~(m.type = "data" /\ m.n = n) =>
              Cardinality(Copies(out2, n)) = Cardinality(Copies(out, n))
<1>1. Cardinality(Copies(out, n)) \in Nat
  BY CopiesFinite
<1>2. CASE out2 = out
  BY <1>1, <1>2
<1>3. CASE out2 = Append(out, m)
  BY <1>1, <1>3, CopiesAppend
<1> QED
  BY <1>2, <1>3

(* An id that neither the list nor the line knows.                         *)
Fresh(list, out, in, id) ==
  /\ \A i \in 1 .. Len(list) : list[i].id # id
  /\ \A k \in 1 .. Len(out) : out[k].type # "ack" => out[k].id # id
  /\ \A k \in 1 .. Len(in) : in[k].type = "ack" => in[k].id # id

(* A packet or a ping is put on the list and sent.                         *)
LEMMA Emplaced ==
  ASSUME NEW list \in Seq(Entry), NEW out \in Seq(Msg), NEW in \in Seq(Msg),
         NEW acc \in 0 .. MaxPackets, NEW rec \in [1 .. MaxPackets -> Nat], NEW settled,
         PeerOK(list, out, in, acc, rec, settled),
         NEW e \in Entry, e.retries = 1,
         Fresh(list, out, in, e.id),
         NEW acc2 \in 0 .. MaxPackets,
         \/ e.type = "data" /\ acc2 = acc + 1 /\ e.n = acc2
         \/ e.type = "ping" /\ acc2 = acc,
         NEW out2 \in {out, Append(out, Message(e.type, e.id, e.n))}
  PROVE  PeerOK(Append(list, e), out2, in, acc2, rec, settled)
<1> DEFINE m == Message(e.type, e.id, e.n)
           list2 == Append(list, e)
           new == Len(list) + 1
<1>8. m \in Msg /\ m.type = e.type /\ m.id = e.id /\ m.n = e.n /\ out2 \in {out, Append(out, m)}
  BY DEF Message, Msg, Entry, Types
<1> HIDE DEF m
<1>9. /\ \A i \in 1 .. Len(list) : list[i].id # e.id
      /\ \A k \in 1 .. Len(out) : out[k].type # "ack" => out[k].id # e.id
      /\ \A k \in 1 .. Len(in) : in[k].type = "ack" => in[k].id # e.id
  BY DEF Fresh
<1>1. /\ Len(list) \in Nat /\ Len(list2) = new /\ list2[new] = e
      /\ \A i \in 1 .. Len(list) : list2[i] = list[i]
      /\ \A i \in 1 .. new : i \in 1 .. Len(list) \/ i = new
  OBVIOUS
<1>2. \A k \in 1 .. Len(out2) : (k \in 1 .. Len(out) /\ out2[k] = out[k]) \/ out2[k] = m
  <2>1. CASE out2 = out
    BY <2>1
  <2>2. CASE out2 = Append(out, m)
    BY <2>2, <1>8
  <2> QED
    BY <2>1, <2>2, <1>8
<1>3. acc \in Nat /\ acc2 \in Nat /\ acc <= acc2 /\ MaxSends \in Nat /\ MaxSends >= 1
  BY KissAssumption DEF MaxSends
<1> HIDE DEF list2, new
<1>4. ListOK(list2, acc2, settled)
  <2>1. settled \subseteq 1 .. acc2
    BY <1>3 DEF PeerOK, ListOK
  <2>2. ASSUME NEW i \in 1 .. Len(list2)
        PROVE  /\ list2[i].retries \in 1 .. MaxSends
               /\ list2[i].type = "data" => list2[i].n \in 1 .. acc2 /\ list2[i].n \notin settled
    <3>1. CASE i \in 1 .. Len(list)
      BY <3>1, <1>1, <1>3 DEF PeerOK, ListOK
    <3>2. CASE i = new
      <4>1. acc + 1 \notin settled
        BY <1>3 DEF PeerOK, ListOK
      <4> QED
        BY <4>1, <3>2, <1>1, <1>3
    <3> QED
      BY <3>1, <3>2, <1>1
  <2>3. ASSUME NEW i \in 1 .. Len(list2), NEW j \in 1 .. Len(list2)
        PROVE  /\ list2[i].id = list2[j].id => i = j
               /\ /\ list2[i].type = "data" /\ list2[j].type = "data"
                  /\ list2[i].n = list2[j].n
                  => i = j
    <3>1. \A l \in 1 .. Len(list) : list[l].type = "data" => list[l].n # acc + 1
      BY <1>3 DEF PeerOK, ListOK
    <3>2. CASE i \in 1 .. Len(list) /\ j \in 1 .. Len(list)
      BY <3>2, <1>1 DEF PeerOK, ListOK
    <3>3. CASE i \in 1 .. Len(list) /\ j = new
      BY <3>1, <3>3, <1>1, <1>9
    <3>4. CASE i = new /\ j \in 1 .. Len(list)
      BY <3>1, <3>4, <1>1, <1>9
    <3> QED
      BY <3>2, <3>3, <3>4, <1>1
  <2> QED
    BY <2>1, <2>2, <2>3 DEF ListOK
<1>5. OutOK(list2, out2, acc2)
  <2>1. ASSUME NEW k \in 1 .. Len(out2), out2[k].type = "data"
        PROVE  out2[k].n \in 1 .. acc2
    BY <2>1, <1>2, <1>3, <1>8 DEF PeerOK, OutOK
  <2>2. ASSUME NEW k \in 1 .. Len(out2), NEW i \in 1 .. Len(list2),
               out2[k].type # "ack", out2[k].id = list2[i].id
        PROVE  out2[k].type = list2[i].type /\ out2[k].n = list2[i].n
    <3>1. CASE i \in 1 .. Len(list)
      <4>1. k \in 1 .. Len(out) /\ out2[k] = out[k]
        <5>1. out2[k].id # e.id
          BY <3>1, <2>2, <1>1, <1>9
        <5> QED
          BY <5>1, <1>2, <1>8
      <4>2. list2[i] = list[i] /\ out[k].type # "ack" /\ out[k].id = list[i].id
        BY <4>1, <3>1, <2>2, <1>1
      <4>3. OutOK(list, out, acc)
        BY DEF PeerOK
      <4>4. out[k].type = list[i].type /\ out[k].n = list[i].n
        BY <4>1, <4>2, <4>3, <3>1 DEF OutOK
      <4> QED
        BY <4>1, <4>2, <4>4
    <3>2. CASE i = new
      <4>1. ~(k \in 1 .. Len(out) /\ out2[k] = out[k])
        BY <3>2, <2>2, <1>1, <1>9
      <4> QED
        BY <4>1, <3>2, <1>1, <1>2, <1>8
    <3> QED
      BY <3>1, <3>2, <1>1
  <2> QED
    BY <2>1, <2>2 DEF OutOK
<1>6. InOK(list2, in, rec)
  <2> SUFFICES ASSUME NEW k \in 1 .. Len(in), NEW i \in 1 .. Len(list2),
                      in[k].type = "ack", in[k].id = list2[i].id, list2[i].type = "data"
               PROVE  rec[list2[i].n] > 0
    BY DEF InOK
  <2>1. i \in 1 .. Len(list)
    BY <1>1, <1>9
  <2> QED
    BY <2>1, <1>1 DEF PeerOK, InOK
<1>7. CountOK(list2, out2, acc2, rec)
  <2> SUFFICES ASSUME NEW n \in 1 .. MaxPackets
               PROVE  /\ n > acc2 => rec[n] = 0
                      /\ rec[n] + Cardinality(Copies(out2, n)) <= MaxSends
                      /\ \A i \in 1 .. Len(list2) :
                           list2[i].type = "data" /\ list2[i].n = n =>
                             rec[n] + Cardinality(Copies(out2, n)) <= list2[i].retries
    BY DEF CountOK
  <2> DEFINE c == Cardinality(Copies(out, n))
             d == Cardinality(Copies(out2, n))
  <2>1. /\ n > acc => rec[n] = 0
        /\ rec[n] + c <= MaxSends
        /\ \A i \in 1 .. Len(list) :
             list[i].type = "data" /\ list[i].n = n => rec[n] + c <= list[i].retries
    BY DEF PeerOK, CountOK
  <2>2. /\ c \in Nat /\ d \in Nat /\ d <= c + 1
        /\ ~(e.type = "data" /\ e.n = n) => d = c
    BY <1>8, CopiesPut
  <2>3. \A i \in 1 .. Len(list) : list[i].type = "data" => list[i].n \in 1 .. acc
    BY DEF PeerOK, ListOK
  <2>4. CASE e.type = "data" /\ e.n = n
    <3>1. n > acc /\ rec[n] = 0
      BY <2>1, <2>4, <1>3
    <3>2. Copies(out, n) = {}
      <4>1. \A k \in 1 .. Len(out) : out[k].type = "data" => out[k].n # n
        BY <3>1, <1>3 DEF PeerOK, OutOK
      <4> QED
        BY <4>1 DEF Copies
    <3>3. c = 0
      BY <3>2, FS_EmptySet
    <3> HIDE DEF c, d
    <3>4. rec[n] + d <= 1
      BY <3>1, <3>3, <2>2
    <3>5. \A i \in 1 .. Len(list2) :
            list2[i].type = "data" /\ list2[i].n = n => list2[i].retries = 1
      BY <1>1, <1>3, <2>3, <3>1
    <3>6. rec[n] + d <= MaxSends
      BY <3>1, <3>4, <2>2, <1>3
    <3> QED
      BY <3>1, <3>4, <3>5, <3>6, <2>4, <1>3 DEF d
  <2>5. CASE ~(e.type = "data" /\ e.n = n)
    <3>1. d = c
      BY <2>5, <2>2
    <3> HIDE DEF c, d
    <3>2. n > acc2 => rec[n] = 0
      BY <2>1, <1>3
    <3>3. \A i \in 1 .. Len(list2) :
            list2[i].type = "data" /\ list2[i].n = n => rec[n] + d <= list2[i].retries
      BY <3>1, <1>1, <2>1, <2>5
    <3> QED
      BY <3>1, <3>2, <3>3, <2>1 DEF d
  <2> QED
    BY <2>4, <2>5
<1> QED
  BY <1>4, <1>5, <1>6, <1>7 DEF PeerOK, list2

(* An element of the list is sent again.                                   *)
LEMMA Resent ==
  ASSUME NEW list \in Seq(Entry), NEW out \in Seq(Msg), NEW in,
         NEW acc \in 0 .. MaxPackets, NEW rec \in [1 .. MaxPackets -> Nat], NEW settled,
         PeerOK(list, out, in, acc, rec, settled),
         NEW i \in 1 .. Len(list), list[i].retries < RetriesMax,
         NEW list2 \in Seq(Entry), Len(list2) = Len(list),
         \A j \in 1 .. Len(list) :
           /\ list2[j].type = list[j].type /\ list2[j].id = list[j].id /\ list2[j].n = list[j].n
           /\ list2[j].retries = IF j = i THEN list[j].retries + 1 ELSE list[j].retries,
         NEW out2 \in {out, Append(out, Message(list[i].type, list[i].id, list[i].n))}
  PROVE  PeerOK(list2, out2, in, acc, rec, settled)
<1> DEFINE m == Message(list[i].type, list[i].id, list[i].n)
<1>7. /\ m \in Msg /\ m.type = list[i].type /\ m.id = list[i].id /\ m.n = list[i].n
      /\ out2 \in {out, Append(out, m)}
  BY EntryIs DEF Message, Msg, Types
<1> HIDE DEF m
<1>1. \A k \in 1 .. Len(out2) : (k \in 1 .. Len(out) /\ out2[k] = out[k]) \/ out2[k] = m
  BY <1>7
<1>2. /\ MaxSends \in Nat /\ list[i].retries \in Nat
      /\ list[i].retries + 1 <= MaxSends
  <2>1. list[i].retries \in Nat
    BY EntryIs
  <2> QED
    BY <2>1, SendsIs
<1>3. ListOK(list2, acc, settled)
  <2>1. \A j \in 1 .. Len(list) : list[j].retries \in 1 .. MaxSends
    BY DEF PeerOK, ListOK
  <2>2. ASSUME NEW j \in 1 .. Len(list)
        PROVE  list2[j].retries \in 1 .. MaxSends
    <3>1. CASE j = i
      BY <3>1, <1>2
    <3>2. CASE j # i
      BY <3>2, <2>1
    <3> QED
      BY <3>1, <3>2
  <2>3. /\ settled \subseteq 1 .. acc
        /\ \A j \in 1 .. Len(list) :
             list[j].type = "data" => list[j].n \in 1 .. acc /\ list[j].n \notin settled
    BY DEF PeerOK, ListOK
  <2>4. \A j \in 1 .. Len(list2) :
          list2[j].type = "data" => list2[j].n \in 1 .. acc /\ list2[j].n \notin settled
    BY <2>3
  <2>5. \A j, k \in 1 .. Len(list) :
          /\ list[j].id = list[k].id => j = k
          /\ list[j].type = "data" /\ list[k].type = "data" /\ list[j].n = list[k].n => j = k
    BY DEF PeerOK, ListOK
  <2>6. \A j, k \in 1 .. Len(list2) :
          /\ list2[j].id = list2[k].id => j = k
          /\ /\ list2[j].type = "data" /\ list2[k].type = "data" /\ list2[j].n = list2[k].n
             => j = k
    BY <2>5
  <2> QED
    BY <2>2, <2>3, <2>4, <2>6 DEF ListOK
<1>4. OutOK(list2, out2, acc)
  <2>1. ASSUME NEW k \in 1 .. Len(out2), out2[k].type = "data"
        PROVE  out2[k].n \in 1 .. acc
    BY <2>1, <1>1, <1>7 DEF PeerOK, OutOK, ListOK
  <2>2. ASSUME NEW k \in 1 .. Len(out2), NEW j \in 1 .. Len(list2),
               out2[k].type # "ack", out2[k].id = list2[j].id
        PROVE  out2[k].type = list2[j].type /\ out2[k].n = list2[j].n
    <3>1. CASE k \in 1 .. Len(out) /\ out2[k] = out[k]
      BY <3>1, <2>2 DEF PeerOK, OutOK
    <3>2. CASE out2[k] = m
      BY <3>2, <2>2, <1>7 DEF PeerOK, ListOK
    <3> QED
      BY <3>1, <3>2, <1>1
  <2> QED
    BY <2>1, <2>2 DEF OutOK
<1>5. InOK(list2, in, rec)
  BY DEF PeerOK, InOK
<1>6. CountOK(list2, out2, acc, rec)
  <2> SUFFICES ASSUME NEW n \in 1 .. MaxPackets
               PROVE  /\ n > acc => rec[n] = 0
                      /\ rec[n] + Cardinality(Copies(out2, n)) <= MaxSends
                      /\ \A j \in 1 .. Len(list2) :
                           list2[j].type = "data" /\ list2[j].n = n =>
                             rec[n] + Cardinality(Copies(out2, n)) <= list2[j].retries
    BY DEF CountOK
  <2> DEFINE was == rec[n] + Cardinality(Copies(out, n))
             is == rec[n] + Cardinality(Copies(out2, n))
  <2>1. /\ n > acc => rec[n] = 0
        /\ was <= MaxSends
        /\ \A j \in 1 .. Len(list) :
             list[j].type = "data" /\ list[j].n = n => was <= list[j].retries
    BY DEF PeerOK, CountOK
  <2>2. /\ was \in Nat /\ is \in Nat /\ is <= was + 1
        /\ ~(list[i].type = "data" /\ list[i].n = n) => is = was
    <3>1. /\ Cardinality(Copies(out, n)) \in Nat /\ Cardinality(Copies(out2, n)) \in Nat
          /\ Cardinality(Copies(out2, n)) <= Cardinality(Copies(out, n)) + 1
          /\ ~(m.type = "data" /\ m.n = n) =>
               Cardinality(Copies(out2, n)) = Cardinality(Copies(out, n))
      <4>1. CASE out2 = out
        BY <4>1, CopiesFinite
      <4>2. CASE out2 = Append(out, m)
        BY <4>2, <1>7, CopiesPut
      <4>3. out2 = out \/ out2 = Append(out, m)
        BY <1>7
      <4> HIDE DEF was, is
      <4> QED
        BY <4>1, <4>2, <4>3, Zenon
    <3>2. rec[n] \in Nat
      OBVIOUS
    <3>3. m.type = list[i].type /\ m.n = list[i].n
      BY <1>7
    <3> DEFINE here == Cardinality(Copies(out, n))
               there == Cardinality(Copies(out2, n))
    <3>4. /\ here \in Nat /\ there \in Nat /\ there <= here + 1
          /\ ~(list[i].type = "data" /\ list[i].n = n) => there = here
      BY <3>1, <3>3
    <3>5. was = rec[n] + here /\ is = rec[n] + there
      OBVIOUS
    <3> HIDE DEF here, there, was, is
    <3>6. was \in Nat /\ is \in Nat /\ is <= was + 1
      BY <3>2, <3>4, <3>5
    <3>7. ~(list[i].type = "data" /\ list[i].n = n) => is = was
      BY <3>4, <3>5
    <3> QED
      BY <3>6, <3>7
  <2> HIDE DEF was, is
  <2>3. CASE list[i].type = "data" /\ list[i].n = n
    <3>1. was <= list[i].retries
      BY <2>1, <2>3
    <3>2. is <= list[i].retries + 1 /\ list[i].retries + 1 <= MaxSends
      BY <3>1, <2>2, <1>2
    <3>3. \A j \in 1 .. Len(list) : list[j].type = "data" /\ list[j].n = n => j = i
      BY <2>3 DEF PeerOK, ListOK
    <3>4. \A j \in 1 .. Len(list2) :
            list2[j].type = "data" /\ list2[j].n = n => is <= list2[j].retries
      BY <3>2, <3>3
    <3>5. is <= MaxSends
      BY <3>2, <2>2, <1>2
    <3> QED
      BY <3>4, <3>5, <2>1 DEF is
  <2>4. CASE ~(list[i].type = "data" /\ list[i].n = n)
    <3>1. is = was
      BY <2>4, <2>2
    <3>2. \A j \in 1 .. Len(list2) :
            list2[j].type = "data" /\ list2[j].n = n => is <= list2[j].retries
      BY <3>1, <2>1, <2>4
    <3> QED
      BY <3>1, <3>2, <2>1 DEF is
  <2> QED
    BY <2>3, <2>4
<1> QED
  BY <1>3, <1>4, <1>5, <1>6 DEF PeerOK
-----------------------------------------------------------------------------
(* The steps.                                                              *)

LEMMA PeerTypes ==
  ASSUME TypeOK, NEW p \in Peers
  PROVE  /\ packet_list[p] \in Seq(Entry) /\ Len(packet_list[p]) \in Nat
         /\ line[p] \in Seq(Msg) /\ Len(line[p]) \in Nat
         /\ id_counter[p] \in Id /\ it[p] \in Nat /\ it[p] <= Len(packet_list[p]) + 1
         /\ last_transmitted[p] \in 0 .. PingHoldoff /\ last_received[p] \in Nat
         /\ accepted[p] \in 0 .. MaxPackets /\ received[p] \in [1 .. MaxPackets -> Nat]
         /\ acked[p] \subseteq 1 .. MaxPackets /\ given_up[p] \subseteq 1 .. MaxPackets
<1>1. packet_list[p] \in Seq(Entry) /\ line[p] \in Seq(Msg) /\ id_counter[p] \in Id
  BY DEF TypeOK, Entry, Msg, Id
<1>2. Len(packet_list[p]) \in Nat /\ Len(line[p]) \in Nat
  BY <1>1
<1>3. /\ it[p] \in Nat /\ it[p] <= Len(packet_list[p]) + 1
      /\ last_transmitted[p] \in 0 .. PingHoldoff /\ last_received[p] \in Nat
      /\ accepted[p] \in 0 .. MaxPackets /\ received[p] \in [1 .. MaxPackets -> Nat]
      /\ acked[p] \subseteq 1 .. MaxPackets /\ given_up[p] \subseteq 1 .. MaxPackets
  BY DEF TypeOK
<1> QED
  BY <1>1, <1>2, <1>3

(* A scene's bounds.                                                       *)
LEMMA SceneIs ==
  ASSUME TypeOK
  PROVE  scene.limit \in Nat /\ scene.packets \in 0 .. MaxPackets
         /\ scene.pinging \subseteq Peers /\ scene.regime \in {"any", "prompt"}
BY KissAssumption DEF TypeOK, Scene

LEMMA PutIs ==
  ASSUME TypeOK, NEW p \in Peers, NEW m \in Msg, Put(p, m)
  PROVE  /\ line' \in [Peers -> Seq(Msg)] /\ line'[Other(p)] = line[Other(p)]
         /\ line'[p] \in {line[p], Append(line[p], m)}
<1> DEFINE put == IF Len(line[p]) < scene.limit THEN Append(line[p], m) ELSE line[p]
<1>1. line \in [Peers -> Seq(Msg)] /\ line[p] \in Seq(Msg)
  BY DEF TypeOK, Msg, Id
<1>2. put \in Seq(Msg) /\ put \in {line[p], Append(line[p], m)}
  BY <1>1
<1>3. line' = [line EXCEPT ![p] = put]
  BY DEF Put
<1> HIDE DEF put
<1>4. line' \in [Peers -> Seq(Msg)] /\ line'[p] = put /\ \A q \in Peers : q # p => line'[q] = line[q]
  BY <1>1, <1>2, <1>3
<1> QED
  BY <1>2, <1>4, OtherIs

LEMMA ModIs ==
  ASSUME NEW n \in Nat, NEW m \in Nat, m > 0
  PROVE  n % m \in 0 .. m - 1
BY SMTT(30)

LEMMA NextIdIs ==
  ASSUME TypeOK, NEW p \in Peers
  PROVE  NextId(p) \in Id
<1> DEFINE next == id_counter[p] + 1
<1>1. id_counter[p] \in 0 .. IdMod - 1
  BY PeerTypes DEF Id
<1>2. IdMod \in Nat /\ IdMod > 0
  BY KissAssumption
<1>3. next \in Nat
  BY <1>1, <1>2
<1> HIDE DEF next
<1>4. next % IdMod \in 0 .. IdMod - 1
  BY <1>2, <1>3, ModIs
<1> QED
  BY <1>4 DEF NextId, Id, next

LEMMA SentIs ==
  ASSUME NEW h \in Entry
  PROVE  /\ Sent(h) \in Entry /\ Sent(h).type = h.type /\ Sent(h).id = h.id /\ Sent(h).n = h.n
         /\ Sent(h).age = 0 /\ Sent(h).retries = h.retries + 1
<1>1. 0 \in 0 .. RetryHoldoff /\ h.retries \in Nat
  BY KissAssumption DEF Entry
<1> QED
  BY <1>1 DEF Sent, Entry

LEMMA EmplaceStep ==
  ASSUME KInv, NEW p \in Peers, NEW type \in {"ping", "data"}, NEW n \in 0 .. MaxPackets,
         IdUnused(p, NextId(p)), Emplace(p, type, n),
         \A q \in Peers : q # p => accepted'[q] = accepted[q],
         accepted'[p] \in 0 .. MaxPackets,
         \/ type = "data" /\ accepted'[p] = accepted[p] + 1 /\ n = accepted'[p]
         \/ type = "ping" /\ accepted'[p] = accepted[p],
         UNCHANGED <<received, acked, given_up>>
  PROVE  /\ packet_list' \in [Peers -> Seq(Entry)] /\ line' \in [Peers -> Seq(Msg)]
         /\ id_counter' \in [Peers -> Id] /\ last_transmitted' \in [Peers -> 0 .. PingHoldoff]
         /\ \A q \in Peers : Len(packet_list'[q]) >= Len(packet_list[q])
         /\ \A q \in Peers : PeerInv(q)'
<1> DEFINE id == NextId(p)
           h == [type |-> type, id |-> id, n |-> n, age |-> 0, retries |-> 0]
           e == Sent(h)
           m == Message(type, id, n)
           o == Other(p)
<1>1. TypeOK /\ PeerInv(p) /\ PeerInv(o) /\ o \in Peers /\ o # p /\ Other(o) = p
  BY OtherIs DEF KInv
<1>2. id \in Id
  BY <1>1, NextIdIs
<1>3. h \in Entry /\ m \in Msg
  BY <1>2, KissAssumption DEF Entry, Msg, Message, Types
<1>4. /\ e \in Entry
      /\ e.retries = 1 /\ e.type = type /\ e.id = id /\ e.n = n
      /\ m.type = type /\ m.id = id /\ m.n = n
  <2>1. h.type = type /\ h.id = id /\ h.n = n /\ h.retries = 0
    OBVIOUS
  <2> HIDE DEF h
  <2>2. e \in Entry /\ e.type = type /\ e.id = id /\ e.n = n /\ e.retries = 0 + 1
    BY <1>3, <2>1, SentIs
  <2> QED
    BY <2>2 DEF Message
<1>5. /\ packet_list' = [packet_list EXCEPT ![p] = Append(packet_list[p], e)]
      /\ id_counter' = [id_counter EXCEPT ![p] = id]
      /\ last_transmitted' = [last_transmitted EXCEPT ![p] = 0]
      /\ Put(o, m)
  BY DEF Emplace
<1>6. /\ packet_list \in [Peers -> Seq(Entry)] /\ id_counter \in [Peers -> Id]
      /\ last_transmitted \in [Peers -> 0 .. PingHoldoff] /\ 0 \in 0 .. PingHoldoff
  BY <1>1, KissAssumption DEF TypeOK, Entry, Id
<1> HIDE DEF id, h, e, m, o
<1>7. /\ packet_list' \in [Peers -> Seq(Entry)] /\ id_counter' \in [Peers -> Id]
      /\ last_transmitted' \in [Peers -> 0 .. PingHoldoff]
      /\ packet_list'[p] = Append(packet_list[p], e) /\ packet_list'[o] = packet_list[o]
  <2>1. packet_list[p] \in Seq(Entry) /\ Append(packet_list[p], e) \in Seq(Entry)
    BY <1>4, <1>6
  <2> QED
    BY <2>1, <1>1, <1>2, <1>5, <1>6
<1>8. /\ line' \in [Peers -> Seq(Msg)] /\ line'[p] = line[p]
      /\ line'[o] \in {line[o], Append(line[o], m)}
  BY <1>1, <1>3, <1>5, PutIs
<1>9. /\ packet_list[p] \in Seq(Entry) /\ packet_list[o] \in Seq(Entry)
      /\ line[p] \in Seq(Msg) /\ line[o] \in Seq(Msg)
      /\ accepted[p] \in 0 .. MaxPackets /\ received[p] \in [1 .. MaxPackets -> Nat]
  BY <1>1, PeerTypes
<1>10. /\ m.type = e.type /\ m.id = e.id /\ m.n = e.n /\ m.type # "ack"
       /\ \/ e.type = "data" /\ accepted'[p] = accepted[p] + 1 /\ e.n = accepted'[p]
          \/ e.type = "ping" /\ accepted'[p] = accepted[p]
  BY <1>4
<1>11. Fresh(packet_list[p], line[o], line[p], e.id)
  BY <1>4 DEF IdUnused, Fresh, id, o
<1>12. PeerInv(p)'
  <2>1. PeerOK(packet_list[p], line[o], line[p], accepted[p], received[p],
               acked[p] \union given_up[p])
    BY <1>1 DEF PeerInv, o
  <2>2. PeerOK(Append(packet_list[p], e), line'[o], line[p], accepted'[p], received[p],
               acked[p] \union given_up[p])
    <3> DEFINE list == packet_list[p]
               out == line[o]
               in == line[p]
               acc == accepted[p]
               acc2 == accepted'[p]
               out2 == line'[o]
               rec == received[p]
               settled == acked[p] \union given_up[p]
    <3>1. /\ list \in Seq(Entry) /\ out \in Seq(Msg) /\ in \in Seq(Msg)
          /\ acc \in 0 .. MaxPackets /\ acc2 \in 0 .. MaxPackets
          /\ rec \in [1 .. MaxPackets -> Nat]
          /\ \/ e.type = "data" /\ acc2 = acc + 1 /\ e.n = acc2
             \/ e.type = "ping" /\ acc2 = acc
      BY <1>9, <1>10
    <3>2. PeerOK(list, out, in, acc, rec, settled)
      BY <2>1
    <3>3. out2 \in {out, Append(out, Message(e.type, e.id, e.n))}
      BY <1>8, <1>4 DEF m
    <3>4. Fresh(list, out, in, e.id)
      BY <1>11
    <3>5. e \in Entry /\ e.retries = 1
      BY <1>4
    <3> HIDE DEF list, out, in, acc, acc2, out2, rec, settled
    <3>6. PeerOK(Append(list, e), out2, in, acc2, rec, settled)
      BY <3>1, <3>2, <3>3, <3>4, <3>5, Emplaced, ZenonT(30)
    <3> QED
      BY <3>6 DEF list, out, in, acc, acc2, out2, rec, settled
  <2> QED
    BY <2>2, <1>7, <1>8 DEF PeerInv, o
<1>13. PeerInv(o)'
  <2>1. PeerOK(packet_list[o], line[p], line[o], accepted[o], received[o],
               acked[o] \union given_up[o])
    BY <1>1 DEF PeerInv
  <2>2. PeerOK(packet_list[o], line[p], Append(line[o], m), accepted[o], received[o],
               acked[o] \union given_up[o])
    BY <2>1, <1>3, <1>9, <1>10, InPacket, Zenon
  <2>3. PeerOK(packet_list[o], line[p], line'[o], accepted[o], received[o],
               acked[o] \union given_up[o])
    BY <2>1, <2>2, <1>8
  <2> QED
    BY <2>3, <1>1, <1>7, <1>8 DEF PeerInv
<1>14. \A q \in Peers : q = p \/ q = o
  BY OtherIs DEF o
<1>15. \A q \in Peers : Len(packet_list'[q]) >= Len(packet_list[q])
  <2>1. /\ Len(packet_list[p]) \in Nat /\ Len(packet_list[o]) \in Nat
        /\ Len(Append(packet_list[p], e)) = Len(packet_list[p]) + 1
    BY <1>9
  <2>2. Len(packet_list'[p]) >= Len(packet_list[p]) /\ Len(packet_list'[o]) >= Len(packet_list[o])
    BY <2>1, <1>7
  <2> QED
    BY <2>2, <1>14
<1> QED
  BY <1>7, <1>8, <1>12, <1>13, <1>14, <1>15

(* A step keeps the invariant and is one of the abstract protocol's, or    *)
(* none that its users see.                                                *)
Good == KInv' /\ [Transfer!Next]_userVars

LEMMA TransmitStep ==
  ASSUME KInv, NEW p \in Peers, transmit(p)
  PROVE  Good
<1>1. /\ TypeOK /\ accepted \in [Peers -> 0 .. MaxPackets] /\ accepted[p] \in 0 .. MaxPackets
      /\ scene.packets \in 0 .. MaxPackets /\ MaxPackets \in Nat
  BY SceneIs, KissAssumption DEF KInv, TypeOK
<1>2. /\ IdUnused(p, NextId(p)) /\ Emplace(p, "data", accepted[p] + 1)
      /\ accepted' = [accepted EXCEPT ![p] = @ + 1] /\ accepted[p] < scene.packets
      /\ UNCHANGED <<it, last_received, losses, scene, received, acked, given_up>>
  BY DEF transmit
<1>3. /\ accepted' \in [Peers -> 0 .. MaxPackets]
      /\ accepted'[p] = accepted[p] + 1 /\ accepted'[p] \in 0 .. MaxPackets
      /\ \A q \in Peers : q # p => accepted'[q] = accepted[q]
  BY <1>1, <1>2
<1>4. /\ packet_list' \in [Peers -> Seq(Entry)] /\ line' \in [Peers -> Seq(Msg)]
      /\ id_counter' \in [Peers -> Id] /\ last_transmitted' \in [Peers -> 0 .. PingHoldoff]
      /\ \A q \in Peers : Len(packet_list'[q]) >= Len(packet_list[q])
      /\ \A q \in Peers : PeerInv(q)'
  BY <1>2, <1>3, EmplaceStep
<1>5. \A q \in Peers : it'[q] <= Len(packet_list'[q]) + 1
  <2> SUFFICES ASSUME NEW q \in Peers PROVE it'[q] <= Len(packet_list'[q]) + 1
    OBVIOUS
  <2>1. /\ it[q] \in Nat /\ it[q] <= Len(packet_list[q]) + 1 /\ Len(packet_list[q]) \in Nat
        /\ packet_list'[q] \in Seq(Entry) /\ Len(packet_list'[q]) >= Len(packet_list[q])
        /\ it'[q] = it[q]
    BY <1>1, <1>2, <1>4, PeerTypes
  <2>2. Len(packet_list'[q]) \in Nat
    BY <2>1
  <2> QED
    BY <2>1, <2>2
<1>6. TypeOK'
  BY <1>1, <1>2, <1>3, <1>4, <1>5 DEF TypeOK, Entry, Msg, Id
<1>7. Transfer!Submit(p)
  BY <1>1, <1>2 DEF Transfer!Submit
<1> QED
  BY <1>4, <1>6, <1>7 DEF Good, KInv, Transfer!Next

LEMMA ReceiveAckStep ==
  ASSUME KInv, NEW p \in Peers, receive(p), NEW m, m = Head(line[p]), m.type = "ack",
         ReceiveAck(p, m.id)
  PROVE  Good
<1> DEFINE o == Other(p)
           list == packet_list[p]
           list2 == Unmatched(list, m.id)
           hit == {j \in 1 .. Len(list) : Matches(list[j], m.id) /\ list[j].type = "data"}
           now == {list[i].n : i \in hit}
           settled == acked[p] \union given_up[p]
           settled2 == (acked[p] \union now) \union given_up[p]
<1>1. /\ TypeOK /\ PeerInv(p) /\ PeerInv(o) /\ o \in Peers /\ o # p /\ Other(o) = p
      /\ \A q \in Peers : q = p \/ q = o
  BY OtherIs DEF KInv
<1>2. /\ it' = it /\ \A q \in Peers : it[q] = 0
      /\ line[p] # << >> /\ last_received' = [last_received EXCEPT ![p] = 0]
      /\ UNCHANGED <<id_counter, losses, scene, accepted, given_up, last_transmitted, received>>
  BY DEF receive, ReceiveAck, Idle
<1>3. /\ packet_list' = [packet_list EXCEPT ![p] = list2]
      /\ acked' = [acked EXCEPT ![p] = acked[p] \union now]
      /\ line' = [line EXCEPT ![p] = Tail(line[p])]
  BY DEF ReceiveAck
<1>4. /\ list \in Seq(Entry) /\ line[p] \in Seq(Msg) /\ line[o] \in Seq(Msg)
      /\ packet_list[o] \in Seq(Entry)
      /\ acked[p] \subseteq 1 .. MaxPackets /\ given_up[p] \subseteq 1 .. MaxPackets
      /\ accepted[o] \in 0 .. MaxPackets /\ received[o] \in [1 .. MaxPackets -> Nat]
      /\ accepted[p] \in 0 .. MaxPackets
  BY <1>1, PeerTypes
<1>5. /\ 1 \in 1 .. Len(line[p]) /\ m = line[p][1] /\ Tail(line[p]) = Without(line[p], 1)
      /\ Tail(line[p]) \in Seq(Msg)
  <2>1. Tail(line[p]) \in Seq(Msg)
    BY <1>2, <1>4
  <2> QED
    BY <2>1, <1>2, <1>4, TailIs
<1>6. /\ list2 \in Seq(Entry) /\ PartOf(list2, list)
      /\ \A k \in 1 .. Len(list2) : list2[k].id # m.id
  BY <1>4, UnmatchedIs
<1>7. /\ \A i \in hit : i \in 1 .. Len(list) /\ list[i].id = m.id /\ list[i].type = "data"
      /\ now = {list[i].n : i \in hit}
  BY DEF Matches
<1>8. PeerOK(list, line[o], line[p], accepted[p], received[p], settled)
  BY <1>1 DEF PeerInv
<1> HIDE DEF list2, now, hit
<1>9. ListOK(list, accepted[p], settled)
  BY <1>8 DEF PeerOK
<1>10. /\ settled \subseteq 1 .. accepted[p]
       /\ \A i \in 1 .. Len(list) :
            list[i].type = "data" => list[i].n \in 1 .. accepted[p] /\ list[i].n \notin settled
       /\ \A i, j \in 1 .. Len(list) :
            /\ list[i].id = list[j].id => i = j
            /\ list[i].type = "data" /\ list[j].type = "data" /\ list[i].n = list[j].n => i = j
  BY <1>9 DEF ListOK
<1>11. settled2 \subseteq 1 .. accepted[p] /\ now \subseteq 1 .. MaxPackets
  <2>1. now \subseteq 1 .. accepted[p]
    BY <1>7, <1>10
  <2>2. 1 .. accepted[p] \subseteq 1 .. MaxPackets
    BY <1>4, KissAssumption
  <2> QED
    BY <2>1, <2>2, <1>10
<1>12. ASSUME NEW k \in 1 .. Len(list2), list2[k].type = "data"
       PROVE  list2[k].n \notin settled2
  <2>1. PICK j \in 1 .. Len(list) : list2[k] = list[j]
    BY <1>6 DEF PartOf
  <2>2. list[j].id # m.id
    BY <2>1, <1>6
  <2>3. list[j].n \notin now
    BY <2>1, <2>2, <1>7, <1>10, <1>12
  <2> QED
    BY <2>1, <2>3, <1>10, <1>12
<1> HIDE DEF settled, settled2, list, o
<1>13. PeerOK(list2, line[o], Without(line[p], 1), accepted[p], received[p], settled2)
  <2>1. PeerOK(list2, line[o], line[p], accepted[p], received[p], settled2)
    BY <1>4, <1>6, <1>8, <1>11, <1>12, ListShrinks
  <2> QED
    BY <2>1, <1>4, <1>5, InShrinks
<1>14. PeerOK(packet_list[o], Without(line[p], 1), line[o], accepted[o], received[o],
              acked[o] \union given_up[o])
  <2>1. PeerOK(packet_list[o], line[p], line[o], accepted[o], received[o],
               acked[o] \union given_up[o])
    BY <1>1 DEF PeerInv
  <2> QED
    BY <2>1, <1>4, <1>5, OutShrinks
<1>15. /\ packet_list \in [Peers -> Seq(Entry)] /\ line \in [Peers -> Seq(Msg)]
       /\ acked \in [Peers -> SUBSET (1 .. MaxPackets)] /\ last_received \in [Peers -> Nat]
  BY <1>1 DEF TypeOK, Entry, Msg, Id
<1>16. /\ packet_list' \in [Peers -> Seq(Entry)] /\ line' \in [Peers -> Seq(Msg)]
       /\ acked' \in [Peers -> SUBSET (1 .. MaxPackets)] /\ last_received' \in [Peers -> Nat]
       /\ packet_list'[p] = list2 /\ packet_list'[o] = packet_list[o]
       /\ line'[p] = Without(line[p], 1) /\ line'[o] = line[o]
       /\ acked'[p] = acked[p] \union now /\ acked'[o] = acked[o]
  <2>1. acked[p] \union now \in SUBSET (1 .. MaxPackets)
    BY <1>4, <1>11
  <2> QED
    BY <2>1, <1>1, <1>2, <1>3, <1>5, <1>6, <1>15
<1>17. PeerInv(p)' /\ PeerInv(o)'
  <2>1. PeerInv(p)'
    BY <1>2, <1>13, <1>16 DEF PeerInv, o, settled2
  <2>2. PeerInv(o)'
    BY <1>1, <1>2, <1>14, <1>16 DEF PeerInv
  <2> QED
    BY <2>1, <2>2
<1>18. TypeOK'
  <2>1. \A q \in Peers : it'[q] <= Len(packet_list'[q]) + 1
    <3> SUFFICES ASSUME NEW q \in Peers PROVE it'[q] <= Len(packet_list'[q]) + 1
      OBVIOUS
    <3>1. packet_list'[q] \in Seq(Entry) /\ it'[q] = 0
      BY <1>2, <1>16
    <3>2. Len(packet_list'[q]) \in Nat
      BY <3>1
    <3> QED
      BY <3>1, <3>2
  <2> QED
    BY <2>1, <1>1, <1>2, <1>16 DEF TypeOK, Entry, Msg, Id
<1>19. [Transfer!Next]_userVars
  <2>1. CASE now = {}
    <3>1. acked' = acked
      BY <2>1, <1>3, <1>15
    <3> QED
      BY <3>1, <1>2 DEF userVars
  <2>2. CASE now # {}
    <3>1. PICK i \in hit : TRUE
      BY <2>2, <1>7
    <3> DEFINE n == list[i].n
    <3>2. i \in 1 .. Len(list) /\ list[i].id = m.id /\ list[i].type = "data"
      BY <3>1, <1>7
    <3>3. now = {n}
      BY <3>1, <3>2, <1>7, <1>10
    <3>4. received[p][n] > 0
      BY <3>2, <1>5, <1>8 DEF PeerOK, InOK
    <3>5. n \in 1 .. MaxPackets /\ n \notin settled
      BY <3>2, <3>3, <1>10, <1>11
    <3> HIDE DEF n
    <3>6. Transfer!Acknowledge(p, n)
      BY <3>3, <3>4, <3>5, <1>2, <1>3 DEF Transfer!Acknowledge, Transfer!Settled, settled
    <3> QED
      BY <3>5, <3>6 DEF Transfer!Next
  <2> QED
    BY <2>1, <2>2
<1> QED
  BY <1>1, <1>17, <1>18, <1>19 DEF Good, KInv

LEMMA ReceivePacketStep ==
  ASSUME KInv, NEW p \in Peers, receive(p), NEW m, m = Head(line[p]), m.type # "ack",
         ReceivePacket(p, m)
  PROVE  Good
<1> DEFINE o == Other(p)
           ack == Message("ack", m.id, 0)
           out == Without(line[p], 1)
           in == IF Len(line[o]) < scene.limit THEN Append(line[o], ack) ELSE line[o]
           rec == received'[o]
<1>1. /\ TypeOK /\ PeerInv(p) /\ PeerInv(o) /\ o \in Peers /\ o # p /\ Other(o) = p
      /\ \A q \in Peers : q = p \/ q = o
  BY OtherIs DEF KInv
<1>2. /\ it' = it /\ \A q \in Peers : it[q] = 0
      /\ line[p] # << >> /\ last_received' = [last_received EXCEPT ![p] = 0]
      /\ last_transmitted' = [last_transmitted EXCEPT ![p] = 0]
      /\ UNCHANGED <<id_counter, losses, scene, accepted, given_up, packet_list, acked>>
  BY DEF receive, ReceivePacket, Idle
<1>3. /\ packet_list[p] \in Seq(Entry) /\ packet_list[o] \in Seq(Entry)
      /\ line[p] \in Seq(Msg) /\ line[o] \in Seq(Msg)
      /\ accepted[o] \in 0 .. MaxPackets /\ received[o] \in [1 .. MaxPackets -> Nat]
  BY <1>1, PeerTypes
<1>4. /\ 1 \in 1 .. Len(line[p]) /\ m = line[p][1] /\ Tail(line[p]) = out
      /\ out \in Seq(Msg)
  BY <1>2, <1>3, TailIs, WithoutIs, Zenon
<1>5. m \in Msg /\ ack \in Msg /\ ack.type = "ack" /\ in \in {line[o], Append(line[o], ack)}
      /\ in \in Seq(Msg)
  <2>1. m \in Msg
    BY <1>3, <1>4
  <2>2. ack \in Msg /\ ack.type = "ack"
    BY <2>1, KissAssumption DEF Message, Msg, Types
  <2> HIDE DEF ack
  <2> QED
    BY <2>1, <2>2, <1>3
<1>6. /\ line \in [Peers -> Seq(Msg)] /\ received \in [Peers -> [1 .. MaxPackets -> Nat]]
      /\ last_received \in [Peers -> Nat] /\ last_transmitted \in [Peers -> 0 .. PingHoldoff]
  BY <1>1 DEF TypeOK, Msg, Id
<1>7. /\ line' \in [Peers -> Seq(Msg)] /\ line'[p] = out /\ line'[o] = in
      /\ last_received' \in [Peers -> Nat] /\ last_transmitted' \in [Peers -> 0 .. PingHoldoff]
  <2>1. line' = [line EXCEPT ![p] = Tail(@),
                             ![o] = IF Len(@) < scene.limit THEN Append(@, ack) ELSE @]
    BY DEF ReceivePacket
  <2> HIDE DEF o, ack, out
  <2>2. \A q \in Peers : line'[q] = IF q = o THEN in ELSE IF q = p THEN out ELSE line[q]
    BY <2>1, <1>1, <1>4, <1>6
  <2>3. line' \in [Peers -> Seq(Msg)]
    BY <2>1, <2>2, <1>1, <1>4, <1>5, <1>6
  <2> QED
    <3>1. last_received' \in [Peers -> Nat]
      BY <1>2, <1>6
    <3>2. last_transmitted' \in [Peers -> 0 .. PingHoldoff]
      BY <1>2, <1>6, KissAssumption
    <3> QED
      BY <2>2, <2>3, <3>1, <3>2, <1>1
<1> HIDE DEF o, ack, out, in
<1>8. m.type = "data" => m.n \in 1 .. accepted[o] /\ m.n \in 1 .. MaxPackets
  <2>1. OutOK(packet_list[o], line[p], accepted[o])
    BY <1>1 DEF PeerInv, PeerOK
  <2>2. m.type = "data" => m.n \in 1 .. accepted[o]
    BY <2>1, <1>4 DEF OutOK
  <2> QED
    BY <2>2, <1>3, KissAssumption
<1>9. received' = IF m.type = "data" THEN [received EXCEPT ![o][m.n] = @ + 1] ELSE received
  BY DEF ReceivePacket, o
<1>10. /\ received' \in [Peers -> [1 .. MaxPackets -> Nat]] /\ received'[p] = received[p]
       /\ rec \in [1 .. MaxPackets -> Nat]
       /\ \A n \in 1 .. MaxPackets :
            rec[n] = received[o][n] + (IF m.type = "data" /\ m.n = n THEN 1 ELSE 0)
  <2>1. CASE m.type = "data"
    <3> DEFINE g == [received[o] EXCEPT ![m.n] = received[o][m.n] + 1]
    <3>1. received' = [received EXCEPT ![o] = g]
      BY <2>1, <1>9
    <3>2. /\ g \in [1 .. MaxPackets -> Nat]
          /\ \A n \in 1 .. MaxPackets : g[n] = received[o][n] + (IF m.n = n THEN 1 ELSE 0)
      <4> DEFINE k == m.n
                 r == received[o]
      <4>1. k \in 1 .. MaxPackets /\ r \in [1 .. MaxPackets -> Nat] /\ g = [r EXCEPT ![k] = r[k] + 1]
        BY <2>1, <1>3, <1>8
      <4> HIDE DEF k, r, g
      <4>2. /\ g \in [1 .. MaxPackets -> Nat]
            /\ \A n \in 1 .. MaxPackets : g[n] = r[n] + (IF k = n THEN 1 ELSE 0)
        BY <4>1
      <4> QED
        BY <4>2 DEF k, r
    <3> HIDE DEF g
    <3>3. received' \in [Peers -> [1 .. MaxPackets -> Nat]] /\ rec = g /\ received'[p] = received[p]
      BY <3>1, <3>2, <1>1, <1>6
    <3> QED
      BY <2>1, <3>2, <3>3
  <2>2. CASE m.type # "data"
    <3>1. received' = received
      BY <2>2, <1>9
    <3>2. \A n \in 1 .. MaxPackets : received[o][n] \in Nat
      BY <1>3
    <3>3. rec = received[o]
      BY <3>1
    <3> HIDE DEF rec
    <3> QED
      BY <2>2, <3>1, <3>2, <3>3, <1>3, <1>6
  <2> QED
    BY <2>1, <2>2
<1>11. /\ PeerOK(packet_list[o], out, in, accepted[o], rec, acked[o] \union given_up[o])
       /\ m.type = "data" => received[o][m.n] < MaxSends
  <2> DEFINE settled == acked[o] \union given_up[o]
  <2>1. PeerOK(packet_list[o], line[p], line[o], accepted[o], received[o], settled)
    BY <1>1 DEF PeerInv
  <2>2. line[p][1].type # "ack" /\ in \in {line[o], Append(line[o], Message("ack", line[p][1].id, 0))}
    BY <1>4, <1>5 DEF ack
  <2> HIDE DEF settled, rec
  <2>3. \A n \in 1 .. MaxPackets :
          rec[n] = received[o][n] + (IF line[p][1].type = "data" /\ line[p][1].n = n THEN 1 ELSE 0)
    BY <1>4, <1>10
  <2>4. /\ PeerOK(packet_list[o], Without(line[p], 1), in, accepted[o], rec, settled)
        /\ line[p][1].type = "data" => received[o][line[p][1].n] < MaxSends
    <3> DEFINE list == packet_list[o]
               outs == line[p]
               ins == line[o]
               acc == accepted[o]
               was == received[o]
    <3>1. /\ list \in Seq(Entry) /\ outs \in Seq(Msg) /\ ins \in Seq(Msg) /\ acc \in 0 .. MaxPackets
          /\ was \in [1 .. MaxPackets -> Nat] /\ rec \in [1 .. MaxPackets -> Nat]
          /\ outs # << >> /\ outs[1].type # "ack"
          /\ in \in {ins, Append(ins, Message("ack", outs[1].id, 0))}
          /\ PeerOK(list, outs, ins, acc, was, settled)
      BY <2>1, <2>2, <1>2, <1>3, <1>10
    <3>2. \A n \in 1 .. MaxPackets :
            rec[n] = was[n] + (IF outs[1].type = "data" /\ outs[1].n = n THEN 1 ELSE 0)
      BY <2>3
    <3> HIDE DEF list, outs, ins, acc, was
    <3>3. /\ PeerOK(list, Without(outs, 1), in, acc, rec, settled)
          /\ outs[1].type = "data" => was[outs[1].n] < MaxSends
      BY <3>1, <3>2, Delivered, ZenonT(30)
    <3> QED
      BY <3>3 DEF list, outs, ins, acc, was
  <2> QED
    BY <2>4, <1>4 DEF settled, out
<1>12. PeerOK(packet_list[p], in, out, accepted[p], received[p], acked[p] \union given_up[p])
  <2> DEFINE settled == acked[p] \union given_up[p]
  <2>1. PeerOK(packet_list[p], line[o], line[p], accepted[p], received[p], settled)
    BY <1>1 DEF PeerInv, o
  <2> HIDE DEF settled
  <2>2. PeerOK(packet_list[p], line[o], out, accepted[p], received[p], settled)
    BY <2>1, <1>3, <1>4, InShrinks DEF out
  <2>3. PeerOK(packet_list[p], Append(line[o], ack), out, accepted[p], received[p], settled)
    BY <2>2, <1>3, <1>5, OutAck
  <2> QED
    BY <2>2, <2>3, <1>5 DEF settled
<1>13. PeerInv(p)' /\ PeerInv(o)'
  <2>1. PeerInv(p)'
    BY <1>2, <1>7, <1>10, <1>12 DEF PeerInv, o
  <2>2. PeerInv(o)'
    BY <1>1, <1>2, <1>7, <1>11 DEF PeerInv
  <2> QED
    BY <2>1, <2>2
<1>14. TypeOK'
  BY <1>1, <1>2, <1>7, <1>10 DEF TypeOK, Msg, Id
<1>15. [Transfer!Next]_userVars
  <2>1. CASE m.type = "data"
    <3>1. Transfer!Deliver(o, m.n)
      BY <2>1, <1>2, <1>3, <1>8, <1>9, <1>11 DEF Transfer!Deliver, MaxSends
    <3> QED
      BY <2>1, <3>1, <1>1, <1>8 DEF Transfer!Next
  <2>2. CASE m.type # "data"
    BY <2>2, <1>2, <1>9 DEF userVars
  <2> QED
    BY <2>1, <2>2
<1> QED
  BY <1>1, <1>13, <1>14, <1>15 DEF Good, KInv

LEMMA ReceiveStep ==
  ASSUME KInv, NEW p \in Peers, receive(p)
  PROVE  Good
<1>1. \/ Head(line[p]).type = "ack" /\ ReceiveAck(p, Head(line[p]).id)
      \/ Head(line[p]).type # "ack" /\ ReceivePacket(p, Head(line[p]))
  BY DEF receive
<1> QED
  BY <1>1, ReceiveAckStep, ReceivePacketStep

(* Nothing but the iterator of main_task moves.                            *)
LEMMA IteratorStep ==
  ASSUME KInv, NEW p \in Peers, it' = [it EXCEPT ![p] = it'[p]], it'[p] \in Nat,
         it'[p] <= Len(packet_list[p]) + 1,
         UNCHANGED <<packet_list, id_counter, last_transmitted, last_received, line,
                     losses, scene, userVars>>
  PROVE  Good
<1>1. TypeOK /\ \A q \in Peers : PeerInv(q)
  BY DEF KInv
<1>2. \A q \in Peers : PeerInv(q)'
  BY <1>1 DEF PeerInv, userVars
<1>3. it' \in [Peers -> Nat] /\ \A q \in Peers : it'[q] <= Len(packet_list[q]) + 1
  BY <1>1 DEF TypeOK
<1>4. TypeOK'
  BY <1>1, <1>3 DEF TypeOK, userVars
<1> QED
  BY <1>2, <1>4 DEF Good, KInv

LEMMA BeginStep ==
  ASSUME KInv, NEW p \in Peers, Begin(p)
  PROVE  Good
<1>1. TypeOK /\ it \in [Peers -> Nat] /\ Len(packet_list[p]) \in Nat
  BY PeerTypes DEF KInv, TypeOK
<1>2. /\ it' = [it EXCEPT ![p] = 1]
      /\ UNCHANGED <<packet_list, id_counter, last_transmitted, last_received, line,
                     losses, scene, userVars>>
  BY DEF Begin
<1>3. it'[p] = 1 /\ it' = [it EXCEPT ![p] = it'[p]]
  BY <1>1, <1>2
<1>4. it'[p] \in Nat /\ it'[p] <= Len(packet_list[p]) + 1
  BY <1>1, <1>3
<1> QED
  BY <1>2, <1>3, <1>4, IteratorStep

LEMMA PassStep ==
  ASSUME KInv, NEW p \in Peers, Pass(p)
  PROVE  Good
<1>1. TypeOK /\ it \in [Peers -> Nat] /\ Len(packet_list[p]) \in Nat
  BY PeerTypes DEF KInv, TypeOK
<1>2. /\ it' = [it EXCEPT ![p] = it[p] + 1] /\ it[p] \in 1 .. Len(packet_list[p])
      /\ UNCHANGED <<packet_list, id_counter, last_transmitted, last_received, line,
                     losses, scene, userVars>>
  BY DEF Pass, AtElement
<1>3. it'[p] = it[p] + 1 /\ it' = [it EXCEPT ![p] = it'[p]]
  BY <1>1, <1>2
<1>4. it'[p] \in Nat /\ it'[p] <= Len(packet_list[p]) + 1
  BY <1>1, <1>2, <1>3
<1> QED
  BY <1>2, <1>3, <1>4, IteratorStep

LEMMA RetransmitStep ==
  ASSUME KInv, NEW p \in Peers, Retransmit(p)
  PROVE  Good
<1> DEFINE o == Other(p)
           list == packet_list[p]
           i == it[p]
           list2 == [list EXCEPT ![i] = Sent(list[i])]
           m == Message(list[i].type, list[i].id, list[i].n)
           settled == acked[p] \union given_up[p]
<1>1. /\ TypeOK /\ PeerInv(p) /\ PeerInv(o) /\ o \in Peers /\ o # p /\ Other(o) = p
      /\ \A q \in Peers : q = p \/ q = o
  BY OtherIs DEF KInv
<1>2. /\ i \in 1 .. Len(list) /\ ~retries_exhausted(list[i])
      /\ it' = [it EXCEPT ![p] = 0]
      /\ packet_list' = [packet_list EXCEPT ![p] = list2]
      /\ last_transmitted' = [last_transmitted EXCEPT ![p] = 0]
      /\ Put(o, m)
      /\ UNCHANGED <<id_counter, last_received, losses, scene, userVars>>
  BY DEF Retransmit, AtElement, Element
<1>3. /\ list \in Seq(Entry) /\ Len(list) \in Nat /\ packet_list[o] \in Seq(Entry)
      /\ line[p] \in Seq(Msg) /\ line[o] \in Seq(Msg)
      /\ accepted[p] \in 0 .. MaxPackets /\ received[p] \in [1 .. MaxPackets -> Nat]
  BY <1>1, PeerTypes
<1>4. /\ list[i] \in Entry /\ list[i].retries < RetriesMax
      /\ m \in Msg /\ m.type # "ack"
      /\ Sent(list[i]) \in Entry /\ Sent(list[i]).type = list[i].type
      /\ Sent(list[i]).id = list[i].id /\ Sent(list[i]).n = list[i].n
      /\ Sent(list[i]).retries = list[i].retries + 1
  <2>1. list[i] \in Entry
    BY <1>2, <1>3
  <2>2. list[i].retries \in Nat /\ list[i].retries < RetriesMax
    BY <2>1, <1>2, KissAssumption DEF Entry, retries_exhausted
  <2>3. m \in Msg /\ m.type # "ack"
    BY <2>1 DEF Entry, Msg, Message, Types
  <2> QED
    BY <2>1, <2>2, <2>3, SentIs
<1>5. /\ list2 \in Seq(Entry) /\ Len(list2) = Len(list)
      /\ \A j \in 1 .. Len(list) : list2[j] = IF j = i THEN Sent(list[i]) ELSE list[j]
  <2> DEFINE s == Sent(list[i])
  <2>1. s \in Entry
    BY <1>4
  <2> HIDE DEF s, list
  <2> QED
    BY <2>1, <1>2, <1>3 DEF s
<1> HIDE DEF list2, m, i
<1>6. \A j \in 1 .. Len(list) :
        /\ list2[j].type = list[j].type /\ list2[j].id = list[j].id /\ list2[j].n = list[j].n
        /\ list2[j].retries = IF j = i THEN list[j].retries + 1 ELSE list[j].retries
  BY <1>4, <1>5
<1>7. /\ line' \in [Peers -> Seq(Msg)] /\ line'[p] = line[p]
      /\ line'[o] \in {line[o], Append(line[o], m)}
  BY <1>1, <1>2, <1>4, PutIs
<1> HIDE DEF list, o, settled
<1>8. PeerOK(list2, line'[o], line[p], accepted[p], received[p], settled)
  <2> DEFINE out == line[o]
             out2 == line'[o]
             in == line[p]
             acc == accepted[p]
             rec == received[p]
  <2>1. /\ out \in Seq(Msg) /\ acc \in 0 .. MaxPackets /\ rec \in [1 .. MaxPackets -> Nat]
        /\ out2 \in {out, Append(out, Message(list[i].type, list[i].id, list[i].n))}
    BY <1>3, <1>7 DEF m
  <2>2. PeerOK(list, out, in, acc, rec, settled)
    BY <1>1 DEF PeerInv, list, o, settled
  <2> HIDE DEF out, out2, in, acc, rec
  <2>4. /\ list \in Seq(Entry) /\ i \in 1 .. Len(list) /\ list[i].retries < RetriesMax
        /\ list2 \in Seq(Entry) /\ Len(list2) = Len(list)
    BY <1>2, <1>3, <1>4, <1>5
  <2>3. PeerOK(list2, out2, in, acc, rec, settled)
    BY <2>1, <2>2, <2>4, <1>6, Resent
  <2> QED
    BY <2>3 DEF out2, in, acc, rec
<1>9. PeerOK(packet_list[o], line[p], line'[o], accepted[o], received[o],
             acked[o] \union given_up[o])
  <2>1. PeerOK(packet_list[o], line[p], line[o], accepted[o], received[o],
               acked[o] \union given_up[o])
    BY <1>1 DEF PeerInv
  <2>2. PeerOK(packet_list[o], line[p], Append(line[o], m), accepted[o], received[o],
               acked[o] \union given_up[o])
    BY <2>1, <1>3, <1>4, InPacket, Zenon
  <2> QED
    BY <2>1, <2>2, <1>7
<1>10. /\ packet_list \in [Peers -> Seq(Entry)] /\ it \in [Peers -> Nat]
       /\ last_transmitted \in [Peers -> 0 .. PingHoldoff] /\ 0 \in 0 .. PingHoldoff
       /\ \A q \in Peers : it[q] <= Len(packet_list[q]) + 1
  BY <1>1, KissAssumption DEF TypeOK, Entry, Id
<1>11. /\ packet_list' \in [Peers -> Seq(Entry)] /\ it' \in [Peers -> Nat]
       /\ last_transmitted' \in [Peers -> 0 .. PingHoldoff]
       /\ packet_list'[p] = list2 /\ packet_list'[o] = packet_list[o]
       /\ it'[p] = 0 /\ it'[o] = it[o]
  BY <1>1, <1>2, <1>5, <1>10
<1>12. PeerInv(p)' /\ PeerInv(o)'
  <2>1. PeerInv(p)'
    BY <1>2, <1>7, <1>8, <1>11 DEF PeerInv, o, settled, userVars
  <2>2. PeerInv(o)'
    BY <1>1, <1>2, <1>7, <1>9, <1>11 DEF PeerInv, userVars
  <2> QED
    BY <2>1, <2>2
<1>13. TypeOK'
  <2>1. it'[p] <= Len(packet_list'[p]) + 1
    BY <1>3, <1>5, <1>11
  <2>2. it'[o] <= Len(packet_list'[o]) + 1
    BY <1>1, <1>10, <1>11
  <2> QED
    BY <2>1, <2>2, <1>1, <1>2, <1>7, <1>11 DEF TypeOK, Entry, Msg, Id, userVars
<1> QED
  BY <1>1, <1>2, <1>12, <1>13 DEF Good, KInv

LEMMA DropStep ==
  ASSUME KInv, NEW p \in Peers, Drop(p)
  PROVE  Good
<1> DEFINE o == Other(p)
           list == packet_list[p]
           i == it[p]
           list2 == Without(list, i)
           lost == IF list[i].type = "data" THEN given_up[p] \union {list[i].n} ELSE given_up[p]
           settled == acked[p] \union given_up[p]
           settled2 == acked[p] \union lost
<1>1. /\ TypeOK /\ PeerInv(p) /\ PeerInv(o) /\ o \in Peers /\ o # p /\ Other(o) = p
      /\ \A q \in Peers : q = p \/ q = o
  BY OtherIs DEF KInv
<1>2. /\ i \in 1 .. Len(list)
      /\ it' = [it EXCEPT ![p] = AfterErase(i, Len(list) - 1)]
      /\ packet_list' = [packet_list EXCEPT ![p] = list2]
      /\ given_up' = [given_up EXCEPT ![p] = lost]
      /\ UNCHANGED <<id_counter, last_transmitted, last_received, line, losses, scene,
                     accepted, received, acked>>
  BY DEF Drop, AtElement, Element
<1>3. /\ list \in Seq(Entry) /\ Len(list) \in Nat
      /\ accepted[p] \in 0 .. MaxPackets
      /\ acked[p] \subseteq 1 .. MaxPackets /\ given_up[p] \subseteq 1 .. MaxPackets
  BY <1>1, PeerTypes
<1>4. list2 \in Seq(Entry) /\ Len(list2) = Len(list) - 1 /\ PartOf(list2, list)
  <2> HIDE DEF list
  <2> QED
    BY <1>2, <1>3, WithoutIs, WithoutPart, Zenon
<1>5. PeerOK(list, line[o], line[p], accepted[p], received[p], settled)
  BY <1>1 DEF PeerInv
<1>6. ListOK(list, accepted[p], settled)
  BY <1>5 DEF PeerOK
<1>7. /\ settled \subseteq 1 .. accepted[p]
      /\ \A k \in 1 .. Len(list) :
           list[k].type = "data" => list[k].n \in 1 .. accepted[p] /\ list[k].n \notin settled
      /\ \A j, k \in 1 .. Len(list) :
           list[j].type = "data" /\ list[k].type = "data" /\ list[j].n = list[k].n => j = k
  BY <1>6 DEF ListOK
<1>8. settled2 \subseteq 1 .. accepted[p] /\ lost \subseteq 1 .. MaxPackets
  <2>1. list[i].type = "data" => list[i].n \in 1 .. accepted[p]
    BY <1>2, <1>7
  <2>2. 1 .. accepted[p] \subseteq 1 .. MaxPackets
    BY <1>3, KissAssumption
  <2> QED
    BY <2>1, <2>2, <1>3, <1>7
<1>9. ASSUME NEW k \in 1 .. Len(list2), list2[k].type = "data"
      PROVE  list2[k].n \notin settled2
  <2>1. PICK j \in 1 .. Len(list) : list2[k] = list[j] /\ j # i
    <3> DEFINE j == IF k < i THEN k ELSE k + 1
    <3>0. /\ Len(list) \in Nat /\ Len(list2) = Len(list) - 1
          /\ \A l \in 1 .. Len(list) - 1 : list2[l] = IF l < i THEN list[l] ELSE list[l + 1]
      <4> HIDE DEF list
      <4> QED
        BY <1>2, <1>3, WithoutIs
    <3> HIDE DEF list2, list
    <3>1. k \in 1 .. Len(list) - 1
      BY <3>0
    <3>2. j \in 1 .. Len(list) /\ j # i
      BY <3>0, <3>1, <1>2
    <3>3. list2[k] = list[j]
      BY <3>0, <3>1
    <3> QED
      BY <3>2, <3>3
  <2>2. list[j].n \notin settled
    BY <2>1, <1>7, <1>9
  <2>3. list[i].type = "data" => list[j].n # list[i].n
    BY <2>1, <1>2, <1>7, <1>9
  <2> QED
    BY <2>1, <2>2, <2>3
<1> HIDE DEF settled, settled2, list, list2, o, lost, i
<1>10. PeerOK(list2, line[o], line[p], accepted[p], received[p], settled2)
  BY <1>3, <1>4, <1>5, <1>8, <1>9, ListShrinks
<1>11. /\ packet_list \in [Peers -> Seq(Entry)] /\ it \in [Peers -> Nat]
       /\ given_up \in [Peers -> SUBSET (1 .. MaxPackets)]
       /\ \A q \in Peers : it[q] <= Len(packet_list[q]) + 1
  BY <1>1 DEF TypeOK, Entry, Id
<1>12. AfterErase(i, Len(list) - 1) \in Nat /\ AfterErase(i, Len(list) - 1) <= Len(list2) + 1
  BY <1>2, <1>3, <1>4 DEF AfterErase
<1>13. /\ packet_list' \in [Peers -> Seq(Entry)] /\ it' \in [Peers -> Nat]
       /\ given_up' \in [Peers -> SUBSET (1 .. MaxPackets)]
       /\ packet_list'[p] = list2 /\ packet_list'[o] = packet_list[o]
       /\ it'[p] = AfterErase(i, Len(list) - 1) /\ it'[o] = it[o]
       /\ given_up'[p] = lost /\ given_up'[o] = given_up[o]
  BY <1>1, <1>2, <1>4, <1>8, <1>11, <1>12
<1>14. PeerInv(p)' /\ PeerInv(o)'
  <2>1. PeerInv(p)'
    BY <1>2, <1>10, <1>13 DEF PeerInv, o, settled2
  <2>2. PeerInv(o)'
    BY <1>1, <1>2, <1>13 DEF PeerInv
  <2> QED
    BY <2>1, <2>2
<1>15. TypeOK'
  <2>1. it'[p] <= Len(packet_list'[p]) + 1
    BY <1>12, <1>13
  <2>2. it'[o] <= Len(packet_list'[o]) + 1
    BY <1>1, <1>11, <1>13
  <2> QED
    BY <2>1, <2>2, <1>1, <1>2, <1>13 DEF TypeOK, Entry, Id
<1>16. [Transfer!Next]_userVars
  <2>1. CASE list[i].type = "data"
    <3> DEFINE n == list[i].n
    <3>1. n \in 1 .. accepted[p] /\ n \notin settled /\ lost = given_up[p] \union {n}
      BY <2>1, <1>2, <1>7 DEF lost
    <3> HIDE DEF n
    <3>2. n <= accepted[p] /\ n \in 1 .. MaxPackets
      BY <3>1, <1>3, KissAssumption
    <3>3. Transfer!GiveUp(p, n)
      BY <3>1, <3>2, <1>2 DEF Transfer!GiveUp, Transfer!Settled, settled
    <3> QED
      BY <3>2, <3>3 DEF Transfer!Next
  <2>2. CASE list[i].type # "data"
    <3>1. given_up' = given_up
      BY <2>2, <1>2, <1>11 DEF lost
    <3> QED
      BY <3>1, <1>2 DEF userVars
  <2> QED
    BY <2>1, <2>2
<1> QED
  BY <1>1, <1>14, <1>15, <1>16 DEF Good, KInv

LEMMA EndStep ==
  ASSUME KInv, NEW p \in Peers, End(p)
  PROVE  Good
<1>1. /\ TypeOK /\ it \in [Peers -> Nat] /\ accepted[p] \in 0 .. MaxPackets
      /\ 0 \in 0 .. MaxPackets
  <2>1. TypeOK
    BY DEF KInv
  <2>2. it \in [Peers -> Nat] /\ accepted[p] \in 0 .. MaxPackets
    BY <2>1 DEF TypeOK
  <2> QED
    BY <2>1, <2>2, KissAssumption
<1>2. /\ it' = [it EXCEPT ![p] = 0]
      /\ UNCHANGED <<last_received, losses, scene, userVars>>
      /\ \/ PingDue(p) /\ Emplace(p, "ping", 0)
         \/ UNCHANGED <<packet_list, id_counter, last_transmitted, line>>
  BY DEF End
<1>3. it'[p] = 0 /\ it' = [it EXCEPT ![p] = it'[p]] /\ it' \in [Peers -> Nat]
      /\ \A q \in Peers : it'[q] <= it[q] /\ it'[q] \in Nat
  <2>1. it'[p] = 0 /\ it' \in [Peers -> Nat] /\ \A q \in Peers : q # p => it'[q] = it[q]
    BY <1>1, <1>2
  <2> QED
    BY <2>1, <1>1, <1>2
<1>4. CASE PingDue(p) /\ Emplace(p, "ping", 0)
  <2>1. /\ IdUnused(p, NextId(p)) /\ accepted'[p] = accepted[p] /\ accepted' = accepted
        /\ UNCHANGED <<received, acked, given_up>>
    BY <1>2, <1>4 DEF PingDue, userVars
  <2>2. /\ packet_list' \in [Peers -> Seq(Entry)] /\ line' \in [Peers -> Seq(Msg)]
        /\ id_counter' \in [Peers -> Id] /\ last_transmitted' \in [Peers -> 0 .. PingHoldoff]
        /\ \A q \in Peers : Len(packet_list'[q]) >= Len(packet_list[q])
        /\ \A q \in Peers : PeerInv(q)'
    BY <2>1, <1>1, <1>4, EmplaceStep
  <2>3. \A q \in Peers : it'[q] <= Len(packet_list'[q]) + 1
    <3> SUFFICES ASSUME NEW q \in Peers PROVE it'[q] <= Len(packet_list'[q]) + 1
      OBVIOUS
    <3>1. /\ it[q] \in Nat /\ it[q] <= Len(packet_list[q]) + 1 /\ Len(packet_list[q]) \in Nat
          /\ packet_list'[q] \in Seq(Entry) /\ Len(packet_list'[q]) >= Len(packet_list[q])
          /\ it'[q] <= it[q] /\ it'[q] \in Nat
      BY <1>1, <1>3, <2>2, PeerTypes
    <3>2. Len(packet_list'[q]) \in Nat
      BY <3>1
    <3> QED
      BY <3>1, <3>2
  <2>4. TypeOK'
    BY <1>1, <1>2, <1>3, <2>2, <2>3 DEF TypeOK, Entry, Msg, Id, userVars
  <2> QED
    BY <1>2, <2>2, <2>4 DEF Good, KInv
<1>5. CASE UNCHANGED <<packet_list, id_counter, last_transmitted, line>>
  <2>1. it'[p] \in Nat /\ it'[p] <= Len(packet_list[p]) + 1
    <3>1. Len(packet_list[p]) \in Nat
      BY <1>1, PeerTypes
    <3> QED
      BY <3>1, <1>3
  <2> QED
    BY <2>1, <1>2, <1>3, <1>5, IteratorStep
<1> QED
  BY <1>2, <1>4, <1>5

LEMMA LoseStep ==
  ASSUME KInv, NEW p \in Peers, Lose(p)
  PROVE  Good
<1> DEFINE o == Other(p)
<1>1. /\ TypeOK /\ PeerInv(p) /\ PeerInv(o) /\ o \in Peers /\ o # p /\ Other(o) = p
      /\ \A q \in Peers : q = p \/ q = o
  BY OtherIs DEF KInv
<1>2. PICK i \in 1 .. Len(line[p]) : line' = [line EXCEPT ![p] = Without(line[p], i)]
  BY DEF Lose
<1>3. /\ losses' = losses \/ losses' = losses + 1
      /\ UNCHANGED <<peerVars, scene, userVars>>
  BY DEF Lose
<1>4. /\ packet_list[o] \in Seq(Entry) /\ line[p] \in Seq(Msg) /\ line[o] \in Seq(Msg)
      /\ accepted[o] \in 0 .. MaxPackets /\ received[o] \in [1 .. MaxPackets -> Nat]
      /\ line \in [Peers -> Seq(Msg)] /\ losses \in Nat
  BY <1>1, PeerTypes DEF TypeOK, Msg, Id
<1> DEFINE left == Without(line[p], i)
<1>5. left \in Seq(Msg)
  BY <1>4, WithoutIs, Zenon
<1> HIDE DEF o
<1>6. PeerOK(packet_list[p], line[o], left, accepted[p], received[p], acked[p] \union given_up[p])
  <2>1. PeerOK(packet_list[p], line[o], line[p], accepted[p], received[p],
               acked[p] \union given_up[p])
    BY <1>1 DEF PeerInv, o
  <2> QED
    BY <2>1, <1>4, InShrinks
<1>7. PeerOK(packet_list[o], left, line[o], accepted[o], received[o], acked[o] \union given_up[o])
  <2>1. PeerOK(packet_list[o], line[p], line[o], accepted[o], received[o],
               acked[o] \union given_up[o])
    BY <1>1 DEF PeerInv
  <2> QED
    BY <2>1, <1>4, OutShrinks
<1> HIDE DEF left
<1>8. line' \in [Peers -> Seq(Msg)] /\ line'[p] = left /\ line'[o] = line[o]
  BY <1>1, <1>2, <1>4, <1>5 DEF left
<1>9. PeerInv(p)' /\ PeerInv(o)'
  <2>1. PeerInv(p)'
    BY <1>3, <1>6, <1>8 DEF PeerInv, o, peerVars, userVars
  <2>2. PeerInv(o)'
    BY <1>1, <1>3, <1>7, <1>8 DEF PeerInv, peerVars, userVars
  <2> QED
    BY <2>1, <2>2
<1>10. TypeOK'
  <2>1. losses' \in Nat
    BY <1>3, <1>4
  <2> QED
    BY <2>1, <1>1, <1>3, <1>8 DEF TypeOK, Msg, Id, peerVars, userVars
<1> QED
  BY <1>1, <1>3, <1>9, <1>10 DEF Good, KInv

LEMMA TickList ==
  ASSUME KInv, Tick, NEW p \in Peers
  PROVE  /\ packet_list'[p] \in Seq(Entry) /\ Len(packet_list'[p]) = Len(packet_list[p])
         /\ \A i \in 1 .. Len(packet_list[p]) :
              /\ packet_list'[p][i].type = packet_list[p][i].type
              /\ packet_list'[p][i].id = packet_list[p][i].id
              /\ packet_list'[p][i].n = packet_list[p][i].n
              /\ packet_list'[p][i].retries = packet_list[p][i].retries
              /\ packet_list'[p][i].age = Smaller(packet_list[p][i].age + 1, RetryHoldoff)
<1> DEFINE list == packet_list[p]
           older(h) == [h EXCEPT !.age = Smaller(h.age + 1, RetryHoldoff)]
           list2 == [i \in 1 .. Len(list) |-> older(list[i])]
<1>1. list \in Seq(Entry) /\ Len(list) \in Nat /\ \A i \in 1 .. Len(list) : list[i] \in Entry
  <2>1. list \in Seq(Entry)
    BY PeerTypes DEF KInv
  <2> HIDE DEF list
  <2> QED
    BY <2>1
<1>2. ASSUME NEW h \in Entry
      PROVE  /\ older(h) \in Entry /\ older(h).type = h.type /\ older(h).id = h.id
             /\ older(h).n = h.n /\ older(h).retries = h.retries
             /\ older(h).age = Smaller(h.age + 1, RetryHoldoff)
  <2>1. Smaller(h.age + 1, RetryHoldoff) \in 0 .. RetryHoldoff
    BY KissAssumption DEF Smaller, Entry
  <2> QED
    BY <2>1 DEF Entry
<1>3. packet_list'[p] = list2
  BY DEF Tick
<1> HIDE DEF older, list
<1>4. list2 \in [1 .. Len(list) -> Entry]
  BY <1>1, <1>2
<1>5. list2 \in Seq(Entry) /\ Len(list2) = Len(list)
  BY <1>1, <1>4
<1>6. \A i \in 1 .. Len(list) : list2[i] = older(list[i])
  BY <1>1
<1> HIDE DEF list2
<1> QED
  BY <1>1, <1>2, <1>3, <1>5, <1>6 DEF list

LEMMA TickStep ==
  ASSUME KInv, Tick
  PROVE  Good
<1>1. TypeOK /\ \A q \in Peers : PeerInv(q)
  BY DEF KInv
<1>2. /\ UNCHANGED <<id_counter, it, line, losses, scene, userVars>>
      /\ last_transmitted' = [p \in Peers |-> Smaller(last_transmitted[p] + 1, PingHoldoff)]
      /\ last_received' = [p \in Peers |-> Smaller(last_received[p] + 1, AliveFor(p))]
      /\ packet_list' = [p \in Peers |->
           [i \in 1 .. Len(packet_list[p]) |->
              [packet_list[p][i] EXCEPT !.age = Smaller(packet_list[p][i].age + 1, RetryHoldoff)]]]
  BY DEF Tick
<1>3. ASSUME NEW p \in Peers
      PROVE  /\ packet_list'[p] \in Seq(Entry) /\ Len(packet_list'[p]) = Len(packet_list[p])
             /\ \A i \in 1 .. Len(packet_list[p]) :
                  /\ packet_list'[p][i].type = packet_list[p][i].type
                  /\ packet_list'[p][i].id = packet_list[p][i].id
                  /\ packet_list'[p][i].n = packet_list[p][i].n
                  /\ packet_list'[p][i].retries = packet_list[p][i].retries
                  /\ packet_list'[p][i].age = Smaller(packet_list[p][i].age + 1, RetryHoldoff)
  BY TickList
<1>4. packet_list' \in [Peers -> Seq(Entry)]
  <2>1. DOMAIN packet_list' = Peers
    BY <1>2
  <2>2. packet_list' = [p \in Peers |-> packet_list'[p]]
    BY <1>2
  <2> QED
    BY <2>2, <1>3, Zenon
<1>5. /\ last_transmitted' \in [Peers -> 0 .. PingHoldoff] /\ last_received' \in [Peers -> Nat]
  <2>1. ASSUME NEW p \in Peers
        PROVE  /\ Smaller(last_transmitted[p] + 1, PingHoldoff) \in 0 .. PingHoldoff
               /\ Smaller(last_received[p] + 1, AliveFor(p)) \in Nat
    <3>1. /\ last_transmitted[p] \in 0 .. PingHoldoff /\ last_received[p] \in Nat
          /\ PingHoldoff \in Nat
      BY <1>1, PeerTypes, KissAssumption
    <3>2. AliveFor(p) \in Nat
      BY KissAssumption DEF AliveFor
    <3> QED
      BY <3>1, <3>2 DEF Smaller
  <2> QED
    BY <2>1, <1>2
<1>6. ASSUME NEW p \in Peers
      PROVE  PeerInv(p)'
  <2> DEFINE settled == acked[p] \union given_up[p]
  <2>1. PeerOK(packet_list[p], line[Other(p)], line[p], accepted[p], received[p], settled)
    BY <1>1 DEF PeerInv
  <2> HIDE DEF settled
  <2>2. PeerOK(packet_list'[p], line[Other(p)], line[p], accepted[p], received[p], settled)
    <3> DEFINE was == packet_list[p]
               is == packet_list'[p]
    <3>1. Len(is) = Len(was)
      BY <1>3
    <3>2. \A i \in 1 .. Len(was) : /\ is[i].type = was[i].type /\ is[i].id = was[i].id
                                   /\ is[i].n = was[i].n /\ is[i].retries = was[i].retries
      BY <1>3
    <3> QED
      BY <2>1, <3>1, <3>2, Aged, Zenon
  <2> QED
    BY <2>2, <1>2 DEF PeerInv, settled, userVars
<1>7. \A p \in Peers : it'[p] <= Len(packet_list'[p]) + 1
  BY <1>1, <1>2, <1>3 DEF TypeOK
<1>8. TypeOK'
  BY <1>1, <1>2, <1>4, <1>5, <1>7 DEF TypeOK, Entry, Id, userVars
<1> QED
  BY <1>2, <1>6, <1>8 DEF Good, KInv

-----------------------------------------------------------------------------
(* The invariant and the refinement.                                       *)

LEMMA InitStep ==
  ASSUME Init
  PROVE  KInv /\ Transfer!Init
<1>1. TypeOK
  <2>1. \A p \in Peers : AliveFor(p) \in Nat
    BY KissAssumption DEF AliveFor
  <2>2. /\ packet_list \in [Peers -> Seq(Entry)] /\ line \in [Peers -> Seq(Msg)]
        /\ \A p \in Peers : Len(packet_list[p]) = 0 /\ it[p] = 0
    BY DEF Init
  <2> QED
    BY <2>1, <2>2, KissAssumption DEF Init, TypeOK, Entry, Msg, Id
<1>2. ASSUME NEW p \in Peers
      PROVE  PeerInv(p)
  <2>1. /\ packet_list[p] = << >> /\ line[p] = << >> /\ line[Other(p)] = << >>
        /\ accepted[p] = 0 /\ acked[p] = {} /\ given_up[p] = {}
        /\ \A n \in 1 .. MaxPackets : received[p][n] = 0
    BY OtherIs DEF Init
  <2>2. \A n \in 1 .. MaxPackets : Copies(line[Other(p)], n) = {}
    BY <2>1 DEF Copies
  <2>3. Cardinality({}) = 0 /\ MaxSends \in Nat
    BY FS_EmptySet, SendsIs
  <2>4. ListOK(packet_list[p], accepted[p], acked[p] \union given_up[p])
    BY <2>1 DEF ListOK
  <2>5. OutOK(packet_list[p], line[Other(p)], accepted[p]) /\ InOK(packet_list[p], line[p], received[p])
    BY <2>1 DEF OutOK, InOK
  <2>6. CountOK(packet_list[p], line[Other(p)], accepted[p], received[p])
    <3> DEFINE c(n) == Cardinality(Copies(line[Other(p)], n))
    <3>1. \A n \in 1 .. MaxPackets : received[p][n] = 0 /\ c(n) = 0
      BY <2>1, <2>2, <2>3
    <3> HIDE DEF c
    <3>2. \A n \in 1 .. MaxPackets : received[p][n] + c(n) <= MaxSends
      BY <3>1, <2>3
    <3> QED
      BY <2>1, <3>1, <3>2 DEF CountOK, c
  <2> QED
    BY <2>4, <2>5, <2>6 DEF PeerInv, PeerOK
<1>3. Transfer!Init
  BY DEF Init, Transfer!Init
<1> QED
  BY <1>1, <1>2, <1>3 DEF KInv

LEMMA NextStep ==
  ASSUME KInv, [Next]_vars
  PROVE  Good
<1>1. CASE Next
  <2>1. ASSUME NEW p \in Peers, main_task(p)
        PROVE  Good
    BY <2>1, BeginStep, PassStep, RetransmitStep, DropStep, EndStep DEF main_task
  <2> QED
    BY <1>1, <2>1, TransmitStep, ReceiveStep, LoseStep, TickStep DEF Next
<1>2. CASE UNCHANGED vars
  <2>1. KInv'
    BY <1>2 DEF KInv, TypeOK, PeerInv, vars, peerVars, userVars
  <2> QED
    BY <2>1, <1>2 DEF Good, vars
<1> QED
  BY <1>1, <1>2

(* Every variable keeps its type, and main_task's iterator, which an       *)
(* erasure advances twice, is never behind the end of the list.            *)
THEOREM TypeCorrect == Spec => []TypeOK
<1>1. Init => KInv
  BY InitStep
<1>2. KInv /\ [Next]_vars => KInv'
  BY NextStep DEF Good
<1>3. KInv => TypeOK
  BY DEF KInv
<1> QED
  BY <1>1, <1>2, <1>3, PTL DEF Spec

(* kiss_protocol implements AckedTransfer: whatever the line loses or      *)
(* refuses and whenever the timers run out, an acknowledged packet was     *)
(* received, none is received more often than max(1, retries_max) times    *)
(* though each copy on the line is delivered, and none is both             *)
(* acknowledged and given up.                                              *)
THEOREM ImplementsTransfer == Spec => ImplementsAckedTransfer
<1>1. Init => KInv /\ Transfer!Init
  BY InitStep
<1>2. KInv /\ [Next]_vars => KInv' /\ [Transfer!Next]_(Transfer!vars)
  BY NextStep DEF Good, Transfer!vars, userVars
<1> QED
  BY <1>1, <1>2, PTL DEF Spec, ImplementsAckedTransfer, Transfer!Spec

-----------------------------------------------------------------------------
(* On a prompt line: the messages of one element.                          *)

LEMMA OfAppend ==
  ASSUME NEW s \in Seq(Msg), NEW m \in Msg, NEW kinds, NEW id
  PROVE  /\ m.type \in kinds /\ m.id = id /\ Of(s, kinds, id) = {} =>
              Single(Of(Append(s, m), kinds, id)) /\ Of(Append(s, m), kinds, id) # {}
         /\ ~(m.type \in kinds /\ m.id = id) => Of(Append(s, m), kinds, id) = Of(s, kinds, id)
<1> DEFINE a == Append(s, m)
           new == Len(s) + 1
<1>1. /\ Len(s) \in Nat /\ Len(a) = new /\ a[new] = m
      /\ \A k \in 1 .. Len(s) : a[k] = s[k] /\ k # new
      /\ 1 .. new = (1 .. Len(s)) \union {new}
  OBVIOUS
<1> HIDE DEF a, new
<1>2. ASSUME m.type \in kinds, m.id = id, Of(s, kinds, id) = {}
      PROVE  Single(Of(a, kinds, id)) /\ Of(a, kinds, id) # {}
  <2>1. Of(a, kinds, id) = {new}
    BY <1>1, <1>2 DEF Of
  <2> QED
    BY <2>1 DEF Single
<1>3. ~(m.type \in kinds /\ m.id = id) => Of(a, kinds, id) = Of(s, kinds, id)
  BY <1>1 DEF Of
<1> QED
  BY <1>2, <1>3 DEF a, new

LEMMA OfWithout ==
  ASSUME NEW s \in Seq(Msg), NEW i \in 1 .. Len(s), NEW kinds, NEW id
  PROVE  /\ Single(Of(s, kinds, id)) => Single(Of(Without(s, i), kinds, id))
         /\ Of(s, kinds, id) = {} => Of(Without(s, i), kinds, id) = {}
         /\ ~(s[i].type \in kinds /\ s[i].id = id) /\ Of(s, kinds, id) # {} =>
              Of(Without(s, i), kinds, id) # {}
         /\ s[i].type \in kinds /\ s[i].id = id /\ Single(Of(s, kinds, id)) =>
              Of(Without(s, i), kinds, id) = {}
<1> DEFINE w == Without(s, i)
           from(k) == IF k < i THEN k ELSE k + 1
<1>1. /\ Len(s) \in Nat /\ Len(w) = Len(s) - 1
      /\ \A j \in 1 .. Len(s) - 1 : w[j] = IF j < i THEN s[j] ELSE s[j + 1]
  BY WithoutIs
<1> HIDE DEF w
<1>2. /\ \A k \in 1 .. Len(w) : from(k) \in 1 .. Len(s) /\ from(k) # i /\ w[k] = s[from(k)]
      /\ \A j, k \in 1 .. Len(w) : from(j) = from(k) => j = k
  BY <1>1
<1>3. \A l \in 1 .. Len(s) : l # i => \E k \in 1 .. Len(w) : from(k) = l
  <2> SUFFICES ASSUME NEW l \in 1 .. Len(s), l # i
               PROVE  \E k \in 1 .. Len(w) : from(k) = l
    OBVIOUS
  <2>1. CASE l < i
    <3>1. l \in 1 .. Len(w) /\ from(l) = l
      BY <2>1, <1>1
    <3> QED
      BY <3>1
  <2>2. CASE i < l
    <3>1. l - 1 \in 1 .. Len(w) /\ from(l - 1) = l
      BY <2>2, <1>1
    <3> QED
      BY <3>1
  <2> QED
    BY <2>1, <2>2
<1> HIDE DEF from
<1>4. Single(Of(s, kinds, id)) => Single(Of(w, kinds, id))
  BY <1>2 DEF Single, Of
<1>5. Of(s, kinds, id) = {} => Of(w, kinds, id) = {}
  BY <1>2 DEF Of
<1>6. ASSUME ~(s[i].type \in kinds /\ s[i].id = id), Of(s, kinds, id) # {}
      PROVE  Of(w, kinds, id) # {}
  <2>1. PICK l \in 1 .. Len(s) : s[l].type \in kinds /\ s[l].id = id
    BY <1>6 DEF Of
  <2>2. PICK k \in 1 .. Len(w) : from(k) = l
    BY <2>1, <1>3, <1>6
  <2>3. k \in Of(w, kinds, id)
    BY <2>1, <2>2, <1>2 DEF Of
  <2> QED
    BY <2>3
<1>7. s[i].type \in kinds /\ s[i].id = id /\ Single(Of(s, kinds, id)) => Of(w, kinds, id) = {}
  BY <1>2 DEF Single, Of
<1> QED
  BY <1>4, <1>5, <1>6, <1>7 DEF w

(* One of the messages is lost.                                            *)
LEMMA Unanswered ==
  ASSUME NEW own, NEW acks, NEW own2, NEW acks2, NEW retries \in Nat, NEW age, NEW lost \in Nat,
         Answerable(own, acks, retries, age, lost), Single(own2), Single(acks2),
         own = {} => own2 = {}, acks = {} => acks2 = {}
  PROVE  Answerable(own2, acks2, retries, age, lost + 1)
<1>1. retries <= lost + 1
  BY DEF Answerable
<1>2. (own2 = {} \/ acks2 = {}) /\ (own2 # {} \/ acks2 # {} => age < RetryHoldoff)
  BY DEF Answerable
<1>3. retries <= lost + 1 + 1
  BY <1>1
<1> QED
  BY <1>1, <1>2, <1>3 DEF Answerable

(* None is.                                                                *)
LEMMA StillAnswered ==
  ASSUME NEW own, NEW acks, NEW own2, NEW acks2, NEW retries, NEW age, NEW lost,
         Answerable(own, acks, retries, age, lost), Single(own2), Single(acks2),
         own = {} <=> own2 = {}, acks = {} <=> acks2 = {}
  PROVE  Answerable(own2, acks2, retries, age, lost)
BY DEF Answerable

Own(s, list, i) == Of(s, {"ping", "data"}, list[i].id)
Acks(s, list, i) == Of(s, {"ack"}, list[i].id)

LEMMA AnswerableIs ==
  ASSUME NEW list, NEW out, NEW in, NEW lost, PromptOK(list, out, in, lost),
         NEW i \in 1 .. Len(list)
  PROVE  /\ Answerable(Own(out, list, i), Acks(in, list, i), list[i].retries, list[i].age, lost)
         /\ Single(Own(out, list, i)) /\ Single(Acks(in, list, i))
BY DEF PromptOK, Own, Acks, Answerable

LEMMA MsgKinds ==
  ASSUME NEW m \in Msg
  PROVE  /\ m.type = "ack" => m.type \in {"ack"} /\ m.type \notin {"ping", "data"}
         /\ m.type # "ack" => m.type \notin {"ack"} /\ m.type \in {"ping", "data"}
BY DEF Msg, Types

(* A message that is no acknowledgement joins those that come in, or an    *)
(* acknowledgement those that go out.                                      *)
LEMMA PromptJoined ==
  ASSUME NEW list, NEW out \in Seq(Msg), NEW in \in Seq(Msg), NEW lost,
         PromptOK(list, out, in, lost), NEW m \in Msg
  PROVE  /\ m.type # "ack" => PromptOK(list, out, Append(in, m), lost)
         /\ m.type = "ack" => PromptOK(list, Append(out, m), in, lost)
<1>1. /\ m.type # "ack" => \A id : Of(Append(in, m), {"ack"}, id) = Of(in, {"ack"}, id)
      /\ m.type = "ack" =>
           \A id : Of(Append(out, m), {"ping", "data"}, id) = Of(out, {"ping", "data"}, id)
  BY MsgKinds, OfAppend
<1> QED
  BY <1>1 DEF PromptOK

(* Such a message is taken.                                                *)
LEMMA PromptTaken ==
  ASSUME NEW list, NEW out \in Seq(Msg), NEW in \in Seq(Msg), NEW lost,
         PromptOK(list, out, in, lost)
  PROVE  /\ \A k \in 1 .. Len(in) :
              in[k].type # "ack" \/ (\A i \in 1 .. Len(list) : list[i].id # in[k].id) =>
                PromptOK(list, out, Without(in, k), lost)
         /\ \A k \in 1 .. Len(out) :
              out[k].type = "ack" => PromptOK(list, Without(out, k), in, lost)
<1>1. ASSUME NEW k \in 1 .. Len(in),
             in[k].type # "ack" \/ (\A i \in 1 .. Len(list) : list[i].id # in[k].id)
      PROVE  PromptOK(list, out, Without(in, k), lost)
  <2> DEFINE w == Without(in, k)
  <2> SUFFICES ASSUME NEW i \in 1 .. Len(list)
               PROVE  Answerable(Own(out, list, i), Acks(w, list, i), list[i].retries,
                                 list[i].age, lost)
    BY DEF PromptOK, Own, Acks
  <2>1. in[k] \in Msg
    OBVIOUS
  <2>2. ~(in[k].type \in {"ack"} /\ in[k].id = list[i].id)
    BY <2>1, <1>1, MsgKinds
  <2>3. /\ Single(Acks(in, list, i)) => Single(Acks(w, list, i))
        /\ Acks(in, list, i) = {} <=> Acks(w, list, i) = {}
    BY <2>2, OfWithout DEF Acks
  <2> HIDE DEF w
  <2> QED
    BY <2>3, AnswerableIs, StillAnswered
<1>2. ASSUME NEW k \in 1 .. Len(out), out[k].type = "ack"
      PROVE  PromptOK(list, Without(out, k), in, lost)
  <2> DEFINE w == Without(out, k)
  <2> SUFFICES ASSUME NEW i \in 1 .. Len(list)
               PROVE  Answerable(Own(w, list, i), Acks(in, list, i), list[i].retries,
                                 list[i].age, lost)
    BY DEF PromptOK, Own, Acks
  <2>1. out[k] \in Msg
    OBVIOUS
  <2>2. out[k].type \notin {"ping", "data"}
    BY <2>1, <1>2, MsgKinds
  <2>3. /\ Single(Own(out, list, i)) => Single(Own(w, list, i))
        /\ Own(out, list, i) = {} <=> Own(w, list, i) = {}
    BY <2>2, OfWithout DEF Own
  <2> HIDE DEF w
  <2> QED
    BY <2>3, AnswerableIs, StillAnswered
<1> QED
  BY <1>1, <1>2

(* A message is lost, and counted.                                         *)
LEMMA PromptLost ==
  ASSUME NEW list \in Seq(Entry), NEW out \in Seq(Msg), NEW in \in Seq(Msg), NEW lost \in Nat,
         PromptOK(list, out, in, lost)
  PROVE  /\ \A k \in 1 .. Len(in) : PromptOK(list, out, Without(in, k), lost + 1)
         /\ \A k \in 1 .. Len(out) : PromptOK(list, Without(out, k), in, lost + 1)
<1>1. ASSUME NEW k \in 1 .. Len(in)
      PROVE  PromptOK(list, out, Without(in, k), lost + 1)
  <2> DEFINE w == Without(in, k)
  <2> SUFFICES ASSUME NEW i \in 1 .. Len(list)
               PROVE  Answerable(Own(out, list, i), Acks(w, list, i), list[i].retries,
                                 list[i].age, lost + 1)
    BY DEF PromptOK, Own, Acks
  <2>1. /\ Single(Acks(in, list, i)) => Single(Acks(w, list, i))
        /\ Acks(in, list, i) = {} => Acks(w, list, i) = {}
    BY OfWithout DEF Acks
  <2>2. list[i].retries \in Nat
    BY EntryIs
  <2>3. /\ Answerable(Own(out, list, i), Acks(in, list, i), list[i].retries, list[i].age, lost)
        /\ Single(Own(out, list, i)) /\ Single(Acks(w, list, i))
    BY <2>1, AnswerableIs
  <2> HIDE DEF w
  <2> QED
    BY <2>1, <2>2, <2>3, Unanswered, Zenon
<1>2. ASSUME NEW k \in 1 .. Len(out)
      PROVE  PromptOK(list, Without(out, k), in, lost + 1)
  <2> DEFINE w == Without(out, k)
  <2> SUFFICES ASSUME NEW i \in 1 .. Len(list)
               PROVE  Answerable(Own(w, list, i), Acks(in, list, i), list[i].retries,
                                 list[i].age, lost + 1)
    BY DEF PromptOK, Own, Acks
  <2>1. /\ Single(Own(out, list, i)) => Single(Own(w, list, i))
        /\ Own(out, list, i) = {} => Own(w, list, i) = {}
    BY OfWithout DEF Own
  <2>2. list[i].retries \in Nat
    BY EntryIs
  <2>3. /\ Answerable(Own(out, list, i), Acks(in, list, i), list[i].retries, list[i].age, lost)
        /\ Single(Own(w, list, i)) /\ Single(Acks(in, list, i))
    BY <2>1, AnswerableIs
  <2> HIDE DEF w
  <2> QED
    BY <2>1, <2>2, <2>3, Unanswered, ZenonT(30)
<1> QED
  BY <1>1, <1>2

(* A packet or a ping is answered.                                         *)
LEMMA PromptDelivered ==
  ASSUME NEW list, NEW out \in Seq(Msg), NEW in \in Seq(Msg), NEW lost,
         PromptOK(list, out, in, lost), out # << >>, out[1].type # "ack",
         NEW ack \in Msg, ack.type = "ack", ack.id = out[1].id
  PROVE  PromptOK(list, Without(out, 1), Append(in, ack), lost)
<1> DEFINE w == Without(out, 1)
           in2 == Append(in, ack)
<1> SUFFICES ASSUME NEW i \in 1 .. Len(list)
             PROVE  Answerable(Own(w, list, i), Acks(in2, list, i), list[i].retries,
                               list[i].age, lost)
  BY DEF PromptOK, Own, Acks
<1>1. /\ 1 \in 1 .. Len(out) /\ out[1] \in Msg /\ Len(in) \in Nat
  OBVIOUS
<1>2. out[1].type \in {"ping", "data"} /\ ack.type \in {"ack"}
  BY <1>1, MsgKinds
<1>3. /\ Answerable(Own(out, list, i), Acks(in, list, i), list[i].retries, list[i].age, lost)
      /\ Single(Own(out, list, i)) /\ Single(Acks(in, list, i))
  BY AnswerableIs
<1>4. CASE list[i].id = out[1].id
  <2>1. 1 \in Own(out, list, i)
    BY <1>1, <1>2, <1>4 DEF Own, Of
  <2>2. Acks(in, list, i) = {} /\ list[i].retries <= lost + 1 /\ list[i].age < RetryHoldoff
    BY <2>1, <1>3 DEF Answerable
  <2>3. Own(w, list, i) = {}
    BY <1>1, <1>2, <1>3, <1>4, OfWithout DEF Own
  <2>4. Single(Acks(in2, list, i)) /\ Acks(in2, list, i) # {}
    BY <2>2, <1>2, <1>4, OfAppend DEF Acks
  <2> HIDE DEF w, in2
  <2> QED
    BY <2>2, <2>3, <2>4 DEF Answerable, Single
<1>5. CASE list[i].id # out[1].id
  <2>1. /\ Single(Own(w, list, i))
        /\ Own(out, list, i) = {} <=> Own(w, list, i) = {}
    BY <1>1, <1>3, <1>5, OfWithout DEF Own
  <2>2. Acks(in2, list, i) = Acks(in, list, i)
    BY <1>5, OfAppend DEF Acks
  <2> HIDE DEF w, in2
  <2> QED
    BY <2>1, <2>2, <1>3, StillAnswered
<1> QED
  BY <1>4, <1>5

(* Elements leave the list.                                                *)
LEMMA PromptPart ==
  ASSUME NEW list, NEW out, NEW in, NEW lost, PromptOK(list, out, in, lost),
         NEW list2, PartOf(list2, list)
  PROVE  PromptOK(list2, out, in, lost)
<1>1. \A k \in 1 .. Len(list2) : \E i \in 1 .. Len(list) : list2[k] = list[i]
  BY DEF PartOf
<1> QED
  BY <1>1 DEF PromptOK

(* The list stays, and nothing is under way.                               *)
LEMMA PromptAged ==
  ASSUME NEW list, NEW lost, PromptOK(list, << >>, << >>, lost),
         NEW list2, Len(list2) = Len(list),
         \A i \in 1 .. Len(list) : list2[i].id = list[i].id /\ list2[i].retries = list[i].retries
  PROVE  PromptOK(list2, << >>, << >>, lost)
<1>1. \A kinds, id : Of(<< >>, kinds, id) = {}
  BY DEF Of
<1> QED
  BY <1>1 DEF PromptOK, Answerable

(* A packet or a ping is put on the list and sent.                         *)
LEMMA PromptEmplaced ==
  ASSUME NEW list \in Seq(Entry), NEW out \in Seq(Msg), NEW in \in Seq(Msg), NEW lost \in Nat,
         PromptOK(list, out, in, lost),
         NEW e \in Entry, e.retries = 1, e.age = 0, Fresh(list, out, in, e.id)
  PROVE  PromptOK(Append(list, e), Append(out, Message(e.type, e.id, e.n)), in, lost)
<1> DEFINE m == Message(e.type, e.id, e.n)
           list2 == Append(list, e)
           out2 == Append(out, m)
           new == Len(list) + 1
<1>1. /\ Len(list) \in Nat /\ Len(list2) = new /\ list2[new] = e
      /\ \A i \in 1 .. Len(list) : list2[i] = list[i]
      /\ \A i \in 1 .. new : i \in 1 .. Len(list) \/ i = new
  OBVIOUS
<1>2. m \in Msg /\ m.type \in {"ping", "data"} /\ m.id = e.id
  BY DEF Message, Msg, Entry, Types
<1> HIDE DEF m, list2, new
<1> SUFFICES ASSUME NEW i \in 1 .. Len(list2)
             PROVE  Answerable(Own(out2, list2, i), Acks(in, list2, i), list2[i].retries,
                               list2[i].age, lost)
  BY DEF PromptOK, Own, Acks, list2, m
<1>3. CASE i \in 1 .. Len(list)
  <2>1. list2[i] = list[i] /\ list[i].id # e.id
    BY <1>1, <1>3 DEF Fresh
  <2>2. Own(out2, list2, i) = Own(out, list, i) /\ Acks(in, list2, i) = Acks(in, list, i)
    BY <2>1, <1>2, OfAppend DEF Own, Acks
  <2> QED
    BY <2>1, <2>2, <1>3, AnswerableIs
<1>4. CASE i = new
  <2>1. list2[i] = e
    BY <1>1, <1>4
  <2>2. Of(out, {"ping", "data"}, e.id) = {} /\ Acks(in, list2, i) = {}
    <3>1. \A k \in 1 .. Len(out) : out[k] \in Msg
      OBVIOUS
    <3> QED
      BY <2>1, <3>1, MsgKinds DEF Fresh, Of, Acks
  <2>3. Single(Own(out2, list2, i)) /\ Own(out2, list2, i) # {}
    BY <2>1, <2>2, <1>2, OfAppend DEF Own
  <2>4. e.retries <= lost + 1 /\ e.age < RetryHoldoff
    BY KissAssumption
  <2> HIDE DEF out2
  <2> QED
    BY <2>1, <2>2, <2>3, <2>4 DEF Answerable, Single
<1> QED
  BY <1>1, <1>3, <1>4

(* An element whose holdoff has passed is sent again.                      *)
LEMMA PromptResent ==
  ASSUME NEW list \in Seq(Entry), NEW out \in Seq(Msg), NEW in \in Seq(Msg), NEW lost \in Nat,
         PromptOK(list, out, in, lost),
         \A j, k \in 1 .. Len(list) : list[j].id = list[k].id => j = k,
         NEW i \in 1 .. Len(list), ~(list[i].age < RetryHoldoff),
         NEW list2, Len(list2) = Len(list),
         \A j \in 1 .. Len(list) : j # i => list2[j] = list[j],
         list2[i].id = list[i].id, list2[i].retries = list[i].retries + 1, list2[i].age = 0,
         NEW m \in Msg, m.type # "ack", m.id = list[i].id
  PROVE  PromptOK(list2, Append(out, m), in, lost)
<1> DEFINE out2 == Append(out, m)
<1> SUFFICES ASSUME NEW j \in 1 .. Len(list)
             PROVE  Answerable(Own(out2, list2, j), Acks(in, list2, j), list2[j].retries,
                               list2[j].age, lost)
  BY DEF PromptOK, Own, Acks
<1>1. m.type \in {"ping", "data"}
  BY MsgKinds
<1>2. CASE j = i
  <2>1. /\ Own(out, list, i) = {} /\ Acks(in, list, i) = {} /\ list[i].retries <= lost
    BY AnswerableIs DEF Answerable
  <2>2. Single(Own(out2, list2, i)) /\ Own(out2, list2, i) # {}
    BY <2>1, <1>1, OfAppend DEF Own
  <2>3. Acks(in, list2, i) = {}
    BY <2>1 DEF Acks
  <2>4. list2[i].retries <= lost + 1 /\ list2[i].age < RetryHoldoff
    <3>1. list[i].retries \in Nat
      BY EntryIs
    <3> QED
      BY <2>1, <3>1, KissAssumption
  <2> HIDE DEF out2
  <2> QED
    BY <2>2, <2>3, <2>4, <1>2 DEF Answerable, Single
<1>3. CASE j # i
  <2>1. list2[j] = list[j] /\ list[j].id # m.id
    BY <1>3
  <2>2. Own(out2, list2, j) = Own(out, list, j) /\ Acks(in, list2, j) = Acks(in, list, j)
    BY <2>1, OfAppend DEF Own, Acks
  <2> QED
    BY <2>1, <2>2, AnswerableIs
<1> QED
  BY <1>2, <1>3

-----------------------------------------------------------------------------
(* On a prompt line: how long a pinging peer has heard nothing.            *)

LEMMA Times ==
  ASSUME NEW r \in Nat, NEW s \in Nat
  PROVE  /\ r * RetryHoldoff \in Nat
         /\ (r + 1) * RetryHoldoff = r * RetryHoldoff + RetryHoldoff
         /\ r <= s => r * RetryHoldoff <= s * RetryHoldoff
<1> DEFINE h == RetryHoldoff
<1>1. h \in Nat
  BY KissAssumption
<1> HIDE DEF h
<1>2. r * h \in Nat /\ (r + 1) * h = r * h + h
  BY <1>1
<1>3. r <= s => r * h <= s * h
  BY <1>1
<1> QED
  BY <1>2, <1>3 DEF h

LEMMA AllowsIs ==
  ASSUME NEW r \in Nat \ {0}, NEW age \in Nat
  PROVE  /\ Allows(r, age) \in Nat /\ Allows(r, age) >= PingHoldoff
         /\ Allows(r, age + 1) = Allows(r, age) + 1
         /\ Allows(r + 1, 0) = Allows(r, RetryHoldoff)
<1> DEFINE t == (r - 1) * RetryHoldoff
<1>1. r - 1 \in Nat /\ (r - 1) + 1 = r /\ (r + 1) - 1 = r
  OBVIOUS
<1>2. t \in Nat /\ r * RetryHoldoff = t + RetryHoldoff
  BY <1>1, Times
<1>3. PingHoldoff \in Nat /\ RetryHoldoff \in Nat
  BY KissAssumption
<1>4. /\ Allows(r, age) = PingHoldoff + t + age
      /\ Allows(r, age + 1) = PingHoldoff + t + (age + 1)
      /\ Allows(r, RetryHoldoff) = PingHoldoff + t + RetryHoldoff
      /\ Allows(r + 1, 0) = PingHoldoff + r * RetryHoldoff + 0
  BY <1>1 DEF Allows
<1> HIDE DEF t
<1> QED
  BY <1>2, <1>3, <1>4

LEMMA SilenceNone ==
  ASSUME NEW list \in Seq(Entry), \A i \in 1 .. Len(list) : list[i].retries \in 1 .. MaxSends,
         NEW quiet \in Nat
  PROVE  SilenceOK(list, 0, quiet)
<1>1. CASE list = << >>
  BY <1>1 DEF SilenceOK
<1>2. CASE list # << >>
  <2>1. 1 \in 1 .. Len(list)
    BY <1>2
  <2>2. list[1].retries \in Nat \ {0} /\ list[1].age \in Nat
    BY <2>1, EntryIs, SendsIs, KissAssumption
  <2>3. Allows(list[1].retries, list[1].age) \in Nat
    BY <2>2, AllowsIs
  <2>4. 0 <= Allows(list[1].retries, list[1].age)
    BY <2>3
  <2> QED
    BY <2>1, <2>4 DEF SilenceOK
<1> QED
  BY <1>1, <1>2

LEMMA SilencePut ==
  ASSUME NEW list \in Seq(Entry), NEW silence \in Nat, NEW quiet \in 0 .. PingHoldoff,
         SilenceOK(list, silence, quiet), NEW e \in Entry, e.retries = 1, e.age = 0, NEW quiet2
  PROVE  SilenceOK(Append(list, e), silence, quiet2)
<1> DEFINE list2 == Append(list, e)
<1>1. /\ Len(list) \in Nat /\ Len(list2) = Len(list) + 1 /\ list2[Len(list) + 1] = e
      /\ \A i \in 1 .. Len(list) : list2[i] = list[i] /\ i \in 1 .. Len(list2)
  OBVIOUS
<1> HIDE DEF list2
<1>2. CASE list = << >> /\ silence <= quiet
  <2>1. silence <= PingHoldoff /\ PingHoldoff \in Nat
    BY <1>2, KissAssumption
  <2>2. Allows(1, 0) \in Nat /\ Allows(1, 0) >= PingHoldoff
    BY AllowsIs
  <2>3. silence <= Allows(1, 0)
    BY <2>1, <2>2
  <2>4. Len(list) + 1 \in 1 .. Len(list2)
    BY <1>1
  <2> QED
    BY <2>3, <2>4, <1>1 DEF SilenceOK, list2
<1>3. CASE \E i \in 1 .. Len(list) : silence <= Allows(list[i].retries, list[i].age)
  <2>1. PICK i \in 1 .. Len(list) : silence <= Allows(list[i].retries, list[i].age)
    BY <1>3
  <2>2. i \in 1 .. Len(list2) /\ list2[i] = list[i]
    BY <1>1
  <2> QED
    BY <2>1, <2>2 DEF SilenceOK, list2
<1> QED
  BY <1>2, <1>3 DEF SilenceOK

LEMMA SilenceResent ==
  ASSUME NEW list \in Seq(Entry), NEW i \in 1 .. Len(list), list[i].retries \in 1 .. MaxSends,
         NEW silence \in Nat, NEW quiet, SilenceOK(list, silence, quiet),
         ~(list[i].age < RetryHoldoff),
         NEW list2, Len(list2) = Len(list),
         \A j \in 1 .. Len(list) : j # i => list2[j] = list[j],
         list2[i].retries = list[i].retries + 1, list2[i].age = 0, NEW quiet2
  PROVE  SilenceOK(list2, silence, quiet2)
<1>1. list # << >>
  OBVIOUS
<1>2. PICK j \in 1 .. Len(list) : silence <= Allows(list[j].retries, list[j].age)
  BY <1>1 DEF SilenceOK
<1>3. CASE j = i
  <2>1. list[i].retries \in Nat \ {0} /\ list[i].age = RetryHoldoff
    BY EntryIs, SendsIs, KissAssumption
  <2>2. Allows(list[i].retries + 1, 0) = Allows(list[i].retries, RetryHoldoff)
    BY <2>1, AllowsIs, KissAssumption
  <2>3. silence <= Allows(list2[i].retries, list2[i].age)
    BY <2>1, <2>2, <1>2, <1>3
  <2> QED
    BY <2>3 DEF SilenceOK
<1>4. CASE j # i
  BY <1>2, <1>4 DEF SilenceOK
<1> QED
  BY <1>3, <1>4

(* A tick, while nothing is due.                                           *)
LEMMA SilenceAged ==
  ASSUME NEW list \in Seq(Entry), \A i \in 1 .. Len(list) : list[i].retries \in 1 .. MaxSends,
         NEW silence \in Nat, NEW quiet \in 0 .. PingHoldoff, SilenceOK(list, silence, quiet),
         list = << >> => quiet < PingHoldoff,
         \A i \in 1 .. Len(list) : list[i].age < RetryHoldoff,
         NEW list2, Len(list2) = Len(list),
         \A i \in 1 .. Len(list) : /\ list2[i].retries = list[i].retries
                                   /\ list2[i].age = Smaller(list[i].age + 1, RetryHoldoff),
         NEW silence2 \in Nat, silence2 <= silence + 1,
         NEW quiet2, quiet2 = Smaller(quiet + 1, PingHoldoff),
         list = << >> => list2 = << >>
  PROVE  SilenceOK(list2, silence2, quiet2)
<1>1. CASE list = << >> /\ silence <= quiet
  <2>1. quiet2 = quiet + 1
    BY <1>1, KissAssumption DEF Smaller
  <2>2. silence2 <= quiet2
    BY <2>1, <1>1
  <2> QED
    BY <2>2, <1>1 DEF SilenceOK
<1>2. CASE \E i \in 1 .. Len(list) : silence <= Allows(list[i].retries, list[i].age)
  <2>1. PICK i \in 1 .. Len(list) : silence <= Allows(list[i].retries, list[i].age)
    BY <1>2
  <2>2. /\ list[i].retries \in Nat \ {0} /\ list[i].age \in Nat
        /\ list2[i].retries = list[i].retries /\ list2[i].age = list[i].age + 1
    BY EntryIs, SendsIs, KissAssumption DEF Smaller
  <2> DEFINE was == Allows(list[i].retries, list[i].age)
             is == Allows(list2[i].retries, list2[i].age)
  <2>3. was \in Nat /\ is = was + 1
    BY <2>2, AllowsIs
  <2>4. silence <= was
    BY <2>1
  <2> HIDE DEF was, is
  <2>5. silence2 <= is
    BY <2>3, <2>4
  <2> QED
    BY <2>5 DEF SilenceOK, is
<1> QED
  BY <1>1, <1>2 DEF SilenceOK

-----------------------------------------------------------------------------
(* The steps on a prompt line.                                             *)

LEMMA ListIs ==
  ASSUME KInv, NEW p \in Peers
  PROVE  /\ packet_list[p] \in Seq(Entry)
         /\ \A i \in 1 .. Len(packet_list[p]) : packet_list[p][i].retries \in 1 .. MaxSends
         /\ \A i, j \in 1 .. Len(packet_list[p]) :
              packet_list[p][i].id = packet_list[p][j].id => i = j
<1>1. TypeOK /\ PeerInv(p)
  BY DEF KInv
<1>2. ListOK(packet_list[p], accepted[p], acked[p] \union given_up[p])
  BY <1>1 DEF PeerInv, PeerOK
<1> QED
  BY <1>1, <1>2, PeerTypes DEF ListOK

(* What a peer hears and sends is as before, or it has just heard.         *)
LEMMA PeerStays ==
  ASSUME NEW p \in Peers, PromptPeer(p), PromptOK(packet_list'[p], line'[Other(p)], line'[p], losses'),
         UNCHANGED <<scene, given_up>>, packet_list'[p] = packet_list[p],
         last_received'[p] = last_received[p], last_transmitted'[p] = last_transmitted[p]
  PROVE  PromptPeer(p)'
BY DEF PromptPeer, is_peer_alive, AliveFor

(* The state after a step, in terms of lists and messages.                 *)
LEMMA PutFacts ==
  ASSUME KInv, NEW p \in Peers, Len(line[Other(p)]) < scene.limit,
         NEW type \in {"ping", "data"}, NEW n \in 0 .. MaxPackets,
         IdUnused(p, NextId(p)), Emplace(p, type, n)
  PROVE  \E e \in Entry :
           /\ e.retries = 1 /\ e.age = 0 /\ e.type = type
           /\ Message(e.type, e.id, e.n) \in Msg /\ Message(e.type, e.id, e.n).type = type
           /\ Message(e.type, e.id, e.n).id = e.id
           /\ Fresh(packet_list[p], line[Other(p)], line[p], e.id)
           /\ packet_list'[p] = Append(packet_list[p], e)
           /\ packet_list'[Other(p)] = packet_list[Other(p)]
           /\ last_transmitted'[p] = 0
           /\ last_transmitted'[Other(p)] = last_transmitted[Other(p)]
           /\ line'[p] = line[p]
           /\ line'[Other(p)] = Append(line[Other(p)], Message(e.type, e.id, e.n))
<1> DEFINE id == NextId(p)
           h == [type |-> type, id |-> id, n |-> n, age |-> 0, retries |-> 0]
           e == Sent(h)
           o == Other(p)
           m == Message(e.type, e.id, e.n)
<1>1. TypeOK /\ o \in Peers /\ o # p
  BY OtherIs DEF KInv
<1>2. id \in Id
  BY <1>1, NextIdIs
<1>3. h \in Entry /\ h.type = type /\ h.id = id /\ h.n = n /\ h.retries = 0
  BY <1>2, KissAssumption DEF Entry
<1>4. /\ packet_list' = [packet_list EXCEPT ![p] = Append(packet_list[p], e)]
      /\ last_transmitted' = [last_transmitted EXCEPT ![p] = 0]
      /\ Put(o, Message(type, id, n))
  BY DEF Emplace
<1> HIDE DEF h, id
<1>5. /\ e \in Entry /\ e.retries = 1 /\ e.age = 0 /\ e.type = type /\ e.id = id /\ e.n = n
  <2>1. e.retries = 0 + 1
    BY <1>3, SentIs
  <2> QED
    BY <2>1, <1>3, SentIs
<1> HIDE DEF e
<1>6. m = Message(type, id, n) /\ m \in Msg /\ m.type = type /\ m.id = e.id
  BY <1>5 DEF Message, Msg, Entry, Types
<1>7. /\ packet_list \in [Peers -> Seq(Entry)] /\ line \in [Peers -> Seq(Msg)]
      /\ last_transmitted \in [Peers -> 0 .. PingHoldoff]
  BY <1>1 DEF TypeOK, Entry, Msg, Id
<1>8. /\ packet_list'[p] = Append(packet_list[p], e) /\ packet_list'[o] = packet_list[o]
      /\ last_transmitted'[p] = 0 /\ last_transmitted'[o] = last_transmitted[o]
      /\ line'[p] = line[p] /\ line'[o] = Append(line[o], m)
  <2>1. line' = [line EXCEPT ![o] = Append(line[o], m)]
    BY <1>4, <1>6 DEF Put
  <2> HIDE DEF m
  <2> QED
    BY <2>1, <1>1, <1>4, <1>7
<1>9. Fresh(packet_list[p], line[o], line[p], e.id)
  BY <1>5 DEF IdUnused, Fresh, id
<1> HIDE DEF o
<1> QED
  BY <1>5, <1>6, <1>8, <1>9 DEF o

LEMMA AckFacts ==
  ASSUME KInv, NEW p \in Peers, receive(p), NEW m, m = Head(line[p]), ReceiveAck(p, m.id)
  PROVE  /\ line[p] # << >> /\ 1 \in 1 .. Len(line[p]) /\ m = line[p][1] /\ m \in Msg
         /\ packet_list'[p] = Unmatched(packet_list[p], m.id)
         /\ packet_list'[Other(p)] = packet_list[Other(p)]
         /\ line'[p] = Without(line[p], 1) /\ line'[Other(p)] = line[Other(p)]
         /\ last_received'[p] = 0 /\ last_received'[Other(p)] = last_received[Other(p)]
<1> DEFINE o == Other(p)
           list2 == Unmatched(packet_list[p], m.id)
<1>1. TypeOK /\ o \in Peers /\ o # p
  BY OtherIs DEF KInv
<1>2. /\ line[p] # << >> /\ last_received' = [last_received EXCEPT ![p] = 0]
      /\ packet_list' = [packet_list EXCEPT ![p] = list2]
      /\ line' = [line EXCEPT ![p] = Tail(line[p])]
  BY DEF receive, ReceiveAck
<1>3. /\ line[p] \in Seq(Msg) /\ last_received \in [Peers -> Nat]
      /\ packet_list \in [Peers -> Seq(Entry)] /\ line \in [Peers -> Seq(Msg)]
  BY <1>1, PeerTypes DEF TypeOK, Entry, Msg, Id
<1>4. 1 \in 1 .. Len(line[p]) /\ m = line[p][1] /\ m \in Msg /\ Tail(line[p]) = Without(line[p], 1)
  BY <1>2, <1>3, TailIs
<1> HIDE DEF list2, o
<1>5. /\ packet_list'[p] = list2 /\ packet_list'[o] = packet_list[o]
      /\ line'[p] = Without(line[p], 1) /\ line'[o] = line[o]
      /\ last_received'[p] = 0 /\ last_received'[o] = last_received[o]
  BY <1>1, <1>2, <1>3, <1>4
<1> QED
  BY <1>2, <1>4, <1>5 DEF list2, o

LEMMA PacketFacts ==
  ASSUME KInv, NEW p \in Peers, Len(line[Other(p)]) < scene.limit,
         receive(p), NEW m, m = Head(line[p]), ReceivePacket(p, m)
  PROVE  /\ line[p] # << >> /\ 1 \in 1 .. Len(line[p]) /\ m = line[p][1] /\ m \in Msg
         /\ Message("ack", m.id, 0) \in Msg /\ Message("ack", m.id, 0).type = "ack"
         /\ Message("ack", m.id, 0).id = m.id
         /\ line'[p] = Without(line[p], 1)
         /\ line'[Other(p)] = Append(line[Other(p)], Message("ack", m.id, 0))
         /\ last_received'[p] = 0 /\ last_received'[Other(p)] = last_received[Other(p)]
         /\ last_transmitted'[p] = 0
         /\ last_transmitted'[Other(p)] = last_transmitted[Other(p)]
<1> DEFINE o == Other(p)
           ack == Message("ack", m.id, 0)
<1>1. TypeOK /\ o \in Peers /\ o # p
  BY OtherIs DEF KInv
<1>2. /\ line[p] # << >> /\ last_received' = [last_received EXCEPT ![p] = 0]
      /\ last_transmitted' = [last_transmitted EXCEPT ![p] = 0]
  BY DEF receive, ReceivePacket
<1>3. /\ line[p] \in Seq(Msg) /\ line \in [Peers -> Seq(Msg)]
      /\ last_received \in [Peers -> Nat] /\ last_transmitted \in [Peers -> 0 .. PingHoldoff]
  BY <1>1, PeerTypes DEF TypeOK, Msg, Id
<1>4. 1 \in 1 .. Len(line[p]) /\ m = line[p][1] /\ m \in Msg /\ Tail(line[p]) = Without(line[p], 1)
  BY <1>2, <1>3, TailIs
<1>5. ack \in Msg /\ ack.type = "ack" /\ ack.id = m.id
  BY <1>4, KissAssumption DEF Message, Msg, Types
<1>6. /\ line'[p] = Without(line[p], 1) /\ line'[o] = Append(line[o], ack)
      /\ last_received'[p] = 0 /\ last_received'[o] = last_received[o]
      /\ last_transmitted'[p] = 0 /\ last_transmitted'[o] = last_transmitted[o]
  <2>1. line' = [line EXCEPT ![p] = Tail(@),
                             ![o] = IF Len(@) < scene.limit THEN Append(@, ack) ELSE @]
    BY DEF ReceivePacket
  <2> HIDE DEF o, ack
  <2>2. \A q \in Peers : line'[q] = IF q = o
                                      THEN IF Len(line[o]) < scene.limit
                                             THEN Append(line[o], ack) ELSE line[o]
                                      ELSE IF q = p THEN Tail(line[p]) ELSE line[q]
    BY <2>1, <1>1, <1>3
  <2>3. Len(line[o]) < scene.limit
    BY DEF o
  <2> QED
    BY <2>2, <2>3, <1>1, <1>2, <1>3, <1>4
<1> HIDE DEF o, ack
<1> QED
  BY <1>2, <1>4, <1>5, <1>6 DEF o, ack

LEMMA ResentFacts ==
  ASSUME KInv, NEW p \in Peers, Len(line[Other(p)]) < scene.limit, Retransmit(p)
  PROVE  \E i \in 1 .. Len(packet_list[p]), m \in Msg :
           /\ ~(packet_list[p][i].age < RetryHoldoff)
           /\ m.type # "ack" /\ m.id = packet_list[p][i].id
           /\ Len(packet_list'[p]) = Len(packet_list[p])
           /\ packet_list'[p] \in Seq(Entry)
           /\ \A j \in 1 .. Len(packet_list[p]) : j # i => packet_list'[p][j] = packet_list[p][j]
           /\ packet_list'[p][i].type = packet_list[p][i].type
           /\ packet_list'[p][i].id = packet_list[p][i].id
           /\ packet_list'[p][i].retries = packet_list[p][i].retries + 1
           /\ packet_list'[p][i].age = 0
           /\ packet_list'[Other(p)] = packet_list[Other(p)]
           /\ last_transmitted'[p] = 0
           /\ last_transmitted'[Other(p)] = last_transmitted[Other(p)]
           /\ line'[p] = line[p] /\ line'[Other(p)] = Append(line[Other(p)], m)
<1> DEFINE o == Other(p)
           list == packet_list[p]
           i == it[p]
           s == Sent(list[i])
           list2 == [list EXCEPT ![i] = s]
           m == Message(list[i].type, list[i].id, list[i].n)
<1>1. TypeOK /\ o \in Peers /\ o # p
  BY OtherIs DEF KInv
<1>2. /\ i \in 1 .. Len(list) /\ transmit_expired(list[i])
      /\ packet_list' = [packet_list EXCEPT ![p] = list2]
      /\ last_transmitted' = [last_transmitted EXCEPT ![p] = 0]
      /\ Put(o, m)
  BY DEF Retransmit, AtElement, Element
<1>3. /\ list \in Seq(Entry)
      /\ packet_list \in [Peers -> Seq(Entry)] /\ line \in [Peers -> Seq(Msg)]
      /\ last_transmitted \in [Peers -> 0 .. PingHoldoff]
  BY <1>1, PeerTypes DEF TypeOK, Entry, Msg, Id
<1>4. /\ list[i] \in Entry /\ ~(list[i].age < RetryHoldoff)
      /\ m \in Msg /\ m.type # "ack" /\ m.id = list[i].id
      /\ s \in Entry /\ s.type = list[i].type /\ s.id = list[i].id
      /\ s.retries = list[i].retries + 1 /\ s.age = 0
  <2>1. list[i] \in Entry
    BY <1>2, <1>3
  <2>2. ~(list[i].age < RetryHoldoff)
    BY <2>1, <1>2, KissAssumption DEF Entry, transmit_expired
  <2>3. m \in Msg /\ m.type # "ack" /\ m.id = list[i].id
    BY <2>1 DEF Entry, Msg, Message, Types
  <2> QED
    BY <2>1, <2>2, <2>3, SentIs
<1> HIDE DEF s, m
<1>5. /\ list2 \in Seq(Entry) /\ Len(list2) = Len(list) /\ list2[i] = s
      /\ \A j \in 1 .. Len(list) : j # i => list2[j] = list[j]
  <2>1. list \in Seq(Entry) /\ s \in Entry /\ i \in 1 .. Len(list)
    BY <1>2, <1>3, <1>4
  <2> HIDE DEF list, i
  <2> QED
    BY <2>1
<1>6. /\ packet_list'[p] = list2 /\ packet_list'[o] = packet_list[o]
      /\ line'[p] = line[p] /\ line'[o] = Append(line[o], m)
      /\ last_transmitted'[p] = 0 /\ last_transmitted'[o] = last_transmitted[o]
  <2>1. line' = [line EXCEPT ![o] = Append(line[o], m)]
    BY <1>2 DEF Put
  <2> HIDE DEF list2
  <2> QED
    BY <2>1, <1>1, <1>2, <1>3
<1> HIDE DEF list2, i, o
<1>7. i \in 1 .. Len(packet_list[p]) /\ m \in Msg
  BY <1>2, <1>4
<1>8. /\ packet_list'[p] \in Seq(Entry) /\ Len(packet_list'[p]) = Len(list)
      /\ \A j \in 1 .. Len(list) : j # i => packet_list'[p][j] = list[j]
      /\ packet_list'[p][i] = s
  BY <1>5, <1>6
<1> HIDE DEF list
<1> USE <1>7
<1> WITNESS i \in 1 .. Len(packet_list[p]), m \in Msg
<1> QED
  BY <1>4, <1>6, <1>8 DEF o, list

LEMMA PromptPut ==
  ASSUME KInv, Prompt, NEW p \in Peers, Len(line[Other(p)]) < scene.limit,
         NEW type \in {"ping", "data"}, NEW n \in 0 .. MaxPackets,
         IdUnused(p, NextId(p)), Emplace(p, type, n),
         UNCHANGED <<losses, scene, given_up, last_received>>
  PROVE  Prompt'
<1> DEFINE o == Other(p)
           list == packet_list[p]
           out == line[o]
           in == line[p]
<1>1. /\ TypeOK /\ PromptPeer(p) /\ PromptPeer(o) /\ o \in Peers /\ o # p /\ Other(o) = p
      /\ \A q \in Peers : q = p \/ q = o
  BY OtherIs DEF KInv, Prompt
<1>2. PICK e \in Entry :
           /\ e.retries = 1 /\ e.age = 0 /\ e.type = type
           /\ Message(e.type, e.id, e.n) \in Msg /\ Message(e.type, e.id, e.n).type = type
           /\ Message(e.type, e.id, e.n).id = e.id
           /\ Fresh(list, out, in, e.id)
           /\ packet_list'[p] = Append(list, e)
           /\ packet_list'[o] = packet_list[o]
           /\ last_transmitted'[p] = 0
           /\ last_transmitted'[o] = last_transmitted[o]
           /\ line'[p] = in
           /\ line'[o] = Append(out, Message(e.type, e.id, e.n))
  BY PutFacts, Zenon
<1> DEFINE m == Message(e.type, e.id, e.n)
<1>3. m \in Msg /\ m.type # "ack"
  BY <1>2
<1>4. /\ list \in Seq(Entry) /\ out \in Seq(Msg) /\ in \in Seq(Msg) /\ losses \in Nat
      /\ last_received[p] \in Nat /\ last_transmitted[p] \in 0 .. PingHoldoff
  BY <1>1, PeerTypes DEF TypeOK
<1> HIDE DEF m, list, out, in, o
<1>5. PromptPeer(p)'
  <2>1. PromptOK(list, out, in, losses)
    BY <1>1 DEF PromptPeer, list, out, in, o
  <2>2. PromptOK(Append(list, e), Append(out, m), in, losses)
    BY <2>1, <1>2, <1>4, PromptEmplaced DEF m
  <2>3. is_peer_alive(p)' <=> is_peer_alive(p)
    BY DEF is_peer_alive, AliveFor
  <2>4. p \in scene.pinging /\ is_peer_alive(p) => SilenceOK(Append(list, e), last_received[p], 0)
    BY <1>1, <1>2, <1>4, SilencePut DEF PromptPeer, list
  <2>5. /\ packet_list'[p] = Append(list, e) /\ line'[o] = Append(out, m) /\ line'[p] = in
        /\ last_transmitted'[p] = 0 /\ last_received'[p] = last_received[p]
    BY <1>2 DEF m
  <2> QED
    BY <2>2, <2>3, <2>4, <2>5, <1>1 DEF PromptPeer, o
<1>6. PromptPeer(o)'
  <2>1. PromptOK(packet_list[o], in, out, losses)
    BY <1>1 DEF PromptPeer, in, out
  <2>2. PromptOK(packet_list[o], in, Append(out, m), losses)
    BY <2>1, <1>3, <1>4, PromptJoined
  <2> QED
    BY <2>2, <1>1, <1>2, PeerStays DEF m
<1> QED
  BY <1>1, <1>5, <1>6 DEF Prompt

LEMMA PromptReceiveAck ==
  ASSUME KInv, Prompt, NEW p \in Peers, receive(p), NEW m, m = Head(line[p]), m.type = "ack",
         ReceiveAck(p, m.id)
  PROVE  Prompt'
<1> DEFINE o == Other(p)
           list == packet_list[p]
           list2 == Unmatched(list, m.id)
           out == line[o]
           in == line[p]
<1>1. /\ TypeOK /\ PromptPeer(p) /\ PromptPeer(o) /\ o \in Peers /\ o # p /\ Other(o) = p
      /\ \A q \in Peers : q = p \/ q = o
  BY OtherIs DEF KInv, Prompt
<1>2. /\ 1 \in 1 .. Len(in) /\ m = in[1]
      /\ packet_list'[p] = list2 /\ packet_list'[o] = packet_list[o]
      /\ line'[p] = Without(in, 1) /\ line'[o] = out
      /\ last_received'[p] = 0 /\ last_received'[o] = last_received[o]
  BY AckFacts, Zenon
<1>3. UNCHANGED <<losses, scene, given_up, last_transmitted>>
  BY DEF receive, ReceiveAck
<1>4. /\ list \in Seq(Entry) /\ out \in Seq(Msg) /\ in \in Seq(Msg)
      /\ last_transmitted[p] \in Nat
  <2>1. last_transmitted[p] \in 0 .. PingHoldoff /\ PingHoldoff \in Nat
    BY <1>1, PeerTypes, KissAssumption
  <2> QED
    BY <2>1, <1>1, PeerTypes
<1>5. /\ list2 \in Seq(Entry) /\ PartOf(list2, list)
      /\ \A k \in 1 .. Len(list2) : list2[k].id # m.id
  BY <1>4, UnmatchedIs
<1> HIDE DEF list2
<1>6. \A k \in 1 .. Len(list2) : list2[k].retries \in 1 .. MaxSends
  <2>1. \A i \in 1 .. Len(list) : list[i].retries \in 1 .. MaxSends
    BY ListIs
  <2> QED
    BY <2>1, <1>5 DEF PartOf
<1> HIDE DEF list, out, in, o
<1>7. PromptPeer(p)'
  <2>1. PromptOK(list, out, in, losses)
    BY <1>1 DEF PromptPeer, list, out, in, o
  <2>2. PromptOK(list2, out, in, losses)
    BY <2>1, <1>5, PromptPart
  <2>3. PromptOK(list2, out, Without(in, 1), losses)
    BY <2>2, <1>2, <1>4, <1>5, PromptTaken
  <2>4. SilenceOK(list2, 0, last_transmitted[p])
    BY <1>4, <1>5, <1>6, SilenceNone
  <2> QED
    BY <2>3, <2>4, <1>1, <1>2, <1>3 DEF PromptPeer, o
<1>8. PromptPeer(o)'
  <2>1. PromptOK(packet_list[o], in, out, losses)
    BY <1>1 DEF PromptPeer, in, out
  <2>2. PromptOK(packet_list[o], Without(in, 1), out, losses)
    BY <2>1, <1>2, <1>4, PromptTaken
  <2> QED
    BY <2>2, <1>1, <1>2, <1>3, PeerStays
<1> QED
  BY <1>1, <1>3, <1>7, <1>8 DEF Prompt

LEMMA PromptReceivePacket ==
  ASSUME KInv, Prompt, NEW p \in Peers, Len(line[Other(p)]) < scene.limit,
         receive(p), NEW m, m = Head(line[p]), m.type # "ack", ReceivePacket(p, m)
  PROVE  Prompt'
<1> DEFINE o == Other(p)
           ack == Message("ack", m.id, 0)
           out == line[o]
           in == line[p]
<1>1. /\ TypeOK /\ PromptPeer(p) /\ PromptPeer(o) /\ o \in Peers /\ o # p /\ Other(o) = p
      /\ \A q \in Peers : q = p \/ q = o
  BY OtherIs DEF KInv, Prompt
<1>2. /\ line[p] # << >> /\ 1 \in 1 .. Len(in) /\ m = in[1] /\ m \in Msg
      /\ ack \in Msg /\ ack.type = "ack" /\ ack.id = m.id
      /\ line'[p] = Without(in, 1) /\ line'[o] = Append(out, ack)
      /\ last_received'[p] = 0 /\ last_received'[o] = last_received[o]
      /\ last_transmitted'[p] = 0 /\ last_transmitted'[o] = last_transmitted[o]
  BY PacketFacts, Zenon
<1>3. UNCHANGED <<losses, scene, given_up, packet_list>>
  BY DEF receive, ReceivePacket
<1>4. packet_list[p] \in Seq(Entry) /\ out \in Seq(Msg) /\ in \in Seq(Msg)
  BY <1>1, PeerTypes
<1> HIDE DEF out, in, o, ack
<1>5. PromptPeer(p)'
  <2>1. PromptOK(packet_list[p], out, in, losses)
    BY <1>1 DEF PromptPeer, out, in, o
  <2>2. PromptOK(packet_list[p], Append(out, ack), in, losses)
    BY <2>1, <1>2, <1>4, PromptJoined
  <2>3. Append(out, ack) \in Seq(Msg)
    BY <1>2, <1>4
  <2>4. PromptOK(packet_list[p], Append(out, ack), Without(in, 1), losses)
    BY <2>2, <2>3, <1>2, <1>4, PromptTaken
  <2>5. SilenceOK(packet_list[p], 0, 0)
    BY <1>4, ListIs, SilenceNone
  <2> QED
    BY <2>4, <2>5, <1>1, <1>2, <1>3 DEF PromptPeer, o
<1>6. PromptPeer(o)'
  <2>1. PromptOK(packet_list[o], in, out, losses)
    BY <1>1 DEF PromptPeer, in, out
  <2>2. in # << >>
    BY <1>2 DEF in
  <2>3. PromptOK(packet_list[o], Without(in, 1), Append(out, ack), losses)
    BY <2>1, <2>2, <1>2, <1>4, PromptDelivered
  <2> QED
    BY <2>3, <1>1, <1>2, <1>3, PeerStays
<1> QED
  BY <1>1, <1>3, <1>5, <1>6 DEF Prompt

(* Nothing but the iterator moves.                                         *)
LEMMA PromptSame ==
  ASSUME Prompt, UNCHANGED <<packet_list, last_transmitted, last_received, line, losses, scene,
                             given_up>>
  PROVE  Prompt'
<1>1. \A p \in Peers : PromptPeer(p)'
  BY OtherIs, PeerStays DEF Prompt, PromptPeer
<1> QED
  BY <1>1 DEF Prompt

LEMMA PromptRetransmit ==
  ASSUME KInv, Prompt, NEW p \in Peers, Len(line[Other(p)]) < scene.limit, Retransmit(p)
  PROVE  Prompt'
<1> DEFINE o == Other(p)
           list == packet_list[p]
           list2 == packet_list'[p]
           out == line[o]
           in == line[p]
<1>1. /\ TypeOK /\ PromptPeer(p) /\ PromptPeer(o) /\ o \in Peers /\ o # p /\ Other(o) = p
      /\ \A q \in Peers : q = p \/ q = o
  BY OtherIs DEF KInv, Prompt
<1>2. PICK i \in 1 .. Len(list), m \in Msg :
           /\ ~(list[i].age < RetryHoldoff)
           /\ m.type # "ack" /\ m.id = list[i].id
           /\ Len(list2) = Len(list)
           /\ list2 \in Seq(Entry)
           /\ \A j \in 1 .. Len(list) : j # i => list2[j] = list[j]
           /\ list2[i].type = list[i].type
           /\ list2[i].id = list[i].id
           /\ list2[i].retries = list[i].retries + 1
           /\ list2[i].age = 0
           /\ packet_list'[o] = packet_list[o]
           /\ last_transmitted'[p] = 0
           /\ last_transmitted'[o] = last_transmitted[o]
           /\ line'[p] = in /\ line'[o] = Append(out, m)
  BY ResentFacts, Zenon
<1>3. UNCHANGED <<last_received, losses, scene, given_up>>
  BY DEF Retransmit, userVars
<1>4. /\ list \in Seq(Entry) /\ out \in Seq(Msg) /\ in \in Seq(Msg)
      /\ last_received[p] \in Nat /\ losses \in Nat
  BY <1>1, PeerTypes DEF TypeOK
<1>5. /\ \A j, k \in 1 .. Len(list) : list[j].id = list[k].id => j = k
      /\ list[i].retries \in 1 .. MaxSends
  BY ListIs
<1> HIDE DEF list, list2, out, in, o
<1>6. PromptPeer(p)'
  <2>1. PromptOK(list, out, in, losses)
    BY <1>1 DEF PromptPeer, list, out, in, o
  <2>2. PromptOK(list2, Append(out, m), in, losses)
    BY <2>1, <1>2, <1>4, <1>5, PromptResent
  <2>3. is_peer_alive(p)' <=> is_peer_alive(p)
    BY <1>3 DEF is_peer_alive, AliveFor
  <2>4. p \in scene.pinging /\ is_peer_alive(p) => SilenceOK(list2, last_received[p], 0)
    <3>1. ASSUME SilenceOK(list, last_received[p], last_transmitted[p])
          PROVE  SilenceOK(list2, last_received[p], 0)
      BY <3>1, <1>2, <1>4, <1>5, SilenceResent
    <3> QED
      BY <3>1, <1>1 DEF PromptPeer, list
  <2> QED
    BY <2>2, <2>3, <2>4, <1>1, <1>2, <1>3 DEF PromptPeer, o, list2
<1>7. PromptPeer(o)'
  <2>1. PromptOK(packet_list[o], in, out, losses)
    BY <1>1 DEF PromptPeer, in, out
  <2>2. PromptOK(packet_list[o], in, Append(out, m), losses)
    BY <2>1, <1>2, <1>4, PromptJoined
  <2> QED
    BY <2>2, <1>1, <1>2, <1>3, PeerStays
<1> QED
  BY <1>1, <1>3, <1>6, <1>7 DEF Prompt

(* No element has been sent as often as it may be and is due again.        *)
LEMMA NoDrop ==
  ASSUME KInv, Prompt, NEW p \in Peers, NEW i \in 1 .. Len(packet_list[p]),
         \/ ~(packet_list[p][i].age < RetryHoldoff)
         \/ line[p] = << >> /\ line[Other(p)] = << >>
  PROVE  packet_list[p][i].retries < RetriesMax
<1> DEFINE list == packet_list[p]
<1>1. /\ PromptOK(list, line[Other(p)], line[p], losses) /\ (losses = 0 \/ losses < RetriesMax)
      /\ losses \in Nat
  BY DEF Prompt, PromptPeer, KInv, TypeOK
<1>2. list[i].retries \in Nat /\ list[i].retries # 0 /\ RetriesMax \in Nat
  <2>1. list[i].retries \in 1 .. MaxSends
    BY ListIs
  <2> QED
    BY <2>1, SendsIs
<1>3. Own(line[Other(p)], list, i) = {} /\ Acks(line[p], list, i) = {}
  <2>1. CASE ~(list[i].age < RetryHoldoff)
    BY <2>1, <1>1, AnswerableIs DEF Answerable
  <2>2. CASE line[p] = << >> /\ line[Other(p)] = << >>
    BY <2>2 DEF Own, Acks, Of
  <2> QED
    BY <2>1, <2>2
<1>4. list[i].retries <= losses
  BY <1>1, <1>3, AnswerableIs DEF Answerable
<1> QED
  BY <1>1, <1>2, <1>4

(* Nothing is given up.                                                    *)
LEMMA Undropped ==
  ASSUME KInv, Prompt, NEW p \in Peers, Drop(p)
  PROVE  FALSE
<1>1. /\ it[p] \in 1 .. Len(packet_list[p]) /\ transmit_expired(packet_list[p][it[p]])
      /\ retries_exhausted(packet_list[p][it[p]])
  BY DEF Drop, AtElement, Element
<1>2. packet_list[p] \in Seq(Entry)
  BY ListIs
<1>3. packet_list[p][it[p]].age \in Nat /\ packet_list[p][it[p]].retries \in Nat
  BY <1>1, <1>2, EntryIs, KissAssumption
<1>4. /\ ~(packet_list[p][it[p]].age < RetryHoldoff)
      /\ ~(packet_list[p][it[p]].retries < RetriesMax)
  BY <1>1, <1>3, KissAssumption DEF transmit_expired, retries_exhausted
<1> QED
  BY <1>1, <1>4, NoDrop

LEMMA PromptLose ==
  ASSUME KInv, Prompt, scene.regime = "prompt", NEW p \in Peers, Lose(p)
  PROVE  Prompt'
<1> DEFINE o == Other(p)
<1>1. /\ TypeOK /\ PromptPeer(p) /\ PromptPeer(o) /\ o \in Peers /\ o # p /\ Other(o) = p
      /\ \A q \in Peers : q = p \/ q = o
  BY OtherIs DEF KInv, Prompt
<1>2. PICK i \in 1 .. Len(line[p]) : line' = [line EXCEPT ![p] = Without(line[p], i)]
  BY DEF Lose
<1>3. /\ losses' = losses + 1 /\ losses + 1 < RetriesMax
      /\ UNCHANGED <<packet_list, last_transmitted, last_received, scene, given_up>>
  BY DEF Lose, peerVars, userVars
<1>4. /\ packet_list[p] \in Seq(Entry) /\ packet_list[o] \in Seq(Entry)
      /\ line[p] \in Seq(Msg) /\ line[o] \in Seq(Msg) /\ losses \in Nat
      /\ line \in [Peers -> Seq(Msg)]
  BY <1>1, PeerTypes DEF TypeOK, Msg, Id
<1>5. line'[p] = Without(line[p], i) /\ line'[o] = line[o]
  BY <1>1, <1>2, <1>4
<1> HIDE DEF o
<1>6. PromptPeer(p)'
  <2>1. PromptOK(packet_list[p], line[o], line[p], losses)
    BY <1>1 DEF PromptPeer, o
  <2>2. PromptOK(packet_list[p], line[o], Without(line[p], i), losses + 1)
    BY <2>1, <1>4, PromptLost
  <2> QED
    BY <2>2, <1>1, <1>3, <1>5, PeerStays DEF o
<1>7. PromptPeer(o)'
  <2>1. PromptOK(packet_list[o], line[p], line[o], losses)
    BY <1>1 DEF PromptPeer
  <2>2. PromptOK(packet_list[o], Without(line[p], i), line[o], losses + 1)
    BY <2>1, <1>4, PromptLost
  <2> QED
    BY <2>2, <1>1, <1>3, <1>5, PeerStays
<1> QED
  BY <1>1, <1>3, <1>6, <1>7 DEF Prompt

(* The clock moves on when nothing is under way and nothing is due.        *)
LEMMA TickWhen ==
  ASSUME KInv, scene.regime = "prompt", Tick, NEW p \in Peers
  PROVE  /\ line[p] = << >> /\ line[Other(p)] = << >>
         /\ \A i \in 1 .. Len(packet_list[p]) : packet_list[p][i].age < RetryHoldoff
         /\ p \in scene.pinging /\ packet_list[p] = << >> => last_transmitted[p] < PingHoldoff
<1>1. Settled(p) /\ Settled(Other(p))
  BY OtherIs DEF Tick
<1>2. line[p] = << >> /\ line[Other(p)] = << >>
  BY <1>1 DEF Settled
<1>3. ASSUME NEW i \in 1 .. Len(packet_list[p])
      PROVE  packet_list[p][i].age < RetryHoldoff
  <2>1. packet_list[p][i].age \in Nat
    <3>1. packet_list[p] \in Seq(Entry)
      BY ListIs
    <3> QED
      BY <3>1, EntryIs, KissAssumption
  <2> QED
    BY <2>1, <1>1, KissAssumption DEF Settled, transmit_expired
<1>4. ASSUME p \in scene.pinging, packet_list[p] = << >>
      PROVE  last_transmitted[p] < PingHoldoff
  <2>1. IdUnused(p, NextId(p))
    BY <1>2, <1>4 DEF IdUnused
  <2>2. ~(last_transmitted[p] >= PingHoldoff)
    BY <2>1, <1>1, <1>4 DEF Settled, PingDue
  <2>3. last_transmitted[p] \in Nat
    BY DEF KInv, TypeOK
  <2>4. PingHoldoff \in Nat
    BY KissAssumption
  <2> QED
    BY <2>2, <2>3, <2>4
<1> QED
  BY <1>2, <1>3, <1>4

(* The silence and its bound.                                              *)
LEMMA SilenceGrows ==
  ASSUME KInv, Tick, NEW p \in Peers
  PROVE  /\ last_received[p] \in Nat /\ last_received'[p] \in Nat /\ AliveFor(p) \in Nat
         /\ last_received'[p] <= last_received[p] + 1
         /\ last_received'[p] < AliveFor(p) => last_received[p] < AliveFor(p)
         /\ last_transmitted[p] \in 0 .. PingHoldoff
         /\ last_transmitted'[p] = Smaller(last_transmitted[p] + 1, PingHoldoff)
<1>1. last_received[p] \in Nat /\ last_transmitted[p] \in 0 .. PingHoldoff
  BY DEF KInv, TypeOK
<1>2. AliveFor(p) \in Nat
  BY KissAssumption DEF AliveFor
<1>3. /\ last_received'[p] = Smaller(last_received[p] + 1, AliveFor(p))
      /\ last_transmitted'[p] = Smaller(last_transmitted[p] + 1, PingHoldoff)
  BY DEF Tick
<1> HIDE DEF AliveFor
<1> QED
  BY <1>1, <1>2, <1>3 DEF Smaller

LEMMA PromptTick ==
  ASSUME KInv, Prompt, scene.regime = "prompt", Tick
  PROVE  Prompt'
<1>1. UNCHANGED <<line, losses, scene, given_up>>
  BY DEF Tick, userVars
<1>2. ASSUME NEW p \in Peers
      PROVE  PromptPeer(p)'
  <2> DEFINE list == packet_list[p]
             list2 == packet_list'[p]
  <2>1. /\ list \in Seq(Entry) /\ Len(list2) = Len(list) /\ list2 \in Seq(Entry)
        /\ \A i \in 1 .. Len(list) :
             /\ list2[i].id = list[i].id /\ list2[i].retries = list[i].retries
             /\ list2[i].age = Smaller(list[i].age + 1, RetryHoldoff)
        /\ \A i \in 1 .. Len(list) : list[i].retries \in 1 .. MaxSends
    BY ListIs, TickList
  <2>2. PromptPeer(p)
    BY DEF Prompt
  <2>3. /\ line[p] = << >> /\ line[Other(p)] = << >>
        /\ \A i \in 1 .. Len(list) : list[i].age < RetryHoldoff
        /\ p \in scene.pinging /\ list = << >> => last_transmitted[p] < PingHoldoff
    BY TickWhen
  <2>4. /\ last_received[p] \in Nat /\ last_received'[p] \in Nat /\ AliveFor(p) \in Nat
        /\ last_received'[p] <= last_received[p] + 1
        /\ last_received'[p] < AliveFor(p) => last_received[p] < AliveFor(p)
        /\ last_transmitted[p] \in 0 .. PingHoldoff
        /\ last_transmitted'[p] = Smaller(last_transmitted[p] + 1, PingHoldoff)
    BY SilenceGrows
  <2>5. PromptOK(list2, line'[Other(p)], line'[p], losses')
    <3>1. PromptOK(list, << >>, << >>, losses)
      BY <2>2, <2>3 DEF PromptPeer
    <3> HIDE DEF list, list2
    <3>2. PromptOK(list2, << >>, << >>, losses)
      BY <3>1, <2>1, PromptAged
    <3> QED
      BY <3>2, <2>3, <1>1
  <2>6. is_peer_alive(p)' => is_peer_alive(p)
    BY <2>4, <1>1 DEF is_peer_alive, AliveFor
  <2>7. ASSUME p \in scene.pinging, is_peer_alive(p)
        PROVE  SilenceOK(list2, last_received'[p], last_transmitted'[p])
    <3> DEFINE silence == last_received[p]
               silence2 == last_received'[p]
               quiet == last_transmitted[p]
               quiet2 == last_transmitted'[p]
    <3>1. SilenceOK(list, silence, quiet) /\ (list = << >> => quiet < PingHoldoff)
      BY <2>2, <2>3, <2>7 DEF PromptPeer
    <3>2. /\ silence \in Nat /\ silence2 \in Nat /\ silence2 <= silence + 1
          /\ quiet \in 0 .. PingHoldoff /\ quiet2 = Smaller(quiet + 1, PingHoldoff)
      BY <2>4
    <3> HIDE DEF list, list2, silence, silence2, quiet, quiet2
    <3>3. list = << >> => list2 = << >>
      BY <2>1
    <3>4. SilenceOK(list2, silence2, quiet2)
      BY <3>1, <3>2, <3>3, <2>1, <2>3, SilenceAged
    <3> QED
      BY <3>4 DEF list2, silence2, quiet2
  <2> QED
    BY <2>2, <2>5, <2>6, <2>7, <1>1 DEF PromptPeer
<1> QED
  BY <1>1, <1>2 DEF Prompt

LEMMA PromptStep ==
  ASSUME KInv, PromptInv, Room, [Next]_vars
  PROVE  PromptInv'
<1>1. scene' = scene
  BY DEF Next, transmit, receive, main_task, Begin, Pass, Retransmit, Drop, End, Lose, Tick, vars
<1> SUFFICES ASSUME scene.regime = "prompt"
             PROVE  Prompt'
  BY <1>1 DEF PromptInv
<1>2. Prompt /\ \A p \in Peers : Len(line[Other(p)]) < scene.limit
  BY OtherIs DEF PromptInv, Room
<1>3. ASSUME NEW p \in Peers, transmit(p)
      PROVE  Prompt'
  <2>1. /\ IdUnused(p, NextId(p)) /\ Emplace(p, "data", accepted[p] + 1)
        /\ UNCHANGED <<losses, scene, given_up, last_received>>
    BY <1>3 DEF transmit
  <2>2. accepted[p] + 1 \in 0 .. MaxPackets
    <3>1. accepted[p] < scene.packets
      BY <1>3 DEF transmit
    <3>2. TypeOK
      BY DEF KInv
    <3>3. accepted[p] \in 0 .. MaxPackets
      BY <3>2, PeerTypes
    <3>4. scene.packets \in 0 .. MaxPackets /\ MaxPackets \in Nat
      BY <3>2, SceneIs, KissAssumption
    <3> DEFINE sent == accepted[p]
               all  == scene.packets
    <3>5. sent \in 0 .. MaxPackets /\ all \in 0 .. MaxPackets /\ sent < all
      BY <3>1, <3>3, <3>4
    <3> HIDE DEF sent, all
    <3>6. sent + 1 \in 0 .. MaxPackets
      BY <3>4, <3>5
    <3> QED
      BY <3>6 DEF sent
  <2> QED
    BY <2>1, <2>2, <1>2, PromptPut
<1>4. ASSUME NEW p \in Peers, receive(p)
      PROVE  Prompt'
  <2>1. \/ Head(line[p]).type = "ack" /\ ReceiveAck(p, Head(line[p]).id)
        \/ Head(line[p]).type # "ack" /\ ReceivePacket(p, Head(line[p]))
    BY <1>4 DEF receive
  <2> QED
    BY <2>1, <1>2, <1>4, PromptReceiveAck, PromptReceivePacket
<1>5. ASSUME NEW p \in Peers, main_task(p)
      PROVE  Prompt'
  <2>1. CASE Begin(p) \/ Pass(p)
    BY <2>1, <1>2, PromptSame DEF Begin, Pass, userVars
  <2>2. CASE Retransmit(p)
    BY <2>2, <1>2, PromptRetransmit
  <2>3. CASE Drop(p)
    BY <2>3, <1>2, Undropped
  <2>4. CASE End(p)
    <3>1. /\ UNCHANGED <<losses, scene, given_up, last_received>>
          /\ \/ IdUnused(p, NextId(p)) /\ Emplace(p, "ping", 0)
             \/ UNCHANGED <<packet_list, last_transmitted, line>>
      BY <2>4 DEF End, PingDue, userVars
    <3>2. 0 \in 0 .. MaxPackets
      BY KissAssumption
    <3> QED
      BY <3>1, <3>2, <1>2, PromptPut, PromptSame
  <2> QED
    BY <2>1, <2>2, <2>3, <2>4, <1>5 DEF main_task
<1>6. CASE UNCHANGED vars
  BY <1>2, <1>6, PromptSame DEF vars, peerVars, userVars
<1> QED
  BY <1>2, <1>3, <1>4, <1>5, <1>6, PromptLose, PromptTick DEF Next

LEMMA PromptInit ==
  ASSUME Init
  PROVE  PromptInv
<1>1. losses = 0 /\ \A p \in Peers : /\ packet_list[p] = << >> /\ given_up[p] = {}
                                     /\ last_received[p] = AliveFor(p)
  BY DEF Init
<1>2. ASSUME NEW p \in Peers
      PROVE  PromptPeer(p)
  <2>1. ~is_peer_alive(p)
    <3>1. AliveFor(p) \in Nat
      BY KissAssumption DEF AliveFor
    <3> QED
      BY <3>1, <1>1 DEF is_peer_alive
  <2> QED
    BY <2>1, <1>1 DEF PromptPeer, PromptOK
<1> QED
  BY <1>1, <1>2 DEF PromptInv, Prompt

-----------------------------------------------------------------------------
(* The queues of a prompt line: a list has no more elements than messages  *)
(* were lost, packets accepted and pings due, and an element no more than  *)
(* one message under way.                                                  *)

(* Everything else stays.                                                  *)
LEMMA WithoutRest ==
  ASSUME NEW S, NEW s \in Seq(S), NEW i \in 1 .. Len(s), NEW l \in 1 .. Len(s), l # i
  PROVE  \E j \in 1 .. Len(Without(s, i)) : Without(s, i)[j] = s[l]
<1> DEFINE w == Without(s, i)
<1>1. /\ Len(s) \in Nat /\ Len(w) = Len(s) - 1
      /\ \A k \in 1 .. Len(s) - 1 : w[k] = IF k < i THEN s[k] ELSE s[k + 1]
  BY WithoutIs
<1> HIDE DEF w
<1>2. CASE l < i
  <2>1. l \in 1 .. Len(w) /\ w[l] = s[l]
    BY <1>1, <1>2
  <2> QED
    BY <2>1 DEF w
<1>3. CASE i < l
  <2>1. l - 1 \in 1 .. Len(w) /\ w[l - 1] = s[l]
    BY <1>1, <1>3
  <2> QED
    BY <2>1 DEF w
<1> QED
  BY <1>2, <1>3

LEMMA UnderAppend ==
  ASSUME NEW out \in Seq(Msg), NEW in \in Seq(Msg), NEW m \in Msg
  PROVE  /\ m.type # "ack" => /\ Under(Append(out, m), in) = Under(out, in) \union {m.id}
                              /\ Under(out, Append(in, m)) = Under(out, in)
         /\ m.type = "ack" => /\ Under(Append(out, m), in) = Under(out, in)
                              /\ Under(out, Append(in, m)) = Under(out, in) \union {m.id}
<1> DEFINE Picked(s, ack) == {s[k].id : k \in {j \in 1 .. Len(s) : (s[j].type = "ack") = ack}}
<1>1. ASSUME NEW s \in Seq(Msg), NEW ack \in BOOLEAN
      PROVE  /\ (m.type = "ack") = ack =>
                  Picked(Append(s, m), ack) = Picked(s, ack) \union {m.id}
             /\ (m.type = "ack") # ack => Picked(Append(s, m), ack) = Picked(s, ack)
  <2> DEFINE a == Append(s, m)
             new == Len(s) + 1
  <2>1. /\ Len(s) \in Nat /\ Len(a) = new /\ a[new] = m
        /\ \A k \in 1 .. Len(s) : a[k] = s[k]
        /\ 1 .. new = (1 .. Len(s)) \union {new}
    OBVIOUS
  <2> HIDE DEF a, new
  <2>2. 1 .. Len(a) = (1 .. Len(s)) \union {new}
    BY <2>1
  <2>3. ASSUME NEW k \in 1 .. Len(a), (a[k].type = "ack") = ack
        PROVE  \/ a[k].id \in Picked(s, ack)
               \/ (m.type = "ack") = ack /\ a[k].id = m.id
    <3>1. CASE k \in 1 .. Len(s)
      <4>1. a[k] = s[k]
        BY <2>1, <3>1
      <4> QED
        BY <4>1, <3>1, <2>3
    <3>2. CASE k = new
      BY <2>1, <2>3, <3>2
    <3> QED
      BY <2>2, <3>1, <3>2
  <2>4. Picked(s, ack) \subseteq Picked(a, ack)
    BY <2>1, <2>2
  <2>5. (m.type = "ack") = ack => m.id \in Picked(a, ack)
    BY <2>1, <2>2
  <2> QED
    BY <2>3, <2>4, <2>5 DEF a
<1>2. \A s, t : Under(s, t) = Picked(s, FALSE) \union Picked(t, TRUE)
  BY DEF Under
<1> HIDE DEF Picked
<1>3. CASE m.type = "ack"
  <2>1. /\ Picked(Append(out, m), FALSE) = Picked(out, FALSE)
        /\ Picked(Append(in, m), TRUE) = Picked(in, TRUE) \union {m.id}
    BY <1>1, <1>3
  <2> QED
    BY <1>2, <1>3, <2>1
<1>4. CASE m.type # "ack"
  <2>1. /\ Picked(Append(out, m), FALSE) = Picked(out, FALSE) \union {m.id}
        /\ Picked(Append(in, m), TRUE) = Picked(in, TRUE)
    BY <1>1, <1>4
  <2> QED
    BY <1>2, <1>4, <2>1
<1> QED
  BY <1>3, <1>4

(* A message is taken or lost.                                             *)
LEMMA UnderWithout ==
  ASSUME NEW out \in Seq(Msg), NEW in \in Seq(Msg)
  PROVE  /\ \A k \in 1 .. Len(out) :
              /\ Under(Without(out, k), in) \subseteq Under(out, in)
              /\ Under(out, in) \subseteq Under(Without(out, k), in) \union {out[k].id}
              /\ out[k].type = "ack" => Under(Without(out, k), in) = Under(out, in)
         /\ \A k \in 1 .. Len(in) :
              /\ Under(out, Without(in, k)) \subseteq Under(out, in)
              /\ Under(out, in) \subseteq Under(out, Without(in, k)) \union {in[k].id}
              /\ in[k].type # "ack" => Under(out, Without(in, k)) = Under(out, in)
<1> DEFINE Picked(s, ack) == {s[k].id : k \in {j \in 1 .. Len(s) : (s[j].type = "ack") = ack}}
<1>1. ASSUME NEW s \in Seq(Msg), NEW i \in 1 .. Len(s), NEW ack \in BOOLEAN
      PROVE  /\ Picked(Without(s, i), ack) \subseteq Picked(s, ack)
             /\ Picked(s, ack) \subseteq Picked(Without(s, i), ack) \union {s[i].id}
             /\ (s[i].type = "ack") # ack => Picked(Without(s, i), ack) = Picked(s, ack)
  <2> DEFINE w == Without(s, i)
  <2>1. \A j \in 1 .. Len(w) : \E l \in 1 .. Len(s) : w[j] = s[l]
    BY WithoutOld
  <2>2. \A l \in 1 .. Len(s) : l # i => \E j \in 1 .. Len(w) : w[j] = s[l]
    BY WithoutRest
  <2> HIDE DEF w
  <2>3. ASSUME NEW j \in 1 .. Len(w), (w[j].type = "ack") = ack
        PROVE  w[j].id \in Picked(s, ack)
    <3>1. PICK l \in 1 .. Len(s) : w[j] = s[l]
      BY <2>1
    <3> QED
      BY <3>1, <2>3
  <2>4. ASSUME NEW l \in 1 .. Len(s), (s[l].type = "ack") = ack
        PROVE  s[l].id \in Picked(w, ack) \union {s[i].id}
    <3>1. CASE l # i
      <4>1. PICK j \in 1 .. Len(w) : w[j] = s[l]
        BY <2>2, <3>1
      <4>2. w[j].id \in Picked(w, ack)
        BY <4>1, <2>4
      <4> QED
        BY <4>1, <4>2
    <3> QED
      BY <3>1
  <2>5. (s[i].type = "ack") # ack => Picked(s, ack) \subseteq Picked(w, ack)
    BY <2>2
  <2> QED
    BY <2>3, <2>4, <2>5 DEF w
<1>2. \A s, t : Under(s, t) = Picked(s, FALSE) \union Picked(t, TRUE)
  BY DEF Under
<1> HIDE DEF Picked
<1>3. ASSUME NEW k \in 1 .. Len(out)
      PROVE  /\ Under(Without(out, k), in) \subseteq Under(out, in)
             /\ Under(out, in) \subseteq Under(Without(out, k), in) \union {out[k].id}
             /\ out[k].type = "ack" => Under(Without(out, k), in) = Under(out, in)
  <2>1. /\ Picked(Without(out, k), FALSE) \subseteq Picked(out, FALSE)
        /\ Picked(out, FALSE) \subseteq Picked(Without(out, k), FALSE) \union {out[k].id}
        /\ out[k].type = "ack" => Picked(Without(out, k), FALSE) = Picked(out, FALSE)
    BY <1>1
  <2> QED
    BY <1>2, <2>1
<1>4. ASSUME NEW k \in 1 .. Len(in)
      PROVE  /\ Under(out, Without(in, k)) \subseteq Under(out, in)
             /\ Under(out, in) \subseteq Under(out, Without(in, k)) \union {in[k].id}
             /\ in[k].type # "ack" => Under(out, Without(in, k)) = Under(out, in)
  <2>1. /\ Picked(Without(in, k), TRUE) \subseteq Picked(in, TRUE)
        /\ Picked(in, TRUE) \subseteq Picked(Without(in, k), TRUE) \union {in[k].id}
        /\ in[k].type # "ack" => Picked(Without(in, k), TRUE) = Picked(in, TRUE)
    BY <1>1
  <2> QED
    BY <1>2, <2>1
<1> QED
  BY <1>3, <1>4
(* What the list does: a packet or ping is put on it and sent,             *)
LEMMA RoomPut ==
  ASSUME NEW list \in Seq(Entry), NEW e \in Entry, e.retries = 1,
         \A i \in 1 .. Len(list) : list[i].id # e.id, NEW under
  PROVE  /\ Ids(Append(list, e)) = Ids(list) \union {e.id}
         /\ LostIds(Append(list, e), under \union {e.id}) \subseteq LostIds(list, under)
         /\ NewPings(Append(list, e), under \union {e.id}) \subseteq
              NewPings(list, under) \union {e.id}
         /\ e.type # "ping" =>
              NewPings(Append(list, e), under \union {e.id}) \subseteq NewPings(list, under)
<1> DEFINE list2 == Append(list, e)
           new == Len(list) + 1
<1>1. /\ Len(list2) = new /\ list2[new] = e
      /\ \A i \in 1 .. Len(list) : list2[i] = list[i]
      /\ 1 .. new = (1 .. Len(list)) \union {new}
  OBVIOUS
<1> HIDE DEF list2, new
<1>2. 1 .. Len(list2) = (1 .. Len(list)) \union {new}
  BY <1>1
<1>3. Ids(list2) = Ids(list) \union {e.id}
  BY <1>1, <1>2 DEF Ids
<1>4. ASSUME NEW i \in 1 .. Len(list2), list2[i].retries > 1 \/ list2[i].id \notin under \union {e.id}
      PROVE  list2[i].id \in LostIds(list, under)
  <2>1. i \in 1 .. Len(list) /\ list2[i] = list[i]
    BY <1>1, <1>2, <1>4
  <2> QED
    BY <2>1, <1>4 DEF LostIds
<1>5. ASSUME NEW i \in 1 .. Len(list2), list2[i].type = "ping", list2[i].retries = 1,
             list2[i].id \in under \union {e.id}
      PROVE  list2[i].id \in NewPings(list, under) \/ (e.type = "ping" /\ list2[i].id = e.id)
  <2>1. CASE i \in 1 .. Len(list)
    <3>1. list2[i] = list[i] /\ list[i].id \in under
      BY <1>1, <1>5, <2>1
    <3>2. list[i].type = "ping" /\ list[i].retries = 1
      BY <3>1, <1>5
    <3>3. list[i].id \in NewPings(list, under)
      BY <3>1, <3>2, <2>1 DEF NewPings
    <3>4. list2[i].id = list[i].id
      BY <3>1
    <3> QED
      BY <3>3, <3>4, Zenon
  <2>2. CASE i = new
    BY <2>2, <1>1, <1>5
  <2> QED
    BY <2>1, <2>2, <1>2
<1>6. LostIds(list2, under \union {e.id}) \subseteq LostIds(list, under)
  BY <1>4 DEF LostIds
<1>7. /\ NewPings(list2, under \union {e.id}) \subseteq NewPings(list, under) \union {e.id}
      /\ e.type # "ping" =>
           NewPings(list2, under \union {e.id}) \subseteq NewPings(list, under)
  BY <1>5 DEF NewPings
<1> QED
  BY <1>3, <1>6, <1>7 DEF list2

(* the elements with an id are acknowledged,                               *)
LEMMA RoomTaken ==
  ASSUME NEW list, NEW list2, NEW id, NEW under, PartOf(list2, list),
         \A k \in 1 .. Len(list2) : list2[k].id # id,
         \A i \in 1 .. Len(list) :
           list[i].id # id => \E k \in 1 .. Len(list2) : list2[k] = list[i]
  PROVE  /\ Ids(list) \ {id} \subseteq Ids(list2)
         /\ LostIds(list2, under \ {id}) \subseteq LostIds(list, under)
         /\ NewPings(list2, under \ {id}) \subseteq NewPings(list, under)
<1>1. \A k \in 1 .. Len(list2) : \E i \in 1 .. Len(list) : list2[k] = list[i]
  BY DEF PartOf
<1>2. Ids(list) \ {id} \subseteq Ids(list2)
  BY DEF Ids
<1>3. ASSUME NEW k \in 1 .. Len(list2)
      PROVE  /\ list2[k].retries > 1 \/ list2[k].id \notin under \ {id} =>
                  list2[k].id \in LostIds(list, under)
             /\ list2[k].type = "ping" /\ list2[k].retries = 1 /\ list2[k].id \in under \ {id} =>
                  list2[k].id \in NewPings(list, under)
  <2>1. PICK i \in 1 .. Len(list) : list2[k] = list[i]
    BY <1>1
  <2>2. list2[k].id # id
    OBVIOUS
  <2> QED
    BY <2>1, <2>2 DEF LostIds, NewPings
<1> QED
  BY <1>2, <1>3 DEF LostIds, NewPings

(* or it keeps its elements, but for their ages and retries.               *)
Kept(list, list2, under, under2, lost) ==
  /\ Len(list2) = Len(list)
  /\ \A i \in 1 .. Len(list) :
       /\ list2[i].id = list[i].id /\ list2[i].type = list[i].type
       /\ list2[i].retries > 1 \/ list[i].id \notin under2 =>
            list[i].retries > 1 \/ list[i].id \notin under \/ list[i].id \in lost
       /\ list2[i].retries = 1 /\ list[i].id \in under2 =>
            list[i].retries = 1 /\ list[i].id \in under

LEMMA KeptIs ==
  ASSUME NEW list, NEW list2, NEW under, NEW under2, NEW lost,
         Kept(list, list2, under, under2, lost)
  PROVE  /\ Ids(list2) = Ids(list)
         /\ LostIds(list2, under2) \subseteq LostIds(list, under) \union lost
         /\ NewPings(list2, under2) \subseteq NewPings(list, under)
<1>1. Ids(list2) = Ids(list) /\ Len(list2) = Len(list)
  BY DEF Ids, Kept
<1>2. \A i \in 1 .. Len(list) :
        list2[i].retries > 1 \/ list2[i].id \notin under2 =>
          list2[i].id \in LostIds(list, under) \union lost
  BY DEF LostIds, Kept
<1>3. \A i \in 1 .. Len(list) :
        list2[i].type = "ping" /\ list2[i].retries = 1 /\ list2[i].id \in under2 =>
          list2[i].id \in NewPings(list, under)
  BY DEF NewPings, Kept
<1> QED
  BY <1>1, <1>2, <1>3 DEF LostIds, NewPings

(* Such sets are finite.                                                   *)
LEMMA IdsFinite ==
  ASSUME NEW list \in Seq(Entry), NEW under, NEW T,
         T \in {Ids(list), LostIds(list, under), NewPings(list, under)}
  PROVE  IsFiniteSet(T) /\ Cardinality(T) \in Nat /\ T \subseteq Id
<1>1. \A i \in 1 .. Len(list) : list[i].id \in Id
  BY EntryIs
<1>2. T \in SUBSET Id
  BY <1>1 DEF Ids, LostIds, NewPings
<1>3. IsFiniteSet(Id)
  BY KissAssumption, FS_Interval DEF Id
<1> QED
  BY <1>2, <1>3, FS_Subset, FS_CardinalityType

LEMMA RoomOKSame ==
  ASSUME NEW list, NEW under, NEW pings, NEW quiet, RoomOK(list, under, pings, quiet)
  PROVE  RoomOK(list, under, pings, 0)
BY KissAssumption DEF RoomOK

LEMMA RoomOKPut ==
  ASSUME NEW list \in Seq(Entry), NEW under, NEW pings, NEW quiet \in Nat,
         RoomOK(list, under, pings, quiet),
         NEW e \in Entry, e.retries = 1, \A i \in 1 .. Len(list) : list[i].id # e.id,
         e.type = "ping" => pings /\ ~(quiet < PingHoldoff)
  PROVE  /\ RoomOK(Append(list, e), under \union {e.id}, pings, 0)
         /\ LostIds(Append(list, e), under \union {e.id}) \subseteq LostIds(list, under)
<1>1. /\ Ids(Append(list, e)) = Ids(list) \union {e.id}
      /\ LostIds(Append(list, e), under \union {e.id}) \subseteq LostIds(list, under)
      /\ NewPings(Append(list, e), under \union {e.id}) \subseteq
           NewPings(list, under) \union {e.id}
      /\ e.type # "ping" =>
           NewPings(Append(list, e), under \union {e.id}) \subseteq NewPings(list, under)
  BY RoomPut
<1> DEFINE list2 == Append(list, e)
           under2 == under \union {e.id}
           new == NewPings(list, under)
           new2 == NewPings(list2, under2)
<1>2. /\ under \subseteq Ids(list) /\ \A x, y \in new : x = y
      /\ new # {} => pings /\ quiet < PingHoldoff
  BY DEF RoomOK
<1>6. /\ Ids(list2) = Ids(list) \union {e.id}
      /\ new2 \subseteq new \union {e.id} /\ (e.type # "ping" => new2 \subseteq new)
  BY <1>1
<1> HIDE DEF list2, new, new2
<1>3. under2 \subseteq Ids(list2)
  BY <1>2, <1>6
<1>4. (\A x, y \in new2 : x = y) /\ (new2 # {} => pings)
  BY <1>2, <1>6
<1>5. 0 < PingHoldoff
  BY KissAssumption
<1> QED
  BY <1>1, <1>3, <1>4, <1>5 DEF RoomOK, list2, new2

LEMMA RoomOKTaken ==
  ASSUME NEW list, NEW list2, NEW id, NEW under, NEW pings, NEW quiet,
         RoomOK(list, under, pings, quiet), PartOf(list2, list),
         \A k \in 1 .. Len(list2) : list2[k].id # id,
         \A i \in 1 .. Len(list) :
           list[i].id # id => \E k \in 1 .. Len(list2) : list2[k] = list[i]
  PROVE  /\ RoomOK(list2, under \ {id}, pings, quiet)
         /\ LostIds(list2, under \ {id}) \subseteq LostIds(list, under)
<1>1. /\ Ids(list) \ {id} \subseteq Ids(list2)
      /\ LostIds(list2, under \ {id}) \subseteq LostIds(list, under)
      /\ NewPings(list2, under \ {id}) \subseteq NewPings(list, under)
  BY RoomTaken
<1> QED
  BY <1>1 DEF RoomOK

LEMMA UnionBound ==
  ASSUME NEW S, NEW T, IsFiniteSet(S), IsFiniteSet(T), NEW U, U \subseteq S \union T
  PROVE  /\ Cardinality(S) \in Nat /\ Cardinality(T) \in Nat /\ Cardinality(U) \in Nat
         /\ IsFiniteSet(U) /\ Cardinality(U) <= Cardinality(S) + Cardinality(T)
<1>1. /\ IsFiniteSet(S \union T)
      /\ Cardinality(S \union T) = Cardinality(S) + Cardinality(T) - Cardinality(S \intersect T)
  BY FS_Union
<1>2. IsFiniteSet(S \intersect T)
  BY FS_Intersection
<1>3. IsFiniteSet(U) /\ Cardinality(U) <= Cardinality(S \union T)
  BY <1>1, FS_Subset
<1>4. /\ Cardinality(S) \in Nat /\ Cardinality(T) \in Nat /\ Cardinality(U) \in Nat
      /\ Cardinality(S \intersect T) \in Nat /\ Cardinality(S \union T) \in Nat
  BY <1>1, <1>2, <1>3, FS_CardinalityType
<1> QED
  BY <1>1, <1>3, <1>4

(* A list has no more elements than there were losses, packets and pings.  *)
LEMMA IdsBound ==
  ASSUME NEW list \in Seq(Entry), NEW acc \in Nat, NEW settled, ListOK(list, acc, settled),
         NEW under, NEW pings \in BOOLEAN, NEW quiet, RoomOK(list, under, pings, quiet)
  PROVE  /\ Cardinality(LostIds(list, under)) \in Nat /\ Cardinality(Ids(list)) \in Nat
         /\ Cardinality(Ids(list)) <=
              Cardinality(LostIds(list, under)) + ((IF pings THEN 1 ELSE 0) + acc)
<1> DEFINE datas == {j \in 1 .. Len(list) : list[j].type = "data"}
           Data == {list[i].id : i \in datas}
           New == NewPings(list, under)
           At(x) == CHOOSE i \in datas : list[i].id = x
           f == [x \in Data |-> list[At(x)].n]
<1>1. \A x \in Data : At(x) \in datas /\ list[At(x)].id = x
  OBVIOUS
<1>2. f \in [Data -> 1 .. acc]
  BY <1>1 DEF ListOK
<1>3. \A x, y \in Data : f[x] = f[y] => x = y
  <2> HIDE DEF At
  <2> SUFFICES ASSUME NEW x \in Data, NEW y \in Data, list[At(x)].n = list[At(y)].n
               PROVE  x = y
    BY DEF f
  <2>1. /\ At(x) \in 1 .. Len(list) /\ At(y) \in 1 .. Len(list)
        /\ list[At(x)].type = "data" /\ list[At(y)].type = "data"
    BY <1>1
  <2>2. \A i, j \in 1 .. Len(list) :
          list[i].type = "data" /\ list[j].type = "data" /\ list[i].n = list[j].n => i = j
    BY DEF ListOK
  <2>3. At(x) = At(y)
    BY <2>1, <2>2
  <2> QED
    BY <2>3, <1>1
<1>4. /\ IsFiniteSet(1 .. acc) /\ Cardinality(1 .. acc) = acc
  BY FS_Interval
<1> HIDE DEF f
<1>5. f \in Injection(Data, 1 .. acc)
  BY <1>2, <1>3 DEF Injection, IsInjective
<1>6. IsFiniteSet(Data) /\ Cardinality(Data) <= acc
  BY <1>4, <1>5, FS_Injection
<1>7. IsFiniteSet(New) /\ Cardinality(New) <= (IF pings THEN 1 ELSE 0) /\ Cardinality(New) \in Nat
  <2>1. IsFiniteSet(New) /\ Cardinality(New) \in Nat
    BY IdsFinite
  <2>2. CASE New = {}
    BY <2>1, <2>2, FS_EmptySet
  <2>3. CASE New # {}
    <3>1. PICK x \in New : New = {x}
      BY <2>3 DEF RoomOK
    <3>2. Cardinality(New) = 1 /\ pings
      BY <3>1, <2>3, FS_Singleton DEF RoomOK
    <3> QED
      BY <2>1, <3>2
  <2> QED
    BY <2>2, <2>3
<1>8. IsFiniteSet(LostIds(list, under)) /\ Cardinality(Ids(list)) \in Nat
  BY IdsFinite
<1>9. Ids(list) \subseteq LostIds(list, under) \union (New \union Data)
  <2> SUFFICES ASSUME NEW i \in 1 .. Len(list)
               PROVE  list[i].id \in LostIds(list, under) \union (New \union Data)
    BY DEF Ids
  <2>1. list[i].type \in {"ping", "data"} /\ list[i].retries \in 1 .. MaxSends
    BY EntryIs DEF ListOK
  <2>2. list[i].retries > 1 \/ list[i].retries = 1
    BY <2>1, SendsIs
  <2>3. CASE list[i].retries > 1 \/ list[i].id \notin under
    BY <2>3 DEF LostIds
  <2>4. CASE list[i].type = "data"
    BY <2>4
  <2>5. CASE list[i].type = "ping" /\ list[i].retries = 1 /\ list[i].id \in under
    BY <2>5 DEF NewPings
  <2> QED
    BY <2>1, <2>2, <2>3, <2>4, <2>5
<1> HIDE DEF Data, New
<1>10. /\ IsFiniteSet(New \union Data) /\ Cardinality(Data) \in Nat
       /\ Cardinality(New \union Data) \in Nat
       /\ Cardinality(New \union Data) <= Cardinality(New) + Cardinality(Data)
  BY <1>6, <1>7, UnionBound
<1>11. /\ Cardinality(LostIds(list, under)) \in Nat
       /\ Cardinality(Ids(list)) <= Cardinality(LostIds(list, under)) + Cardinality(New \union Data)
  BY <1>8, <1>9, <1>10, UnionBound
<1> QED
  BY <1>6, <1>7, <1>8, <1>10, <1>11

(* There are no more messages on a line than elements in the two lists.    *)
LEMMA LineBound ==
  ASSUME NEW s \in Seq(Msg), NEW out, NEW in,
         NEW list \in Seq(Entry), NEW list2 \in Seq(Entry), NEW lost,
         PromptOK(list, out, s, lost), Under(out, s) \subseteq Ids(list),
         PromptOK(list2, s, in, lost), Under(s, in) \subseteq Ids(list2)
  PROVE  /\ Cardinality(Ids(list)) \in Nat /\ Cardinality(Ids(list2)) \in Nat
         /\ Len(s) <= Cardinality(Ids(list)) + Cardinality(Ids(list2))
<1> DEFINE acks == {k \in 1 .. Len(s) : s[k].type = "ack"}
           rest == {k \in 1 .. Len(s) : s[k].type # "ack"}
           f == [k \in acks |-> s[k].id]
           g == [k \in rest |-> s[k].id]
<1>1. \A k \in 1 .. Len(s) : s[k].type # "ack" => s[k].type \in {"ping", "data"}
  BY MsgKinds
<1>2. f \in [acks -> Ids(list)] /\ g \in [rest -> Ids(list2)]
  BY DEF Under
<1>3. ASSUME NEW j \in acks, NEW k \in acks, s[j].id = s[k].id
      PROVE  j = k
  <2>1. s[j].id \in Ids(list)
    BY DEF Under
  <2>2. PICK i \in 1 .. Len(list) : list[i].id = s[j].id
    BY <2>1 DEF Ids
  <2>3. Single(Acks(s, list, i))
    BY AnswerableIs
  <2>4. j \in Acks(s, list, i) /\ k \in Acks(s, list, i)
    BY <2>2, <1>3 DEF Acks, Of
  <2> QED
    BY <2>3, <2>4 DEF Single
<1>4. ASSUME NEW j \in rest, NEW k \in rest, s[j].id = s[k].id
      PROVE  j = k
  <2>1. s[j].id \in Ids(list2)
    BY DEF Under
  <2>2. PICK i \in 1 .. Len(list2) : list2[i].id = s[j].id
    BY <2>1 DEF Ids
  <2>3. Single(Own(s, list2, i))
    BY AnswerableIs
  <2>4. j \in Own(s, list2, i) /\ k \in Own(s, list2, i)
    BY <2>2, <1>1, <1>4 DEF Own, Of
  <2> QED
    BY <2>3, <2>4 DEF Single
<1>5. f \in Injection(acks, Ids(list)) /\ g \in Injection(rest, Ids(list2))
  BY <1>2, <1>3, <1>4 DEF Injection, IsInjective
<1>6. /\ IsFiniteSet(Ids(list)) /\ IsFiniteSet(Ids(list2))
      /\ Cardinality(Ids(list)) \in Nat /\ Cardinality(Ids(list2)) \in Nat
  BY IdsFinite
<1>7. /\ IsFiniteSet(acks) /\ Cardinality(acks) <= Cardinality(Ids(list))
      /\ IsFiniteSet(rest) /\ Cardinality(rest) <= Cardinality(Ids(list2))
  <2> HIDE DEF f, g, acks, rest
  <2> QED
    BY <1>5, <1>6, FS_Injection
<1>8. 1 .. Len(s) \subseteq acks \union rest
  OBVIOUS
<1>9. Len(s) \in Nat /\ Cardinality(1 .. Len(s)) = Len(s)
  <2>1. Len(s) \in Nat
    OBVIOUS
  <2>2. \A n \in Nat : Cardinality(1 .. n) = n
    BY FS_Interval
  <2> QED
    BY <2>1, <2>2
<1> HIDE DEF acks, rest
<1>10. /\ Cardinality(acks) \in Nat /\ Cardinality(rest) \in Nat
       /\ Cardinality(1 .. Len(s)) <= Cardinality(acks) + Cardinality(rest)
  BY <1>7, <1>8, UnionBound
<1> QED
  BY <1>6, <1>7, <1>9, <1>10

LEMMA Sums ==
  ASSUME NEW len \in Nat, NEW here \in Nat, NEW there \in Nat, NEW lost \in Nat, NEW lost2 \in Nat,
         NEW share \in Nat, NEW share2 \in Nat, NEW all \in Nat, NEW most \in Nat, NEW limit \in Nat,
         len <= here + there, here <= lost + share, there <= lost2 + share2,
         lost + lost2 <= all, all <= most, most + share + share2 < limit
  PROVE  len < limit
OBVIOUS

LEMMA RoomBound ==
  ASSUME KInv, PromptInv, RoomInv, Ample
  PROVE  Room
<1> SUFFICES ASSUME scene.regime = "prompt", NEW p \in Peers
             PROVE  Len(line[p]) < scene.limit
  BY DEF Room
<1> DEFINE o == Other(p)
           here == Cardinality(Ids(packet_list[p]))
           there == Cardinality(Ids(packet_list[o]))
           lost(q) == Cardinality(Lost(q))
           users(q) == IF q \in scene.users THEN scene.packets ELSE 0
<1>1. /\ TypeOK /\ o \in Peers /\ Other(o) = p /\ PromptPeer(p) /\ PromptPeer(o)
      /\ RoomPeer(p) /\ RoomPeer(o) /\ (losses = 0 \/ losses < RetriesMax)
  BY OtherIs DEF KInv, PromptInv, Prompt, RoomInv
<1>2. ASSUME NEW q \in Peers, RoomPeer(q)
      PROVE  /\ lost(q) \in Nat /\ Cardinality(Ids(packet_list[q])) \in Nat
             /\ Cardinality(Ids(packet_list[q])) <= lost(q) + Share(scene, q)
             /\ Share(scene, q) \in Nat
  <2> DEFINE list == packet_list[q]
             acc == accepted[q]
             settled == acked[q] \union given_up[q]
             under == UnderWay(q)
             pinging == q \in scene.pinging
  <2>1. list \in Seq(Entry) /\ acc \in Nat /\ pinging \in BOOLEAN
    BY <1>1, PeerTypes
  <2>2. ListOK(list, acc, settled)
    BY DEF KInv, PeerInv, PeerOK
  <2>3. RoomOK(list, under, pinging, last_transmitted[q]) /\ acc <= users(q)
    BY <1>2 DEF RoomPeer
  <2>4. Lost(q) = LostIds(list, under)
    BY DEF Lost
  <2>5. users(q) \in Nat
    BY <1>1, SceneIs
  <2> HIDE DEF list, acc, settled, under, pinging, users
  <2>6. /\ Cardinality(LostIds(list, under)) \in Nat /\ Cardinality(Ids(list)) \in Nat
        /\ Cardinality(Ids(list)) <=
             Cardinality(LostIds(list, under)) + ((IF pinging THEN 1 ELSE 0) + acc)
    BY <2>1, <2>2, <2>3, IdsBound
  <2>7. (IF pinging THEN 1 ELSE 0) + acc <= (IF pinging THEN 1 ELSE 0) + users(q)
    BY <2>1, <2>3, <2>5
  <2>8. Share(scene, q) = (IF pinging THEN 1 ELSE 0) + users(q)
    BY DEF Share, pinging, users
  <2>9. /\ Share(scene, q) \in Nat
        /\ Cardinality(Ids(list)) <= Cardinality(LostIds(list, under)) + Share(scene, q)
    BY <2>1, <2>5, <2>6, <2>7, <2>8
  <2> QED
    BY <2>4, <2>6, <2>9 DEF list
<1>3. /\ here \in Nat /\ there \in Nat /\ Len(line[p]) <= here + there
  <2> DEFINE s == line[p]
             in == line[o]
             list == packet_list[p]
             list2 == packet_list[o]
  <2>1. s \in Seq(Msg) /\ list \in Seq(Entry) /\ list2 \in Seq(Entry)
    BY <1>1, PeerTypes
  <2>2. /\ PromptOK(list, in, s, losses) /\ PromptOK(list2, s, in, losses)
    BY <1>1 DEF PromptPeer
  <2>3. Under(in, s) \subseteq Ids(list) /\ Under(s, in) \subseteq Ids(list2)
    BY <1>1 DEF RoomPeer, RoomOK, UnderWay
  <2> HIDE DEF s, in, list, list2
  <2>4. /\ Cardinality(Ids(list)) \in Nat /\ Cardinality(Ids(list2)) \in Nat
        /\ Len(s) <= Cardinality(Ids(list)) + Cardinality(Ids(list2))
    BY <2>1, <2>2, <2>3, LineBound
  <2> QED
    BY <2>4 DEF s, list, list2
<1>4. lost(p) + lost(o) <= losses /\ losses \in Nat /\ Spared \in Nat /\ losses <= Spared
  <2>1. losses \in Nat /\ RetriesMax \in Nat
    BY <1>1, KissAssumption DEF TypeOK
  <2>2. Spared \in Nat /\ losses <= Spared
    BY <2>1, <1>1 DEF Spared
  <2> QED
    BY <2>1, <2>2, <1>1 DEF RoomPeer
<1>5. /\ Len(line[p]) \in Nat /\ scene.limit \in Nat
      /\ Spared + Share(scene, p) + Share(scene, o) < scene.limit
  BY <1>1, SceneIs, PeerTypes DEF Ample, TypeOK
<1>6. /\ lost(p) \in Nat /\ here <= lost(p) + Share(scene, p) /\ Share(scene, p) \in Nat
      /\ lost(o) \in Nat /\ there <= lost(o) + Share(scene, o) /\ Share(scene, o) \in Nat
  BY <1>1, <1>2
<1> HIDE DEF here, there, lost
<1> QED
  BY <1>3, <1>4, <1>5, <1>6, Sums

(* A step keeps the invariant if it does for each peer, and no more is     *)
(* lost without being counted.                                             *)
LEMMA RoomMoves ==
  ASSUME KInv', scene.regime = "prompt", UNCHANGED scene,
         NEW p \in Peers,
         \A q \in {p, Other(p)} :
           /\ RoomOK(packet_list'[q], UnderWay(q)', q \in scene.pinging, last_transmitted'[q])
           /\ accepted'[q] <= (IF q \in scene.users THEN scene.packets ELSE 0),
         Cardinality(Lost(p)') + Cardinality(Lost(Other(p))') <= losses'
  PROVE  RoomInv'
<1>1. \A q \in Peers : packet_list'[q] \in Seq(Entry)
  BY DEF KInv, TypeOK, Entry, Id
<1>2. \A q \in Peers : Cardinality(Lost(q)') \in Nat
  BY <1>1, IdsFinite DEF Lost
<1>3. /\ Other(p) \in Peers /\ Other(Other(p)) = p
      /\ \A q \in Peers : q = p \/ q = Other(p)
  BY OtherIs
<1>4. Cardinality(Lost(Other(p))') + Cardinality(Lost(p)') <= losses'
  BY <1>2, <1>3
<1>5. RoomPeer(p)' /\ RoomPeer(Other(p))'
  BY <1>3, <1>4 DEF RoomPeer
<1> QED
  BY <1>3, <1>5 DEF RoomInv

LEMMA LostFalls ==
  ASSUME KInv, RoomInv, scene.regime = "prompt", NEW p \in Peers,
         Lost(p)' \subseteq Lost(p), Lost(Other(p))' \subseteq Lost(Other(p)), losses' = losses
  PROVE  Cardinality(Lost(p)') + Cardinality(Lost(Other(p))') <= losses'
<1>1. /\ Other(p) \in Peers /\ losses \in Nat
      /\ Cardinality(Lost(p)) + Cardinality(Lost(Other(p))) <= losses
  BY OtherIs DEF RoomInv, RoomPeer, KInv, TypeOK
<1>2. ASSUME NEW q \in Peers, NEW T, T \subseteq Lost(q)
      PROVE  /\ Cardinality(T) \in Nat /\ Cardinality(Lost(q)) \in Nat
             /\ Cardinality(T) <= Cardinality(Lost(q))
  <2>1. IsFiniteSet(Lost(q))
    BY ListIs, IdsFinite DEF Lost
  <2> QED
    BY <2>1, <1>2, FS_Subset, FS_CardinalityType
<1> DEFINE a == Cardinality(Lost(p)')
           b == Cardinality(Lost(Other(p))')
           c == Cardinality(Lost(p))
           d == Cardinality(Lost(Other(p)))
<1>3. a \in Nat /\ c \in Nat /\ a <= c
  BY <1>2
<1>4. b \in Nat /\ d \in Nat /\ b <= d
  BY <1>1, <1>2
<1>5. c + d <= losses /\ losses \in Nat /\ losses' = losses
  BY <1>1
<1> HIDE DEF a, b, c, d
<1>6. a + b <= losses'
  BY <1>3, <1>4, <1>5
<1> QED
  BY <1>6 DEF a, b

LEMMA RoomAtPut ==
  ASSUME KInv, KInv', RoomInv, scene.regime = "prompt", NEW p \in Peers,
         Len(line[Other(p)]) < scene.limit,
         NEW type \in {"ping", "data"}, NEW n \in 0 .. MaxPackets,
         IdUnused(p, NextId(p)), Emplace(p, type, n), UNCHANGED <<losses, scene>>,
         type = "ping" => p \in scene.pinging /\ last_transmitted[p] >= PingHoldoff,
         \A q \in Peers : accepted'[q] <= (IF q \in scene.users THEN scene.packets ELSE 0)
  PROVE  RoomInv'
<1> DEFINE o == Other(p)
           list == packet_list[p]
           out == line[o]
           in == line[p]
<1>1. /\ TypeOK /\ RoomPeer(p) /\ RoomPeer(o) /\ o \in Peers /\ Other(o) = p
  BY OtherIs DEF KInv, RoomInv
<1>2. PICK e \in Entry :
           /\ e.retries = 1 /\ e.age = 0 /\ e.type = type
           /\ Message(e.type, e.id, e.n) \in Msg /\ Message(e.type, e.id, e.n).type = type
           /\ Message(e.type, e.id, e.n).id = e.id
           /\ Fresh(list, out, in, e.id)
           /\ packet_list'[p] = Append(list, e)
           /\ packet_list'[o] = packet_list[o]
           /\ last_transmitted'[p] = 0
           /\ last_transmitted'[o] = last_transmitted[o]
           /\ line'[p] = in
           /\ line'[o] = Append(out, Message(e.type, e.id, e.n))
  BY PutFacts, Zenon
<1>3. /\ list \in Seq(Entry) /\ out \in Seq(Msg) /\ in \in Seq(Msg)
      /\ last_transmitted[p] \in Nat /\ PingHoldoff \in Nat
  <2>1. last_transmitted[p] \in 0 .. PingHoldoff /\ PingHoldoff \in Nat
    BY <1>1, PeerTypes, KissAssumption
  <2> QED
    BY <2>1, <1>1, PeerTypes
<1>4. UnderWay(p)' = UnderWay(p) \union {e.id} /\ UnderWay(o)' = UnderWay(o)
  <2> DEFINE m == Message(e.type, e.id, e.n)
  <2>1. m.type # "ack"
    BY <1>2
  <2> HIDE DEF m, out, in
  <2>2. /\ Under(Append(out, m), in) = Under(out, in) \union {m.id}
        /\ Under(in, Append(out, m)) = Under(in, out)
    BY <1>2, <1>3, <2>1, UnderAppend DEF m
  <2> QED
    BY <1>1, <1>2, <2>2 DEF UnderWay, m, out, in
<1>5. /\ RoomOK(Append(list, e), UnderWay(p) \union {e.id}, p \in scene.pinging, 0)
      /\ LostIds(Append(list, e), UnderWay(p) \union {e.id}) \subseteq LostIds(list, UnderWay(p))
  <2>1. RoomOK(list, UnderWay(p), p \in scene.pinging, last_transmitted[p])
    BY <1>1 DEF RoomPeer
  <2>2. \A i \in 1 .. Len(list) : list[i].id # e.id
    BY <1>2 DEF Fresh
  <2>3. e.type = "ping" => p \in scene.pinging /\ ~(last_transmitted[p] < PingHoldoff)
    BY <1>2, <1>3
  <2> HIDE DEF list
  <2> QED
    BY <1>2, <1>3, <2>1, <2>2, <2>3, RoomOKPut
<1>6. Lost(p)' \subseteq Lost(p) /\ Lost(o)' \subseteq Lost(o)
  BY <1>2, <1>4, <1>5 DEF Lost
<1>7. \A q \in {p, o} :
        RoomOK(packet_list'[q], UnderWay(q)', q \in scene.pinging, last_transmitted'[q])
  BY <1>1, <1>2, <1>4, <1>5 DEF RoomPeer
<1> QED
  BY <1>1, <1>6, <1>7, LostFalls, RoomMoves

LEMMA UnderAcked ==
  ASSUME NEW out \in Seq(Msg), NEW in \in Seq(Msg), 1 \in 1 .. Len(in), in[1].type = "ack",
         NEW list, NEW lost, PromptOK(list, out, in, lost), Under(out, in) \subseteq Ids(list)
  PROVE  Under(out, Without(in, 1)) = Under(out, in) \ {in[1].id}
<1> DEFINE id == in[1].id
           left == Without(in, 1)
<1>1. Under(out, left) \subseteq Under(out, in) /\ Under(out, in) \subseteq Under(out, left) \union {id}
  BY UnderWithout
<1>2. id \in Under(out, in)
  BY DEF Under
<1>3. PICK i \in 1 .. Len(list) : list[i].id = id
  BY <1>2 DEF Ids
<1>4. 1 \in Acks(in, list, i)
  BY <1>3 DEF Acks, Of
<1>5. Single(Acks(in, list, i)) /\ Own(out, list, i) = {}
  BY <1>4, AnswerableIs DEF Answerable
<1>6. \A k \in 1 .. Len(out) : out[k].type # "ack" => out[k].id # id
  <2>1. \A k \in 1 .. Len(out) : out[k].type # "ack" => out[k].type \in {"ping", "data"}
    BY MsgKinds
  <2> QED
    BY <2>1, <1>3, <1>5 DEF Own, Of
<1>7. \A k \in 1 .. Len(left) : left[k].type = "ack" => left[k].id # id
  <2> SUFFICES ASSUME NEW k \in 1 .. Len(left), left[k].type = "ack", left[k].id = id
               PROVE  FALSE
    OBVIOUS
  <2>1. /\ Len(left) = Len(in) - 1 /\ Len(in) \in Nat
        /\ \A j \in 1 .. Len(in) - 1 : left[j] = IF j < 1 THEN in[j] ELSE in[j + 1]
    BY WithoutIs
  <2> HIDE DEF left
  <2>2. k + 1 \in 1 .. Len(in) /\ left[k] = in[k + 1] /\ k + 1 # 1
    BY <2>1
  <2>3. k + 1 \in Acks(in, list, i)
    BY <2>2, <1>3 DEF Acks, Of
  <2> QED
    BY <2>2, <2>3, <1>4, <1>5 DEF Single
<1>8. id \notin Under(out, left)
  BY <1>6, <1>7 DEF Under
<1> QED
  BY <1>1, <1>8

LEMMA RoomAtAck ==
  ASSUME KInv, KInv', PromptInv, RoomInv, scene.regime = "prompt", NEW p \in Peers,
         receive(p), NEW m, m = Head(line[p]), m.type = "ack", ReceiveAck(p, m.id)
  PROVE  RoomInv'
<1> DEFINE o == Other(p)
           list == packet_list[p]
           list2 == packet_list'[p]
           out == line[o]
           in == line[p]
<1>1. /\ TypeOK /\ RoomPeer(p) /\ RoomPeer(o) /\ PromptPeer(p) /\ o \in Peers /\ Other(o) = p
  BY OtherIs DEF KInv, RoomInv, PromptInv, Prompt
<1>2. /\ 1 \in 1 .. Len(in) /\ m = in[1]
      /\ list2 = Unmatched(list, m.id)
      /\ packet_list'[o] = packet_list[o]
      /\ line'[p] = Without(in, 1) /\ line'[o] = out
      /\ UNCHANGED <<last_transmitted, losses, scene, accepted>>
  <2>1. UNCHANGED <<last_transmitted, losses, scene, accepted>>
    BY DEF receive, ReceiveAck
  <2> QED
    BY <2>1, AckFacts, Zenon
<1>3. list \in Seq(Entry) /\ out \in Seq(Msg) /\ in \in Seq(Msg)
  BY <1>1, PeerTypes
<1>4. UnderWay(p)' = UnderWay(p) \ {m.id}
  <2>1. PromptOK(list, out, in, losses) /\ Under(out, in) \subseteq Ids(list)
    BY <1>1 DEF PromptPeer, RoomPeer, RoomOK, UnderWay
  <2> HIDE DEF out, in, list
  <2>2. Under(out, Without(in, 1)) = Under(out, in) \ {m.id}
    BY <1>2, <1>3, <2>1, UnderAcked
  <2> QED
    BY <1>2, <2>2 DEF UnderWay, out, in
<1>5. UnderWay(o)' = UnderWay(o)
  <2> HIDE DEF out, in
  <2>1. Under(Without(in, 1), out) = Under(in, out)
    BY <1>2, <1>3, UnderWithout
  <2> QED
    BY <2>1, <1>1, <1>2 DEF UnderWay, out, in
<1>6. /\ RoomOK(list2, UnderWay(p) \ {m.id}, p \in scene.pinging, last_transmitted[p])
      /\ LostIds(list2, UnderWay(p) \ {m.id}) \subseteq LostIds(list, UnderWay(p))
  <2>1. RoomOK(list, UnderWay(p), p \in scene.pinging, last_transmitted[p])
    BY <1>1 DEF RoomPeer
  <2>2. /\ PartOf(list2, list)
        /\ \A k \in 1 .. Len(list2) : list2[k].id # m.id
        /\ \A i \in 1 .. Len(list) :
             list[i].id # m.id => \E k \in 1 .. Len(list2) : list2[k] = list[i]
    BY <1>2, <1>3, UnmatchedIs
  <2> HIDE DEF list, list2
  <2> QED
    BY <2>1, <2>2, RoomOKTaken
<1>7. Lost(p)' \subseteq Lost(p) /\ Lost(o)' \subseteq Lost(o)
  BY <1>2, <1>4, <1>5, <1>6 DEF Lost
<1>8. \A q \in {p, o} :
        /\ RoomOK(packet_list'[q], UnderWay(q)', q \in scene.pinging, last_transmitted'[q])
        /\ accepted'[q] <= (IF q \in scene.users THEN scene.packets ELSE 0)
  BY <1>1, <1>2, <1>4, <1>5, <1>6 DEF RoomPeer
<1> QED
  BY <1>2, <1>7, <1>8, LostFalls, RoomMoves

LEMMA RoomAtPacket ==
  ASSUME KInv, KInv', RoomInv, scene.regime = "prompt", NEW p \in Peers,
         Len(line[Other(p)]) < scene.limit,
         receive(p), NEW m, m = Head(line[p]), m.type # "ack", ReceivePacket(p, m)
  PROVE  RoomInv'
<1> DEFINE o == Other(p)
           ack == Message("ack", m.id, 0)
           out == line[o]
           in == line[p]
<1>1. /\ TypeOK /\ RoomPeer(p) /\ RoomPeer(o) /\ o \in Peers /\ Other(o) = p
  BY OtherIs DEF KInv, RoomInv
<1>2. /\ 1 \in 1 .. Len(in) /\ m = in[1] /\ m \in Msg
      /\ ack \in Msg /\ ack.type = "ack" /\ ack.id = m.id
      /\ line'[p] = Without(in, 1) /\ line'[o] = Append(out, ack)
      /\ last_transmitted'[p] = 0 /\ last_transmitted'[o] = last_transmitted[o]
      /\ UNCHANGED <<packet_list, losses, scene, accepted>>
  <2>1. UNCHANGED <<packet_list, losses, scene, accepted>>
    BY DEF receive, ReceivePacket
  <2> QED
    BY <2>1, PacketFacts, Zenon
<1>3. out \in Seq(Msg) /\ in \in Seq(Msg) /\ Without(in, 1) \in Seq(Msg)
  BY <1>1, <1>2, PeerTypes, WithoutIs
<1> HIDE DEF out, in, ack
<1>4. UnderWay(p)' = UnderWay(p)
  <2>1. Under(out, Without(in, 1)) = Under(out, in)
    BY <1>2, <1>3, UnderWithout
  <2>2. Under(Append(out, ack), Without(in, 1)) = Under(out, Without(in, 1))
    BY <1>2, <1>3, UnderAppend
  <2> QED
    BY <2>1, <2>2, <1>2 DEF UnderWay, out, in
<1>5. UnderWay(o)' = UnderWay(o)
  <2>1. /\ Under(Without(in, 1), out) \subseteq Under(in, out)
        /\ Under(in, out) \subseteq Under(Without(in, 1), out) \union {m.id}
    BY <1>2, <1>3, UnderWithout
  <2>2. Under(Without(in, 1), Append(out, ack)) = Under(Without(in, 1), out) \union {m.id}
    BY <1>2, <1>3, UnderAppend
  <2>3. m.id \in Under(in, out)
    BY <1>2 DEF Under
  <2> QED
    BY <2>1, <2>2, <2>3, <1>1, <1>2 DEF UnderWay, out, in
<1>6. Lost(p)' \subseteq Lost(p) /\ Lost(o)' \subseteq Lost(o)
  BY <1>2, <1>4, <1>5 DEF Lost
<1>7. \A q \in {p, o} :
        /\ RoomOK(packet_list'[q], UnderWay(q)', q \in scene.pinging, last_transmitted'[q])
        /\ accepted'[q] <= (IF q \in scene.users THEN scene.packets ELSE 0)
  BY <1>1, <1>2, <1>4, <1>5, RoomOKSame DEF RoomPeer
<1> QED
  BY <1>2, <1>6, <1>7, LostFalls, RoomMoves

(* What is sent again was lost, so that it has nothing under way.          *)
LEMMA RoomOKResent ==
  ASSUME NEW list \in Seq(Entry), NEW list2, NEW i \in 1 .. Len(list), NEW under, NEW pings,
         NEW quiet, RoomOK(list, under, pings, quiet),
         list[i].id \notin under, list[i].retries \in Nat \ {0},
         \A j, k \in 1 .. Len(list) : list[j].id = list[k].id => j = k,
         Len(list2) = Len(list), \A j \in 1 .. Len(list) : j # i => list2[j] = list[j],
         list2[i].type = list[i].type, list2[i].id = list[i].id,
         list2[i].retries = list[i].retries + 1
  PROVE  /\ RoomOK(list2, under \union {list[i].id}, pings, 0)
         /\ LostIds(list2, under \union {list[i].id}) \subseteq LostIds(list, under)
<1> DEFINE under2 == under \union {list[i].id}
           none == {}
<1>1. list2[i].retries # 1
  OBVIOUS
<1>2. Kept(list, list2, under, under2, none)
  BY <1>1 DEF Kept
<1> HIDE DEF under2, none
<1>3. /\ Ids(list2) = Ids(list)
      /\ LostIds(list2, under2) \subseteq LostIds(list, under) \union none
      /\ NewPings(list2, under2) \subseteq NewPings(list, under)
  BY <1>2, KeptIs
<1>4. under2 \subseteq Ids(list2)
  BY <1>3 DEF RoomOK, Ids, under2
<1>5. /\ \A x, y \in NewPings(list2, under2) : x = y
      /\ NewPings(list2, under2) # {} => pings
  BY <1>3 DEF RoomOK
<1>6. 0 < PingHoldoff
  BY KissAssumption
<1>7. RoomOK(list2, under2, pings, 0)
  BY <1>4, <1>5, <1>6 DEF RoomOK
<1> QED
  BY <1>3, <1>7 DEF under2, none

LEMMA RoomAtResent ==
  ASSUME KInv, KInv', PromptInv, RoomInv, scene.regime = "prompt", NEW p \in Peers,
         Len(line[Other(p)]) < scene.limit, Retransmit(p)
  PROVE  RoomInv'
<1> DEFINE o == Other(p)
           list == packet_list[p]
           list2 == packet_list'[p]
           out == line[o]
           in == line[p]
<1>1. /\ TypeOK /\ RoomPeer(p) /\ RoomPeer(o) /\ PromptPeer(p) /\ o \in Peers /\ Other(o) = p
  BY OtherIs DEF KInv, RoomInv, PromptInv, Prompt
<1>2. PICK i \in 1 .. Len(list), m \in Msg :
           /\ ~(list[i].age < RetryHoldoff)
           /\ m.type # "ack" /\ m.id = list[i].id
           /\ Len(list2) = Len(list)
           /\ list2 \in Seq(Entry)
           /\ \A j \in 1 .. Len(list) : j # i => list2[j] = list[j]
           /\ list2[i].type = list[i].type
           /\ list2[i].id = list[i].id
           /\ list2[i].retries = list[i].retries + 1
           /\ list2[i].age = 0
           /\ packet_list'[o] = packet_list[o]
           /\ last_transmitted'[p] = 0
           /\ last_transmitted'[o] = last_transmitted[o]
           /\ line'[p] = in /\ line'[o] = Append(out, m)
  BY ResentFacts, Zenon
<1>3. /\ list \in Seq(Entry) /\ out \in Seq(Msg) /\ in \in Seq(Msg)
      /\ UNCHANGED <<losses, scene, accepted>>
  BY <1>1, PeerTypes DEF Retransmit, userVars
<1>4. list[i].id \notin UnderWay(p)
  <2>1. PromptOK(list, out, in, losses)
    BY <1>1 DEF PromptPeer
  <2> HIDE DEF list, out, in
  <2>2. Own(out, list, i) = {} /\ Acks(in, list, i) = {}
    BY <2>1, <1>2, AnswerableIs DEF Answerable
  <2>3. \A k \in 1 .. Len(out) : out[k].type # "ack" => out[k].type \in {"ping", "data"}
    BY <1>3, MsgKinds
  <2>4. list[i].id \notin Under(out, in)
    BY <2>2, <2>3 DEF Under, Own, Acks, Of
  <2> QED
    BY <2>4 DEF UnderWay, out, in
<1>5. UnderWay(p)' = UnderWay(p) \union {list[i].id} /\ UnderWay(o)' = UnderWay(o)
  <2> HIDE DEF out, in
  <2>1. /\ Under(Append(out, m), in) = Under(out, in) \union {m.id}
        /\ Under(in, Append(out, m)) = Under(in, out)
    BY <1>2, <1>3, UnderAppend
  <2> QED
    BY <1>1, <1>2, <2>1 DEF UnderWay, out, in
<1>6. /\ RoomOK(list2, UnderWay(p) \union {list[i].id}, p \in scene.pinging, 0)
      /\ LostIds(list2, UnderWay(p) \union {list[i].id}) \subseteq LostIds(list, UnderWay(p))
  <2>1. RoomOK(list, UnderWay(p), p \in scene.pinging, last_transmitted[p])
    BY <1>1 DEF RoomPeer
  <2>2. /\ list[i].retries \in 1 .. MaxSends
        /\ \A j, k \in 1 .. Len(list) : list[j].id = list[k].id => j = k
    BY ListIs
  <2> HIDE DEF list, list2
  <2>3. list[i].retries \in Nat \ {0}
    BY <2>2, SendsIs
  <2> QED
    BY <1>2, <1>3, <1>4, <2>1, <2>2, <2>3, RoomOKResent
<1>7. Lost(p)' \subseteq Lost(p) /\ Lost(o)' \subseteq Lost(o)
  BY <1>2, <1>5, <1>6 DEF Lost
<1>8. \A q \in {p, o} :
        /\ RoomOK(packet_list'[q], UnderWay(q)', q \in scene.pinging, last_transmitted'[q])
        /\ accepted'[q] <= (IF q \in scene.users THEN scene.packets ELSE 0)
  BY <1>1, <1>2, <1>3, <1>5, <1>6 DEF RoomPeer
<1> QED
  BY <1>3, <1>7, <1>8, LostFalls, RoomMoves

(* A message is lost: then only its element may be new among what is lost. *)
LEMMA RoomOKLost ==
  ASSUME NEW list, NEW under, NEW under2, NEW id, NEW pings, NEW quiet,
         RoomOK(list, under, pings, quiet),
         under2 \subseteq under, under \subseteq under2 \union {id}
  PROVE  /\ RoomOK(list, under2, pings, quiet)
         /\ LostIds(list, under2) \subseteq LostIds(list, under) \union {id}
<1> DEFINE one == {id}
<1>1. Kept(list, list, under, under2, one)
  BY DEF Kept
<1> HIDE DEF one
<1>2. /\ LostIds(list, under2) \subseteq LostIds(list, under) \union one
      /\ NewPings(list, under2) \subseteq NewPings(list, under)
  BY <1>1, KeptIs
<1>3. RoomOK(list, under2, pings, quiet)
  BY <1>2 DEF RoomOK
<1> QED
  BY <1>2, <1>3 DEF one

LEMMA LostOne ==
  ASSUME NEW p \in Peers, RoomPeer(p), UNCHANGED <<packet_list, last_transmitted, scene>>,
         NEW id, UnderWay(p)' \subseteq UnderWay(p), UnderWay(p) \subseteq UnderWay(p)' \union {id}
  PROVE  /\ RoomOK(packet_list[p], UnderWay(p)', p \in scene.pinging, last_transmitted[p])
         /\ Lost(p)' \subseteq Lost(p) \union {id}
<1> DEFINE list == packet_list[p]
           under == UnderWay(p)
           under2 == UnderWay(p)'
           pings == p \in scene.pinging
           quiet == last_transmitted[p]
<1>1. /\ RoomOK(list, under, pings, quiet)
      /\ under2 \subseteq under /\ under \subseteq under2 \union {id}
  BY DEF RoomPeer
<1>2. Lost(p) = LostIds(list, under) /\ Lost(p)' = LostIds(list, under2)
  BY DEF Lost
<1> HIDE DEF list, under, under2, pings, quiet
<1>3. RoomOK(list, under2, pings, quiet) /\ LostIds(list, under2) \subseteq LostIds(list, under) \union {id}
  BY <1>1, RoomOKLost
<1> QED
  BY <1>2, <1>3 DEF list, under2, pings, quiet

LEMMA OneMore ==
  ASSUME NEW S, IsFiniteSet(S), NEW x, NEW T, T \subseteq S \union {x}
  PROVE  /\ Cardinality(S) \in Nat /\ Cardinality(T) \in Nat
         /\ Cardinality(T) <= Cardinality(S) + 1
<1>1. IsFiniteSet({x}) /\ Cardinality({x}) = 1
  BY FS_Singleton
<1> QED
  BY <1>1, UnionBound

LEMMA RoomAtLose ==
  ASSUME KInv, KInv', RoomInv, scene.regime = "prompt", NEW p \in Peers, Lose(p)
  PROVE  RoomInv'
<1> DEFINE o == Other(p)
           out == line[o]
           in == line[p]
<1>1. /\ TypeOK /\ RoomPeer(p) /\ RoomPeer(o) /\ o \in Peers /\ o # p /\ Other(o) = p
  BY OtherIs DEF KInv, RoomInv
<1>2. PICK i \in 1 .. Len(in) : line' = [line EXCEPT ![p] = Without(in, i)]
  BY DEF Lose
<1>3. /\ losses' = losses + 1 /\ losses \in Nat
      /\ UNCHANGED <<packet_list, last_transmitted, scene, accepted>>
  BY <1>1 DEF Lose, peerVars, userVars, TypeOK
<1>4. /\ out \in Seq(Msg) /\ in \in Seq(Msg) /\ line \in [Peers -> Seq(Msg)]
      /\ packet_list[p] \in Seq(Entry) /\ packet_list[o] \in Seq(Entry)
  BY <1>1, PeerTypes DEF TypeOK, Msg, Id
<1>5. line'[p] = Without(in, i) /\ line'[o] = out
  BY <1>1, <1>2, <1>4
<1> DEFINE id == in[i].id
<1>6. /\ UnderWay(p)' \subseteq UnderWay(p) /\ UnderWay(p) \subseteq UnderWay(p)' \union {id}
      /\ UnderWay(o)' \subseteq UnderWay(o) /\ UnderWay(o) \subseteq UnderWay(o)' \union {id}
      /\ UnderWay(p)' = UnderWay(p) \/ UnderWay(o)' = UnderWay(o)
  <2> HIDE DEF out, in
  <2>1. /\ Under(out, Without(in, i)) \subseteq Under(out, in)
        /\ Under(out, in) \subseteq Under(out, Without(in, i)) \union {id}
        /\ in[i].type # "ack" => Under(out, Without(in, i)) = Under(out, in)
        /\ Under(Without(in, i), out) \subseteq Under(in, out)
        /\ Under(in, out) \subseteq Under(Without(in, i), out) \union {id}
        /\ in[i].type = "ack" => Under(Without(in, i), out) = Under(in, out)
    BY <1>4, UnderWithout
  <2>2. /\ UnderWay(p) = Under(out, in) /\ UnderWay(p)' = Under(out, Without(in, i))
        /\ UnderWay(o) = Under(in, out) /\ UnderWay(o)' = Under(Without(in, i), out)
    BY <1>1, <1>5 DEF UnderWay, out, in
  <2> QED
    BY <2>1, <2>2
<1> HIDE DEF out, in, id
<1>7. /\ RoomOK(packet_list[p], UnderWay(p)', p \in scene.pinging, last_transmitted[p])
      /\ Lost(p)' \subseteq Lost(p) \union {id}
  BY <1>1, <1>3, <1>6, LostOne
<1>8. /\ RoomOK(packet_list[o], UnderWay(o)', o \in scene.pinging, last_transmitted[o])
      /\ Lost(o)' \subseteq Lost(o) \union {id}
  BY <1>1, <1>3, <1>6, LostOne
<1>9. Lost(p)' = Lost(p) \/ Lost(o)' = Lost(o)
  BY <1>3, <1>6 DEF Lost
<1>10. Cardinality(Lost(p)') + Cardinality(Lost(o)') <= losses'
  <2>1. IsFiniteSet(Lost(p)) /\ IsFiniteSet(Lost(o))
    BY <1>4, IdsFinite DEF Lost
  <2>2. /\ Cardinality(Lost(p)) \in Nat /\ Cardinality(Lost(p)') \in Nat
        /\ Cardinality(Lost(p)') <= Cardinality(Lost(p)) + 1
    BY <2>1, <1>7, OneMore
  <2>3. /\ Cardinality(Lost(o)) \in Nat /\ Cardinality(Lost(o)') \in Nat
        /\ Cardinality(Lost(o)') <= Cardinality(Lost(o)) + 1
    BY <2>1, <1>8, OneMore
  <2>4. Cardinality(Lost(p)) + Cardinality(Lost(o)) <= losses
    BY <1>1 DEF RoomPeer, o
  <2>5. \/ Cardinality(Lost(p)') = Cardinality(Lost(p))
        \/ Cardinality(Lost(o)') = Cardinality(Lost(o))
    BY <1>9
  <2> DEFINE a == Cardinality(Lost(p)')
             b == Cardinality(Lost(o)')
             c == Cardinality(Lost(p))
             d == Cardinality(Lost(o))
  <2>6. /\ a \in Nat /\ b \in Nat /\ c \in Nat /\ d \in Nat
        /\ a <= c + 1 /\ b <= d + 1 /\ c + d <= losses /\ (a = c \/ b = d)
    BY <2>2, <2>3, <2>4, <2>5
  <2> HIDE DEF a, b, c, d
  <2>7. a + b <= losses'
    BY <2>6, <1>3
  <2> QED
    BY <2>7 DEF a, b
<1>11. \A q \in {p, o} :
        /\ RoomOK(packet_list'[q], UnderWay(q)', q \in scene.pinging, last_transmitted'[q])
        /\ accepted'[q] <= (IF q \in scene.users THEN scene.packets ELSE 0)
  BY <1>1, <1>3, <1>7, <1>8 DEF RoomPeer
<1> QED
  BY <1>3, <1>10, <1>11, RoomMoves DEF o

(* The clock moves when nothing is under way.                              *)
LEMMA RoomOKTick ==
  ASSUME KInv, scene.regime = "prompt", Tick, NEW p \in Peers, RoomPeer(p)
  PROVE  /\ RoomOK(packet_list'[p], UnderWay(p)', p \in scene.pinging, last_transmitted'[p])
         /\ Lost(p)' \subseteq Lost(p)
<1> DEFINE list == packet_list[p]
           list2 == packet_list'[p]
           none == {}
<1>1. UnderWay(p) = none /\ UnderWay(p)' = none
  <2>1. line[p] = << >> /\ line[Other(p)] = << >> /\ line' = line
    BY TickWhen DEF Tick
  <2> QED
    BY <2>1 DEF UnderWay, Under
<1>2. Kept(list, list2, none, none, none)
  <2>1. /\ Len(list2) = Len(list)
        /\ \A i \in 1 .. Len(list) :
             /\ list2[i].type = list[i].type /\ list2[i].id = list[i].id
             /\ list2[i].retries = list[i].retries
    BY TickList
  <2> QED
    BY <2>1 DEF Kept
<1>3. NewPings(list2, none) = none
  BY DEF NewPings
<1> HIDE DEF list, list2
<1>4. LostIds(list2, none) \subseteq LostIds(list, none) \union none
  <2> HIDE DEF none
  <2> QED
    BY <1>2, KeptIs
<1>5. RoomOK(list2, none, p \in scene.pinging, last_transmitted'[p])
  BY <1>3 DEF RoomOK
<1> QED
  BY <1>1, <1>4, <1>5 DEF Lost, list, list2

LEMMA RoomAtTick ==
  ASSUME KInv, KInv', RoomInv, scene.regime = "prompt", Tick
  PROVE  RoomInv'
<1>1. UNCHANGED <<losses, scene, accepted>>
  BY DEF Tick, userVars
<1>2. PICK p \in Peers : TRUE
  BY KissAssumption
<1>3. Other(p) \in Peers /\ RoomPeer(p) /\ RoomPeer(Other(p))
  BY OtherIs DEF RoomInv
<1>4. \A q \in {p, Other(p)} :
        /\ RoomOK(packet_list'[q], UnderWay(q)', q \in scene.pinging, last_transmitted'[q])
        /\ Lost(q)' \subseteq Lost(q)
  BY <1>3, RoomOKTick
<1>5. \A q \in {p, Other(p)} : accepted'[q] <= (IF q \in scene.users THEN scene.packets ELSE 0)
  BY <1>1, <1>3 DEF RoomPeer
<1> QED
  BY <1>1, <1>4, <1>5, LostFalls, RoomMoves

(* Nothing moves that matters.                                             *)
LEMMA RoomAtSame ==
  ASSUME RoomInv, scene.regime = "prompt",
         UNCHANGED <<packet_list, last_transmitted, line, losses, scene, accepted>>
  PROVE  RoomInv'
<1>1. \A p \in Peers : UnderWay(p)' = UnderWay(p) /\ Lost(p)' = Lost(p)
  BY DEF UnderWay, Lost
<1>2. \A p \in Peers : Lost(Other(p))' = Lost(Other(p))
  BY <1>1, OtherIs
<1>3. ASSUME NEW p \in Peers
      PROVE  RoomPeer(p)'
  BY <1>1, <1>2 DEF RoomInv, RoomPeer
<1> QED
  BY <1>3 DEF RoomInv

LEMMA RoomStep ==
  ASSUME KInv, KInv', PromptInv, RoomInv, Room, [Next]_vars
  PROVE  RoomInv'
<1>1. scene' = scene
  BY DEF Next, transmit, receive, main_task, Begin, Pass, Retransmit, Drop, End, Lose, Tick, vars
<1> SUFFICES ASSUME scene.regime = "prompt"
             PROVE  RoomInv'
  BY <1>1 DEF RoomInv
<1>2. Prompt /\ \A p \in Peers : Len(line[Other(p)]) < scene.limit
  BY OtherIs DEF PromptInv, Room
<1>3. \A q \in Peers : accepted[q] <= (IF q \in scene.users THEN scene.packets ELSE 0)
  BY DEF RoomInv, RoomPeer
<1>4. ASSUME NEW p \in Peers, transmit(p)
      PROVE  RoomInv'
  <2>1. /\ p \in scene.users /\ accepted[p] < scene.packets /\ IdUnused(p, NextId(p))
        /\ accepted' = [accepted EXCEPT ![p] = accepted[p] + 1]
        /\ Emplace(p, "data", accepted[p] + 1)
        /\ UNCHANGED <<losses, scene>>
    BY <1>4 DEF transmit
  <2>2. TypeOK /\ accepted \in [Peers -> 0 .. MaxPackets]
    BY DEF KInv, TypeOK
  <2>3. accepted[p] \in 0 .. MaxPackets /\ scene.packets \in 0 .. MaxPackets /\ MaxPackets \in Nat
    BY <2>2, SceneIs, KissAssumption
  <2> DEFINE sent == accepted[p]
             all  == scene.packets
  <2>4. sent + 1 \in 0 .. MaxPackets /\ sent + 1 <= all
    <3>1. sent \in 0 .. MaxPackets /\ all \in 0 .. MaxPackets /\ MaxPackets \in Nat /\ sent < all
      BY <2>1, <2>3
    <3> HIDE DEF sent, all
    <3> QED
      BY <3>1
  <2>5. \A q \in Peers : accepted'[q] = IF q = p THEN sent + 1 ELSE accepted[q]
    BY <2>1, <2>2
  <2> HIDE DEF sent, all
  <2>6. \A q \in Peers : accepted'[q] <= (IF q \in scene.users THEN scene.packets ELSE 0)
    BY <2>1, <2>4, <2>5, <1>3 DEF all
  <2>7. "data" # "ping" /\ "data" \in {"ping", "data"}
    OBVIOUS
  <2> QED
    BY <2>1, <2>4, <2>6, <2>7, <1>2, RoomAtPut DEF sent
<1>5. ASSUME NEW p \in Peers, receive(p)
      PROVE  RoomInv'
  <2>1. \/ Head(line[p]).type = "ack" /\ ReceiveAck(p, Head(line[p]).id)
        \/ Head(line[p]).type # "ack" /\ ReceivePacket(p, Head(line[p]))
    BY <1>5 DEF receive
  <2> QED
    BY <2>1, <1>2, <1>5, RoomAtAck, RoomAtPacket
<1>6. ASSUME NEW p \in Peers, main_task(p)
      PROVE  RoomInv'
  <2>1. CASE Begin(p) \/ Pass(p)
    BY <2>1, RoomAtSame DEF Begin, Pass, userVars
  <2>2. CASE Retransmit(p)
    BY <2>2, <1>2, RoomAtResent
  <2>3. CASE Drop(p)
    BY <2>3, <1>2, Undropped
  <2>4. CASE End(p)
    <3>1. UNCHANGED <<losses, scene, accepted>>
      BY <2>4 DEF End, userVars
    <3>2. CASE PingDue(p) /\ Emplace(p, "ping", 0)
      <4>1. /\ IdUnused(p, NextId(p)) /\ p \in scene.pinging /\ last_transmitted[p] >= PingHoldoff
        BY <3>2 DEF PingDue
      <4>2. 0 \in 0 .. MaxPackets /\ "ping" \in {"ping", "data"}
        BY KissAssumption
      <4>3. \A q \in Peers : accepted'[q] <= (IF q \in scene.users THEN scene.packets ELSE 0)
        BY <3>1, <1>3
      <4> QED
        BY <3>1, <3>2, <4>1, <4>2, <4>3, <1>2, RoomAtPut
    <3>3. CASE UNCHANGED <<packet_list, last_transmitted, line>>
      BY <3>1, <3>3, RoomAtSame
    <3> QED
      BY <2>4, <3>2, <3>3 DEF End
  <2> QED
    BY <2>1, <2>2, <2>3, <2>4, <1>6 DEF main_task
<1>7. CASE UNCHANGED vars
  BY <1>7, RoomAtSame DEF vars, peerVars, userVars
<1> QED
  BY <1>4, <1>5, <1>6, <1>7, RoomAtLose, RoomAtTick DEF Next

LEMMA RoomAtInit ==
  ASSUME Init
  PROVE  RoomInv
<1>1. /\ losses = 0 /\ scene \in Scenes
      /\ \A p \in Peers : packet_list[p] = << >> /\ line[p] = << >> /\ accepted[p] = 0
  BY DEF Init
<1>2. scene.packets \in Nat
  BY <1>1, KissAssumption DEF Scene
<1>3. ASSUME NEW p \in Peers
      PROVE  UnderWay(p) = {} /\ Lost(p) = {} /\ NewPings(packet_list[p], UnderWay(p)) = {}
  BY <1>1, OtherIs DEF UnderWay, Under, Lost, LostIds, NewPings
<1>4. Cardinality({}) = 0
  BY FS_EmptySet
<1>5. ASSUME NEW p \in Peers
      PROVE  RoomPeer(p)
  <2>1. Lost(p) = {} /\ Lost(Other(p)) = {}
    BY <1>3, OtherIs
  <2>2. RoomOK(packet_list[p], UnderWay(p), p \in scene.pinging, last_transmitted[p])
    BY <1>3 DEF RoomOK
  <2> QED
    BY <2>1, <2>2, <1>1, <1>2, <1>4 DEF RoomPeer
<1> QED
  BY <1>5 DEF RoomInv

(* Together the three are inductive.                                       *)
AllInv == KInv /\ PromptInv /\ RoomInv

LEMMA AllInit ==
  ASSUME Init
  PROVE  AllInv
BY InitStep, PromptInit, RoomAtInit DEF AllInv

LEMMA AllStep ==
  ASSUME Ample, AllInv, [Next]_vars
  PROVE  AllInv'
<1>1. KInv /\ PromptInv /\ RoomInv /\ Room
  BY RoomBound DEF AllInv
<1>2. KInv'
  BY <1>1, NextStep DEF Good
<1>3. PromptInv'
  BY <1>1, PromptStep
<1>4. RoomInv'
  BY <1>1, <1>2, RoomStep
<1> QED
  BY <1>2, <1>3, <1>4 DEF AllInv

(* A queue that takes what is lost, accepted and pinged, and one message   *)
(* more, never refuses a message on a prompt line.                         *)
THEOREM QueuesHaveRoom ==
  ASSUME Ample
  PROVE  Spec => []Room
<1>1. Init => AllInv
  BY AllInit
<1>2. AllInv /\ [Next]_vars => AllInv'
  BY AllStep
<1>3. AllInv => Room
  BY RoomBound DEF AllInv
<1> QED
  BY <1>1, <1>2, <1>3, PTL DEF Spec

(* While fewer messages are lost than a packet is sent times, main_task is *)
(* called and messages arrive before the holdoff passes, and the queues    *)
(* are ample, main_task gives no packet up.                                *)
THEOREM PromptGivesNoneUp ==
  ASSUME Ample
  PROVE  Spec => []NoneGivenUp
<1>1. Init => AllInv
  BY AllInit
<1>2. AllInv /\ [Next]_vars => AllInv'
  BY AllStep
<1>3. AllInv => NoneGivenUp
  BY DEF AllInv, PromptInv, Prompt, PromptPeer, NoneGivenUp
<1> QED
  BY <1>1, <1>2, <1>3, PTL DEF Spec

LEMMA SeenTick ==
  ASSUME KInv, Prompt, scene.regime = "prompt", RetriesMax > 0, Tick,
         NEW p \in scene.pinging, is_peer_alive(p)
  PROVE  last_received'[p] < AliveFor(p)
<1> DEFINE list == packet_list[p]
           silence == last_received[p]
           base == (RetriesMax - 1) * RetryHoldoff
<1>1. p \in Peers /\ SilenceOK(list, silence, last_transmitted[p])
  BY SceneIs DEF KInv, Prompt, PromptPeer
<1>2. /\ line[p] = << >> /\ line[Other(p)] = << >>
      /\ \A i \in 1 .. Len(list) : list[i].age < RetryHoldoff
      /\ list = << >> => last_transmitted[p] < PingHoldoff
  BY <1>1, TickWhen
<1>3. /\ silence \in Nat /\ last_received'[p] \in Nat /\ last_received'[p] <= silence + 1
      /\ last_transmitted[p] \in Nat
  BY <1>1, SilenceGrows
<1>4. /\ base \in Nat /\ AliveFor(p) = PingHoldoff + base + RetryHoldoff
      /\ PingHoldoff \in Nat /\ RetryHoldoff \in Nat /\ RetryHoldoff > 0
  <2>1. RetriesMax - 1 \in Nat /\ (RetriesMax - 1) + 1 = RetriesMax
    BY KissAssumption
  <2>2. base \in Nat /\ RetriesMax * RetryHoldoff = base + RetryHoldoff
    BY <2>1, Times
  <2>3. AliveFor(p) = PingHoldoff + RetryHoldoff * RetriesMax
    BY DEF AliveFor
  <2>4. RetryHoldoff * RetriesMax = RetriesMax * RetryHoldoff
    BY KissAssumption
  <2> HIDE DEF base
  <2> QED
    BY <2>2, <2>3, <2>4, KissAssumption
<1>5. silence + 1 <= PingHoldoff + base + RetryHoldoff - 1
  <2>1. CASE list = << >> /\ silence <= last_transmitted[p]
    <3> HIDE DEF base, silence
    <3> QED
      BY <2>1, <1>2, <1>3, <1>4
  <2>2. CASE \E i \in 1 .. Len(list) : silence <= Allows(list[i].retries, list[i].age)
    <3>1. PICK i \in 1 .. Len(list) : silence <= Allows(list[i].retries, list[i].age)
      BY <2>2
    <3>2. list[i].retries < RetriesMax
      BY <1>1, <1>2, NoDrop
    <3>3. list[i].retries \in Nat \ {0} /\ list[i].age \in Nat /\ list[i].age < RetryHoldoff
      BY <1>1, <1>2, ListIs, EntryIs, SendsIs, KissAssumption, SMTT(30)
    <3> DEFINE r == list[i].retries - 1
    <3>4. r \in Nat /\ r + 1 \in Nat /\ r + 1 <= RetriesMax - 1 /\ RetriesMax - 1 \in Nat
      BY <3>2, <3>3, KissAssumption
    <3>5. r * RetryHoldoff \in Nat /\ r * RetryHoldoff + RetryHoldoff <= base
      <4>1. (r + 1) * RetryHoldoff <= base
        BY <3>4, Times
      <4> QED
        BY <4>1, <3>4, Times
    <3>6. silence <= PingHoldoff + r * RetryHoldoff + list[i].age
      BY <3>1 DEF Allows
    <3> DEFINE t == r * RetryHoldoff
               age == list[i].age
    <3>7. t \in Nat /\ t + RetryHoldoff <= base /\ silence <= PingHoldoff + t + age /\ age \in Nat
          /\ age < RetryHoldoff
      BY <3>3, <3>5, <3>6
    <3> HIDE DEF t, age, base, silence
    <3> QED
      BY <3>7, <1>3, <1>4
  <2> QED
    BY <2>1, <2>2, <1>1 DEF SilenceOK
<1> HIDE DEF base, silence
<1> QED
  BY <1>3, <1>4, <1>5

LEMMA SeenStep ==
  ASSUME KInv, PromptInv, RetriesMax > 0, [Next]_vars, scene.regime = "prompt",
         NEW p \in scene.pinging, is_peer_alive(p)
  PROVE  is_peer_alive(p)'
<1>1. scene' = scene
  BY DEF Next, transmit, receive, main_task, Begin, Pass, Retransmit, Drop, End, Lose, Tick, vars
<1>2. p \in Peers /\ AliveFor(p)' = AliveFor(p) /\ last_received \in [Peers -> Nat]
  BY <1>1, SceneIs DEF KInv, TypeOK, AliveFor
<1> SUFFICES last_received'[p] < AliveFor(p)
  BY <1>2 DEF is_peer_alive
<1>3. CASE Tick
  BY <1>3, SeenTick DEF PromptInv
<1>4. CASE last_received'[p] = last_received[p]
  BY <1>4 DEF is_peer_alive
<1>5. CASE \E q \in Peers : receive(q)
  <2>1. last_received'[p] \in {0, last_received[p]}
    BY <1>2, <1>5 DEF receive
  <2>2. 0 < AliveFor(p)
    <3>1. RetryHoldoff * RetriesMax \in Nat /\ PingHoldoff \in Nat \ {0}
      BY KissAssumption
    <3>2. AliveFor(p) = PingHoldoff + RetryHoldoff * RetriesMax
      BY DEF AliveFor
    <3> QED
      BY <3>1, <3>2
  <2> QED
    BY <2>1, <2>2 DEF is_peer_alive
<1> QED
  BY <1>3, <1>4, <1>5
  DEF Next, transmit, main_task, Begin, Pass, Retransmit, Drop, End, Lose, vars, peerVars

(* Then a peer that pings, once it has heard the other, never takes it for *)
(* dead, if packets are sent again at all.                                 *)
THEOREM PromptSeesAlive ==
  ASSUME Ample, RetriesMax > 0
  PROVE  Spec => AliveIsSeen
<1> DEFINE Seen == \A p \in scene.pinging :
                     scene.regime = "prompt" /\ is_peer_alive(p) => is_peer_alive(p)'
<1>1. Init => AllInv
  BY AllInit
<1>2. AllInv /\ [Next]_vars => AllInv'
  BY AllStep
<1>3. AllInv /\ [Next]_vars => [Seen]_vars
  BY SeenStep DEF AllInv
<1> QED
  BY <1>1, <1>2, <1>3, PTL DEF Spec, AliveIsSeen
=============================================================================
