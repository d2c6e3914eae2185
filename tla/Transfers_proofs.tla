-------------------------- MODULE Transfers_proofs --------------------------
(***************************************************************************)
(* Theorems about Transfers, for any number of peers, transfers, fragments *)
(* and ids.                                                                *)
(***************************************************************************)
EXTENDS Transfers, WellFoundedInduction, TLAPS

Types ==
  /\ transfers \in Seq(Transfer) /\ transmitted \in Seq(Transfer)
  /\ id_count \in Nat /\ objects \in Nat
  /\ created \in Seq([peer : Peers, id : 0 .. IdMod - 1, object : 1 .. objects])
  /\ held \subseteq DOMAIN created
  /\ completed \in Seq(1 .. objects)
  /\ acked \subseteq [source : Peers, id : 1 .. IdMod - 1]
  /\ itr \in {0, 1} /\ running \in BOOLEAN

(* Ids follow one another, from the last one back.                         *)
IdsFollow ==
  /\ \A i \in DOMAIN created : created[i].id \in 1 .. IdMod - 1
  /\ created # << >> => created[Len(created)].id = id_count % IdMod
  /\ \A i, j \in DOMAIN created :
       i < j /\ j - i < IdMod - 1 =>
         \/ created[j].id = created[i].id + (j - i)
         \/ created[j].id = created[i].id + (j - i) - (IdMod - 1)

(* An object id names one transfer: of the user's, and of those it         *)
(* transmitted.                                                            *)
ObjectsApart ==
  /\ \A i, j \in DOMAIN created : created[i].object = created[j].object => i = j
  /\ \A i, j \in DOMAIN transmitted :
       transmitted[i].object = transmitted[j].object => i = j
  /\ \A i \in DOMAIN transmitted :
       transmitted[i].object \in 1 .. objects /\ transmitted[i].purpose = "OUTGOING"
  /\ \A k \in DOMAIN created : Moved(k) <=> k \notin held

(* What is outgoing in the list was transmitted, in the list's order.      *)
Listed ==
  /\ \A i \in DOMAIN transfers :
       IF transfers[i].purpose = "OUTGOING"
         THEN \E a \in DOMAIN transmitted : transmitted[a] = transfers[i]
         ELSE transfers[i].object = 0
  /\ \A i, j \in DOMAIN transfers, a, b \in DOMAIN transmitted :
       i < j /\ transfers[i] = transmitted[a] /\ transfers[j] = transmitted[b] => a < b

(* What was completed was transmitted, and is completed once.              *)
Completions ==
  /\ \A i \in DOMAIN completed :
       \E a \in DOMAIN transmitted : transmitted[a].object = completed[i]
  /\ \A i, j \in DOMAIN completed : completed[i] = completed[j] => i = j
  /\ \A a \in DOMAIN transmitted :
       LET o == transmitted[a]
       IN  /\ WasCompleted(o.object) <=> ~IsListed(o.object)
           /\ WasCompleted(o.object) => [source |-> o.peer, id |-> o.id] \in acked

(* The inductive invariant.                                                *)
TInv == /\ Types /\ OneTransferPerId /\ IdsFollow /\ ObjectsApart
        /\ Listed /\ Completions /\ OldestFirst

-----------------------------------------------------------------------------
(* Arithmetic, and lists.                                                  *)

LEMMA Constants ==
  /\ IdMod \in Nat /\ IdMod > 1 /\ IndexMod \in Nat /\ IndexMod > 1
  /\ Sizes \subseteq Nat /\ Chunks \subseteq Nat
BY TransfersAssumption DEF TransfersAssumption

(* Quotient and remainder are the only ones that fit.                      *)
LEMMA DivMod ==
  ASSUME NEW n \in Nat, NEW m \in Nat, m > 0
  PROVE  n = m * (n \div m) + (n % m) /\ n \div m \in Int /\ n % m \in 0 .. m - 1
BY SMT

LEMMA Multiple ==
  ASSUME NEW k \in Int, NEW m \in Nat
  PROVE  /\ k >= 1 => k * m >= m
         /\ k <= -1 => k * m <= -m
<1>1. ASSUME k >= 1 PROVE k * m >= m
  BY <1>1, SMT
<1>2. ASSUME k <= -1 PROVE k * m <= -m
  BY <1>2, SMT
<1> QED
  BY <1>1, <1>2

LEMMA RemainderUnique ==
  ASSUME NEW m \in Nat, m > 0, NEW q \in Int, NEW r \in 0 .. m - 1,
         NEW p \in Int, NEW s \in 0 .. m - 1, m * q + r = m * p + s
  PROVE  r = s
<1>1. (q - p) * m = s - r /\ q - p \in Int
  BY SMT
<1>2. CASE q - p >= 1
  <2>1. (q - p) * m >= m
    BY <1>1, <1>2, Multiple
  <2> QED
    BY <1>1, <2>1, SMT
<1>3. CASE q - p <= -1
  <2>1. (q - p) * m <= -m
    BY <1>1, <1>3, Multiple
  <2> QED
    BY <1>1, <2>1, SMT
<1>4. CASE q = p
  BY <1>4, SMT
<1> QED
  BY <1>2, <1>3, <1>4, SMT

LEMMA NextRemainder ==
  ASSUME NEW n \in Nat, NEW m \in Nat, m > 1
  PROVE  (n + 1) % m = IF n % m = m - 1 THEN 0 ELSE (n % m) + 1
<1> DEFINE q == n \div m
           r == n % m
           p == (n + 1) \div m
           s == (n + 1) % m
<1>1. n = m * q + r /\ q \in Int /\ r \in 0 .. m - 1
  BY DivMod
<1>2. n + 1 = m * p + s /\ p \in Int /\ s \in 0 .. m - 1
  <2>1. n + 1 \in Nat /\ m > 0
    BY SMT
  <2> QED
    BY <2>1, DivMod
<1> HIDE DEF q, r, p, s
<1>3. CASE r # m - 1
  <2>1. r + 1 \in 0 .. m - 1 /\ m * q + (r + 1) = m * p + s
    BY <1>1, <1>2, <1>3, SMT
  <2>2. r + 1 = s
    BY <2>1, <1>1, <1>2, RemainderUnique
  <2> QED
    BY <2>2, <1>3 DEF r, s
<1>4. CASE r = m - 1
  <2>1. m * (q + 1) + 0 = m * p + s
    BY <1>1, <1>2, <1>4, SMT
  <2>2. q + 1 \in Int /\ 0 \in 0 .. m - 1 /\ m > 0
    BY <1>1, SMT
  <2>3. 0 = s
    BY <2>1, <2>2, <1>2, RemainderUnique
  <2> QED
    BY <2>3, <1>4 DEF r, s
<1> QED
  BY <1>3, <1>4

(* The id after n's: one more, and 1 after the last.                       *)
LEMMA IncrementIs ==
  ASSUME NEW n \in Nat
  PROVE  /\ increment_id(n) \in Nat
         /\ n % IdMod \in 0 .. IdMod - 1
         /\ increment_id(n) % IdMod =
              IF n % IdMod = IdMod - 1 THEN 1 ELSE (n % IdMod) + 1
<1> DEFINE m == IdMod
           r == n % m
           s == (n + 1) % m
           t == (n + 1 + 1) % m
<1>1. m \in Nat /\ m > 1 /\ m > 0
  <2>1. m \in Nat /\ m > 1
    BY Constants
  <2> QED
    BY <2>1, SMT
<1>2. r \in 0 .. m - 1
  BY <1>1, DivMod
<1>3. s = IF r = m - 1 THEN 0 ELSE r + 1
  BY <1>1, NextRemainder
<1>4. t = IF s = m - 1 THEN 0 ELSE s + 1
  <2>1. n + 1 \in Nat
    BY SMT
  <2> QED
    BY <1>1, <2>1, NextRemainder
<1>5. increment_id(n) = IF s = 0 THEN n + 1 + 1 ELSE n + 1
  BY SMT DEF increment_id
<1>6. increment_id(n) % m = IF s = 0 THEN t ELSE s
  BY <1>5
<1> HIDE DEF m, r, s, t
<1>7. (IF s = 0 THEN t ELSE s) = IF r = m - 1 THEN 1 ELSE r + 1
  BY <1>1, <1>2, <1>3, <1>4, SMT
<1>8. increment_id(n) \in Nat
  BY <1>5, SMT
<1> QED
  BY <1>2, <1>6, <1>7, <1>8 DEF m, r

(* Where the next id stands to the last one, and to an earlier one.        *)
LEMMA NextId ==
  ASSUME NEW m \in Nat, m > 1, NEW x \in 0 .. m - 1,
         NEW y, y = IF x = m - 1 THEN 1 ELSE x + 1
  PROVE  y \in 1 .. m - 1 /\ (y = x + 1 \/ y = x + 1 - (m - 1))
BY SMT

LEMMA LaterId ==
  ASSUME NEW m \in Nat, m > 1, NEW w \in 1 .. m - 1, NEW z \in 1 .. m - 1,
         NEW y, y = IF z = m - 1 THEN 1 ELSE z + 1,
         NEW d \in Nat, d < m - 1, z = w + (d - 1) \/ z = w + (d - 1) - (m - 1)
  PROVE  y = w + d \/ y = w + d - (m - 1)
BY SMT

(* A set of positions that is not empty has a first one.                   *)
LEMMA FirstOfIs ==
  ASSUME NEW S \in SUBSET Nat, S # {}
  PROVE  FirstOf(S) \in S /\ \A j \in S : FirstOf(S) <= j
<1> DEFINE R == OpToRel(<, Nat)
<1>1. IsWellFoundedOn(R, Nat)
  BY NatLessThanWellFounded
<1>2. \A x, y \in Nat : x < y => <<x, y>> \in R
  BY DEF OpToRel
<1> HIDE DEF R
<1>3. PICK i \in S : \A j \in S : ~(<<j, i>> \in R)
  BY <1>1, WFMin
<1>4. \A j \in S : ~(j < i)
  BY <1>2, <1>3
<1>5. \A j \in S : i <= j
  BY <1>4, SMT
<1> QED
  BY <1>5 DEF FirstOf

(* erase: one element shorter, the rest in order.                          *)
LEMMA WithoutIs ==
  ASSUME NEW S, NEW s \in Seq(S), NEW i \in DOMAIN s
  PROVE  /\ Without(s, i) \in Seq(S)
         /\ DOMAIN Without(s, i) = 1 .. Len(s) - 1
         /\ \A j \in 1 .. Len(s) - 1 :
              Without(s, i)[j] = IF j < i THEN s[j] ELSE s[j + 1]
<1> DEFINE w == Without(s, i)
<1>1. Len(s) \in Nat /\ DOMAIN s = 1 .. Len(s) /\ Len(s) - 1 \in Nat
  BY SMT
<1>2. \A j \in 1 .. Len(s) - 1 : j \in DOMAIN s /\ j + 1 \in DOMAIN s
  BY <1>1, SMT
<1>3. w = [j \in 1 .. Len(s) - 1 |-> IF j < i THEN s[j] ELSE s[j + 1]]
  BY DEF Without
<1>4. \A j \in 1 .. Len(s) - 1 : (IF j < i THEN s[j] ELSE s[j + 1]) \in S
  BY <1>1, <1>2, SMT
<1>5. w \in Seq(S)
  BY <1>1, <1>3, <1>4, SMT
<1> QED
  BY <1>1, <1>3, <1>5, SMT

(* Appending leaves what is there.                                         *)
LEMMA AppendIs ==
  ASSUME NEW S, NEW s \in Seq(S), NEW x \in S
  PROVE  /\ Append(s, x) \in Seq(S)
         /\ DOMAIN s = 1 .. Len(s) /\ Len(s) \in Nat
         /\ Len(Append(s, x)) = Len(s) + 1
         /\ DOMAIN Append(s, x) = 1 .. Len(s) + 1
         /\ \A i \in 1 .. Len(s) : Append(s, x)[i] = s[i]
         /\ Append(s, x)[Len(s) + 1] = x
BY SMT

(* A sequence over a set is one over a larger set.                         *)
LEMMA SeqWidens ==
  ASSUME NEW S, NEW T, S \subseteq T, NEW s \in Seq(S)
  PROVE  s \in Seq(T)
BY SMT

-----------------------------------------------------------------------------
(* What a step that leaves a group of variables alone leaves true.         *)

LEMMA ListUnchanged ==
  ASSUME UNCHANGED <<transfers, transmitted, completed, acked>>
  PROVE  /\ OneTransferPerId => OneTransferPerId'
         /\ Listed => Listed'
         /\ Completions => Completions'
         /\ OldestFirst => OldestFirst'
<1>1. \A o : (WasCompleted(o)' <=> WasCompleted(o)) /\ (IsListed(o)' <=> IsListed(o))
  BY DEF WasCompleted, IsListed
<1>2. OneTransferPerId => OneTransferPerId'
  BY DEF OneTransferPerId, Key
<1>3. Listed => Listed'
  BY DEF Listed
<1>4. Completions => Completions'
  BY <1>1 DEF Completions
<1>5. OldestFirst => OldestFirst'
  BY <1>1 DEF OldestFirst, Key
<1> QED
  BY <1>2, <1>3, <1>4, <1>5

LEMMA UserUnchanged ==
  ASSUME UNCHANGED <<id_count, objects, created, held, transmitted>>
  PROVE  /\ IdsFollow => IdsFollow'
         /\ ObjectsApart => ObjectsApart'
<1>1. IdsFollow => IdsFollow'
  BY DEF IdsFollow
<1>2. ObjectsApart => ObjectsApart'
  BY DEF ObjectsApart, Moved
<1> QED
  BY <1>1, <1>2

LEMMA AllUnchanged == TInv /\ UNCHANGED vars => TInv'
<1> SUFFICES ASSUME TInv, UNCHANGED vars PROVE TInv'
  OBVIOUS
<1>1. UNCHANGED <<transfers, transmitted, completed, acked>>
      /\ UNCHANGED <<id_count, objects, created, held, transmitted>>
      /\ UNCHANGED <<itr, running>>
  BY DEF vars, userVars
<1>2. Types'
  BY <1>1 DEF TInv, Types
<1> QED
  BY <1>1, <1>2, ListUnchanged, UserUnchanged DEF TInv

-----------------------------------------------------------------------------

LEMMA InitTInv == Init => TInv
<1> SUFFICES ASSUME Init PROVE TInv
  OBVIOUS
<1>1. /\ DOMAIN transfers = {} /\ DOMAIN created = {}
      /\ DOMAIN transmitted = {} /\ DOMAIN completed = {}
  BY SMT DEF Init
<1>2. Types
  BY SMT DEF Init, Types
<1>3. OneTransferPerId /\ IdsFollow /\ Listed /\ OldestFirst
  BY <1>1 DEF Init, OneTransferPerId, IdsFollow, Listed, OldestFirst
<1>4. ObjectsApart /\ Completions
  BY <1>1 DEF ObjectsApart, Completions
<1> QED
  BY <1>2, <1>3, <1>4 DEF TInv

(* A transfer is created: its ids follow on the last ones.                 *)
LEMMA CreateKeeps == TInv /\ create => TInv'
<1> SUFFICES ASSUME TInv, create PROVE TInv'
  OBVIOUS
<1> USE DEF TInv
<1> DEFINE C == [peer : Peers, id : 0 .. IdMod - 1, object : 1 .. objects]
           D == [peer : Peers, id : 0 .. IdMod - 1, object : 1 .. objects + 1]
           n == Len(created)
<1>1. /\ id_count' = increment_id(id_count) /\ objects' = objects + 1
      /\ held' = held \union {n + 1}
      /\ UNCHANGED <<transfers, transmitted, completed, acked, itr, running>>
  BY DEF create, new_id
<1>2. PICK peer \in Peers :
        created' = Append(created, [peer |-> peer, id |-> id_count' % IdMod, object |-> objects'])
  BY DEF create
<1> DEFINE c == [peer |-> peer, id |-> id_count' % IdMod, object |-> objects']
<1>3. /\ id_count \in Nat /\ objects \in Nat /\ created \in Seq(C)
      /\ held \subseteq DOMAIN created /\ completed \in Seq(1 .. objects)
  BY DEF Types
<1>4. IdMod \in Nat /\ IdMod > 1
  BY Constants
<1>5. /\ id_count' \in Nat /\ id_count % IdMod \in 0 .. IdMod - 1
      /\ id_count' % IdMod = IF id_count % IdMod = IdMod - 1 THEN 1 ELSE (id_count % IdMod) + 1
  BY <1>1, <1>3, IncrementIs
<1>6. /\ id_count' % IdMod \in 1 .. IdMod - 1
      /\ \/ id_count' % IdMod = (id_count % IdMod) + 1
         \/ id_count' % IdMod = (id_count % IdMod) + 1 - (IdMod - 1)
  BY <1>4, <1>5, NextId
<1>7. c \in D /\ c.id = id_count' % IdMod /\ c.object = objects + 1
  <2>1. c.id \in 0 .. IdMod - 1 /\ objects + 1 \in 1 .. objects + 1
    BY <1>3, <1>4, <1>6, SMT
  <2> QED
    BY <2>1, <1>1
<1>8. C \subseteq D /\ 1 .. objects \subseteq 1 .. objects + 1
  <2>1. 1 .. objects \subseteq 1 .. objects + 1
    BY <1>3, SMT
  <2> QED
    BY <2>1
<1>9. created' = Append(created, c)
  BY <1>2
<1> HIDE DEF c
<1>10. /\ created \in Seq(D) /\ created' \in Seq(D) /\ n \in Nat
       /\ DOMAIN created = 1 .. n /\ DOMAIN created' = 1 .. n + 1
       /\ Len(created') = n + 1 /\ created'[n + 1] = c
       /\ \A i \in 1 .. n : created'[i] = created[i] /\ created[i] \in C
  <2> HIDE DEF C, D
  <2>1. created \in Seq(D)
    BY <1>3, <1>8, SeqWidens
  <2>2. \A i \in 1 .. n : created[i] \in C
    BY <1>3, SMT
  <2> QED
    BY <1>7, <1>9, <2>1, <2>2, AppendIs
<1>11. \A i \in 1 .. n : created[i].object <= objects /\ created[i].id \in 1 .. IdMod - 1
  <2>1. \A i \in 1 .. n : created[i].object \in 1 .. objects
    BY <1>10
  <2>2. \A o \in 1 .. objects : o <= objects
    BY <1>3, SMT
  <2>3. \A i \in 1 .. n : created[i].id \in 1 .. IdMod - 1
    BY <1>10 DEF IdsFollow
  <2> QED
    BY <2>1, <2>2, <2>3
<1>12. Types'
  <2>1. created' \in Seq([peer : Peers, id : 0 .. IdMod - 1, object : 1 .. objects'])
    BY <1>1, <1>10
  <2>2. completed' \in Seq(1 .. objects')
    <3> DEFINE S == 1 .. objects
               T == 1 .. objects + 1
    <3>1. S \subseteq T /\ completed \in Seq(S)
      BY <1>3, <1>8
    <3> HIDE DEF S, T
    <3>2. completed \in Seq(T)
      BY <3>1, SeqWidens
    <3> QED
      BY <3>2, <1>1 DEF T
  <2>3. held' \subseteq DOMAIN created' /\ objects' \in Nat
    <3>1. 1 .. n \subseteq 1 .. n + 1 /\ n + 1 \in 1 .. n + 1 /\ objects + 1 \in Nat
      BY <1>3, <1>10, SMT
    <3> QED
      BY <1>1, <1>3, <1>10, <3>1
  <2> QED
    BY <1>1, <1>5, <2>1, <2>2, <2>3 DEF Types
<1>13. IdsFollow'
  <2>1. \A i \in DOMAIN created' : created'[i].id \in 1 .. IdMod - 1
    <3>1. \A i \in 1 .. n + 1 : i \in 1 .. n \/ i = n + 1
      BY <1>10, SMT
    <3> QED
      BY <3>1, <1>6, <1>7, <1>10, <1>11
  <2>2. created'[Len(created')].id = id_count' % IdMod
    BY <1>7, <1>10
  <2>3. ASSUME NEW i \in DOMAIN created', NEW j \in DOMAIN created',
               i < j, j - i < IdMod - 1
        PROVE  \/ created'[j].id = created'[i].id + (j - i)
               \/ created'[j].id = created'[i].id + (j - i) - (IdMod - 1)
    <3> HIDE DEF C, D, n
    <3>0. /\ i \in 1 .. n /\ i \in Nat /\ j \in Nat /\ n \in 1 .. n /\ j - i \in Nat
          /\ j \in 1 .. n \/ j = n + 1
      BY <1>10, <2>3, SMT
    <3>1. CASE j \in 1 .. n
      BY <3>0, <3>1, <1>10, <2>3 DEF IdsFollow
    <3>2. CASE j = n + 1
      <4> DEFINE m == IdMod
                 x == id_count % IdMod
                 y == id_count' % IdMod
                 z == created[n].id
                 w == created[i].id
                 d == j - i
      <4>1. z = x
        <5>1. created # << >>
          BY <3>0, <1>10, SMT
        <5> QED
          BY <5>1 DEF IdsFollow, n
      <4>2. created'[j].id = y /\ created'[i].id = w
        BY <1>7, <1>10, <3>0, <3>2
      <4>3. /\ m \in Nat /\ m > 1 /\ w \in 1 .. m - 1 /\ z \in 1 .. m - 1
            /\ y = IF z = m - 1 THEN 1 ELSE z + 1
        BY <4>1, <3>0, <1>4, <1>5, <1>11
      <4>4. i # n => z = w + (n - i) \/ z = w + (n - i) - (m - 1)
        <5>1. i # n => i < n /\ n - i < IdMod - 1
          BY <3>0, <3>2, <2>3, <1>4, <1>10, SMT
        <5> QED
          BY <5>1, <3>0, <1>10 DEF IdsFollow
      <4>5. d \in Nat /\ d < m - 1 /\ n - i = d - 1
        BY <3>0, <3>2, <2>3, <1>10, SMT
      <4>6. i = n => z = w
        OBVIOUS
      <4> HIDE DEF m, x, y, z, w
      <4>7. z = w + (d - 1) \/ z = w + (d - 1) - (m - 1)
        <5>1. CASE i = n
          BY <5>1, <4>3, <4>5, <4>6, <1>10, SMT
        <5>2. CASE i # n
          BY <5>2, <4>4, <4>5
        <5> QED
          BY <5>1, <5>2
      <4> HIDE DEF d
      <4>8. y = w + d \/ y = w + d - (m - 1)
        BY <4>3, <4>5, <4>7, LaterId
      <4> QED
        BY <4>2, <4>8 DEF m, d
    <3> QED
      BY <3>0, <3>1, <3>2
  <2> QED
    BY <2>1, <2>2, <2>3 DEF IdsFollow
<1>14. ObjectsApart'
  <2>1. \A i, j \in DOMAIN created' : created'[i].object = created'[j].object => i = j
    <3> HIDE DEF C, D, n
    <3>1. ASSUME NEW i \in 1 .. n, NEW j \in 1 .. n, created[i].object = created[j].object
          PROVE  i = j
      BY <3>1, <1>10 DEF ObjectsApart
    <3>2. \A i \in 1 .. n : created[i].object # objects + 1
      BY <1>3, <1>10, <1>11, SMT
    <3>3. \A i \in 1 .. n + 1 : i \in 1 .. n \/ i = n + 1
      BY <1>10, SMT
    <3> QED
      BY <3>1, <3>2, <3>3, <1>7, <1>10
  <2>2. \A i \in DOMAIN transmitted : transmitted[i].object \in 1 .. objects'
    BY <1>1, <1>8 DEF ObjectsApart
  <2>3. \A k \in 1 .. n : Moved(k)' <=> Moved(k)
    BY <1>1, <1>10 DEF Moved
  <2>4. \A k : k = n + 1 => ~Moved(k)'
    <3>1. \A i \in DOMAIN transmitted : transmitted[i].object # objects + 1
      <4>1. \A o \in 1 .. objects : o # objects + 1
        BY <1>3, SMT
      <4> QED
        BY <4>1 DEF ObjectsApart
    <3> QED
      BY <3>1, <1>1, <1>7, <1>10 DEF Moved
  <2>5. ASSUME NEW k \in DOMAIN created' PROVE Moved(k)' <=> k \notin held'
    <3>1. CASE k \in 1 .. n
      <4>1. (k \in held') <=> (k \in held)
        <5>1. k # n + 1
          BY <3>1, <1>10, SMT
        <5> QED
          BY <5>1, <1>1
      <4>2. Moved(k) <=> k \notin held
        BY <3>1, <1>10 DEF ObjectsApart
      <4> QED
        BY <4>1, <4>2, <2>3, <3>1
    <3>2. CASE k = n + 1
      BY <3>2, <2>4, <1>1
    <3> QED
      BY <3>1, <3>2, <1>10, SMT
  <2> QED
    BY <2>1, <2>2, <2>5, <1>1 DEF ObjectsApart
<1> QED
  BY <1>1, <1>12, <1>13, <1>14, ListUnchanged

(* A transfer is put into the list: its object id is none of those there.  *)
LEMMA TransmitKeeps == TInv /\ transmit => TInv'
<1> SUFFICES ASSUME TInv, transmit PROVE TInv'
  OBVIOUS
<1> USE DEF TInv
<1> DEFINE n == Len(transmitted)
           l == Len(transfers)
<1>1. PICK k \in held, moved \in BOOLEAN, chunks \in Chunks :
        LET t == created[k]
            o == Outgoing(t.peer, t.id, FragmentsTotal(chunks), HandedOver(t.object, moved))
        IN  /\ transfers' = Append(transfers, o)
            /\ transmitted' = Append(transmitted, o)
            /\ objects' = (IF moved THEN objects ELSE objects + 1)
            /\ held' = (IF moved THEN held \ {k} ELSE held)
  BY DEF transmit
<1>2. UNCHANGED <<id_count, created, completed, acked, itr, running>>
  BY DEF transmit
<1> DEFINE o == Outgoing(created[k].peer, created[k].id, FragmentsTotal(chunks),
                         HandedOver(created[k].object, moved))
<1>3. /\ transfers' = Append(transfers, o) /\ transmitted' = Append(transmitted, o)
      /\ objects' = (IF moved THEN objects ELSE objects + 1)
      /\ held' = (IF moved THEN held \ {k} ELSE held)
  BY <1>1
<1>4. objects \in Nat /\ objects' \in Nat /\ 1 .. objects \subseteq 1 .. objects'
  <2>1. objects \in Nat
    BY DEF Types
  <2> QED
    BY <1>3, <2>1, SMT
<1>5. /\ k \in DOMAIN created /\ created[k].peer \in Peers
      /\ created[k].id \in 0 .. IdMod - 1 /\ created[k].object \in 1 .. objects
  <2> DEFINE C == [peer : Peers, id : 0 .. IdMod - 1, object : 1 .. objects]
  <2>1. created \in Seq(C) /\ k \in DOMAIN created
    BY DEF Types
  <2> HIDE DEF C
  <2>2. created[k] \in C
    BY <2>1, SMT
  <2> QED
    BY <2>1, <2>2 DEF C
<1>6. /\ o.purpose = "OUTGOING" /\ o.peer = created[k].peer /\ o.id = created[k].id
      /\ o.object = (IF moved THEN created[k].object ELSE objects + 1)
  BY DEF Outgoing, HandedOver
<1>7. o \in Transfer
  <2>1. FragmentsTotal(chunks) \in 0 .. IndexMod - 1
    <3>1. IndexMod \in Nat /\ IndexMod > 0 /\ chunks \in Nat
      BY Constants, SMT
    <3> QED
      BY <3>1, DivMod DEF FragmentsTotal
  <2>2. HandedOver(created[k].object, moved) \in Nat /\ 0 \in Nat
    BY <1>4, <1>5, SMT DEF HandedOver
  <2> QED
    BY <1>5, <2>1, <2>2 DEF Outgoing, Transfer
<1>8. o.object \in 1 .. objects' /\ o.object # 0
  BY <1>3, <1>4, <1>5, <1>6, SMT
<1>9. \A a \in DOMAIN transmitted : transmitted[a].object # o.object
  <2>1. \A a \in DOMAIN transmitted : transmitted[a].object \in 1 .. objects
    BY DEF ObjectsApart
  <2>2. \A x \in 1 .. objects : x # objects + 1
    BY <1>4, SMT
  <2>3. ~Moved(k)
    BY <1>5 DEF ObjectsApart
  <2> QED
    BY <1>6, <2>1, <2>2, <2>3 DEF Moved
<1> HIDE DEF o
<1>10. /\ transfers' \in Seq(Transfer) /\ transmitted' \in Seq(Transfer)
       /\ n \in Nat /\ l \in Nat
       /\ DOMAIN transfers = 1 .. l /\ DOMAIN transfers' = 1 .. l + 1
       /\ DOMAIN transmitted = 1 .. n /\ DOMAIN transmitted' = 1 .. n + 1
       /\ transfers'[l + 1] = o /\ transmitted'[n + 1] = o
       /\ \A i \in 1 .. l : transfers'[i] = transfers[i]
       /\ \A a \in 1 .. n : transmitted'[a] = transmitted[a]
  <2>1. transfers \in Seq(Transfer) /\ transmitted \in Seq(Transfer)
    BY DEF Types
  <2> QED
    BY <1>3, <1>7, <2>1, AppendIs
<1> HIDE DEF n, l
<1>11. /\ \A i \in 1 .. l + 1 : i \in 1 .. l \/ i = l + 1
       /\ \A i \in 1 .. l : i \in 1 .. l + 1
       /\ \A a \in 1 .. n + 1 : a \in 1 .. n \/ a = n + 1
       /\ \A a \in 1 .. n : a \in 1 .. n + 1 /\ a < n + 1 /\ a # n + 1
       /\ l + 1 \in 1 .. l + 1 /\ n + 1 \in 1 .. n + 1
  BY <1>10, SMT
<1>12. \A i \in 1 .. l : transfers[i].object # o.object
  BY <1>8, <1>9, <1>10 DEF Listed
<1>13. \A x : WasCompleted(x)' <=> WasCompleted(x)
  BY <1>2 DEF WasCompleted
<1>14. ~WasCompleted(o.object)
  BY <1>9 DEF Completions, WasCompleted
<1>15. Types'
  <2>1. created' \in Seq([peer : Peers, id : 0 .. IdMod - 1, object : 1 .. objects'])
    <3> DEFINE C == [peer : Peers, id : 0 .. IdMod - 1, object : 1 .. objects]
               D == [peer : Peers, id : 0 .. IdMod - 1, object : 1 .. objects']
    <3>1. C \subseteq D /\ created \in Seq(C)
      BY <1>4 DEF Types
    <3> HIDE DEF C, D
    <3>2. created \in Seq(D)
      BY <3>1, SeqWidens
    <3> QED
      BY <3>2, <1>2 DEF D
  <2>2. completed' \in Seq(1 .. objects')
    <3> DEFINE S == 1 .. objects
               T == 1 .. objects'
    <3>1. S \subseteq T /\ completed \in Seq(S)
      BY <1>4 DEF Types
    <3> HIDE DEF S, T
    <3>2. completed \in Seq(T)
      BY <3>1, SeqWidens
    <3> QED
      BY <3>2, <1>2 DEF T
  <2>3. held' \subseteq DOMAIN created'
    BY <1>2, <1>3 DEF Types
  <2> QED
    BY <1>2, <1>4, <1>10, <2>1, <2>2, <2>3 DEF Types
<1>16. OneTransferPerId'
  <2>1. o.purpose # "INCOMING"
    BY <1>6
  <2> QED
    BY <1>10, <1>11, <2>1 DEF OneTransferPerId, Key
<1>17. IdsFollow'
  BY <1>2 DEF IdsFollow
<1>18. ObjectsApart'
  <2>1. \A i, j \in DOMAIN transmitted' :
          transmitted'[i].object = transmitted'[j].object => i = j
    BY <1>9, <1>10, <1>11 DEF ObjectsApart
  <2>2. \A i \in DOMAIN transmitted' :
          transmitted'[i].object \in 1 .. objects' /\ transmitted'[i].purpose = "OUTGOING"
    <3>1. \A i \in 1 .. n :
            transmitted[i].object \in 1 .. objects' /\ transmitted[i].purpose = "OUTGOING"
      BY <1>4, <1>10 DEF ObjectsApart
    <3> QED
      BY <3>1, <1>6, <1>8, <1>10, <1>11
  <2>3. ASSUME NEW m \in DOMAIN created PROVE Moved(m)' <=> m \notin held'
    <3>1. Moved(m)' <=> Moved(m) \/ o.object = created[m].object
      BY <1>2, <1>10, <1>11 DEF Moved
    <3>2. Moved(m) <=> m \notin held
      BY DEF ObjectsApart
    <3>3. CASE moved
      <4>1. o.object = created[m].object <=> m = k
        BY <1>5, <1>6, <3>3 DEF ObjectsApart
      <4> QED
        BY <1>3, <3>1, <3>2, <3>3, <4>1
    <3>4. CASE ~moved
      <4>1. created[m].object # objects + 1
        <5>1. created[m].object \in 1 .. objects
          <6> DEFINE C == [peer : Peers, id : 0 .. IdMod - 1, object : 1 .. objects]
          <6>1. created \in Seq(C)
            BY DEF Types
          <6> HIDE DEF C
          <6>2. created[m] \in C
            BY <6>1, SMT
          <6> QED
            BY <6>2 DEF C
        <5> QED
          BY <5>1, <1>4, SMT
      <4> QED
        BY <1>3, <1>6, <3>1, <3>2, <3>4, <4>1
    <3> QED
      BY <3>3, <3>4
  <2> QED
    BY <2>1, <2>2, <2>3, <1>2 DEF ObjectsApart
<1>19. Listed'
  <2>1. ASSUME NEW i \in DOMAIN transfers'
        PROVE  IF transfers'[i].purpose = "OUTGOING"
                 THEN \E a \in DOMAIN transmitted' : transmitted'[a] = transfers'[i]
                 ELSE transfers'[i].object = 0
    <3>1. CASE i = l + 1
      BY <3>1, <1>6, <1>10, <1>11
    <3>2. CASE i \in 1 .. l
      BY <3>2, <1>10, <1>11 DEF Listed
    <3> QED
      BY <3>1, <3>2, <1>10, <1>11
  <2>2. ASSUME NEW i \in DOMAIN transfers', NEW j \in DOMAIN transfers',
               NEW a \in DOMAIN transmitted', NEW b \in DOMAIN transmitted',
               i < j, transfers'[i] = transmitted'[a], transfers'[j] = transmitted'[b]
        PROVE  a < b
    <3>1. i \in 1 .. l
      BY <2>2, <1>10, SMT
    <3>2. a \in 1 .. n
      BY <2>2, <3>1, <1>10, <1>11, <1>12
    <3>3. CASE j \in 1 .. l
      <4>1. b \in 1 .. n
        BY <2>2, <3>3, <1>10, <1>11, <1>12
      <4> QED
        BY <2>2, <3>1, <3>2, <3>3, <4>1, <1>10 DEF Listed
    <3>4. CASE j = l + 1
      <4>1. b = n + 1
        BY <2>2, <3>4, <1>9, <1>10, <1>11
      <4> QED
        BY <3>2, <4>1, <1>11
    <3> QED
      BY <3>3, <3>4, <1>10, <1>11
  <2> QED
    BY <2>1, <2>2 DEF Listed
<1>20. Completions'
  <2>1. \A i \in DOMAIN completed :
          \E a \in DOMAIN transmitted' : transmitted'[a].object = completed[i]
    BY <1>10, <1>11 DEF Completions
  <2>2. \A x : (\E c \in DOMAIN completed' : completed'[c] = x) <=> WasCompleted(x)
    BY <1>2 DEF WasCompleted
  <2>3. ASSUME NEW a \in DOMAIN transmitted'
        PROVE  /\ (\E c \in DOMAIN completed' : completed'[c] = transmitted'[a].object)
                  <=> ~(\E i \in DOMAIN transfers' : transfers'[i].object = transmitted'[a].object)
               /\ (\E c \in DOMAIN completed' : completed'[c] = transmitted'[a].object)
                  => [source |-> transmitted'[a].peer, id |-> transmitted'[a].id] \in acked'
    <3>1. CASE a = n + 1
      <4>1. transmitted'[a] = o /\ transfers'[l + 1] = o /\ l + 1 \in DOMAIN transfers'
        BY <3>1, <1>10, <1>11
      <4>2. ~(\E c \in DOMAIN completed' : completed'[c] = o.object)
        BY <2>2, <1>14
      <4>3. \E i \in DOMAIN transfers' : transfers'[i].object = o.object
        BY <4>1
      <4> QED
        BY <4>1, <4>2, <4>3
    <3>2. CASE a \in 1 .. n
      <4>1. transmitted'[a] = transmitted[a] /\ transmitted[a].object # o.object
        BY <3>2, <1>9, <1>10
      <4> DEFINE x == transmitted[a].object
      <4>2. (\E i \in DOMAIN transfers' : transfers'[i].object = x) <=> IsListed(x)
        BY <4>1, <1>10, <1>11 DEF IsListed
      <4>3. /\ WasCompleted(x) <=> ~IsListed(x)
            /\ WasCompleted(x) => [source |-> transmitted[a].peer, id |-> transmitted[a].id] \in acked
        BY <3>2, <1>10 DEF Completions
      <4>4. (\E c \in DOMAIN completed' : completed'[c] = x) <=> WasCompleted(x)
        BY <2>2
      <4> QED
        BY <4>1, <4>2, <4>3, <4>4, <1>2
    <3> QED
      BY <3>1, <3>2, <1>10, <1>11
  <2>4. \A i, j \in DOMAIN completed' : completed'[i] = completed'[j] => i = j
    BY <1>2 DEF Completions
  <2> QED
    BY <2>1, <2>3, <2>4, <1>2 DEF Completions, WasCompleted, IsListed
<1>21. OldestFirst'
  <2> SUFFICES ASSUME NEW i \in DOMAIN transmitted', NEW j \in DOMAIN transmitted',
                      i < j, Key(transmitted'[i]) = Key(transmitted'[j]),
                      \E c \in DOMAIN completed' : completed'[c] = transmitted'[j].object
               PROVE  \E c \in DOMAIN completed' : completed'[c] = transmitted'[i].object
    BY DEF OldestFirst, WasCompleted, Key
  <2>1. WasCompleted(transmitted'[j].object)
    BY <1>2 DEF WasCompleted
  <2>2. j # n + 1
    BY <2>1, <1>10, <1>14
  <2>3. i \in 1 .. n /\ j \in 1 .. n
    BY <2>2, <1>10, SMT
  <2>4. WasCompleted(transmitted[i].object)
    BY <2>1, <2>3, <1>10 DEF OldestFirst, Key
  <2> QED
    BY <2>3, <2>4, <1>2, <1>10 DEF WasCompleted
<1> QED
  BY <1>15, <1>16, <1>17, <1>18, <1>19, <1>20, <1>21

(* The first fragment of a transfer that is not known.                     *)
LEMMA NewKeeps ==
  ASSUME TInv, NEW source \in Peers, NEW h \in Headers, NEW size \in Sizes \ {0},
         NewIncoming(source, h, size), UNCHANGED <<userVars, objects, itr>>
  PROVE  TInv'
<1> USE DEF TInv
<1> DEFINE t == Incoming(source, h, size)
           l == Len(transfers)
<1>1. /\ PartOf(source, h) = {} /\ transfers' = Append(transfers, t)
      /\ UNCHANGED <<completed, acked, running>>
      /\ UNCHANGED <<id_count, objects, created, held, transmitted, itr>>
  BY DEF NewIncoming, userVars
<1>2. /\ t.purpose = "INCOMING" /\ t.object = 0 /\ Key(t) = <<source, h.id, h.total>>
  BY DEF Incoming, Key
<1>3. t \in Transfer
  <2>1. h.id \in 1 .. IdMod - 1 /\ h.total \in 1 .. IndexMod - 1
    BY DEF Headers
  <2>2. /\ 1 .. IdMod - 1 \subseteq 0 .. IdMod - 1 /\ 0 \in Nat
        /\ 1 .. IndexMod - 1 \subseteq 0 .. IndexMod - 1
    BY Constants, SMT
  <2>3. size \in Nat
    BY Constants
  <2> QED
    BY <2>1, <2>2, <2>3 DEF Incoming, Transfer
<1> HIDE DEF t
<1>4. /\ transfers' \in Seq(Transfer) /\ l \in Nat
      /\ DOMAIN transfers = 1 .. l /\ DOMAIN transfers' = 1 .. l + 1
      /\ transfers'[l + 1] = t /\ \A i \in 1 .. l : transfers'[i] = transfers[i]
  <2>1. transfers \in Seq(Transfer)
    BY DEF Types
  <2> QED
    BY <1>1, <1>3, <2>1, AppendIs
<1> HIDE DEF l
<1>5. /\ \A i \in 1 .. l + 1 : i \in 1 .. l \/ i = l + 1
      /\ \A i \in 1 .. l : i \in 1 .. l + 1
  BY <1>4, SMT
<1>6. Types'
  BY <1>1, <1>4 DEF Types
<1>7. OneTransferPerId'
  <2>1. \A i \in 1 .. l : transfers[i].purpose = "INCOMING" => Key(transfers[i]) # Key(t)
    BY <1>1, <1>2, <1>4 DEF PartOf, is_part_of, Key
  <2>2. \A i, j \in 1 .. l : transfers[i].purpose = "INCOMING" /\ transfers[j].purpose = "INCOMING"
                             /\ Key(transfers[i]) = Key(transfers[j]) => i = j
    BY <1>4 DEF OneTransferPerId
  <2>3. \A i, j \in 1 .. l + 1 : transfers'[i].purpose = "INCOMING" /\ transfers'[j].purpose = "INCOMING"
                                 /\ Key(transfers'[i]) = Key(transfers'[j]) => i = j
    BY <2>1, <2>2, <1>4, <1>5
  <2> QED
    BY <2>3, <1>4 DEF OneTransferPerId, Key
<1>8. \A a \in DOMAIN transmitted :
        transmitted[a].object # 0 /\ transmitted[a].purpose # "INCOMING"
  <2>1. \A x \in 1 .. objects : x # 0
    BY SMT DEF Types
  <2> QED
    BY <2>1 DEF ObjectsApart
<1>9. Listed'
  <2>1. ASSUME NEW i \in DOMAIN transfers'
        PROVE  IF transfers'[i].purpose = "OUTGOING"
                 THEN \E a \in DOMAIN transmitted' : transmitted'[a] = transfers'[i]
                 ELSE transfers'[i].object = 0
    <3>1. CASE i = l + 1
      BY <3>1, <1>2, <1>4
    <3>2. CASE i \in 1 .. l
      BY <3>2, <1>1, <1>4 DEF Listed
    <3> QED
      BY <3>1, <3>2, <1>4, <1>5
  <2>2. ASSUME NEW i \in DOMAIN transfers', NEW j \in DOMAIN transfers',
               NEW a \in DOMAIN transmitted, NEW b \in DOMAIN transmitted,
               i < j, transfers'[i] = transmitted[a], transfers'[j] = transmitted[b]
        PROVE  a < b
    <3>1. i # l + 1 /\ j # l + 1
      BY <2>2, <1>2, <1>4, <1>8
    <3> QED
      BY <2>2, <3>1, <1>4, <1>5 DEF Listed
  <2> QED
    BY <2>1, <2>2, <1>1 DEF Listed
<1>10. Completions'
  <2>1. \A a \in DOMAIN transmitted :
          (\E i \in DOMAIN transfers' : transfers'[i].object = transmitted[a].object)
          <=> IsListed(transmitted[a].object)
    BY <1>2, <1>4, <1>5, <1>8 DEF IsListed
  <2> QED
    BY <2>1, <1>1 DEF Completions, IsListed, WasCompleted
<1>11. OldestFirst'
  BY <1>1 DEF OldestFirst, WasCompleted, Key
<1> QED
  BY <1>1, <1>6, <1>7, <1>9, <1>10, <1>11, UserUnchanged

(* A transfer that was transmitted is in the list once.                    *)
LEMMA ListedOnce ==
  ASSUME TInv, NEW i \in DOMAIN transfers, NEW j \in DOMAIN transfers,
         transfers[i].purpose = "OUTGOING", transfers[i].object = transfers[j].object
  PROVE  i = j
<1> USE DEF TInv
<1>1. PICK a \in DOMAIN transmitted : transmitted[a] = transfers[i]
  BY DEF Listed
<1>2. transfers[i].object # 0
  <2>1. \A x \in 1 .. objects : x # 0
    BY SMT DEF Types
  <2> QED
    BY <1>1, <2>1 DEF ObjectsApart
<1>3. PICK b \in DOMAIN transmitted : transmitted[b] = transfers[j]
  BY <1>2 DEF Listed
<1>4. a = b
  BY <1>1, <1>3 DEF ObjectsApart
<1>5. ~(i < j) /\ ~(j < i)
  <2>1. transmitted \in Seq(Transfer)
    BY DEF Types
  <2>2. ~(a < b) /\ ~(b < a)
    BY <1>4, <2>1, SMT
  <2> QED
    BY <2>2, <1>1, <1>3 DEF Listed
<1> QED
  <2>1. transfers \in Seq(Transfer)
    BY DEF Types
  <2>2. i \in Nat /\ j \in Nat
    BY <2>1, SMT
  <2> QED
    BY <1>5, <2>2, SMT

(* An acknowledgement takes the first transfer it fits out of the list.    *)
LEMMA AckKeeps ==
  ASSUME TInv, NEW source \in Peers, NEW h \in Headers,
         Ack(source, h), UNCHANGED <<userVars, objects, itr>>
  PROVE  TInv'
<1> USE DEF TInv
<1> DEFINE S == RequestOf(source, h)
           i == FirstOf(S)
           t == transfers[i]
           l == Len(transfers)
<1>1. /\ S # {}
      /\ acked' = acked \union {[source |-> source, id |-> h.id]}
      /\ completed' = Append(completed, t.object) /\ transfers' = Without(transfers, i)
      /\ UNCHANGED running
      /\ UNCHANGED <<id_count, objects, created, held, transmitted, itr>>
  BY DEF Ack, userVars
<1>2. /\ transfers \in Seq(Transfer) /\ l \in Nat /\ DOMAIN transfers = 1 .. l
      /\ S \subseteq DOMAIN transfers /\ S \subseteq Nat
  <2>1. transfers \in Seq(Transfer)
    BY DEF Types
  <2>2. l \in Nat /\ DOMAIN transfers = 1 .. l
    BY <2>1, SMT
  <2>3. S \subseteq DOMAIN transfers
    BY DEF RequestOf
  <2>4. 1 .. l \subseteq Nat
    BY <2>2, SMT
  <2> QED
    BY <2>1, <2>2, <2>3, <2>4
<1>3. i \in S /\ \A j \in S : i <= j
  BY <1>1, <1>2, FirstOfIs
<1>4. /\ i \in 1 .. l /\ i \in Nat /\ t.purpose = "OUTGOING"
      /\ t.peer = source /\ t.id = h.id
  BY <1>2, <1>3 DEF RequestOf, is_request_of
<1>5. PICK b \in DOMAIN transmitted : transmitted[b] = t
  BY <1>2, <1>4 DEF Listed
<1>6. IsListed(t.object) /\ ~WasCompleted(t.object)
  <2>1. IsListed(t.object)
    BY <1>2, <1>4 DEF IsListed
  <2> QED
    BY <2>1, <1>5 DEF Completions
<1>7. \A p \in 1 .. l : transfers[p].object = t.object => p = i
  BY <1>2, <1>4, ListedOnce
<1>8. /\ transfers' \in Seq(Transfer) /\ DOMAIN transfers' = 1 .. l - 1
      /\ \A j \in 1 .. l - 1 :
           transfers'[j] = IF j < i THEN transfers[j] ELSE transfers[j + 1]
  BY <1>1, <1>2, <1>4, WithoutIs
<1> HIDE DEF S, i, t, l
(* Positions of the new list and of the old one.                           *)
<1>9. \A j, k \in 1 .. l - 1 : j < k =>
        \E p, q \in 1 .. l : /\ p < q /\ transfers'[j] = transfers[p]
                            /\ transfers'[k] = transfers[q]
  <2> SUFFICES ASSUME NEW j \in 1 .. l - 1, NEW k \in 1 .. l - 1, j < k
               PROVE  \E p, q \in 1 .. l : /\ p < q /\ transfers'[j] = transfers[p]
                                          /\ transfers'[k] = transfers[q]
    OBVIOUS
  <2> DEFINE p == IF j < i THEN j ELSE j + 1
             q == IF k < i THEN k ELSE k + 1
  <2>1. p \in 1 .. l /\ q \in 1 .. l /\ p < q
    BY <1>2, <1>4, SMT
  <2>2. transfers'[j] = transfers[p] /\ transfers'[k] = transfers[q]
    BY <1>8
  <2> QED
    BY <2>1, <2>2
<1>10. \A j \in 1 .. l - 1 : \E p \in 1 .. l : p # i /\ transfers'[j] = transfers[p]
  <2> SUFFICES ASSUME NEW j \in 1 .. l - 1
               PROVE  \E p \in 1 .. l : p # i /\ transfers'[j] = transfers[p]
    OBVIOUS
  <2> DEFINE p == IF j < i THEN j ELSE j + 1
  <2>1. p \in 1 .. l /\ p # i
    BY <1>2, <1>4, SMT
  <2>2. transfers'[j] = transfers[p]
    BY <1>8
  <2> QED
    BY <2>1, <2>2
<1>11. \A p \in 1 .. l : p # i => \E j \in 1 .. l - 1 : transfers'[j] = transfers[p]
  <2> SUFFICES ASSUME NEW p \in 1 .. l, p # i
               PROVE  \E j \in 1 .. l - 1 : transfers'[j] = transfers[p]
    OBVIOUS
  <2>1. CASE p < i
    <3>1. p \in 1 .. l - 1
      BY <2>1, <1>2, <1>4, SMT
    <3> QED
      BY <2>1, <3>1, <1>8
  <2>2. CASE ~(p < i)
    <3>1. p - 1 \in 1 .. l - 1 /\ ~(p - 1 < i) /\ (p - 1) + 1 = p
      BY <2>2, <1>2, <1>4, SMT
    <3> QED
      BY <3>1, <1>8
  <2> QED
    BY <2>1, <2>2
<1>12. \A x : (\E j \in DOMAIN transfers' : transfers'[j].object = x)
               <=> IsListed(x) /\ x # t.object
  BY <1>2, <1>7, <1>8, <1>10, <1>11 DEF IsListed, t
<1>13. /\ completed \in Seq(1 .. objects) /\ t.object \in 1 .. objects
  BY <1>5 DEF Types, ObjectsApart
<1> DEFINE c == Len(completed)
<1>14. /\ completed' \in Seq(1 .. objects) /\ c \in Nat
       /\ DOMAIN completed = 1 .. c /\ DOMAIN completed' = 1 .. c + 1
       /\ completed'[c + 1] = t.object
       /\ \A j \in 1 .. c : completed'[j] = completed[j]
  BY <1>1, <1>13, AppendIs
<1> HIDE DEF c
<1>15. /\ \A j \in 1 .. c + 1 : j \in 1 .. c \/ j = c + 1
       /\ \A j \in 1 .. c : j \in 1 .. c + 1
       /\ c + 1 \in 1 .. c + 1
  BY <1>14, SMT
<1>16. \A x : (\E j \in DOMAIN completed' : completed'[j] = x)
               <=> WasCompleted(x) \/ x = t.object
  BY <1>14, <1>15 DEF WasCompleted
<1>17. Types'
  <2>1. h.id \in 1 .. IdMod - 1
    BY DEF Headers
  <2>2. acked' \subseteq [source : Peers, id : 1 .. IdMod - 1]
    BY <1>1, <2>1 DEF Types
  <2> QED
    BY <1>1, <1>8, <1>14, <2>2 DEF Types
<1>18. OneTransferPerId'
  <2>1. \A p, q \in 1 .. l : transfers[p].purpose = "INCOMING" /\ transfers[q].purpose = "INCOMING"
                             /\ Key(transfers[p]) = Key(transfers[q]) => ~(p < q)
    <3>1. \A p, q \in 1 .. l : p < q => p # q
      BY <1>2, SMT
    <3> QED
      BY <3>1, <1>2 DEF OneTransferPerId
  <2>2. \A j, k \in 1 .. l - 1 : transfers'[j].purpose = "INCOMING" /\ transfers'[k].purpose = "INCOMING"
                                 /\ Key(transfers'[j]) = Key(transfers'[k]) => ~(j < k)
    BY <2>1, <1>9
  <2>3. \A j, k \in 1 .. l - 1 : ~(j < k) /\ ~(k < j) => j = k
    BY <1>2, SMT
  <2>4. \A j, k \in 1 .. l - 1 : transfers'[j].purpose = "INCOMING" /\ transfers'[k].purpose = "INCOMING"
                                 /\ Key(transfers'[j]) = Key(transfers'[k]) => j = k
    BY <2>2, <2>3
  <2> QED
    BY <2>4, <1>8 DEF OneTransferPerId, Key
<1>19. Listed'
  <2>1. ASSUME NEW j \in DOMAIN transfers'
        PROVE  IF transfers'[j].purpose = "OUTGOING"
                 THEN \E a \in DOMAIN transmitted' : transmitted'[a] = transfers'[j]
                 ELSE transfers'[j].object = 0
    <3>1. PICK p \in 1 .. l : transfers'[j] = transfers[p]
      BY <1>8, <1>10
    <3> QED
      BY <3>1, <1>1, <1>2 DEF Listed
  <2>2. ASSUME NEW j \in DOMAIN transfers', NEW k \in DOMAIN transfers',
               NEW a \in DOMAIN transmitted, NEW d \in DOMAIN transmitted,
               j < k, transfers'[j] = transmitted[a], transfers'[k] = transmitted[d]
        PROVE  a < d
    <3>1. PICK p, q \in 1 .. l : p < q /\ transfers'[j] = transfers[p] /\ transfers'[k] = transfers[q]
      BY <2>2, <1>8, <1>9
    <3> QED
      BY <2>2, <3>1, <1>2 DEF Listed
  <2> QED
    BY <2>1, <2>2, <1>1 DEF Listed
<1>20. Completions'
  <2>1. \A j \in DOMAIN completed' :
          \E a \in DOMAIN transmitted : transmitted[a].object = completed'[j]
    BY <1>5, <1>14, <1>15 DEF Completions
  <2>2. \A j, k \in DOMAIN completed' : completed'[j] = completed'[k] => j = k
    BY <1>6, <1>14, <1>15 DEF Completions, WasCompleted
  <2>3. ASSUME NEW a \in DOMAIN transmitted
        PROVE  /\ (\E j \in DOMAIN completed' : completed'[j] = transmitted[a].object)
                  <=> ~(\E j \in DOMAIN transfers' : transfers'[j].object = transmitted[a].object)
               /\ (\E j \in DOMAIN completed' : completed'[j] = transmitted[a].object)
                  => [source |-> transmitted[a].peer, id |-> transmitted[a].id] \in acked'
    <3> DEFINE x == transmitted[a].object
    <3>1. /\ WasCompleted(x) <=> ~IsListed(x)
          /\ WasCompleted(x) => [source |-> transmitted[a].peer, id |-> transmitted[a].id] \in acked
      BY DEF Completions
    <3>2. CASE x = t.object
      <4>1. a = b
        BY <3>2, <1>5 DEF ObjectsApart
      <4>2. transmitted[a].peer = source /\ transmitted[a].id = h.id
        BY <4>1, <1>4, <1>5
      <4>3. [source |-> transmitted[a].peer, id |-> transmitted[a].id] \in acked'
        BY <4>2, <1>1
      <4> QED
        BY <3>2, <4>3, <1>12, <1>16
    <3>3. CASE x # t.object
      BY <3>1, <3>3, <1>1, <1>12, <1>16
    <3> QED
      BY <3>2, <3>3
  <2> QED
    BY <2>1, <2>2, <2>3, <1>1 DEF Completions, WasCompleted, IsListed
<1>21. OldestFirst'
  <2> SUFFICES ASSUME NEW a \in DOMAIN transmitted, NEW d \in DOMAIN transmitted,
                      a < d, Key(transmitted[a]) = Key(transmitted[d]),
                      \E j \in DOMAIN completed' : completed'[j] = transmitted[d].object
               PROVE  \E j \in DOMAIN completed' : completed'[j] = transmitted[a].object
    BY <1>1 DEF OldestFirst, WasCompleted, Key
  <2>1. CASE WasCompleted(transmitted[d].object)
    BY <2>1, <1>16 DEF OldestFirst
  <2>2. CASE transmitted[d].object = t.object /\ ~WasCompleted(transmitted[a].object)
    <3>1. d = b
      BY <2>2, <1>5 DEF ObjectsApart
    <3>2. PICK p \in DOMAIN transfers : transfers[p].object = transmitted[a].object
      BY <2>2 DEF Completions, IsListed
    <3>3. transfers[p] = transmitted[a]
      <4>1. \A x \in 1 .. objects : x # 0
        BY SMT DEF Types
      <4>2. transfers[p].object # 0
        BY <3>2, <4>1 DEF ObjectsApart
      <4>3. PICK e \in DOMAIN transmitted : transmitted[e] = transfers[p]
        BY <4>2 DEF Listed
      <4> QED
        BY <3>2, <4>3 DEF ObjectsApart
    <3>4. p \in S
      <4>1. is_request_of(t, source, h)
        BY <1>3 DEF S, RequestOf, t
      <4>2. /\ transfers[p].purpose = "OUTGOING" /\ transfers[p].peer = t.peer
            /\ transfers[p].id = t.id /\ transfers[p].total = t.total
        BY <3>1, <3>3, <1>5 DEF ObjectsApart, Key
      <4>3. is_request_of(transfers[p], source, h)
        BY <4>1, <4>2 DEF is_request_of
      <4> QED
        BY <4>3 DEF S, RequestOf
    <3>5. i <= p /\ p # i
      <4>1. transmitted \in Seq(Transfer)
        BY DEF Types
      <4>2. a # d
        BY <4>1, SMT
      <4>3. transmitted[a] # transmitted[d]
        BY <4>2 DEF ObjectsApart
      <4> QED
        BY <4>3, <3>1, <3>3, <3>4, <1>3, <1>5 DEF t
    <3>6. i < p
      BY <3>5, <1>2, <1>4, SMT
    <3>7. d < a
      BY <3>1, <3>3, <3>6, <1>2, <1>4, <1>5 DEF Listed, t
    <3>8. FALSE
      <4>1. transmitted \in Seq(Transfer)
        BY DEF Types
      <4> QED
        BY <3>7, <4>1, SMT
    <3> QED
      BY <3>8
  <2> QED
    BY <2>1, <2>2, <1>16
<1> QED
  BY <1>1, <1>17, <1>18, <1>19, <1>20, <1>21, UserUnchanged

LEMMA ReceiveKeeps == TInv /\ do_receive => TInv'
<1> SUFFICES ASSUME TInv, do_receive PROVE TInv'
  OBVIOUS
<1>1. UNCHANGED <<userVars, objects, itr>>
  BY DEF do_receive
<1>2. PICK source \in Peers, h \in Headers :
        \/ \E size \in Sizes \ {0} : NewIncoming(source, h, size) \/ KnownIncoming(source, h, size)
        \/ Ack(source, h)
  BY DEF do_receive
<1>3. ASSUME NEW size \in Sizes \ {0}, NewIncoming(source, h, size) PROVE TInv'
  BY <1>1, <1>3, NewKeeps
<1>4. ASSUME NEW size \in Sizes \ {0}, KnownIncoming(source, h, size) PROVE TInv'
  <2>1. /\ UNCHANGED <<transfers, transmitted, completed, acked>>
        /\ UNCHANGED <<id_count, objects, created, held, transmitted>>
        /\ UNCHANGED itr /\ running' \in BOOLEAN
    BY <1>1, <1>4 DEF KnownIncoming, userVars
  <2>2. Types'
    BY <2>1 DEF TInv, Types
  <2> QED
    BY <2>1, <2>2, ListUnchanged, UserUnchanged DEF TInv
<1>5. CASE Ack(source, h)
  BY <1>1, <1>5, AckKeeps
<1> QED
  BY <1>2, <1>3, <1>4, <1>5

(* The loop and what follows it change nothing but where do_main is.       *)
LEMMA MainKeeps == TInv /\ (EnterLoop \/ Walk \/ TransmitThrows) => TInv'
<1> SUFFICES ASSUME TInv, EnterLoop \/ Walk \/ TransmitThrows PROVE TInv'
  OBVIOUS
<1>1. CASE EnterLoop \/ TransmitThrows
  <2>1. /\ UNCHANGED <<transfers, transmitted, completed, acked>>
        /\ UNCHANGED <<id_count, objects, created, held, transmitted>>
    BY <1>1 DEF EnterLoop, TransmitThrows, userVars
  <2>2. itr' \in {0, 1} /\ running' \in BOOLEAN
    BY <1>1 DEF EnterLoop, TransmitThrows, TInv, Types
  <2>3. Types'
    BY <2>1, <2>2 DEF TInv, Types
  <2> QED
    BY <2>1, <2>3, ListUnchanged, UserUnchanged DEF TInv
<1>2. CASE Walk
  BY <1>2, AllUnchanged DEF Walk
<1> QED
  BY <1>1, <1>2

LEMMA TInvariance == Spec => []TInv
<1>1. TInv /\ [Next]_vars => TInv'
  BY CreateKeeps, TransmitKeeps, ReceiveKeeps, MainKeeps, AllUnchanged DEF Next
<1> QED
  BY InitTInv, <1>1, PTL DEF Spec

-----------------------------------------------------------------------------

(* Every variable keeps its type.                                          *)
THEOREM TypeCorrect == Spec => []TypeOK
<1>1. TInv => TypeOK
  BY DEF TInv, Types, TypeOK
<1> QED
  BY <1>1, TInvariance, PTL

(* Fragments of one transfer are collected in one place, in whatever order *)
(* they come and however often.                                            *)
THEOREM CollectedOnce == Spec => []OneTransferPerId
<1>1. TInv => OneTransferPerId
  BY DEF TInv
<1> QED
  BY <1>1, TInvariance, PTL

(* Ids do not repeat before all others were given out, and none is 0:      *)
(* increment_id passes over the count whose low byte is 0.                 *)
THEOREM IdsDiffer == Spec => []IdsApart
<1>1. TInv => IdsApart
  <2> SUFFICES ASSUME TInv PROVE IdsApart
    OBVIOUS
  <2>1. ASSUME NEW i \in DOMAIN created PROVE created[i].id # 0
    <3>1. \A x \in 1 .. IdMod - 1 : x # 0
      BY Constants, SMT
    <3> QED
      BY <3>1 DEF TInv, IdsFollow
  <2>2. ASSUME NEW i \in DOMAIN created, NEW j \in DOMAIN created,
               i < j, created[i].id = created[j].id
        PROVE  j - i >= IdMod - 1
    <3> DEFINE C == [peer : Peers, id : 0 .. IdMod - 1, object : 1 .. objects]
               x == created[i].id
               y == created[j].id
    <3>1. created \in Seq(C)
      BY DEF TInv, Types
    <3> HIDE DEF C
    <3>2. i \in Nat /\ j \in Nat
      BY <3>1, SMT
    <3>3. x \in 1 .. IdMod - 1 /\ x = y
      BY <2>2 DEF TInv, IdsFollow
    <3>4. j - i < IdMod - 1 => y = x + (j - i) \/ y = x + (j - i) - (IdMod - 1)
      BY <2>2 DEF TInv, IdsFollow
    <3> HIDE DEF x, y
    <3>5. IdMod \in Nat
      BY Constants
    <3> QED
      BY <2>2, <3>2, <3>3, <3>4, <3>5, SMT
  <2> QED
    BY <2>1, <2>2 DEF IdsApart
<1> QED
  BY <1>1, TInvariance, PTL

(* A transmitted transfer ends once, when its destination acknowledged it, *)
(* and the event never names an object the user still holds.               *)
THEOREM EndsOnce == Spec => []EachEndsOnce
<1>1. TInv => EachEndsOnce
  BY DEF TInv, Completions, ObjectsApart, EachEndsOnce
<1> QED
  BY <1>1, TInvariance, PTL

(* Transfers with the same id are ended in the order they were transmitted *)
(* in.                                                                     *)
THEOREM OlderEndsFirst == Spec => []OldestFirst
<1>1. TInv => OldestFirst
  BY DEF TInv
<1> QED
  BY <1>1, TInvariance, PTL
=============================================================================
