-------------------------- MODULE Container_proofs --------------------------
(***************************************************************************)
(* Theorems about Container, for blocks of every size.                     *)
(*                                                                         *)
(* That the exposed bytes lie in the block and that it is the only block   *)
(* holds of every sequence of calls: BlockInv needs no more than the Shape *)
(* of the object.  What makes the container a plain string is that hidden  *)
(* bytes are zero, since expand exposes them as they are.  Valid adds this *)
(* to Shape; it holds as long as callers do not copy-assign to a container *)
(* with margins (AnyAssign = FALSE), and the lemmas on it say of every     *)
(* method what it does to the contents.                                    *)
(***************************************************************************)
EXTENDS Container, TLAPS

Fields(o) == [data |-> o.data, length |-> o.length,
              capacity |-> o.capacity, offset |-> o.offset]

(* The shape of an object; hidden bytes are zero.                          *)
Shape(o) ==
  /\ o = Fields(o)
  /\ o.length \in Nat /\ o.capacity \in Nat /\ o.offset \in Nat
  /\ o.offset + o.length <= o.capacity
  /\ o.data \in Strings(o.capacity)
Margins(o) ==
  \A i \in 0 .. o.capacity - 1 :
    i < o.offset \/ i >= o.offset + o.length => o.data[i] = 0
Valid(o) == Shape(o) /\ Margins(o)

BlockInv == Shape(object) /\ object.capacity <= MaxCapacity /\ NoLeak /\ blocks \in Int
CInv     == Valid(object) /\ object.capacity <= MaxCapacity /\ NoLeak /\ blocks \in Int

-----------------------------------------------------------------------------
(* Methods: the shape of what they leave, whatever the hidden bytes are.   *)

LEMMA MadeShape ==
  ASSUME NEW f \in Nat, NEW n \in Nat, NEW b \in Nat
  PROVE  Shape(Made(f, n, b)) /\ Made(f, n, b).capacity = f + n + b
BY ContainerAssumption, SMT DEF Shape, Fields, Made, Zeros, Strings

(* reserve leaves room on both sides.                                      *)
LEMMA ReservedShape ==
  ASSUME NEW o, Shape(o), NEW f \in Nat, NEW b \in Nat
  PROVE  LET r == Reserved(o, f, b)
         IN  /\ Shape(r) /\ r.length = o.length
             /\ r.offset >= f /\ r.offset + r.length + b <= r.capacity
             /\ \/ ~Relocates(o, f, b) /\ r = o
                \/ Relocates(o, f, b) /\ r.capacity = f + o.length + b
<1>1. CASE ~Relocates(o, f, b)
  BY <1>1, SMT DEF Reserved, Relocates, CapacityBack, Shape
<1>2. CASE Relocates(o, f, b)
  <2> DEFINE r == Reserved(o, f, b)
             d == [i \in 0 .. f + o.length + b - 1 |->
                     IF i >= f /\ i < f + o.length THEN o.data[i - f + o.offset] ELSE 0]
  <2>1. r = [data |-> d, length |-> o.length, capacity |-> f + o.length + b, offset |-> f]
    BY <1>2 DEF Reserved
  <2>2. /\ o.length \in Nat /\ o.capacity \in Nat /\ o.offset \in Nat
        /\ o.offset + o.length <= o.capacity /\ o.data \in [0 .. o.capacity - 1 -> Byte]
    BY DEF Shape, Strings
  <2>3. d \in [0 .. f + o.length + b - 1 -> Byte]
    <3>1. ASSUME NEW i \in 0 .. f + o.length + b - 1, i >= f, i < f + o.length
          PROVE  o.data[i - f + o.offset] \in Byte
      <4>1. i - f + o.offset \in 0 .. o.capacity - 1
        BY <2>2, <3>1, SMTT(60)
      <4> QED
        BY <2>2, <4>1
    <3>2. 0 \in Byte
      BY ContainerAssumption
    <3> QED
      BY <3>1, <3>2
  <2>4. Shape(r)
    BY <2>1, <2>2, <2>3, SMT DEF Shape, Fields, Strings
  <2> QED
    BY <1>2, <2>1, <2>2, <2>4, SMT
<1> QED
  BY <1>1, <1>2

(* Writing the first n bytes of a string.                                  *)
LEMMA WrittenShape ==
  ASSUME NEW o, Shape(o), NEW k \in Nat, NEW n \in Nat,
         NEW m \in Nat, NEW s \in Strings(m), n <= m
  PROVE  LET w == Written(o, k, s, n)
         IN  /\ Shape(w) /\ w.length = o.length /\ w.capacity = o.capacity
             /\ w.offset = o.offset
<1> DEFINE w == Written(o, k, s, n)
           d == [i \in 0 .. o.capacity - 1 |->
                   IF i >= o.offset + k /\ i < o.offset + k + n
                     THEN s[i - o.offset - k] ELSE o.data[i]]
<1>2. /\ o.length \in Nat /\ o.capacity \in Nat /\ o.offset \in Nat
      /\ o.offset + o.length <= o.capacity /\ o.data \in [0 .. o.capacity - 1 -> Byte]
      /\ o = Fields(o) /\ s \in [0 .. m - 1 -> Byte]
  BY DEF Shape, Strings
<1>1. w = [data |-> d, length |-> o.length, capacity |-> o.capacity, offset |-> o.offset]
  <2>1. DOMAIN o.data = 0 .. o.capacity - 1
    BY <1>2
  <2>2. w = [o EXCEPT !.data = d]
    BY <2>1 DEF Written
  <2> HIDE DEF d, w
  <2> QED
    BY <1>2, <2>2 DEF Fields
<1>3. d \in [0 .. o.capacity - 1 -> Byte]
  <2>1. ASSUME NEW i \in 0 .. o.capacity - 1,
               i >= o.offset + k, i < o.offset + k + n
        PROVE  s[i - o.offset - k] \in Byte
    <3>1. i - o.offset - k \in 0 .. m - 1
      BY <1>2, <2>1, SMTT(60)
    <3> QED
      BY <1>2, <3>1
  <2> QED
    BY <1>2, <2>1, SMTT(60)
<1>4. Shape(w)
  BY <1>1, <1>2, <1>3, SMT DEF Shape, Fields, Strings
<1> QED
  BY <1>1, <1>4

LEMMA ExpandedShape ==
  ASSUME NEW o, Shape(o), NEW f \in Nat, NEW b \in Nat
  PROVE  LET e == Expanded(o, f, b)
         IN  /\ Shape(e) /\ e.length = f + o.length + b
             /\ \/ ~Relocates(o, f, b) /\ e.capacity = o.capacity
                \/ Relocates(o, f, b) /\ e.capacity = f + o.length + b
<1> DEFINE e == Expanded(o, f, b)
           r == Reserved(o, f, b)
<1>1. /\ Shape(r) /\ r.length = o.length
      /\ r.offset >= f /\ r.offset + r.length + b <= r.capacity
      /\ \/ ~Relocates(o, f, b) /\ r.capacity = o.capacity
         \/ Relocates(o, f, b) /\ r.capacity = f + o.length + b
  BY ReservedShape
<1>2. /\ r.length \in Nat /\ r.capacity \in Nat /\ r.offset \in Nat
      /\ r.data \in [0 .. r.capacity - 1 -> Byte] /\ r = Fields(r)
  BY <1>1 DEF Shape, Strings
<1>3. e = [data |-> r.data, length |-> f + r.length + b, capacity |-> r.capacity,
           offset |-> r.offset - f]
  <2>1. e = [r EXCEPT !.offset = @ - f, !.length = @ + f + b]
    BY DEF Expanded
  <2>2. r.length + f + b = f + r.length + b
    BY <1>2, SMT
  <2> HIDE DEF e, r
  <2> QED
    BY <1>2, <2>1, <2>2 DEF Fields
<1> HIDE DEF e, r
<1>4. /\ f + r.length + b \in Nat /\ r.offset - f \in Nat
      /\ (r.offset - f) + (f + r.length + b) <= r.capacity
  <2>1. /\ r.length \in Nat /\ r.capacity \in Nat /\ r.offset \in Nat
        /\ r.offset >= f /\ r.offset + r.length + b <= r.capacity
    BY <1>1, <1>2
  <2> QED
    BY <2>1, SMT
<1>5. Shape(e)
  BY <1>2, <1>3, <1>4 DEF Shape, Fields, Strings
<1> QED
  BY <1>1, <1>3, <1>5 DEF e

LEMMA FilledShape ==
  ASSUME NEW o, Shape(o), NEW k \in Nat, NEW n \in Nat, NEW v \in Byte
  PROVE  LET w == Filled(o, k, n, v)
         IN  /\ Shape(w) /\ w.length = o.length /\ w.capacity = o.capacity
             /\ w.offset = o.offset
<1> DEFINE w == Filled(o, k, n, v)
           d == [i \in 0 .. o.capacity - 1 |->
                   IF /\ i >= o.offset + k /\ i < o.offset + k + n
                      /\ i < o.offset + o.length
                     THEN v ELSE o.data[i]]
<1>1. /\ o.data \in [0 .. o.capacity - 1 -> Byte] /\ o = Fields(o)
  BY DEF Shape, Strings
<1>2. w = [data |-> d, length |-> o.length, capacity |-> o.capacity, offset |-> o.offset]
  <2>1. DOMAIN o.data = 0 .. o.capacity - 1
    BY <1>1
  <2>2. w = [o EXCEPT !.data = d]
    BY <2>1 DEF Filled
  <2> HIDE DEF d, w
  <2> QED
    BY <1>1, <2>2 DEF Fields
<1>3. d \in [0 .. o.capacity - 1 -> Byte]
  BY <1>1
<1> HIDE DEF d, w
<1>4. Shape(w)
  BY <1>2, <1>3 DEF Shape, Fields, Strings
<1> QED
  BY <1>2, <1>4 DEF w

(* An object whose exposed part is cut to its n bytes from f on.           *)
LEMMA CutShape ==
  ASSUME NEW o, Shape(o), NEW f \in Nat, NEW n \in Nat, f + n <= o.length
  PROVE  LET w == [o EXCEPT !.offset = o.offset + f, !.length = n]
         IN  /\ Shape(w) /\ w.length = n /\ w.capacity = o.capacity
<1> DEFINE w == [o EXCEPT !.offset = o.offset + f, !.length = n]
<1>1. w = [data |-> o.data, length |-> n, capacity |-> o.capacity, offset |-> o.offset + f]
  <2>1. o = Fields(o) /\ o.length \in Nat /\ o.offset \in Nat
    BY DEF Shape
  <2>2. w = [o EXCEPT !.offset = o.offset + f, !.length = n]
    OBVIOUS
  <2> HIDE DEF w
  <2> QED
    BY <2>1, <2>2 DEF Fields
<1>2. o.offset + f \in Nat /\ o.offset + f + n <= o.capacity
  BY SMT DEF Shape
<1> HIDE DEF w
<1>3. Shape(w)
  BY <1>1, <1>2 DEF Shape, Fields
<1> QED
  BY <1>1, <1>3 DEF w

LEMMA ShrunkShape ==
  ASSUME NEW o, Shape(o), NEW f \in Nat, NEW b \in Nat
  PROVE  Shape(Shrunk(o, f, b)) /\ Shrunk(o, f, b).capacity = o.capacity
<1>0. o.length \in Nat /\ o.offset \in Nat /\ 0 \in Byte /\ 0 \in Nat
  BY ContainerAssumption, SMT DEF Shape
<1>1. CASE f + b > o.length
  <2> DEFINE z == Filled(o, 0, o.length, 0)
  <2>1. /\ Shape(z) /\ z.length = o.length /\ z.capacity = o.capacity /\ z.offset = o.offset
    BY <1>0, FilledShape
  <2>2. Shrunk(o, f, b) = [z EXCEPT !.length = 0]
    <3>1. o.length - (f + b) < 0
      BY <1>0, <1>1, SMT
    <3> QED
      BY <3>1 DEF Shrunk
  <2> HIDE DEF z
  <2>3. [z EXCEPT !.length = 0] = [z EXCEPT !.offset = z.offset + 0, !.length = 0]
    <3>1. z.offset + 0 = z.offset
      BY <1>0, <2>1, SMT
    <3> QED
      BY <2>1, <3>1 DEF Shape, Fields
  <2>4. 0 + 0 <= z.length
    BY <1>0, <2>1, SMT
  <2>5. LET w == [z EXCEPT !.offset = z.offset + 0, !.length = 0]
        IN  Shape(w) /\ w.capacity = z.capacity
    BY <1>0, <2>1, <2>4, CutShape, ZenonT(60)
  <2> QED
    BY <2>1, <2>2, <2>3, <2>5, Zenon
<1>2. CASE ~(f + b > o.length)
  <2> DEFINE y == Filled(o, o.length - b, b, 0)
             c == [y EXCEPT !.length = @ - b]
             z == Filled(c, 0, f, 0)
  <2>1. o.length - b \in Nat /\ o.length - b - f \in Nat
    BY <1>0, <1>2, SMT
  <2>2. /\ Shape(y) /\ y.length = o.length /\ y.capacity = o.capacity /\ y.offset = o.offset
    <3>1. o.length - b \in Nat /\ 0 \in Byte
      BY <1>0, <2>1
    <3> QED
      BY <3>1, FilledShape, ZenonT(60)
  <2>3. Shrunk(o, f, b) = [z EXCEPT !.offset = @ + f, !.length = @ - f]
    <3>1. ~(o.length - (f + b) < 0)
      BY <1>0, <1>2, SMT
    <3> QED
      BY <3>1 DEF Shrunk
  <2> HIDE DEF y
  <2>4. c = [y EXCEPT !.offset = y.offset + 0, !.length = o.length - b]
    <3>1. y.offset + 0 = y.offset
      BY <1>0, <2>2, SMT
    <3> QED
      BY <2>2, <3>1 DEF Shape, Fields
  <2>5. 0 + (o.length - b) <= y.length
    BY <1>0, <2>1, <2>2, SMT
  <2> HIDE DEF c
  <2>6. Shape(c) /\ c.length = o.length - b /\ c.capacity = o.capacity
    <3>1. LET w == [y EXCEPT !.offset = y.offset + 0, !.length = o.length - b]
          IN  Shape(w) /\ w.length = o.length - b /\ w.capacity = y.capacity
      <4>1. Shape(y) /\ 0 \in Nat /\ o.length - b \in Nat
        BY <1>0, <2>1, <2>2
      <4> QED
        BY <4>1, <2>5, CutShape, ZenonT(60)
    <3> QED
      BY <2>2, <2>4, <3>1, Zenon
  <2>7. Shape(z) /\ z.length = o.length - b /\ z.capacity = o.capacity
    <3>1. 0 \in Nat /\ 0 \in Byte
      BY <1>0
    <3>2. Shape(z) /\ z.length = c.length /\ z.capacity = c.capacity
      BY <2>6, <3>1, FilledShape, ZenonT(60)
    <3> HIDE DEF z
    <3> QED
      BY <2>6, <3>2
  <2> HIDE DEF z
  <2>8. Shrunk(o, f, b) = [z EXCEPT !.offset = z.offset + f, !.length = o.length - b - f]
    BY <2>3, <2>7
  <2>9. f + (o.length - b - f) <= z.length
    BY <1>0, <2>1, <2>7, SMT
  <2>10. LET w == [z EXCEPT !.offset = z.offset + f, !.length = o.length - b - f]
         IN  Shape(w) /\ w.capacity = z.capacity
    BY <2>1, <2>7, <2>9, CutShape, ZenonT(60)
  <2> QED
    BY <2>7, <2>8, <2>10, Zenon
<1> QED
  BY <1>1, <1>2

-----------------------------------------------------------------------------
(* Methods: the contents of what they leave.                               *)

(* A made container exposes zeros.                                         *)
LEMMA MadeIsValid ==
  ASSUME NEW f \in Nat, NEW n \in Nat, NEW b \in Nat
  PROVE  /\ Valid(Made(f, n, b))
         /\ Made(f, n, b).length = n /\ Made(f, n, b).capacity = f + n + b
         /\ \A i \in 0 .. n - 1 : Content(Made(f, n, b))[i] = 0
BY ContainerAssumption, SMT
   DEF Valid, Shape, Margins, Fields, Made, Zeros, Strings, Content

(* reserve changes no exposed byte and leaves room on both sides.          *)
LEMMA ReservedIsValid ==
  ASSUME NEW o, Valid(o), NEW f \in Nat, NEW b \in Nat
  PROVE  LET r == Reserved(o, f, b)
         IN  /\ Valid(r) /\ r.length = o.length
             /\ r.offset >= f /\ r.offset + r.length + b <= r.capacity
             /\ \/ ~Relocates(o, f, b) /\ r = o
                \/ Relocates(o, f, b) /\ r.capacity = f + o.length + b
             /\ Content(r) = Content(o)
<1> USE DEF Valid
<1>1. CASE ~Relocates(o, f, b)
  BY <1>1, SMT DEF Reserved, Relocates, CapacityBack, Shape
<1>2. CASE Relocates(o, f, b)
  <2> DEFINE r == Reserved(o, f, b)
             d == [i \in 0 .. f + o.length + b - 1 |->
                     IF i >= f /\ i < f + o.length THEN o.data[i - f + o.offset] ELSE 0]
  <2>1. r = [data |-> d, length |-> o.length, capacity |-> f + o.length + b, offset |-> f]
    BY <1>2 DEF Reserved
  <2>2. /\ o.length \in Nat /\ o.capacity \in Nat /\ o.offset \in Nat
        /\ o.offset + o.length <= o.capacity /\ o.data \in [0 .. o.capacity - 1 -> Byte]
    BY DEF Shape, Strings
  <2>4. Shape(r)
    BY ReservedShape
  <2>5. Margins(r)
    BY <2>1, <2>2, SMT DEF Margins
  <2>6. Content(r) = Content(o)
    <3>1. ASSUME NEW i \in 0 .. o.length - 1
          PROVE  d[f + i] = o.data[o.offset + i]
      <4>1. /\ f + i \in 0 .. f + o.length + b - 1
            /\ f + i >= f /\ f + i < f + o.length
            /\ f + i - f + o.offset = o.offset + i
        BY <2>2, SMT
      <4> QED
        BY <4>1
    <3> HIDE DEF r, d
    <3>2. Content(r) = [i \in 0 .. o.length - 1 |-> d[f + i]]
      BY <2>1 DEF Content
    <3> QED
      BY <3>1, <3>2, Zenon DEF Content
  <2> QED
    BY <1>2, <2>1, <2>2, <2>4, <2>5, <2>6, SMT
<1> QED
  BY <1>1, <1>2

(* Writing to exposed bytes.                                               *)
LEMMA WrittenIsValid ==
  ASSUME NEW o, Valid(o), NEW k \in Nat, NEW n \in Nat, NEW s \in Strings(n),
         k + n <= o.length
  PROVE  LET w == Written(o, k, s, n)
         IN  /\ Valid(w) /\ w.length = o.length /\ w.capacity = o.capacity
             /\ \A i \in 0 .. o.length - 1 :
                  Content(w)[i] = IF i >= k /\ i < k + n THEN s[i - k] ELSE Content(o)[i]
<1> DEFINE w == Written(o, k, s, n)
           d == [i \in 0 .. o.capacity - 1 |->
                   IF i >= o.offset + k /\ i < o.offset + k + n
                     THEN s[i - o.offset - k] ELSE o.data[i]]
<1>2. /\ o.length \in Nat /\ o.capacity \in Nat /\ o.offset \in Nat
      /\ o.offset + o.length <= o.capacity /\ o.data \in [0 .. o.capacity - 1 -> Byte]
      /\ o = Fields(o) /\ s \in [0 .. n - 1 -> Byte]
  BY DEF Valid, Shape, Strings
<1>1. w = [data |-> d, length |-> o.length, capacity |-> o.capacity, offset |-> o.offset]
  <2>1. DOMAIN o.data = 0 .. o.capacity - 1
    BY <1>2
  <2>2. w = [o EXCEPT !.data = d]
    BY <2>1 DEF Written
  <2> HIDE DEF d, w
  <2> QED
    BY <1>2, <2>2 DEF Fields
<1>4. Shape(w)
  <2>1. n <= n /\ Shape(o)
    BY SMT DEF Valid
  <2> QED
    BY <2>1, WrittenShape
<1>5. Margins(w)
  <2>1. ASSUME NEW i \in 0 .. o.capacity - 1,
               i < o.offset \/ i >= o.offset + o.length
        PROVE  d[i] = 0
    <3>1. ~(i >= o.offset + k /\ i < o.offset + k + n)
      BY <1>2, <2>1, SMT
    <3> QED
      BY <2>1, <3>1 DEF Valid, Margins
  <2> HIDE DEF d, w
  <2> QED
    BY <1>1, <2>1 DEF Margins
<1>6. ASSUME NEW i \in 0 .. o.length - 1
      PROVE  Content(w)[i] = IF i >= k /\ i < k + n THEN s[i - k] ELSE Content(o)[i]
  <2>1. o.offset + i \in 0 .. o.capacity - 1
    BY <1>2, SMTT(60)
  <2>2. Content(w)[i] = d[o.offset + i] /\ Content(o)[i] = o.data[o.offset + i]
    <3>1. Content(o)[i] = o.data[o.offset + i]
      BY DEF Content
    <3> HIDE DEF d, w
    <3>2. w.data = d /\ w.length = o.length /\ w.offset = o.offset
      BY <1>1
    <3>3. Content(w)[i] = w.data[o.offset + i]
      BY <3>2 DEF Content
    <3> QED
      BY <3>1, <3>2, <3>3
  <2>3. (o.offset + i) - o.offset - k = i - k
    BY <1>2, SMT
  <2>4. (o.offset + i >= o.offset + k /\ o.offset + i < o.offset + k + n)
          <=> (i >= k /\ i < k + n)
    BY <1>2, SMT
  <2> QED
    BY <2>1, <2>2, <2>3, <2>4, Zenon
<1> QED
  BY <1>1, <1>4, <1>5, <1>6 DEF Valid

(* Adding bytes at both ends shows zeros, whatever hidden bytes there were *)
(* once.                                                                   *)
LEMMA ExpandedIsValid ==
  ASSUME NEW o, Valid(o), NEW f \in Nat, NEW b \in Nat
  PROVE  LET e == Expanded(o, f, b)
         IN  /\ Valid(e) /\ e.length = f + o.length + b
             /\ \/ ~Relocates(o, f, b) /\ e.capacity = o.capacity
                \/ Relocates(o, f, b) /\ e.capacity = f + o.length + b
             /\ \A i \in 0 .. f + o.length + b - 1 :
                  Content(e)[i] = IF i >= f /\ i < f + o.length
                                    THEN Content(o)[i - f] ELSE 0
<1> DEFINE e == Expanded(o, f, b)
           r == Reserved(o, f, b)
<1>1. /\ Valid(r) /\ r.length = o.length
      /\ r.offset >= f /\ r.offset + r.length + b <= r.capacity
      /\ \/ ~Relocates(o, f, b) /\ r.capacity = o.capacity
         \/ Relocates(o, f, b) /\ r.capacity = f + o.length + b
      /\ Content(r) = Content(o)
  BY ReservedIsValid
<1>2. /\ r.length \in Nat /\ r.capacity \in Nat /\ r.offset \in Nat
      /\ r.data \in [0 .. r.capacity - 1 -> Byte] /\ r = Fields(r)
      /\ \A i \in 0 .. r.capacity - 1 :
           i < r.offset \/ i >= r.offset + r.length => r.data[i] = 0
  BY <1>1 DEF Valid, Shape, Margins, Strings
<1>3. e = [data |-> r.data, length |-> f + r.length + b, capacity |-> r.capacity,
           offset |-> r.offset - f]
  <2>1. e = [r EXCEPT !.offset = @ - f, !.length = @ + f + b]
    BY DEF Expanded
  <2>2. r.length + f + b = f + r.length + b
    BY <1>2, SMT
  <2> HIDE DEF e, r
  <2> QED
    BY <1>2, <2>1, <2>2 DEF Fields
<1> HIDE DEF e, r
<1>4. Shape(e)
  BY <1>1, <1>2, <1>3, SMTT(60) DEF Shape, Fields, Strings
<1>5. Margins(e)
  BY <1>1, <1>2, <1>3, SMT DEF Margins
<1>6. \A i \in 0 .. f + o.length + b - 1 :
        Content(e)[i] = IF i >= f /\ i < f + o.length THEN Content(o)[i - f] ELSE 0
  <2>1. ASSUME NEW i \in 0 .. f + r.length + b - 1
        PROVE  e.data[e.offset + i]
                 = IF i >= f /\ i < f + r.length THEN Content(r)[i - f] ELSE 0
    <3>1. e.data[e.offset + i] = r.data[r.offset - f + i]
      BY <1>3
    <3>2. CASE i >= f /\ i < f + r.length
      <4>1. i - f \in 0 .. r.length - 1 /\ r.offset + (i - f) = r.offset - f + i
        BY <1>2, <3>2, SMT
      <4>2. Content(r)[i - f] = r.data[r.offset + (i - f)]
        BY <4>1 DEF Content
      <4> QED
        BY <3>1, <3>2, <4>1, <4>2
    <3>3. CASE ~(i >= f /\ i < f + r.length)
      <4>1. /\ r.offset - f + i \in 0 .. r.capacity - 1
            /\ \/ r.offset - f + i < r.offset
               \/ r.offset - f + i >= r.offset + r.length
        <5>1. /\ r.offset \in Nat /\ r.length \in Nat /\ r.capacity \in Nat
              /\ r.offset >= f /\ r.offset + r.length + b <= r.capacity
          BY <1>1, <1>2
        <5> QED
          BY <3>3, <5>1, SMT
      <4> QED
        BY <1>2, <3>1, <3>3, <4>1
    <3> QED
      BY <3>2, <3>3
  <2>2. e.length = f + r.length + b /\ r.length = o.length
    BY <1>1, <1>3
  <2>3. \A i \in 0 .. f + r.length + b - 1 : Content(e)[i] = e.data[e.offset + i]
    BY <1>2, <2>2, SMT DEF Content
  <2> QED
    BY <1>1, <2>1, <2>2, <2>3
<1> QED
  BY <1>1, <1>3, <1>4, <1>5, <1>6 DEF Valid, e

(* set() leaves the hidden bytes alone, however far it is told to go.      *)
LEMMA FilledIsValid ==
  ASSUME NEW o, Valid(o), NEW k \in Nat, NEW n \in Nat, NEW v \in Byte
  PROVE  /\ Valid(Filled(o, k, n, v))
         /\ Filled(o, k, n, v).length = o.length
         /\ Filled(o, k, n, v).capacity = o.capacity
         /\ Filled(o, k, n, v).offset = o.offset
         /\ \A i \in 0 .. o.length - 1 :
              Content(Filled(o, k, n, v))[i] =
                IF i >= k /\ i < k + n THEN v ELSE Content(o)[i]
<1> DEFINE w == Filled(o, k, n, v)
           d == [i \in 0 .. o.capacity - 1 |->
                   IF /\ i >= o.offset + k /\ i < o.offset + k + n
                      /\ i < o.offset + o.length
                     THEN v ELSE o.data[i]]
<1>2. /\ o.length \in Nat /\ o.capacity \in Nat /\ o.offset \in Nat
      /\ o.offset + o.length <= o.capacity /\ o.data \in [0 .. o.capacity - 1 -> Byte]
      /\ o = Fields(o)
  BY DEF Valid, Shape, Strings
<1>1. w = [data |-> d, length |-> o.length, capacity |-> o.capacity, offset |-> o.offset]
  <2>1. DOMAIN o.data = 0 .. o.capacity - 1
    BY <1>2
  <2>2. w = [o EXCEPT !.data = d]
    BY <2>1 DEF Filled
  <2> HIDE DEF d, w
  <2> QED
    BY <1>2, <2>2 DEF Fields
<1>4. Shape(w)
  BY FilledShape DEF Valid
<1>5. Margins(w)
  BY <1>1, <1>2, SMT DEF Margins, Valid
<1>6. ASSUME NEW i \in 0 .. o.length - 1
      PROVE  Content(w)[i] = IF i >= k /\ i < k + n THEN v ELSE Content(o)[i]
  <2>1. o.offset + i \in 0 .. o.capacity - 1
    BY <1>2, SMT
  <2>2. Content(w)[i] = d[o.offset + i] /\ Content(o)[i] = o.data[o.offset + i]
    BY <1>1 DEF Content
  <2>3. (/\ o.offset + i >= o.offset + k /\ o.offset + i < o.offset + k + n
         /\ o.offset + i < o.offset + o.length)
          <=> (i >= k /\ i < k + n)
    BY <1>2, SMT
  <2> QED
    BY <2>1, <2>2, <2>3, Zenon
<1> QED
  BY <1>1, <1>4, <1>5, <1>6 DEF Valid

(* Hiding bytes zeroes them first.                                         *)
LEMMA ShrunkIsValid ==
  ASSUME NEW o, Valid(o), NEW f \in Nat, NEW b \in Nat
  PROVE  LET w == Shrunk(o, f, b)
         IN  /\ Valid(w) /\ w.capacity = o.capacity
             /\ \/ f + b > o.length /\ w.length = 0
                \/ /\ f + b <= o.length /\ w.length = o.length - f - b
                   /\ \A i \in 0 .. o.length - f - b - 1 :
                        Content(w)[i] = Content(o)[i + f]
<1> DEFINE w == Shrunk(o, f, b)
<1>0. /\ o.length \in Nat /\ o.capacity \in Nat /\ o.offset \in Nat
      /\ o.offset + o.length <= o.capacity /\ 0 \in Byte
  BY ContainerAssumption DEF Valid, Shape
<1>1. CASE f + b > o.length
  <2> DEFINE z == Filled(o, 0, o.length, 0)
  <2>1. w = [z EXCEPT !.length = 0]
    <3>1. o.length - (f + b) < 0
      BY <1>0, <1>1, SMT
    <3> QED
      BY <3>1 DEF Shrunk
  <2>2. /\ Valid(z) /\ z.length = o.length /\ z.capacity = o.capacity
        /\ z.offset = o.offset
        /\ \A i \in 0 .. o.length - 1 :
             Content(z)[i] = IF i >= 0 /\ i < 0 + o.length THEN 0 ELSE Content(o)[i]
    <3>1. 0 \in Nat /\ 0 \in Byte /\ o.length \in Nat
      BY <1>0, SMT
    <3>2. /\ Valid(z) /\ z.length = o.length /\ z.capacity = o.capacity
          /\ z.offset = o.offset
      BY <3>1, FilledIsValid, ZenonT(60)
    <3>3. \A i \in 0 .. o.length - 1 :
            Content(z)[i] = IF i >= 0 /\ i < 0 + o.length THEN 0 ELSE Content(o)[i]
      BY <3>1, FilledIsValid, ZenonT(60)
    <3> QED
      BY <3>2, <3>3
  <2> HIDE DEF w, z
  <2>3. z = Fields(z) /\ z.data \in [0 .. o.capacity - 1 -> Byte]
    BY <2>2 DEF Valid, Shape, Strings
  <2>4. w = [data |-> z.data, length |-> 0, capacity |-> o.capacity, offset |-> o.offset]
    BY <2>1, <2>2, <2>3 DEF Fields
  <2>5. \A i \in 0 .. o.capacity - 1 : z.data[i] = 0
    <3> SUFFICES ASSUME NEW i \in 0 .. o.capacity - 1 PROVE z.data[i] = 0
      OBVIOUS
    <3>1. CASE i < o.offset \/ i >= o.offset + o.length
      BY <2>2, <3>1 DEF Valid, Margins
    <3>2. CASE i >= o.offset /\ i < o.offset + o.length
      <4>1. /\ i - o.offset \in 0 .. o.length - 1 /\ o.offset + (i - o.offset) = i
            /\ i - o.offset >= 0 /\ i - o.offset < 0 + o.length
        BY <1>0, <3>2, SMT
      <4>2. Content(z)[i - o.offset] = 0
        BY <2>2, <4>1
      <4>3. Content(z)[i - o.offset] = z.data[o.offset + (i - o.offset)]
        BY <2>2, <4>1 DEF Content
      <4> QED
        BY <4>1, <4>2, <4>3
    <3> QED
      BY <1>0, <3>1, <3>2, SMT
  <2>6. Shape(w)
    BY <1>0, <2>3, <2>4, SMT DEF Shape, Fields, Strings
  <2>7. Margins(w)
    BY <2>4, <2>5 DEF Margins
  <2>8. w.length = 0 /\ w.capacity = o.capacity
    BY <2>4
  <2> QED
    BY <1>1, <2>6, <2>7, <2>8 DEF Valid, w
<1>2. CASE f + b <= o.length
  <2> DEFINE y == Filled(o, o.length - b, b, 0)
             c == [y EXCEPT !.length = @ - b]
             z == Filled(c, 0, f, 0)
  <2>1. w = [z EXCEPT !.offset = @ + f, !.length = @ - f]
    <3>1. ~(o.length - (f + b) < 0)
      BY <1>0, <1>2, SMT
    <3> QED
      BY <3>1 DEF Shrunk
  <2>2. o.length - b \in Nat
    BY <1>0, <1>2, SMT
  <2>3. /\ Valid(y) /\ y.length = o.length /\ y.capacity = o.capacity
        /\ y.offset = o.offset
        /\ \A i \in 0 .. o.length - 1 :
             Content(y)[i] = IF i >= o.length - b /\ i < o.length - b + b
                               THEN 0 ELSE Content(o)[i]
    <3>0. 0 \in Byte /\ o.length - b \in Nat
      BY <1>0, <2>2
    <3>1. /\ Valid(y) /\ y.length = o.length /\ y.capacity = o.capacity
          /\ y.offset = o.offset
      BY <3>0, FilledIsValid, ZenonT(60)
    <3>2. \A i \in 0 .. o.length - 1 :
            Content(y)[i] = IF i >= o.length - b /\ i < o.length - b + b
                              THEN 0 ELSE Content(o)[i]
      BY <3>0, FilledIsValid, ZenonT(60)
    <3> QED
      BY <3>1, <3>2
  <2> HIDE DEF w, y
  <2>4. c = [data |-> y.data, length |-> o.length - b, capacity |-> o.capacity,
             offset |-> o.offset]
    BY <2>3 DEF Valid, Shape, Fields
  <2>5. /\ y.data \in [0 .. o.capacity - 1 -> Byte]
        /\ \A i \in 0 .. o.capacity - 1 :
             i < o.offset \/ i >= o.offset + o.length => y.data[i] = 0
        /\ \A i \in 0 .. o.length - 1 :
             y.data[o.offset + i] = IF i >= o.length - b THEN 0 ELSE o.data[o.offset + i]
    <3>1. \A i \in 0 .. o.length - 1 : /\ Content(y)[i] = y.data[o.offset + i]
                                       /\ Content(o)[i] = o.data[o.offset + i]
      BY <2>3 DEF Content
    <3>2. \A i \in 0 .. o.length - 1 : i < o.length - b + b
      BY <1>0, SMT
    <3> QED
      BY <2>3, <3>1, <3>2 DEF Valid, Shape, Margins, Strings
  <2> HIDE DEF c
  <2>6. Valid(c)
    <3>1. Shape(c)
      BY <1>0, <2>2, <2>4, <2>5, SMT DEF Shape, Fields, Strings
    <3>2. ASSUME NEW i \in 0 .. o.capacity - 1,
                 i < o.offset \/ i >= o.offset + (o.length - b)
          PROVE  y.data[i] = 0
      <4>1. CASE i < o.offset \/ i >= o.offset + o.length
        BY <2>5, <4>1
      <4>2. CASE i >= o.offset + (o.length - b) /\ i < o.offset + o.length
        <5>1. /\ i - o.offset \in 0 .. o.length - 1 /\ i - o.offset >= o.length - b
              /\ o.offset + (i - o.offset) = i
          BY <1>0, <1>2, <4>2, SMT
        <5> QED
          BY <2>5, <5>1
      <4> QED
        BY <1>0, <3>2, <4>1, <4>2, SMT
    <3>3. Margins(c)
      BY <2>4, <3>2 DEF Margins
    <3> QED
      BY <3>1, <3>3 DEF Valid
  <2>7. /\ c.length = o.length - b /\ c.capacity = o.capacity /\ c.offset = o.offset
        /\ c.data = y.data
    BY <2>4
  <2>8. /\ Valid(z) /\ z.length = o.length - b /\ z.capacity = o.capacity
        /\ z.offset = o.offset
        /\ \A i \in 0 .. c.length - 1 :
             Content(z)[i] = IF i >= 0 /\ i < 0 + f THEN 0 ELSE Content(c)[i]
    <3>1. 0 \in Nat /\ 0 \in Byte
      BY <1>0, SMT
    <3>2. /\ Valid(z) /\ z.length = c.length /\ z.capacity = c.capacity
          /\ z.offset = c.offset
      BY <2>6, <3>1, FilledIsValid, ZenonT(60)
    <3>3. \A i \in 0 .. c.length - 1 :
            Content(z)[i] = IF i >= 0 /\ i < 0 + f THEN 0 ELSE Content(c)[i]
      BY <2>6, <3>1, FilledIsValid, ZenonT(60)
    <3> QED
      BY <2>7, <3>2, <3>3
  <2> HIDE DEF z
  <2>9. w = [data |-> z.data, length |-> o.length - b - f, capacity |-> o.capacity,
             offset |-> o.offset + f]
    BY <2>1, <2>8 DEF Valid, Shape, Fields
  <2>10. /\ z.data \in [0 .. o.capacity - 1 -> Byte]
         /\ \A i \in 0 .. o.capacity - 1 :
              i < o.offset \/ i >= o.offset + (o.length - b) => z.data[i] = 0
         /\ \A i \in 0 .. o.length - b - 1 :
              z.data[o.offset + i] = IF i < f THEN 0 ELSE y.data[o.offset + i]
    <3>1. \A i \in 0 .. o.length - b - 1 : /\ Content(z)[i] = z.data[o.offset + i]
                                           /\ Content(c)[i] = y.data[o.offset + i]
      BY <2>7, <2>8 DEF Content
    <3>2. \A i \in 0 .. o.length - b - 1 : i >= 0 /\ (i < 0 + f <=> i < f)
      BY <1>0, SMT
    <3> QED
      BY <2>7, <2>8, <3>1, <3>2 DEF Valid, Shape, Margins, Strings
  <2>11. Shape(w)
    <3>1. /\ o.length - b - f \in Nat /\ o.offset + f \in Nat
          /\ o.offset + f + (o.length - b - f) <= o.capacity
      BY <1>0, <1>2, SMT
    <3>2. z.data \in [0 .. o.capacity - 1 -> Byte]
      BY <2>10
    <3> QED
      BY <1>0, <2>9, <3>1, <3>2 DEF Shape, Fields, Strings
  <2>12. Margins(w)
    <3>1. ASSUME NEW i \in 0 .. o.capacity - 1,
                 i < o.offset + f \/ i >= o.offset + f + (o.length - b - f)
          PROVE  z.data[i] = 0
      <4>1. CASE i < o.offset \/ i >= o.offset + (o.length - b)
        BY <2>10, <4>1
      <4>2. CASE i >= o.offset /\ i < o.offset + f /\ i < o.offset + (o.length - b)
        <5>1. /\ i - o.offset \in 0 .. o.length - b - 1 /\ i - o.offset < f
              /\ o.offset + (i - o.offset) = i
          BY <1>0, <4>2, SMT
        <5> QED
          BY <2>10, <5>1
      <4> QED
        BY <1>0, <3>1, <4>1, <4>2, SMT
    <3> QED
      BY <2>9, <3>1 DEF Margins
  <2>13. w.length = o.length - f - b /\ w.capacity = o.capacity
    BY <1>0, <2>9, SMT
  <2>14. \A i \in 0 .. o.length - f - b - 1 : Content(w)[i] = Content(o)[i + f]
    <3>1. ASSUME NEW i \in 0 .. o.length - f - b - 1
          PROVE  w.data[w.offset + i] = Content(o)[i + f]
      <4>1. /\ f + i \in 0 .. o.length - b - 1 /\ f + i \in 0 .. o.length - 1
            /\ i + f = f + i /\ ~(f + i < f) /\ ~(f + i >= o.length - b)
            /\ (o.offset + f) + i = o.offset + (f + i)
        BY <1>0, <1>2, SMT
      <4>2. w.data[w.offset + i] = z.data[(o.offset + f) + i]
        BY <2>9
      <4>3. z.data[o.offset + (f + i)] = y.data[o.offset + (f + i)]
        BY <2>10, <4>1
      <4>4. y.data[o.offset + (f + i)] = o.data[o.offset + (f + i)]
        BY <2>5, <4>1
      <4>5. Content(o)[f + i] = o.data[o.offset + (f + i)]
        BY <4>1 DEF Content
      <4> QED
        BY <4>1, <4>2, <4>3, <4>4, <4>5
    <3>2. \A i \in 0 .. o.length - f - b - 1 : Content(w)[i] = w.data[w.offset + i]
      BY <2>13 DEF Content
    <3> QED
      BY <3>1, <3>2
  <2> QED
    BY <1>2, <2>11, <2>12, <2>13, <2>14 DEF Valid, w
<1> QED
  BY <1>0, <1>1, <1>2, SMT

-----------------------------------------------------------------------------
(* The block, whatever is assigned to what.                                *)

(* The blocks of a call that leaves the object with some capacity.         *)
LEMMA RelocationKeeps ==
  ASSUME BlockInv, NEW f \in Nat, NEW b \in Nat, blocks' = Relocation(f, b),
         object'.capacity \in Nat,
         \/ ~Relocates(object, f, b) /\ object'.capacity = object.capacity
         \/ Relocates(object, f, b) /\ object'.capacity = f + object.length + b
  PROVE  NoLeak' /\ blocks' \in Int
<1>1. /\ object.length \in Nat /\ object.capacity \in Nat /\ object.offset \in Nat
      /\ object.offset + object.length <= object.capacity
  BY DEF BlockInv, Shape
<1>2. CASE ~Relocates(object, f, b)
  BY <1>2, SMT DEF Relocation, BlockInv, NoLeak, HasBlock
<1>3. CASE Relocates(object, f, b)
  <2>1. f + object.length + b # 0
    BY <1>1, <1>3, SMT DEF Relocates, CapacityBack
  <2>2. object'.capacity # 0 /\ blocks' = blocks + 1 - Count(HasBlock(object))
    BY <1>3, <2>1 DEF Relocation
  <2>3. Count(HasBlock(object)) \in Int
    BY SMT DEF Count
  <2> QED
    BY <2>2, <2>3, SMT DEF BlockInv, NoLeak, HasBlock, Count
<1> QED
  BY <1>2, <1>3

(* Every call keeps the object in its only block.                          *)
LEMMA BlockKept ==
  ASSUME BlockInv, Next
  PROVE  BlockInv'
<1>0. /\ object.length \in Nat /\ object.capacity \in Nat /\ object.offset \in Nat
      /\ object.offset + object.length <= object.capacity
      /\ Shape(object) /\ object.capacity <= MaxCapacity /\ NoLeak /\ blocks \in Int
      /\ MaxCapacity \in Nat /\ 0 \in Nat
      /\ \A n \in Lengths : n \in Nat
  BY ContainerAssumption, SMT DEF BlockInv, Shape, Lengths
<1>1. ASSUME NEW f \in Nat, NEW n \in Nat, NEW b \in Nat, construct(f, n, b)
      PROVE  BlockInv'
  <2>1. Shape(object') /\ object'.capacity = f + n + b /\ f + n + b <= MaxCapacity
    BY <1>1, MadeShape DEF construct
  <2>2. NoLeak' /\ blocks' \in Int
    <3>1. f + n + b > 0 <=> f + n + b # 0
      BY <1>1, SMT
    <3> QED
      BY <1>0, <1>1, <2>1, <3>1, SMT DEF construct, NoLeak, HasBlock, Count
  <2> QED
    BY <2>1, <2>2 DEF BlockInv
<1>2. ASSUME NEW n \in Nat, NEW s \in Strings(n), assign(s, n)
      PROVE  BlockInv'
  <2>1. Shape(object') /\ object'.capacity = n
    <3>1. CASE n # object.capacity
      <4>1. object' = [data |-> s, length |-> n, capacity |-> n, offset |-> 0]
        BY <1>2, <3>1 DEF assign, Assigned
      <4> QED
        BY <1>2, <4>1, SMT DEF Shape, Fields
    <3>2. CASE n = object.capacity
      <4> DEFINE o == [object EXCEPT !.offset = 0]
      <4>1. object' = Written(o, 0, s, object.length)
        BY <1>2, <3>2 DEF assign, Assigned
      <4>2. o = [data |-> object.data, length |-> object.length,
                 capacity |-> object.capacity, offset |-> 0]
        BY <1>0 DEF Shape, Fields
      <4>3. 0 + object.length <= object.capacity
        BY <1>0, SMT
      <4> HIDE DEF o
      <4>4. Shape(o) /\ o.capacity = n
        BY <1>0, <3>2, <4>2, <4>3 DEF Shape, Fields
      <4>5. object.length <= n
        BY <1>0, <3>2, SMT
      <4> QED
        <5>1. Shape(Written(o, 0, s, object.length))
              /\ Written(o, 0, s, object.length).capacity = o.capacity
          <6>1. 0 \in Nat /\ object.length \in Nat /\ n \in Nat /\ s \in Strings(n)
            BY <1>0, <1>2, SMT DEF Shape
          <6> QED
            BY <4>4, <4>5, <6>1, WrittenShape, SMTT(60)
        <5> QED
          BY <4>1, <4>4, <5>1
    <3> QED
      BY <3>1, <3>2
  <2>2. NoLeak' /\ blocks' \in Int /\ n <= MaxCapacity
    BY <1>0, <1>2, <2>1, SMT DEF assign, NoLeak, HasBlock, Count
  <2> QED
    BY <2>1, <2>2 DEF BlockInv
<1>3. ASSUME NEW f \in Nat, NEW b \in Nat, Fits(f, b), blocks' = Relocation(f, b),
             Shape(object'),
             \/ ~Relocates(object, f, b) /\ object'.capacity = object.capacity
             \/ Relocates(object, f, b) /\ object'.capacity = f + object.length + b
      PROVE  BlockInv'
  <2>1. object'.capacity \in Nat /\ object'.capacity <= MaxCapacity
    BY <1>0, <1>3 DEF Fits, Shape
  <2>2. NoLeak' /\ blocks' \in Int
    BY <1>3, <2>1, RelocationKeeps
  <2> QED
    BY <1>3, <2>1, <2>2 DEF BlockInv
<1>4. ASSUME NEW n \in Nat, NEW s \in Strings(n), push_front(s, n)
      PROVE  BlockInv'
  <2> DEFINE e == Expanded(object, n, 0)
  <2>1. /\ Shape(e) /\ e.length = n + object.length + 0
        /\ \/ ~Relocates(object, n, 0) /\ e.capacity = object.capacity
           \/ Relocates(object, n, 0) /\ e.capacity = n + object.length + 0
    BY <1>0, ExpandedShape
  <2>2. object' = Written(e, 0, s, n) /\ Fits(n, 0) /\ blocks' = Relocation(n, 0)
    BY <1>4 DEF push_front, PushedFront
  <2> HIDE DEF e
  <2>3. n <= n
    BY SMT
  <2>4. Shape(object') /\ object'.capacity = e.capacity
    BY <1>0, <2>1, <2>2, <2>3, WrittenShape, SMTT(60)
  <2> QED
    BY <1>0, <1>3, <2>1, <2>2, <2>4
<1>5. ASSUME NEW n \in Nat, NEW s \in Strings(n), push_back(s, n)
      PROVE  BlockInv'
  <2> DEFINE e == Expanded(object, 0, n)
  <2>1. /\ Shape(e) /\ e.length = 0 + object.length + n
        /\ \/ ~Relocates(object, 0, n) /\ e.capacity = object.capacity
           \/ Relocates(object, 0, n) /\ e.capacity = 0 + object.length + n
    BY <1>0, ExpandedShape
  <2>2. /\ object' = Written(e, object.length, s, n) /\ Fits(0, n)
        /\ blocks' = Relocation(0, n)
    BY <1>5 DEF push_back, PushedBack
  <2> HIDE DEF e
  <2>3. n <= n
    BY SMT
  <2>4. Shape(object') /\ object'.capacity = e.capacity
    BY <1>0, <2>1, <2>2, <2>3, WrittenShape, SMTT(60)
  <2> QED
    BY <1>0, <1>3, <2>1, <2>2, <2>4
<1>6. ASSUME NEW f \in Nat, NEW b \in Nat, reserve(f, b)
      PROVE  BlockInv'
  <2>1. object' = Reserved(object, f, b) /\ Fits(f, b) /\ blocks' = Relocation(f, b)
    BY <1>6 DEF reserve
  <2>2. /\ Shape(object')
        /\ \/ ~Relocates(object, f, b) /\ object'.capacity = object.capacity
           \/ Relocates(object, f, b) /\ object'.capacity = f + object.length + b
    BY <1>0, <2>1, ReservedShape
  <2> QED
    BY <1>3, <2>1, <2>2
<1>7. ASSUME NEW f \in Nat, NEW b \in Nat, expand(f, b)
      PROVE  BlockInv'
  <2>1. object' = Expanded(object, f, b) /\ Fits(f, b) /\ blocks' = Relocation(f, b)
    BY <1>7 DEF expand
  <2>2. /\ Shape(object')
        /\ \/ ~Relocates(object, f, b) /\ object'.capacity = object.capacity
           \/ Relocates(object, f, b) /\ object'.capacity = f + object.length + b
    BY <1>0, <2>1, ExpandedShape
  <2> QED
    BY <1>3, <2>1, <2>2
<1>8. ASSUME Shape(object'), object'.capacity = object.capacity, blocks' = blocks
      PROVE  BlockInv'
  BY <1>0, <1>8 DEF BlockInv, NoLeak, HasBlock
<1>9. ASSUME NEW f \in Nat, NEW b \in Nat, shrink(f, b)
      PROVE  BlockInv'
  BY <1>0, <1>8, <1>9, ShrunkShape DEF shrink
<1>10. ASSUME NEW k \in Nat, NEW n \in Nat, NEW v \in Byte, set(k, n, v)
       PROVE  BlockInv'
  BY <1>0, <1>8, <1>10, FilledShape DEF set
<1>11. CASE clear
  <2>1. Shape(object') /\ object'.capacity = 0
    <3>1. object' = Made(0, 0, 0)
      BY <1>11 DEF clear, Empty
    <3>2. Shape(object') /\ object'.capacity = 0 + 0 + 0
      BY <1>0, <3>1, MadeShape
    <3> QED
      BY <3>2, SMT
  <2>2. NoLeak' /\ blocks' \in Int
    BY <1>0, <1>11, <2>1, SMT DEF clear, NoLeak, HasBlock, Count
  <2> QED
    BY <1>0, <2>1, <2>2, SMT DEF BlockInv
<1> QED
  BY <1>0, <1>1, <1>2, <1>4, <1>5, <1>6, <1>7, <1>9, <1>10, <1>11 DEF Next

(* BlockInv is an invariant of the specification, whatever callers assign. *)
THEOREM BlockInvariance == Spec => []BlockInv
<1>1. Init => BlockInv
  <2> SUFFICES ASSUME Init PROVE BlockInv
    OBVIOUS
  <2>1. object = Made(0, 0, 0) /\ blocks = 0 /\ 0 \in Nat
    BY SMT DEF Init, Empty
  <2>2. Shape(object) /\ object.capacity = 0 + 0 + 0
    BY <2>1, MadeShape
  <2> QED
    BY <2>1, <2>2, ContainerAssumption, SMT DEF BlockInv, NoLeak, HasBlock, Count
<1>2. BlockInv /\ [Next]_vars => BlockInv'
  <2>1. BlockInv /\ UNCHANGED vars => BlockInv'
    BY DEF vars, BlockInv, NoLeak
  <2> QED
    BY <2>1, BlockKept
<1> QED
  BY <1>1, <1>2, PTL DEF Spec

(* The exposed bytes are always inside the block, after every sequence of  *)
(* calls, copies to containers with margins included.                      *)
THEOREM TypeCorrect == Spec => []TypeOK
<1>1. BlockInv => TypeOK
  <2> SUFFICES ASSUME BlockInv PROVE TypeOK
    OBVIOUS
  <2>1. object.capacity \in 0 .. MaxCapacity
    BY ContainerAssumption, SMT DEF BlockInv, Shape
  <2> QED
    BY <2>1 DEF BlockInv, Shape, Fields, TypeOK
<1> QED
  BY <1>1, BlockInvariance, PTL

(* No sequence of calls leaks a block or frees one twice, copies assigned  *)
(* to containers of any capacity and margins included.                     *)
THEOREM OneBlock == Spec => []NoLeak
<1>1. BlockInv => NoLeak
  BY DEF BlockInv
<1> QED
  BY <1>1, BlockInvariance, PTL

-----------------------------------------------------------------------------
(* Steps: each keeps the invariant and is the step of ByteString its call  *)
(* names.                                                                  *)

(* The abstract string becomes what the container shows.                   *)
LEMMA Shows ==
  ASSUME NEW n \in Nat, NEW s, object'.length = n,
         \A i \in 0 .. n - 1 : Content(object')[i] = s[i]
  PROVE  String!Become(s, n)
<1>1. Content(object') = [i \in 0 .. n - 1 |-> object'.data[object'.offset + i]]
  BY DEF Content
<1>2. \A i \in 0 .. n - 1 : object'.data[object'.offset + i] = s[i]
  BY <1>1
<1>3. Content(object') = [i \in 0 .. n - 1 |-> s[i]]
  BY <1>1, <1>2
<1> QED
  BY <1>3 DEF String!Become, Content

LEMMA ObjectTypes ==
  ASSUME CInv
  PROVE  /\ Valid(object) /\ object.length \in Nat /\ object.capacity \in Nat
         /\ object.length <= object.capacity /\ object.capacity <= MaxCapacity
         /\ MaxCapacity \in Nat /\ MaxLength \in Nat /\ 0 \in Byte
         /\ \A n \in Lengths : n \in Nat
BY ContainerAssumption, SMT DEF CInv, Valid, Shape, Lengths

LEMMA ConstructStep ==
  ASSUME CInv, NEW f \in Lengths, NEW n \in Lengths, NEW b \in Lengths,
         construct(f, n, b)
  PROVE  CInv' /\ String!Next
<1>1. /\ f \in Nat /\ n \in Nat /\ b \in Nat /\ f + n + b <= MaxCapacity
  BY ObjectTypes DEF construct
<1>2. /\ Valid(object') /\ object'.length = n /\ object'.capacity = f + n + b
      /\ \A i \in 0 .. n - 1 : Content(object')[i] = 0
  <2>1. object' = Made(f, n, b)
    BY DEF construct
  <2>2. /\ Valid(Made(f, n, b)) /\ Made(f, n, b).length = n
        /\ Made(f, n, b).capacity = f + n + b
        /\ \A i \in 0 .. n - 1 : Content(Made(f, n, b))[i] = 0
    <3>1. f \in Nat /\ n \in Nat /\ b \in Nat
      BY <1>1
    <3>2. /\ Valid(Made(f, n, b)) /\ Made(f, n, b).length = n
          /\ Made(f, n, b).capacity = f + n + b
      BY <3>1, MadeIsValid
    <3>3. \A i \in 0 .. n - 1 : Content(Made(f, n, b))[i] = 0
      BY <3>1, MadeIsValid, SMT DEF Made, Content, Zeros
    <3> QED
      BY <3>2, <3>3, Zenon
  <2> QED
    BY <2>1, <2>2, Zenon
<1>3. NoLeak' /\ blocks' \in Int
  <2>1. f + n + b > 0 <=> f + n + b # 0
    BY <1>1, SMT
  <2> QED
    BY <1>2, <2>1, SMT DEF construct, CInv, NoLeak, HasBlock, Count
<1>4. String!Become(Zeros(n), n)
  BY <1>1, <1>2, Shows DEF Zeros
<1> QED
  BY <1>1, <1>2, <1>3, <1>4 DEF CInv, String!Next, construct, String!Zeros, Zeros

LEMMA ReserveStep ==
  ASSUME CInv, NEW f \in Lengths, NEW b \in Lengths, reserve(f, b)
  PROVE  CInv' /\ String!Next
<1>1. /\ f \in Nat /\ b \in Nat /\ f + object.length + b <= MaxCapacity
  BY ObjectTypes DEF reserve, Fits
<1>2. /\ Valid(object') /\ object'.length = object.length
      /\ \/ ~Relocates(object, f, b) /\ object' = object
         \/ Relocates(object, f, b) /\ object'.capacity = f + object.length + b
      /\ Content(object') = Content(object)
  BY <1>1, ObjectTypes, ReservedIsValid DEF reserve
<1>3. object'.capacity \in Nat /\ object'.capacity <= MaxCapacity
  BY <1>1, <1>2, ObjectTypes DEF Valid, Shape
<1>4. NoLeak' /\ blocks' \in Int
  BY <1>1, <1>2, <1>3, RelocationKeeps DEF reserve, CInv, BlockInv, Valid
<1>5. String!Become(Content(object), object.length)
  BY <1>2, ObjectTypes, Shows
<1> QED
  BY <1>2, <1>3, <1>4, <1>5 DEF CInv, String!Next, reserve

(* What expand and the two push methods share.                             *)
LEMMA ExtendStep ==
  ASSUME CInv, NEW n \in Nat, NEW m \in Nat, NEW s, NEW t,
         n + object.length + m <= MaxCapacity,
         Valid(object'), object'.length = n + object.length + m,
         \/ ~Relocates(object, n, m) /\ object'.capacity = object.capacity
         \/ Relocates(object, n, m) /\ object'.capacity = n + object.length + m,
         blocks' = Relocation(n, m),
         \A i \in 0 .. n + object.length + m - 1 :
           Content(object')[i] = IF i < n THEN s[i]
                                 ELSE IF i < n + object.length THEN Content(object)[i - n]
                                 ELSE t[i - n - object.length]
  PROVE  CInv' /\ String!Extend(s, n, t, m)
<1>1. object'.capacity \in Nat /\ object'.capacity <= MaxCapacity
  BY ObjectTypes DEF Valid, Shape
<1>2. NoLeak' /\ blocks' \in Int
  <2>1. BlockInv
    BY DEF CInv, BlockInv, Valid
  <2> QED
    BY <1>1, <2>1, RelocationKeeps
<1>3. n + object.length + m \in Nat
  BY ObjectTypes, SMT
<1>4. String!Extend(s, n, t, m)
  <2> DEFINE g == [i \in 0 .. n + object.length + m - 1 |->
                     IF i < n THEN s[i]
                     ELSE IF i < n + object.length THEN Content(object)[i - n]
                     ELSE t[i - n - object.length]]
  <2>1. \A i \in 0 .. n + object.length + m - 1 : Content(object')[i] = g[i]
    OBVIOUS
  <2> HIDE DEF g
  <2>2. PICK k \in Nat : k = n + object.length + m
    BY <1>3, Zenon
  <2>3. n + object.length + m - 1 = k - 1
    <3>1. object.length \in Nat
      BY ObjectTypes
    <3> QED
      BY <2>2, <3>1, SMT
  <2>4. \A i \in 0 .. k - 1 : Content(object')[i] = g[i]
    BY <2>1, <2>3, Zenon
  <2>5. object'.length = k
    BY <2>2, Zenon
  <2>6. String!Become(g, k)
    BY <2>2, <2>4, <2>5, Shows, Zenon
  <2>7. String!Become(g, n + object.length + m)
    BY <2>2, <2>6, Zenon
  <2> QED
    BY <2>7 DEF String!Extend, g
<1> QED
  BY <1>1, <1>2, <1>4 DEF CInv

LEMMA ExpandStep ==
  ASSUME CInv, NEW f \in Lengths, NEW b \in Lengths, expand(f, b)
  PROVE  CInv' /\ String!Next
<1>1. /\ f \in Nat /\ b \in Nat /\ f + object.length + b <= MaxCapacity
  BY ObjectTypes DEF expand, Fits
<1>2. /\ Valid(object') /\ object'.length = f + object.length + b
      /\ \/ ~Relocates(object, f, b) /\ object'.capacity = object.capacity
         \/ Relocates(object, f, b) /\ object'.capacity = f + object.length + b
      /\ \A i \in 0 .. f + object.length + b - 1 :
           Content(object')[i] = IF i >= f /\ i < f + object.length
                                   THEN Content(object)[i - f] ELSE 0
  BY <1>1, ObjectTypes, ExpandedIsValid, ZenonT(60) DEF expand
<1>3. ASSUME NEW i \in 0 .. f + object.length + b - 1
      PROVE  Content(object')[i] =
               IF i < f THEN Zeros(f)[i]
               ELSE IF i < f + object.length THEN Content(object)[i - f]
               ELSE Zeros(b)[i - f - object.length]
  <2>1. object.length \in Nat
    BY ObjectTypes
  <2>2. CASE i < f
    <3>1. i \in 0 .. f - 1 /\ ~(i >= f)
      BY <1>1, <2>1, <2>2, SMT
    <3> QED
      BY <1>2, <2>2, <3>1 DEF Zeros
  <2>3. CASE ~(i < f) /\ i < f + object.length
    <3>1. i >= f
      BY <1>1, <2>1, <2>3, SMT
    <3> QED
      BY <1>2, <2>3, <3>1, Zenon
  <2>4. CASE ~(i < f) /\ ~(i < f + object.length)
    <3>1. i - f - object.length \in 0 .. b - 1
      BY <1>1, <2>1, <2>4, SMT
    <3>2. Content(object')[i] = 0 /\ Zeros(b)[i - f - object.length] = 0
      BY <1>2, <2>4, <3>1 DEF Zeros
    <3> QED
      BY <2>4, <3>2, Zenon
  <2> QED
    BY <2>2, <2>3, <2>4
<1>4. CInv' /\ String!Extend(Zeros(f), f, Zeros(b), b)
  <2>1. blocks' = Relocation(f, b)
    BY DEF expand
  <2> QED
    BY <1>1, <1>2, <1>3, <2>1, ExtendStep, Zenon
<1> QED
  BY <1>4 DEF String!Next, expand, String!Zeros, Zeros

LEMMA PushFrontStep ==
  ASSUME CInv, NEW n \in Lengths, NEW s \in Strings(n), push_front(s, n)
  PROVE  CInv' /\ String!Next
<1> DEFINE e == Expanded(object, n, 0)
<1>1. /\ n \in Nat /\ 0 \in Nat /\ n + object.length + 0 <= MaxCapacity
      /\ object.length \in Nat /\ n + object.length + 0 = n + object.length
  BY ObjectTypes, SMT DEF push_front, Fits
<1>2. /\ Valid(e) /\ e.length = n + object.length + 0
      /\ \/ ~Relocates(object, n, 0) /\ e.capacity = object.capacity
         \/ Relocates(object, n, 0) /\ e.capacity = n + object.length + 0
      /\ \A i \in 0 .. n + object.length + 0 - 1 :
           Content(e)[i] = IF i >= n /\ i < n + object.length
                             THEN Content(object)[i - n] ELSE 0
  <2>1. Valid(object)
    BY ObjectTypes
  <2> QED
    BY <1>1, <2>1, ExpandedIsValid
<1> HIDE DEF e
<1>3. object' = Written(e, 0, s, n) /\ blocks' = Relocation(n, 0)
  BY DEF push_front, PushedFront, e
<1>4. /\ Valid(object') /\ object'.length = e.length /\ object'.capacity = e.capacity
      /\ \A i \in 0 .. e.length - 1 :
           Content(object')[i] =
             IF i >= 0 /\ i < 0 + n THEN s[i - 0] ELSE Content(e)[i]
  <2>1. 0 + n <= e.length
    BY <1>1, <1>2, SMT
  <2> QED
    BY <1>1, <1>2, <1>3, <2>1, WrittenIsValid, ZenonT(60)
<1>5. ASSUME NEW i \in 0 .. n + object.length + 0 - 1
      PROVE  Content(object')[i] =
               IF i < n THEN s[i]
               ELSE IF i < n + object.length THEN Content(object)[i - n]
               ELSE Zeros(0)[i - n - object.length]
  <2>1. /\ i \in 0 .. e.length - 1 /\ i - 0 = i /\ i >= 0
        /\ (i < 0 + n <=> i < n) /\ (~(i < n) => i >= n) /\ i < n + object.length
    BY <1>1, <1>2, SMT
  <2> QED
    BY <1>2, <1>4, <2>1, Zenon
<1>6. CInv' /\ String!Extend(s, n, Zeros(0), 0)
  <2>1. /\ object'.length = n + object.length + 0
        /\ \/ ~Relocates(object, n, 0) /\ object'.capacity = object.capacity
           \/ Relocates(object, n, 0) /\ object'.capacity = n + object.length + 0
    BY <1>2, <1>4
  <2> QED
    BY <1>1, <1>3, <1>4, <1>5, <2>1, ExtendStep, Zenon
<1> QED
  BY <1>6 DEF String!Next, push_front, String!Zeros, Zeros

LEMMA PushBackStep ==
  ASSUME CInv, NEW n \in Lengths, NEW s \in Strings(n), push_back(s, n)
  PROVE  CInv' /\ String!Next
<1> DEFINE e == Expanded(object, 0, n)
<1>1. /\ n \in Nat /\ 0 \in Nat /\ 0 + object.length + n <= MaxCapacity
      /\ object.length \in Nat
  BY ObjectTypes, SMT DEF push_back, Fits
<1>2. /\ Valid(e) /\ e.length = 0 + object.length + n
      /\ \/ ~Relocates(object, 0, n) /\ e.capacity = object.capacity
         \/ Relocates(object, 0, n) /\ e.capacity = 0 + object.length + n
      /\ \A i \in 0 .. 0 + object.length + n - 1 :
           Content(e)[i] = IF i >= 0 /\ i < 0 + object.length
                             THEN Content(object)[i - 0] ELSE 0
  <2>1. Valid(object)
    BY ObjectTypes
  <2> QED
    BY <1>1, <2>1, ExpandedIsValid
<1> HIDE DEF e
<1>3. object' = Written(e, object.length, s, n) /\ blocks' = Relocation(0, n)
  BY DEF push_back, PushedBack, e
<1>4. /\ Valid(object') /\ object'.length = e.length /\ object'.capacity = e.capacity
      /\ \A i \in 0 .. e.length - 1 :
           Content(object')[i] =
             IF i >= object.length /\ i < object.length + n
               THEN s[i - object.length] ELSE Content(e)[i]
  <2>1. object.length + n <= e.length
    BY <1>1, <1>2, SMT
  <2> QED
    BY <1>1, <1>2, <1>3, <2>1, WrittenIsValid, ZenonT(60)
<1>5. ASSUME NEW i \in 0 .. 0 + object.length + n - 1
      PROVE  Content(object')[i] =
               IF i < 0 THEN Zeros(0)[i]
               ELSE IF i < 0 + object.length THEN Content(object)[i - 0]
               ELSE s[i - 0 - object.length]
  <2>1. /\ i \in 0 .. e.length - 1 /\ i - 0 - object.length = i - object.length
        /\ i >= 0 /\ ~(i < 0) /\ i < object.length + n
        /\ (i >= object.length <=> ~(i < 0 + object.length))
    BY <1>1, <1>2, SMT
  <2> QED
    BY <1>2, <1>4, <2>1, Zenon
<1>6. CInv' /\ String!Extend(Zeros(0), 0, s, n)
  <2>1. /\ object'.length = 0 + object.length + n
        /\ \/ ~Relocates(object, 0, n) /\ object'.capacity = object.capacity
           \/ Relocates(object, 0, n) /\ object'.capacity = 0 + object.length + n
    BY <1>2, <1>4
  <2> QED
    BY <1>1, <1>3, <1>4, <1>5, <2>1, ExtendStep, Zenon
<1> QED
  BY <1>6 DEF String!Next, push_back, String!Zeros, Zeros

LEMMA AssignStep ==
  ASSUME ~AnyAssign, CInv, NEW n \in Lengths, NEW s \in Strings(n), assign(s, n)
  PROVE  CInv' /\ String!Next
<1>1. /\ n \in Nat /\ n <= MaxCapacity /\ s \in [0 .. n - 1 -> Byte]
      /\ n # object.capacity \/ n = object.length
  BY ObjectTypes DEF assign, Strings
<1>2. /\ Valid(object') /\ object'.length = n /\ object'.capacity = n
      /\ \A i \in 0 .. n - 1 : Content(object')[i] = s[i]
  <2>1. CASE n # object.capacity
    <3>1. object' = [data |-> s, length |-> n, capacity |-> n, offset |-> 0]
      BY <2>1 DEF assign, Assigned
    <3>2. Shape(object')
      BY <1>1, <3>1, SMT DEF Shape, Fields, Strings
    <3>3. Margins(object')
      BY <1>1, <3>1, SMT DEF Margins
    <3>4. \A i \in 0 .. n - 1 : Content(object')[i] = s[i]
      BY <1>1, <3>1, SMT DEF Content
    <3> QED
      BY <3>1, <3>2, <3>3, <3>4 DEF Valid
  <2>2. CASE n = object.capacity
    <3>1. n = object.length /\ object.offset = 0
      BY <1>1, <2>2, SMT DEF CInv, Valid, Shape
    <3>2. object' = Written(object, 0, s, n)
      <4>1. object = [object EXCEPT !.offset = 0]
        BY <3>1 DEF CInv, Valid, Shape, Fields
      <4>2. object' = Written([object EXCEPT !.offset = 0], 0, s, object.length)
        BY <2>2 DEF assign, Assigned
      <4> QED
        BY <3>1, <4>1, <4>2
    <3>3. 0 \in Nat /\ 0 + n <= object.length /\ Valid(object)
      BY <1>1, <3>1, SMT DEF CInv
    <3>4. /\ Valid(object') /\ object'.length = n /\ object'.capacity = n
          /\ \A i \in 0 .. object.length - 1 :
               Content(object')[i] =
                 IF i >= 0 /\ i < 0 + n THEN s[i - 0] ELSE Content(object)[i]
      <4>1. n \in Nat /\ s \in Strings(n) /\ 0 \in Nat
        BY <1>1
      <4> DEFINE w == Written(object, 0, s, n)
      <4>2. /\ Valid(w) /\ w.length = object.length /\ w.capacity = object.capacity
            /\ \A i \in 0 .. object.length - 1 :
                 Content(w)[i] =
                   IF i >= 0 /\ i < 0 + n THEN s[i - 0] ELSE Content(object)[i]
        BY <3>3, <4>1, WrittenIsValid, ZenonT(60)
      <4> HIDE DEF w
      <4>3. object' = w
        BY <3>2 DEF w
      <4> QED
        BY <2>2, <3>1, <4>2, <4>3
    <3>5. ASSUME NEW i \in 0 .. n - 1 PROVE Content(object')[i] = s[i]
      <4>1. i \in 0 .. object.length - 1
        BY <3>1
      <4>2. i >= 0 /\ i < 0 + n /\ i - 0 = i
        BY <1>1, SMT
      <4> QED
        BY <3>4, <4>1, <4>2, Zenon
    <3> QED
      BY <3>4, <3>5
  <2> QED
    BY <2>1, <2>2
<1>3. NoLeak' /\ blocks' \in Int
  BY <1>1, <1>2, SMT DEF assign, CInv, NoLeak, HasBlock, Count
<1>4. String!Become(s, n)
  BY <1>1, <1>2, Shows, Zenon
<1> QED
  BY <1>1, <1>2, <1>3, <1>4 DEF CInv, String!Next, assign

LEMMA ShrinkStep ==
  ASSUME CInv, NEW f \in Lengths, NEW b \in Lengths, shrink(f, b)
  PROVE  CInv' /\ String!Next
<1>1. /\ f \in Nat /\ b \in Nat /\ object.length \in Nat /\ Valid(object)
      /\ object.capacity <= MaxCapacity
  BY ObjectTypes
<1>2. /\ Valid(object') /\ object'.capacity = object.capacity
      /\ \/ f + b > object.length /\ object'.length = 0
         \/ /\ f + b <= object.length /\ object'.length = object.length - f - b
            /\ \A i \in 0 .. object.length - f - b - 1 :
                 Content(object')[i] = Content(object)[i + f]
  <2> DEFINE w == Shrunk(object, f, b)
  <2>1. /\ Valid(w) /\ w.capacity = object.capacity
        /\ \/ f + b > object.length /\ w.length = 0
           \/ /\ f + b <= object.length /\ w.length = object.length - f - b
              /\ \A i \in 0 .. object.length - f - b - 1 :
                   Content(w)[i] = Content(object)[i + f]
    BY <1>1, ShrunkIsValid, ZenonT(60)
  <2>2. object' = w
    BY DEF shrink
  <2> HIDE DEF w
  <2> QED
    BY <2>1, <2>2, Zenon
<1>3. NoLeak' /\ blocks' \in Int
  <2>1. blocks' = blocks /\ object'.capacity = object.capacity
    BY <1>2 DEF shrink
  <2> QED
    BY <2>1, Zenon DEF CInv, NoLeak, HasBlock
<1>4. String!Shrink(f, b)
  <2>1. CASE f + b > object.length
    <3>1. object'.length = 0
      BY <1>1, <1>2, <2>1, SMT
    <3>2. 0 \in Nat /\ \A i \in 0 .. 0 - 1 : Content(object')[i] = Zeros(0)[i]
      BY SMT
    <3>3. String!Become(Zeros(0), 0)
      BY <3>1, <3>2, Shows, Zenon
    <3> QED
      BY <2>1, <3>3 DEF String!Shrink, String!Zeros, Zeros
  <2>2. CASE ~(f + b > object.length)
    <3> DEFINE n == object.length - f - b
               g == [i \in 0 .. n - 1 |-> Content(object)[i + f]]
    <3>1. /\ n \in Nat /\ object'.length = n
          /\ \A i \in 0 .. n - 1 : Content(object')[i] = Content(object)[i + f]
      BY <1>1, <1>2, <2>2, SMT
    <3>2. \A i \in 0 .. n - 1 : Content(object')[i] = g[i]
      <4> HIDE DEF n
      <4> QED
        BY <3>1
    <3> HIDE DEF n, g
    <3>3. String!Become(g, n)
      BY <3>1, <3>2, Shows, Zenon
    <3> QED
      BY <2>2, <3>3, Zenon DEF String!Shrink, n, g
  <2> QED
    BY <2>1, <2>2
<1> QED
  BY <1>1, <1>2, <1>3, <1>4 DEF CInv, String!Next, shrink

LEMMA SetStep ==
  ASSUME CInv, NEW k \in Lengths, NEW n \in Lengths, NEW v \in Byte, set(k, n, v)
  PROVE  CInv' /\ String!Next
<1>1. /\ k \in Nat /\ n \in Nat /\ object.length \in Nat /\ Valid(object)
      /\ object.capacity <= MaxCapacity
  BY ObjectTypes
<1>2. object' = Filled(object, k, n, v)
  BY DEF set
<1>3. /\ Valid(object') /\ object'.capacity = object.capacity
      /\ object'.length = object.length
      /\ \A i \in 0 .. object.length - 1 :
           Content(object')[i] =
             IF i >= k /\ i < k + n THEN v ELSE Content(object)[i]
  <2>1. k \in Nat /\ n \in Nat /\ Valid(object)
    BY <1>1
  <2> QED
    BY <1>2, <2>1, FilledIsValid, ZenonT(60)
<1>4. NoLeak' /\ blocks' \in Int
  BY <1>3 DEF set, CInv, NoLeak, HasBlock
<1>5. String!Set(k, n, v)
  <2> DEFINE g == [i \in 0 .. object.length - 1 |->
                     IF i >= k /\ i < k + n THEN v ELSE Content(object)[i]]
  <2>1. \A i \in 0 .. object.length - 1 : Content(object')[i] = g[i]
    BY <1>3
  <2> HIDE DEF g
  <2>2. String!Become(g, object.length)
    BY <1>1, <1>3, <2>1, Shows, Zenon
  <2> QED
    BY <2>2, Zenon DEF String!Set, g
<1> QED
  BY <1>1, <1>3, <1>4, <1>5 DEF CInv, String!Next, set

LEMMA ClearStep ==
  ASSUME CInv, clear
  PROVE  CInv' /\ String!Next
<1>1. 0 \in Nat /\ object' = Made(0, 0, 0)
  BY SMT DEF clear, Empty
<1>2. /\ Valid(object') /\ object'.length = 0 /\ object'.capacity = 0 + 0 + 0
  BY <1>1, MadeIsValid, ZenonT(60)
<1>3. object'.capacity = 0 /\ 0 <= MaxCapacity
  BY <1>2, ObjectTypes, SMT
<1>4. NoLeak' /\ blocks' \in Int
  BY <1>3, SMT DEF clear, CInv, NoLeak, HasBlock, Count
<1>5. String!Become(Zeros(0), 0)
  <2>1. \A i \in 0 .. 0 - 1 : Content(object')[i] = Zeros(0)[i]
    BY SMT
  <2> QED
    BY <1>1, <1>2, <2>1, Shows, Zenon
<1> QED
  BY <1>2, <1>3, <1>4, <1>5 DEF CInv, String!Next, clear, String!Zeros, Zeros

-----------------------------------------------------------------------------

LEMMA InitCInv == Init => CInv /\ String!Init
<1> SUFFICES ASSUME Init PROVE CInv /\ String!Init
  OBVIOUS
<1>1. 0 \in Nat /\ object = Made(0, 0, 0) /\ blocks = 0
  BY SMT DEF Init, Empty
<1>2. /\ Valid(object) /\ object.length = 0 /\ object.capacity = 0 + 0 + 0
  BY <1>1, MadeIsValid, ZenonT(60)
<1>3. CInv
  BY <1>1, <1>2, ContainerAssumption, SMT DEF CInv, NoLeak, HasBlock, Count
<1>4. Content(object) = [i \in 0 .. 0 - 1 |-> 0]
  <2>1. Content(object) = [i \in 0 .. 0 - 1 |-> object.data[object.offset + i]]
    BY <1>2 DEF Content
  <2>2. \A i \in 0 .. 0 - 1 : object.data[object.offset + i] = 0
    BY SMT
  <2> QED
    BY <2>1, <2>2
<1> QED
  BY <1>2, <1>3, <1>4 DEF String!Init, String!Zeros

(* Every step keeps CInv and is a step of ByteString or a stutter of it.   *)
LEMMA Step ==
  ASSUME ~AnyAssign, CInv, [Next]_vars
  PROVE  CInv' /\ [String!Next]_String!vars
<1>1. CASE Next
  BY <1>1, ConstructStep, AssignStep, PushFrontStep, PushBackStep, ReserveStep,
     ExpandStep, ShrinkStep, SetStep, ClearStep DEF Next
<1>2. CASE UNCHANGED vars
  <2>1. object' = object /\ blocks' = blocks /\ call' = call
    BY <1>2 DEF vars
  <2> QED
    BY <2>1 DEF CInv, NoLeak, String!vars, Content
<1> QED
  BY <1>1, <1>2

(* CInv is an invariant of the specification.                              *)
THEOREM Invariance == ASSUME ~AnyAssign PROVE Spec => []CInv
<1>1. CInv /\ [Next]_vars => CInv'
  BY Step
<1> QED
  BY InitCInv, <1>1, PTL DEF Spec

(* The container implements the plain string of ByteString, as long as no  *)
(* copy is assigned to a container with margins of the copy's size         *)
(* (container.hpp:117).                                                    *)
THEOREM Refinement == ASSUME ~AnyAssign PROVE Spec => ImplementsByteString
<1>1. CInv /\ [Next]_vars => [String!Next]_String!vars
  BY Step
<1>2. Init => String!Init
  BY InitCInv
<1> QED
  BY <1>1, <1>2, Invariance, PTL DEF Spec, ImplementsByteString, String!Spec
=============================================================================
