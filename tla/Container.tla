----------------------------- MODULE Container -----------------------------
(***************************************************************************)
(* sp::bytes, the container of every fragment: one allocated block of      *)
(* which [offset, offset + length) is exposed, so that headers and footers *)
(* can be added without reallocation.  The operators compute what a method *)
(* leaves in the object; the actions call them, with the arguments in      *)
(* `call`, and count the blocks that are allocated.                        *)
(***************************************************************************)
EXTENDS Integers

CONSTANTS
  Byte,         \* values of a byte
  MaxLength,    \* bound: lengths and margins that callers pass
  MaxCapacity,  \* bound: size of a block
  AnyAssign     \* TRUE: copies are assigned to containers with margins, too

ASSUME ContainerAssumption ==
  /\ 0 \in Byte
  /\ MaxLength \in Nat /\ MaxCapacity \in Nat
  /\ AnyAssign \in BOOLEAN

VARIABLES
  object,  \* the fields _data, _length, _capacity and _offset
  blocks,  \* blocks allocated and neither freed nor released
  call     \* the last call

vars == <<object, blocks, call>>

Zeros(n) == [i \in 0 .. n - 1 |-> 0]

(* The methods that only compute.                                          *)
CapacityBack(o) == o.capacity - o.offset - o.length
Content(o) == [i \in 0 .. o.length - 1 |-> o.data[o.offset + i]]

(* alloc gives no block for the length 0: the pointer is null exactly when *)
(* the capacity is 0.                                                      *)
HasBlock(o) == o.capacity # 0

(* bytes(), what _init leaves; bytes(front, length, back).                 *)
Made(front, length, back) ==
  [data |-> Zeros(front + length + back), length |-> length,
   capacity |-> front + length + back, offset |-> front]
Empty == Made(0, 0, 0)

(* Definitions marked (mutant) are faulty forms of the one that follows;   *)
(* no action uses them.                                                    *)

(* (mutant) The room behind is not looked at.                              *)
RelocatesForFront(o, front, back) == o.offset < front

(* The test of reserve: too little room on one of the sides.               *)
Relocates(o, front, back) == ~(o.offset >= front /\ CapacityBack(o) >= back)

Reserved(o, front, back) ==
  IF Relocates(o, front, back)
    THEN [data |-> [i \in 0 .. front + o.length + back - 1 |->
                      IF i >= front /\ i < front + o.length
                        THEN o.data[i - front + o.offset] ELSE 0],
          length |-> o.length, capacity |-> front + o.length + back,
          offset |-> front]
    ELSE o

Expanded(o, front, back) ==
  LET r == Reserved(o, front, back)
  IN  [r EXCEPT !.offset = @ - front, !.length = @ + front + back]

(* Writing s to the n exposed bytes from start on.                         *)
Written(o, start, s, n) ==
  [o EXCEPT !.data =
     [i \in DOMAIN @ |-> IF i >= o.offset + start /\ i < o.offset + start + n
                           THEN s[i - o.offset - start] ELSE @[i]]]

(* set(start, n, v): past the end at() throws, what was set before stays.  *)
Filled(o, start, n, v) ==
  [o EXCEPT !.data =
     [i \in DOMAIN @ |-> IF /\ i >= o.offset + start /\ i < o.offset + start + n
                            /\ i < o.offset + o.length
                           THEN v ELSE @[i]]]

(* (mutant) The hidden bytes keep their values.                            *)
ShrunkUnzeroed(o, front, back) ==
  IF o.length - (front + back) < 0 THEN [o EXCEPT !.length = 0]
  ELSE [o EXCEPT !.offset = @ + front, !.length = @ - back - front]

Shrunk(o, front, back) ==
  IF o.length - (front + back) < 0
    THEN [Filled(o, 0, o.length, 0) EXCEPT !.length = 0]
    ELSE LET b == [Filled(o, o.length - back, back, 0) EXCEPT !.length = @ - back]
         IN  [Filled(b, 0, front, 0) EXCEPT !.offset = @ + front, !.length = @ - front]

PushedFront(o, s, n) == Written(Expanded(o, n, 0), 0, s, n)
PushedBack(o, s, n)  == Written(Expanded(o, 0, n), o.length, s, n)

(* operator= (const bytes &): a block of the right size is used again, but *)
(* the length is then what it was.                                         *)
Assigned(o, s, n) ==
  IF n # o.capacity
    THEN [data |-> s, length |-> n, capacity |-> n, offset |-> 0]
    ELSE Written([o EXCEPT !.offset = 0], 0, s, o.length)

-----------------------------------------------------------------------------

Count(b) == IF b THEN 1 ELSE 0

Lengths == 0 .. MaxLength
Strings(n) == [0 .. n - 1 -> Byte]

Init == object = Empty /\ blocks = 0 /\ call = [op |-> "construct", length |-> 0]

(* A container is made and moved into this one: operator= (bytes &&).      *)
construct(front, length, back) ==
  /\ front + length + back <= MaxCapacity
  /\ call' = [op |-> "construct", length |-> length]
  /\ object' = Made(front, length, back)
  /\ blocks' = blocks - Count(HasBlock(object)) + Count(front + length + back > 0)

assign(s, n) ==
  /\ n <= MaxCapacity
  /\ AnyAssign \/ n # object.capacity \/ n = object.length
  /\ call' = [op |-> "assign", other |-> s, length |-> n]
  /\ object' = Assigned(object, s, n)
  /\ blocks' = (IF n # object.capacity
                  THEN blocks - Count(HasBlock(object)) + Count(n > 0) ELSE blocks)

(* (mutant) The old block is not given back.                               *)
RelocationLeaks(front, back) ==
  IF Relocates(object, front, back) THEN blocks + 1 ELSE blocks

(* The blocks after a reserve, alone or as part of another method.         *)
Relocation(front, back) ==
  IF Relocates(object, front, back)
    THEN blocks + 1 - Count(HasBlock(object)) ELSE blocks

Fits(front, back) == front + object.length + back <= MaxCapacity

reserve(front, back) ==
  /\ Fits(front, back)
  /\ call' = [op |-> "reserve"]
  /\ object' = Reserved(object, front, back)
  /\ blocks' = Relocation(front, back)

expand(front, back) ==
  /\ Fits(front, back)
  /\ call' = [op |-> "expand", front |-> front, back |-> back]
  /\ object' = Expanded(object, front, back)
  /\ blocks' = Relocation(front, back)

shrink(front, back) ==
  /\ call' = [op |-> "shrink", front |-> front, back |-> back]
  /\ object' = Shrunk(object, front, back)
  /\ UNCHANGED blocks

push_front(s, n) ==
  /\ Fits(n, 0)
  /\ call' = [op |-> "push_front", other |-> s, length |-> n]
  /\ object' = PushedFront(object, s, n)
  /\ blocks' = Relocation(n, 0)

push_back(s, n) ==
  /\ Fits(0, n)
  /\ call' = [op |-> "push_back", other |-> s, length |-> n]
  /\ object' = PushedBack(object, s, n)
  /\ blocks' = Relocation(0, n)

(* Also writing through at(), with n = 1.                                  *)
set(start, n, v) ==
  /\ call' = [op |-> "set", start |-> start, length |-> n, value |-> v]
  /\ object' = Filled(object, start, n, v)
  /\ UNCHANGED blocks

(* Also release() and being moved from: then the block is another's.       *)
clear ==
  /\ call' = [op |-> "clear"]
  /\ object' = Empty
  /\ blocks' = blocks - Count(HasBlock(object))

Next ==
  \/ \E f, n, b \in Lengths : construct(f, n, b)
  \/ \E n \in Lengths : \E s \in Strings(n) :
       assign(s, n) \/ push_front(s, n) \/ push_back(s, n)
  \/ \E f, b \in Lengths : reserve(f, b) \/ expand(f, b) \/ shrink(f, b)
  \/ \E i, n \in Lengths, v \in Byte : set(i, n, v)
  \/ clear

Spec == Init /\ [][Next]_vars

-----------------------------------------------------------------------------

(* Every field keeps its type, and the exposed bytes are in the block.     *)
TypeOK ==
  /\ object \in [data : UNION {Strings(c) : c \in 0 .. MaxCapacity},
                 length : Nat, capacity : 0 .. MaxCapacity, offset : Nat]
  /\ object.data \in Strings(object.capacity)
  /\ object.offset + object.length <= object.capacity
  /\ blocks \in Int

(* No sequence of calls leaks a block or frees one twice: the block in use *)
(* is the only one there is.                                               *)
NoLeak == blocks = Count(HasBlock(object))

(* Relocations, margins and stale contents of hidden bytes never show: the *)
(* container is the string of bytes its callers take it for.               *)
String == INSTANCE ByteString
            WITH size <- object.length, content <- Content(object)
ImplementsByteString == String!Spec
=============================================================================
