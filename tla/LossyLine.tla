------------------------------ MODULE LossyLine ------------------------------
(***************************************************************************)
(* What the receiving half of an interface promises the layer above: of    *)
(* the fragments that reach it unaltered it delivers some, each at most    *)
(* once, in the order they were sent, after they have arrived completely,  *)
(* on the event that fits their destination.                               *)
(***************************************************************************)
EXTENDS Naturals, Sequences, FiniteSets

CONSTANTS HeaderSize, FooterSize, Address, Broadcast, Lines

VARIABLES
  line,       \* the stream, with its intact fragments
  received,   \* bytes of the stream received so far
  delivered   \* fragments delivered: where their header is, and the event

vars == <<line, received, delivered>>

EventOf(f) ==
  LET destination == line.bytes[f.at]
  IN  IF destination = Address THEN "receive"
      ELSE IF destination = Broadcast THEN "broadcast" ELSE "other"

Init == line \in Lines /\ received = 0 /\ delivered = << >>

Receive == /\ received < Len(line.bytes) /\ received' = received + 1
           /\ UNCHANGED <<line, delivered>>

Deliver(f) ==
  /\ f.at + HeaderSize + f.size + FooterSize - 1 <= received
  /\ delivered # << >> => delivered[Len(delivered)].at < f.at
  /\ delivered' = Append(delivered, [at |-> f.at, event |-> EventOf(f)])
  /\ UNCHANGED <<line, received>>

Next == Receive \/ \E f \in line.frames : Deliver(f)

Spec == Init /\ [][Next]_vars
=============================================================================
