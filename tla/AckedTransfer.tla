---------------------------- MODULE AckedTransfer ----------------------------
(***************************************************************************)
(* What kiss_protocol promises the two users of a line: a packet reaches   *)
(* the other side at most so many times, and one that is taken off the     *)
(* list as acknowledged has been received there.  Every other packet is    *)
(* given up in the end or stays on the list; it may have been received,    *)
(* and may still be.                                                       *)
(***************************************************************************)
EXTENDS Naturals

CONSTANTS Peers, MaxPackets, MaxSends

VARIABLES
  accepted,  \* packets each peer was given to send, numbered from 1 on
  received,  \* how many times each of them was received by the other peer
  acked,     \* those that were acknowledged
  given_up   \* those that were not, and are sent no more

vars == <<accepted, received, acked, given_up>>

Init ==
  /\ accepted = [p \in Peers |-> 0]
  /\ received = [p \in Peers |-> [n \in 1 .. MaxPackets |-> 0]]
  /\ acked = [p \in Peers |-> {}] /\ given_up = [p \in Peers |-> {}]

Settled(p) == acked[p] \union given_up[p]

Submit(p) ==
  /\ accepted[p] < MaxPackets
  /\ accepted' = [accepted EXCEPT ![p] = @ + 1]
  /\ UNCHANGED <<received, acked, given_up>>

Deliver(p, n) ==
  /\ n <= accepted[p] /\ received[p][n] < MaxSends
  /\ received' = [received EXCEPT ![p][n] = @ + 1]
  /\ UNCHANGED <<accepted, acked, given_up>>

Acknowledge(p, n) ==
  /\ received[p][n] > 0 /\ n \notin Settled(p)
  /\ acked' = [acked EXCEPT ![p] = @ \union {n}]
  /\ UNCHANGED <<accepted, received, given_up>>

GiveUp(p, n) ==
  /\ n <= accepted[p] /\ n \notin Settled(p)
  /\ given_up' = [given_up EXCEPT ![p] = @ \union {n}]
  /\ UNCHANGED <<accepted, received, acked>>

Next == \E p \in Peers :
          \/ Submit(p)
          \/ \E n \in 1 .. MaxPackets : Deliver(p, n) \/ Acknowledge(p, n) \/ GiveUp(p, n)

Spec == Init /\ [][Next]_vars
=============================================================================
