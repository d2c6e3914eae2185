------------------------------- MODULE Subject -------------------------------
(***************************************************************************)
(* subject: the list of callbacks through which every layer speaks to the  *)
(* one above it.  emit walks the list with an iterator; a callback may     *)
(* subscribe, unsubscribe and emit again while emit is still in the list.  *)
(*                                                                         *)
(* A node of the std::list is its position: nodes are only appended at the *)
(* end, and unsubscribe moves the values forward (std::remove_if) and      *)
(* erases nodes only at the end.                                           *)
(***************************************************************************)
EXTENDS Naturals, Sequences, FiniteSets

CONSTANTS
  MaxId,     \* bound: subscriptions made, of all subjects of one signature
  MaxDepth   \* bound: emissions inside one another

ASSUME SubjectAssumption == MaxId \in Nat /\ MaxDepth \in Nat

VARIABLES
  callbacks,  \* _callbacks: the ids of the subscriptions, in the list's order
  id_count,   \* subscription::_id_count
  emissions,  \* the calls of emit under way, the innermost last
  ended       \* the emission that returned last

vars == <<callbacks, id_count, emissions, ended>>

(***************************************************************************)
(* An emission: `at' is the node whose callback is running.  The others    *)
(* are history: the callbacks it has called, those that were subscribed    *)
(* when it began and have been ever since, and the removals at or before   *)
(* the node it was at.                                                     *)
(***************************************************************************)
Emission(at, told, due, shifts) ==
  [at |-> at, told |-> told, due |-> due, shifts |-> shifts]

Members(s) == {s[i] : i \in DOMAIN s}

NoEmission == Emission(0, << >>, {}, 0)

Init == /\ callbacks = << >> /\ id_count = 0
        /\ emissions = << >> /\ ended = NoEmission

(* Definitions marked (mutant) are faulty forms of the one that follows;   *)
(* no action uses them.                                                    *)

(* (mutant) New callbacks go to the front.                                 *)
SubscribeFront ==
  /\ id_count < MaxId
  /\ id_count' = id_count + 1
  /\ callbacks' = <<id_count + 1>> \o callbacks
  /\ UNCHANGED <<emissions, ended>>

(* (mutant) The id is the count before it is incremented.                  *)
SubscribeUncounted ==
  /\ id_count < MaxId
  /\ id_count' = id_count + 1
  /\ callbacks' = Append(callbacks, id_count)
  /\ UNCHANGED <<emissions, ended>>

(* subscribe, from outside or from a callback.                             *)
Subscribe ==
  /\ id_count < MaxId
  /\ id_count' = id_count + 1
  /\ callbacks' = Append(callbacks, id_count + 1)
  /\ UNCHANGED <<emissions, ended>>

(* (mutant) The end that remove_if gives is erased with one more.          *)
WithoutOneMore(s, i) ==
  [j \in 1 .. (IF Len(s) > 1 THEN Len(s) - 2 ELSE 0) |-> IF j < i THEN s[j] ELSE s[j + 1]]

(* remove_if and erase: what is behind moves forward, the end is cut.      *)
Without(s, i) == [j \in 1 .. Len(s) - 1 |-> IF j < i THEN s[j] ELSE s[j + 1]]

(* What a removal at i is to an emission under way; nothing in the code.   *)
Witness(e, i) ==
  Emission(e.at, e.told, e.due \ {callbacks[i]},
           IF i <= e.at THEN e.shifts + 1 ELSE e.shifts)

(* unsubscribe, from outside or from a callback; another subject's         *)
(* subscription removes nothing.                                           *)
Unsubscribe ==
  \E i \in DOMAIN callbacks :
    /\ callbacks' = Without(callbacks, i)
    /\ emissions' = [k \in DOMAIN emissions |-> Witness(emissions[k], i)]
    /\ UNCHANGED <<id_count, ended>>

(* The innermost emission.                                                 *)
Top == emissions[Len(emissions)]
Outer == SubSeq(emissions, 1, Len(emissions) - 1)

(* An iterator at a node that has been erased: whatever the loop does next *)
(* is undefined, and the model stops there.                                *)
Dangling(e) == e.at > Len(callbacks)
Defined == \A k \in DOMAIN emissions : ~Dangling(emissions[k])

(* emit calls the first callback; with none it returns at once.            *)
Emit ==
  /\ Len(emissions) < MaxDepth /\ callbacks # << >>
  /\ emissions' = Append(emissions,
       Emission(1, <<callbacks[1]>>, Members(callbacks), 0))
  /\ UNCHANGED <<callbacks, id_count, ended>>

(* (mutant) The last node is taken for the end.                            *)
MoreButLast(e) == e.at + 1 < Len(callbacks)

(* Whether the loop has another node to visit; end() is read each time.    *)
More(e) == e.at < Len(callbacks)

(* The running callback returns and emit calls the next one.               *)
CallNext ==
  /\ emissions # << >> /\ More(Top)
  /\ emissions' = Append(Outer,
       Emission(Top.at + 1, Append(Top.told, callbacks[Top.at + 1]),
                Top.due, Top.shifts))
  /\ UNCHANGED <<callbacks, id_count, ended>>

(* The last callback returns, and so does emit.                            *)
EmitReturns ==
  /\ emissions # << >> /\ ~More(Top)
  /\ emissions' = Outer
  /\ ended' = Top
  /\ UNCHANGED <<callbacks, id_count>>

Next == /\ Defined
        /\ Subscribe \/ Unsubscribe \/ Emit \/ CallNext \/ EmitReturns

Spec == Init /\ [][Next]_vars

-----------------------------------------------------------------------------

IsEmission(e) ==
  /\ e.at \in Nat /\ e.told \in Seq(1 .. id_count)
  /\ e.due \subseteq 1 .. id_count /\ e.shifts \in Nat

(* Every variable keeps its type.                                          *)
TypeOK ==
  /\ callbacks \in Seq(1 .. id_count) /\ id_count \in Nat
  /\ emissions \in Seq([at : Nat, told : Seq(1 .. id_count),
                        due : SUBSET (1 .. id_count), shifts : Nat])
  /\ IsEmission(ended)

Increasing(s) == \A i, j \in DOMAIN s : i < j => s[i] < s[j]

(* An emission calls nobody twice, and its subscribers in the order they   *)
(* subscribed in, whoever subscribes or unsubscribes meanwhile             *)
(* (observer.hpp:86-90).                                                   *)
ToldInOrder == \A k \in DOMAIN emissions : Increasing(emissions[k].told)

(* Who stays subscribed throughout an emission is called by it, unless a   *)
(* callback removed one that was called before or is running: each such    *)
(* removal moves the rest forward, past the iterator, and costs at most    *)
(* one callback its call.                                                  *)
SkipsAccounted == Cardinality(ended.due \ Members(ended.told)) <= ended.shifts

(* The iterator of emit is never at an erased node while only callbacks    *)
(* that come after it are removed (ports.hpp:217).                         *)
NeverDangling ==
  \A k \in DOMAIN emissions : emissions[k].shifts = 0 => ~Dangling(emissions[k])
=============================================================================
