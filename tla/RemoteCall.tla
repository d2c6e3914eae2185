----------------------------- MODULE RemoteCall -----------------------------
(***************************************************************************)
(* What the command client and the command server promise together: a      *)
(* query is carried out at most once, its answer reaches the client at     *)
(* most once and says what it came to, and nothing is carried out or       *)
(* answered that was not asked.  Any query and any answer may get lost.    *)
(***************************************************************************)
EXTENDS Naturals

CONSTANTS Queries,    \* numbers of the queries
          Outcomes    \* what carrying one out may come to

VARIABLES asked,      \* the queries made
          outcome,    \* what each query that was carried out came to
          answered    \* what the answers that reached the client said

vars == <<asked, outcome, answered>>

Extended(f, q, v) ==
  [r \in DOMAIN f \union {q} |-> IF r = q THEN v ELSE f[r]]

Init == asked = {} /\ outcome = << >> /\ answered = << >>

Ask(q) == /\ q \notin asked /\ asked' = asked \union {q}
          /\ UNCHANGED <<outcome, answered>>

CarryOut(q) ==
  /\ q \in asked /\ q \notin DOMAIN outcome
  /\ \E o \in Outcomes : outcome' = Extended(outcome, q, o)
  /\ UNCHANGED <<asked, answered>>

Answer(q) ==
  /\ q \in DOMAIN outcome /\ q \notin DOMAIN answered
  /\ answered' = Extended(answered, q, outcome[q])
  /\ UNCHANGED <<asked, outcome>>

Next == \E q \in Queries : Ask(q) \/ CarryOut(q) \/ Answer(q)

Spec == Init /\ [][Next]_vars
=============================================================================
