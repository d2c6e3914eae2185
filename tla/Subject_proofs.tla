--------------------------- MODULE Subject_proofs ---------------------------
(***************************************************************************)
(* Theorems about Subject: whatever callbacks do to the list while emit    *)
(* walks it, for any number of subscriptions and nested emissions.         *)
(***************************************************************************)
EXTENDS Subject, FiniteSetTheorems, TLAPS

(* Emissions while n subscriptions have been made.                         *)
Emissions(n) == [at : Nat, told : Seq(1 .. n), due : SUBSET (1 .. n), shifts : Nat]

(* Those due to an emission that it has passed without calling them.       *)
Skipped(e, c) ==
  {x \in e.due \ Members(e.told) : \E j \in DOMAIN c : j <= e.at /\ c[j] = x}

(* What holds of an emission that walks the list c.                        *)
Sound(e, c) ==
  /\ Increasing(e.told)
  /\ \A j \in DOMAIN c, m \in DOMAIN e.told : j > e.at => e.told[m] < c[j]
  /\ e.shifts = 0 => e.at <= Len(c)
  /\ e.due \subseteq Members(c)
  /\ Cardinality(Skipped(e, c)) <= e.shifts

(* The inductive invariant.                                                *)
IInv ==
  /\ TypeOK
  /\ Increasing(callbacks)
  /\ \A k \in DOMAIN emissions : Sound(emissions[k], callbacks)
  /\ SkipsAccounted

-----------------------------------------------------------------------------
(* Lists, and what the actions do to them.                                 *)

(* Ids stay in range when more are given out.                              *)
LEMMA SeqGrows ==
  ASSUME NEW n \in Nat, NEW s \in Seq(1 .. n)
  PROVE  s \in Seq(1 .. n + 1)
OBVIOUS

LEMMA EmissionsGrow ==
  ASSUME NEW n \in Nat
  PROVE  Emissions(n) \subseteq Emissions(n + 1)
<1> SUFFICES ASSUME NEW e \in Emissions(n) PROVE e \in Emissions(n + 1)
  OBVIOUS
<1>1. e.told \in Seq(1 .. n + 1)
  BY SeqGrows DEF Emissions
<1>2. e.due \in SUBSET (1 .. n + 1)
  BY SMT DEF Emissions
<1> QED
  BY <1>1, <1>2, SMT DEF Emissions

(* remove_if and erase: one element shorter, the rest in order.            *)
LEMMA WithoutIs ==
  ASSUME NEW S, NEW s \in Seq(S), NEW i \in DOMAIN s
  PROVE  /\ Without(s, i) \in Seq(S)
         /\ Len(Without(s, i)) = Len(s) - 1
         /\ DOMAIN Without(s, i) = 1 .. Len(s) - 1
         /\ \A j \in 1 .. Len(s) - 1 :
              Without(s, i)[j] = IF j < i THEN s[j] ELSE s[j + 1]
<1> DEFINE w == Without(s, i)
<1>1. Len(s) \in Nat /\ DOMAIN s = 1 .. Len(s) /\ Len(s) - 1 \in Nat
  BY SMT
<1>2. \A j \in 1 .. Len(s) - 1 : j \in DOMAIN s /\ j + 1 \in DOMAIN s
  BY <1>1, SMT
<1>3. w = [j \in 1 .. Len(s) - 1 |-> IF j < i THEN s[j] ELSE s[j + 1]]
  BY DEF Without
<1>4. \A j \in 1 .. Len(s) - 1 : (IF j < i THEN s[j] ELSE s[j + 1]) \in S
  BY <1>1, <1>2, SMT
<1>5. w \in Seq(S)
  BY <1>1, <1>3, <1>4, SMT
<1> QED
  BY <1>1, <1>3, <1>5, SMT

(* Appending the next id keeps the list in order.                          *)
LEMMA AppendIncreasing ==
  ASSUME NEW n \in Nat, NEW s \in Seq(Nat), Increasing(s), NEW x \in Nat,
         \A j \in DOMAIN s : s[j] < x
  PROVE  Increasing(Append(s, x))
BY SMT DEF Increasing

LEMMA WithoutIncreasing ==
  ASSUME NEW s \in Seq(Nat), Increasing(s), NEW i \in DOMAIN s
  PROVE  Increasing(Without(s, i))
<1> DEFINE w == Without(s, i)
<1>1. /\ DOMAIN w = 1 .. Len(s) - 1
      /\ \A j \in 1 .. Len(s) - 1 : w[j] = IF j < i THEN s[j] ELSE s[j + 1]
  BY WithoutIs
<1> HIDE DEF w
<1>2. SUFFICES ASSUME NEW j \in DOMAIN w, NEW k \in DOMAIN w, j < k PROVE w[j] < w[k]
  BY DEF Increasing, w
<1>3. Len(s) \in Nat /\ DOMAIN s = 1 .. Len(s)
  OBVIOUS
<1>4. j \in DOMAIN s /\ j + 1 \in DOMAIN s /\ k \in DOMAIN s /\ k + 1 \in DOMAIN s
  BY <1>1, <1>3, <1>2, SMT
<1> QED
  BY <1>1, <1>2, <1>3, <1>4, SMT DEF Increasing

(* What an emission has skipped is finite.                                 *)
LEMMA SkippedFinite ==
  ASSUME NEW n \in Nat, NEW e \in Emissions(n), NEW c
  PROVE  IsFiniteSet(Skipped(e, c)) /\ Cardinality(Skipped(e, c)) \in Nat
<1>1. Skipped(e, c) \subseteq 1 .. n
  BY SMT DEF Skipped, Emissions
<1>2. IsFiniteSet(1 .. n)
  BY FS_Interval, SMT
<1> QED
  BY <1>1, <1>2, FS_Subset, FS_CardinalityType

-----------------------------------------------------------------------------
(* What each step does to an emission.                                     *)

(* A new callback at the end is none that the emission owes a call.        *)
LEMMA SoundAppend ==
  ASSUME NEW n \in Nat, NEW c \in Seq(1 .. n), NEW e \in Emissions(n), Sound(e, c)
  PROVE  Sound(e, Append(c, n + 1))
<1> DEFINE d == Append(c, n + 1)
<1>1. /\ Len(c) \in Nat /\ DOMAIN c = 1 .. Len(c)
      /\ Len(d) = Len(c) + 1 /\ DOMAIN d = 1 .. Len(c) + 1
      /\ \A j \in 1 .. Len(c) : d[j] = c[j] /\ c[j] \in 1 .. n
      /\ d[Len(c) + 1] = n + 1
  BY SMT
<1> HIDE DEF d
<1>2. /\ e.at \in Nat /\ e.shifts \in Nat /\ e.due \subseteq 1 .. n
      /\ \A m \in DOMAIN e.told : e.told[m] \in 1 .. n
  BY SMT DEF Emissions
<1>3. \A j \in DOMAIN d, m \in DOMAIN e.told : j > e.at => e.told[m] < d[j]
  <2> SUFFICES ASSUME NEW j \in DOMAIN d, NEW m \in DOMAIN e.told, j > e.at
               PROVE  e.told[m] < d[j]
    OBVIOUS
  <2>1. CASE j \in 1 .. Len(c)
    BY <1>1, <2>1 DEF Sound
  <2>2. CASE j = Len(c) + 1
    BY <1>1, <1>2, <2>2, SMT
  <2> QED
    BY <1>1, <2>1, <2>2, SMT
<1>4. e.due \subseteq Members(d)
  BY <1>1, SMT DEF Sound, Members
<1>5. Skipped(e, d) = Skipped(e, c)
  <2>1. \A x \in 1 .. n : (\E j \in DOMAIN d : j <= e.at /\ d[j] = x)
                          <=> (\E j \in DOMAIN c : j <= e.at /\ c[j] = x)
    <3> SUFFICES ASSUME NEW x \in 1 .. n
                 PROVE  (\E j \in DOMAIN d : j <= e.at /\ d[j] = x)
                          <=> (\E j \in DOMAIN c : j <= e.at /\ c[j] = x)
      OBVIOUS
    <3>1. \A j \in DOMAIN c : j \in DOMAIN d /\ d[j] = c[j]
      BY <1>1, SMT
    <3>2. \A j \in DOMAIN d : d[j] = x => j \in DOMAIN c
      BY <1>1, SMT
    <3> QED
      BY <3>1, <3>2
  <2> QED
    BY <1>2, <2>1 DEF Skipped
<1>6. e.shifts = 0 => e.at <= Len(d)
  BY <1>1, <1>2, SMT DEF Sound
<1>7. Increasing(e.told) /\ Cardinality(Skipped(e, d)) <= e.shifts
  BY <1>5 DEF Sound
<1> QED
  BY <1>3, <1>4, <1>6, <1>7 DEF Sound, d

(* A removal behind the emission costs nobody a call, one at or before its *)
(* place at most the callback that came next.                              *)
LEMMA SoundWithout ==
  ASSUME NEW n \in Nat, callbacks \in Seq(1 .. n), NEW e \in Emissions(n),
         Sound(e, callbacks), NEW i \in DOMAIN callbacks
  PROVE  /\ Witness(e, i) \in Emissions(n)
         /\ Sound(Witness(e, i), Without(callbacks, i))
<1> DEFINE c == callbacks
           d == Without(callbacks, i)
           f == Witness(e, i)
<1>1. /\ Len(c) \in Nat /\ DOMAIN c = 1 .. Len(c) /\ i \in 1 .. Len(c)
      /\ Len(d) = Len(c) - 1 /\ DOMAIN d = 1 .. Len(c) - 1
      /\ \A j \in 1 .. Len(c) - 1 : d[j] = IF j < i THEN c[j] ELSE c[j + 1]
  BY WithoutIs
<1>0. \A j \in DOMAIN d :
        /\ j \in Nat /\ j \in DOMAIN c /\ j + 1 \in DOMAIN c
        /\ j < i => d[j] = c[j]
        /\ j >= i => d[j] = c[j + 1]
  <2> SUFFICES ASSUME NEW j \in 1 .. Len(c) - 1
               PROVE  /\ j \in Nat /\ j \in 1 .. Len(c) /\ j + 1 \in 1 .. Len(c)
                      /\ j < i => d[j] = c[j]
                      /\ j >= i => d[j] = c[j + 1]
    BY <1>1
  <2>1. d[j] = IF j < i THEN c[j] ELSE c[j + 1]
    BY <1>1
  <2> HIDE DEF c, d
  <2> QED
    BY <1>1, <2>1, SMT
<1>2. /\ e.at \in Nat /\ e.shifts \in Nat /\ e.due \subseteq 1 .. n
      /\ e.told \in Seq(1 .. n)
  BY SMT DEF Emissions
<1>3. /\ f.at = e.at /\ f.told = e.told /\ f.due = e.due \ {c[i]}
      /\ f.shifts = IF i <= e.at THEN e.shifts + 1 ELSE e.shifts
  BY DEF Witness, Emission
<1>4. f \in Emissions(n)
  BY <1>1, <1>2, SMT DEF Witness, Emission, Emissions
<1> HIDE DEF c, d, f
<1>5. Increasing(f.told)
  BY <1>3 DEF Sound
<1>6. \A j \in DOMAIN d, m \in DOMAIN f.told : j > f.at => f.told[m] < d[j]
  <2> SUFFICES ASSUME NEW j \in DOMAIN d, NEW m \in DOMAIN e.told, j > e.at
               PROVE  e.told[m] < d[j]
    BY <1>3
  <2>1. /\ j \in DOMAIN c /\ j + 1 \in DOMAIN c /\ j + 1 > e.at
        /\ d[j] = c[j] \/ d[j] = c[j + 1]
    BY <1>0, <1>1, <1>2, SMT
  <2> QED
    BY <2>1 DEF Sound, c
<1>7. f.shifts = 0 => f.at <= Len(d)
  BY <1>1, <1>2, <1>3, SMT DEF Sound, c
<1>8. f.due \subseteq Members(d)
  <2> SUFFICES ASSUME NEW x \in e.due, x # c[i] PROVE x \in Members(d)
    BY <1>3
  <2>1. PICK j \in DOMAIN c : c[j] = x
    BY DEF Sound, Members, c
  <2>2. CASE j < i
    <3>1. j \in DOMAIN d /\ d[j] = x
      BY <1>1, <2>1, <2>2, SMT
    <3> QED
      BY <3>1 DEF Members
  <2>3. CASE j > i
    <3>1. j - 1 \in DOMAIN d /\ d[j - 1] = x
      BY <1>1, <2>1, <2>3, SMT
    <3> QED
      BY <3>1 DEF Members
  <2> QED
    BY <1>1, <2>1, <2>2, <2>3, SMT
<1>9. Cardinality(Skipped(f, d)) <= f.shifts
  <2>1. /\ IsFiniteSet(Skipped(e, c)) /\ Cardinality(Skipped(e, c)) \in Nat
        /\ Cardinality(Skipped(f, d)) \in Nat
    BY <1>4, SkippedFinite
  <2>2. Cardinality(Skipped(e, c)) <= e.shifts
    BY DEF Sound, c
  <2>3. CASE i > e.at
    <3>1. Skipped(f, d) \subseteq Skipped(e, c)
      <4> SUFFICES ASSUME NEW x \in Skipped(f, d) PROVE x \in Skipped(e, c)
        OBVIOUS
      <4>1. PICK j \in DOMAIN d : j <= e.at /\ d[j] = x
        BY <1>3 DEF Skipped
      <4>2. j \in DOMAIN c /\ c[j] = x
        <5>1. j < i
          BY <1>0, <1>1, <1>2, <2>3, <4>1, SMT
        <5> QED
          BY <1>0, <4>1, <5>1
      <4> QED
        BY <1>3, <4>1, <4>2 DEF Skipped
    <3>2. Cardinality(Skipped(f, d)) <= Cardinality(Skipped(e, c))
      BY <2>1, <3>1, FS_Subset
    <3> QED
      BY <1>2, <1>3, <2>1, <2>2, <2>3, <3>2, SMT
  <2>4. CASE i <= e.at
    <3> DEFINE T == Skipped(e, c) \union {c[e.at + 1]}
    <3>1. Skipped(f, d) \subseteq T
      <4> SUFFICES ASSUME NEW x \in Skipped(f, d), x # c[e.at + 1]
                   PROVE  x \in Skipped(e, c)
        OBVIOUS
      <4>1. PICK j \in DOMAIN d : j <= e.at /\ d[j] = x
        BY <1>3 DEF Skipped
      <4>2. \E k \in DOMAIN c : k <= e.at /\ c[k] = x
        <5>1. CASE j < i
          BY <1>0, <4>1, <5>1
        <5>2. CASE j >= i
          <6>1. j + 1 \in DOMAIN c /\ c[j + 1] = x /\ j + 1 # e.at + 1
            BY <1>0, <4>1, <5>2
          <6>2. j + 1 <= e.at
            BY <1>0, <1>2, <4>1, <6>1, SMT
          <6> QED
            BY <6>1, <6>2
        <5> QED
          BY <1>0, <1>1, <4>1, <5>1, <5>2, SMT
      <4> QED
        BY <1>3, <4>2 DEF Skipped
    <3>2. /\ IsFiniteSet(T) /\ Cardinality(T) \in Nat
          /\ Cardinality(T) <= Cardinality(Skipped(e, c)) + 1
      <4>1. /\ IsFiniteSet(T)
            /\ Cardinality(T) = Cardinality(Skipped(e, c))
                 \/ Cardinality(T) = Cardinality(Skipped(e, c)) + 1
        BY <2>1, FS_AddElement
      <4> QED
        BY <2>1, <4>1, SMT
    <3>3. Cardinality(Skipped(f, d)) <= Cardinality(T)
      BY <3>1, <3>2, FS_Subset
    <3> HIDE DEF T
    <3> QED
      BY <1>2, <1>3, <2>1, <2>2, <2>4, <3>2, <3>3, SMT
  <2> QED
    BY <1>1, <1>2, <2>3, <2>4, SMT
<1>10. Sound(f, d)
  BY <1>5, <1>6, <1>7, <1>8, <1>9 DEF Sound
<1> QED
  BY <1>4, <1>10 DEF f, d

(* A new emission calls the first callback and owes all of them a call.    *)
LEMMA SoundNew ==
  ASSUME NEW n \in Nat, NEW c \in Seq(1 .. n), c # << >>, Increasing(c)
  PROVE  LET e == Emission(1, <<c[1]>>, Members(c), 0)
         IN  e \in Emissions(n) /\ Sound(e, c)
<1> DEFINE e == Emission(1, <<c[1]>>, Members(c), 0)
<1>1. /\ Len(c) \in Nat /\ DOMAIN c = 1 .. Len(c) /\ 1 \in DOMAIN c
      /\ \A j \in DOMAIN c : c[j] \in 1 .. n
  BY SMT
<1>2. /\ e.at = 1 /\ e.told = <<c[1]>> /\ e.due = Members(c) /\ e.shifts = 0
      /\ DOMAIN e.told = {1} /\ e.told[1] = c[1]
  BY SMT DEF Emission
<1>3. e \in Emissions(n)
  BY <1>1, SMT DEF Emission, Emissions, Members
<1> HIDE DEF e
<1>4. Skipped(e, c) = {}
  <2> SUFFICES ASSUME NEW x \in Skipped(e, c) PROVE FALSE
    OBVIOUS
  <2>1. PICK j \in DOMAIN c : j <= 1 /\ c[j] = x
    BY <1>2 DEF Skipped
  <2>2. j = 1
    BY <1>1, <2>1, SMT
  <2>3. x \in Members(e.told)
    BY <1>2, <2>1, <2>2 DEF Members
  <2> QED
    BY <2>3 DEF Skipped
<1>5. Cardinality(Skipped(e, c)) <= e.shifts
  BY <1>2, <1>4, FS_EmptySet, SMT
<1>6. \A j \in DOMAIN c, m \in DOMAIN e.told : j > e.at => e.told[m] < c[j]
  BY <1>1, <1>2 DEF Increasing
<1>7. Increasing(e.told)
  BY <1>2, SMT DEF Increasing
<1>8. e.at <= Len(c) /\ e.due \subseteq Members(c)
  BY <1>1, <1>2, SMT
<1> QED
  BY <1>3, <1>5, <1>6, <1>7, <1>8 DEF Sound, e

(* The next callback is later than those called, and no longer owed.       *)
LEMMA SoundNext ==
  ASSUME NEW n \in Nat, NEW c \in Seq(1 .. n), Increasing(c),
         NEW e \in Emissions(n), Sound(e, c), e.at < Len(c)
  PROVE  LET f == Emission(e.at + 1, Append(e.told, c[e.at + 1]), e.due, e.shifts)
         IN  f \in Emissions(n) /\ Sound(f, c)
<1> DEFINE f == Emission(e.at + 1, Append(e.told, c[e.at + 1]), e.due, e.shifts)
<1>1. /\ Len(c) \in Nat /\ DOMAIN c = 1 .. Len(c)
      /\ e.at \in Nat /\ e.shifts \in Nat /\ e.due \subseteq 1 .. n
      /\ e.told \in Seq(1 .. n)
  BY SMT DEF Emissions
<1>2. e.at + 1 \in DOMAIN c /\ c[e.at + 1] \in 1 .. n
  BY <1>1, SMT
<1>3. /\ f.at = e.at + 1 /\ f.told = Append(e.told, c[e.at + 1])
      /\ f.due = e.due /\ f.shifts = e.shifts
  BY DEF Emission
<1>4. f \in Emissions(n)
  BY <1>1, <1>2, SMT DEF Emission, Emissions
<1> HIDE DEF f
<1>5. /\ DOMAIN f.told = 1 .. Len(e.told) + 1 /\ DOMAIN e.told = 1 .. Len(e.told)
      /\ Len(e.told) \in Nat
      /\ \A m \in DOMAIN e.told : f.told[m] = e.told[m] /\ m \in DOMAIN f.told
      /\ f.told[Len(e.told) + 1] = c[e.at + 1]
  <2> DEFINE t == e.told
             x == c[e.at + 1]
  <2>1. t \in Seq(Nat) /\ x \in Nat /\ f.told = Append(t, x)
    BY <1>1, <1>2, <1>3, SMT
  <2> HIDE DEF t, x
  <2>2. /\ DOMAIN f.told = 1 .. Len(t) + 1 /\ DOMAIN t = 1 .. Len(t)
        /\ Len(t) \in Nat
        /\ \A m \in DOMAIN t : f.told[m] = t[m] /\ m \in DOMAIN f.told
        /\ f.told[Len(t) + 1] = x
    BY <2>1, SMT
  <2> QED
    BY <2>2 DEF t, x
<1>6. Increasing(f.told)
  <2>1. \A m \in DOMAIN e.told : e.told[m] < c[e.at + 1]
    BY <1>1, <1>2, SMT DEF Sound
  <2>2. e.told \in Seq(Nat) /\ c[e.at + 1] \in Nat
    BY <1>1, <1>2, SMT
  <2> QED
    BY <1>3, <2>1, <2>2, AppendIncreasing DEF Sound
<1>7. \A j \in DOMAIN c, m \in DOMAIN f.told : j > f.at => f.told[m] < c[j]
  <2> SUFFICES ASSUME NEW j \in DOMAIN c, NEW m \in DOMAIN f.told, j > e.at + 1
               PROVE  f.told[m] < c[j]
    BY <1>3
  <2>1. CASE m \in DOMAIN e.told
    <3>1. j > e.at
      BY <1>1, SMT
    <3> QED
      BY <1>5, <2>1, <3>1 DEF Sound
  <2>2. CASE m = Len(e.told) + 1
    BY <1>2, <1>5, <2>2, SMT DEF Increasing
  <2> QED
    BY <1>5, <2>1, <2>2, SMT
<1>8. Cardinality(Skipped(f, c)) <= f.shifts
  <2>1. Skipped(f, c) \subseteq Skipped(e, c)
    <3> SUFFICES ASSUME NEW x \in Skipped(f, c) PROVE x \in Skipped(e, c)
      OBVIOUS
    <3>1. PICK j \in DOMAIN c : j <= e.at + 1 /\ c[j] = x
      BY <1>3 DEF Skipped
    <3>2. x \notin Members(e.told) /\ x # c[e.at + 1]
      <4>1. x \notin Members(f.told)
        BY DEF Skipped
      <4>2. Len(e.told) + 1 \in DOMAIN f.told
        BY <1>5, SMT
      <4> QED
        BY <1>5, <4>1, <4>2 DEF Members
    <3>3. j <= e.at
      BY <1>1, <3>1, <3>2, SMT
    <3> QED
      BY <1>3, <3>1, <3>2, <3>3 DEF Skipped
  <2>2. Cardinality(Skipped(f, c)) <= Cardinality(Skipped(e, c))
    BY <2>1, SkippedFinite, FS_Subset
  <2>3. Cardinality(Skipped(e, c)) \in Nat /\ Cardinality(Skipped(f, c)) \in Nat
    BY <1>4, SkippedFinite
  <2> QED
    BY <1>1, <1>3, <2>2, <2>3, SMT DEF Sound
<1>9. (f.shifts = 0 => f.at <= Len(c)) /\ f.due \subseteq Members(c)
  BY <1>1, <1>3, SMT DEF Sound
<1> QED
  BY <1>4, <1>6, <1>7, <1>8, <1>9 DEF Sound, f

(* An emission at the end of the list owes a call only to those it skipped.*)
LEMMA ReturnsAccounted ==
  ASSUME NEW n \in Nat, NEW c \in Seq(1 .. n), NEW e \in Emissions(n),
         Sound(e, c), ~(e.at < Len(c))
  PROVE  Cardinality(e.due \ Members(e.told)) <= e.shifts
<1>1. /\ Len(c) \in Nat /\ DOMAIN c = 1 .. Len(c) /\ e.at \in Nat
  BY SMT DEF Emissions
<1>2. \A j \in DOMAIN c : j <= e.at
  BY <1>1, SMT
<1>3. e.due \ Members(e.told) = Skipped(e, c)
  BY <1>2 DEF Skipped, Sound, Members
<1> QED
  BY <1>3 DEF Sound

-----------------------------------------------------------------------------
(* The inductive invariant.                                                *)

THEOREM InitIInv == Init => IInv
<1> SUFFICES ASSUME Init PROVE IInv
  OBVIOUS
<1>1. TypeOK
  BY SMT DEF Init, TypeOK, IsEmission, NoEmission, Emission
<1>2. SkipsAccounted
  <2>1. ended.due \ Members(ended.told) = {} /\ ended.shifts = 0
    BY DEF Init, NoEmission, Emission
  <2> QED
    BY <2>1, FS_EmptySet, SMT DEF SkipsAccounted
<1>3. Increasing(callbacks) /\ emissions = << >>
  BY SMT DEF Init, Increasing
<1> QED
  BY <1>1, <1>2, <1>3, SMT DEF IInv

(* What the invariant says of the list and of each emission.               *)
LEMMA Parts ==
  ASSUME IInv
  PROVE  /\ id_count \in Nat /\ callbacks \in Seq(1 .. id_count)
         /\ emissions \in Seq(Emissions(id_count))
         /\ Len(emissions) \in Nat /\ DOMAIN emissions = 1 .. Len(emissions)
         /\ \A k \in DOMAIN emissions :
              emissions[k] \in Emissions(id_count) /\ Sound(emissions[k], callbacks)
<1> DEFINE S == Emissions(id_count)
<1>1. /\ id_count \in Nat /\ callbacks \in Seq(1 .. id_count)
      /\ emissions \in Seq(S)
  BY DEF IInv, TypeOK, Emissions
<1>2. \A k \in DOMAIN emissions : Sound(emissions[k], callbacks)
  BY DEF IInv
<1> HIDE DEF S
<1>3. /\ Len(emissions) \in Nat /\ DOMAIN emissions = 1 .. Len(emissions)
      /\ \A k \in DOMAIN emissions : emissions[k] \in S
  BY <1>1, SMT
<1> QED
  BY <1>1, <1>2, <1>3 DEF S

(* The innermost emission and those outside of it.                         *)
LEMMA TopIs ==
  ASSUME NEW n \in Nat, emissions \in Seq(Emissions(n)), emissions # << >>
  PROVE  /\ Len(emissions) \in DOMAIN emissions /\ Top \in Emissions(n)
         /\ Outer \in Seq(Emissions(n))
         /\ DOMAIN Outer = 1 .. Len(emissions) - 1
         /\ \A k \in DOMAIN Outer : k \in DOMAIN emissions /\ Outer[k] = emissions[k]
<1> DEFINE S == Emissions(n)
<1> HIDE DEF S
<1>1. emissions \in Seq(S)
  BY DEF S
<1>2. /\ Len(emissions) \in DOMAIN emissions /\ Top \in S
      /\ Outer \in Seq(S)
      /\ DOMAIN Outer = 1 .. Len(emissions) - 1
      /\ \A k \in DOMAIN Outer : k \in DOMAIN emissions /\ Outer[k] = emissions[k]
  BY <1>1, SMT DEF Top, Outer
<1> QED
  BY <1>2 DEF S

(* Emissions that are sound one by one, the last one last.                 *)
LEMMA AppendSound ==
  ASSUME NEW n \in Nat, NEW s \in Seq(Emissions(n)), NEW c,
         \A k \in DOMAIN s : Sound(s[k], c),
         NEW e \in Emissions(n), Sound(e, c)
  PROVE  /\ Append(s, e) \in Seq(Emissions(n))
         /\ \A k \in DOMAIN Append(s, e) : Sound(Append(s, e)[k], c)
<1> DEFINE S == Emissions(n)
           t == Append(s, e)
<1> HIDE DEF S
<1>1. s \in Seq(S) /\ e \in S
  BY DEF S
<1>2. /\ t \in Seq(S)
      /\ \A k \in DOMAIN t : (k \in DOMAIN s /\ t[k] = s[k]) \/ t[k] = e
  BY <1>1, SMT
<1> HIDE DEF t
<1>3. \A k \in DOMAIN t : Sound(t[k], c)
  <2> SUFFICES ASSUME NEW k \in DOMAIN t PROVE Sound(t[k], c)
    OBVIOUS
  <2>1. (k \in DOMAIN s /\ t[k] = s[k]) \/ t[k] = e
    BY <1>2
  <2>2. CASE k \in DOMAIN s /\ t[k] = s[k]
    <3>1. Sound(s[k], c)
      BY <2>2
    <3> QED
      BY <2>2, <3>1
  <2>3. CASE t[k] = e
    BY <2>3
  <2> QED
    BY <2>1, <2>2, <2>3
<1> QED
  BY <1>2, <1>3 DEF S, t

THEOREM NextIInv == IInv /\ [Next]_vars => IInv'
<1> SUFFICES ASSUME IInv, [Next]_vars PROVE IInv'
  OBVIOUS
<1> DEFINE n == id_count
<1>0. /\ n \in Nat /\ callbacks \in Seq(1 .. n) /\ Increasing(callbacks)
      /\ emissions \in Seq(Emissions(n))
      /\ Len(emissions) \in Nat /\ DOMAIN emissions = 1 .. Len(emissions)
      /\ IsEmission(ended) /\ SkipsAccounted
  BY Parts DEF IInv, TypeOK
<1>s. \A k \in DOMAIN emissions :
        emissions[k] \in Emissions(n) /\ Sound(emissions[k], callbacks)
  BY Parts
<1>t. ASSUME n' \in Nat, callbacks' \in Seq(1 .. n'), Increasing(callbacks'),
             emissions' \in Seq(Emissions(n')), IsEmission(ended)',
             \A k \in DOMAIN emissions' : Sound(emissions'[k], callbacks'),
             SkipsAccounted'
      PROVE  IInv'
  BY <1>t DEF IInv, TypeOK, Emissions
<1>e. ASSUME ended' = ended, n' = n PROVE IsEmission(ended)' /\ SkipsAccounted'
  BY <1>0, <1>e DEF IsEmission, SkipsAccounted
<1>1. CASE Subscribe
  <2>1. n' = n + 1 /\ callbacks' = Append(callbacks, n + 1)
        /\ emissions' = emissions /\ ended' = ended
    BY <1>1 DEF Subscribe
  <2>2. n' \in Nat /\ callbacks' \in Seq(1 .. n')
    <3>1. callbacks \in Seq(1 .. n + 1)
      BY <1>0, SeqGrows
    <3> QED
      BY <1>0, <2>1, <3>1, SMT
  <2>3. Increasing(callbacks')
    <3>1. callbacks \in Seq(Nat) /\ n + 1 \in Nat /\ \A j \in DOMAIN callbacks : callbacks[j] < n + 1
      BY <1>0, SMT
    <3> QED
      BY <1>0, <2>1, <3>1, AppendIncreasing
  <2>4. emissions' \in Seq(Emissions(n'))
    <3> DEFINE S == Emissions(n)
               T == Emissions(n + 1)
    <3>1. S \subseteq T
      BY <1>0, EmissionsGrow
    <3>2. emissions \in Seq(S)
      BY <1>0
    <3> HIDE DEF S, T
    <3>3. emissions \in Seq(T)
      BY <3>1, <3>2, SMT
    <3> QED
      BY <2>1, <3>3 DEF T
  <2>5. \A k \in DOMAIN emissions' : Sound(emissions'[k], callbacks')
    BY <1>0, <1>s, <2>1, SoundAppend
  <2>6. IsEmission(ended)'
    <3>1. ended.told \in Seq(1 .. n + 1)
      BY <1>0, SeqGrows DEF IsEmission
    <3>2. ended.due \subseteq 1 .. n + 1
      BY <1>0, SMT DEF IsEmission
    <3> QED
      BY <1>0, <2>1, <3>1, <3>2 DEF IsEmission
  <2>7. SkipsAccounted'
    BY <1>0, <2>1 DEF SkipsAccounted
  <2> QED
    BY <1>t, <2>2, <2>3, <2>4, <2>5, <2>6, <2>7
<1>2. CASE Unsubscribe
  <2>1. PICK i \in DOMAIN callbacks :
          /\ callbacks' = Without(callbacks, i)
          /\ emissions' = [k \in DOMAIN emissions |-> Witness(emissions[k], i)]
          /\ n' = n /\ ended' = ended
    BY <1>2 DEF Unsubscribe
  <2>2. callbacks' \in Seq(1 .. n')
    BY <1>0, <2>1, WithoutIs
  <2>3. Increasing(callbacks')
    <3>1. callbacks \in Seq(Nat)
      BY <1>0, SMT
    <3> QED
      BY <1>0, <2>1, <3>1, WithoutIncreasing
  <2>4. \A k \in DOMAIN emissions :
          /\ Witness(emissions[k], i) \in Emissions(n)
          /\ Sound(Witness(emissions[k], i), callbacks')
    BY <1>0, <1>s, <2>1, SoundWithout
  <2>5. emissions' \in Seq(Emissions(n'))
    <3> DEFINE S == Emissions(n)
               w(k) == Witness(emissions[k], i)
    <3>1. \A k \in 1 .. Len(emissions) : w(k) \in S
      BY <1>0, <2>4
    <3>2. emissions' = [k \in 1 .. Len(emissions) |-> w(k)]
      BY <1>0, <2>1
    <3> HIDE DEF S, w
    <3>3. emissions' \in Seq(S)
      BY <1>0, <3>1, <3>2, SMT
    <3> QED
      BY <2>1, <3>3 DEF S
  <2>6. \A k \in DOMAIN emissions' : Sound(emissions'[k], callbacks')
    BY <2>1, <2>4
  <2> QED
    BY <1>0, <1>t, <1>e, <2>1, <2>2, <2>3, <2>5, <2>6
<1>3. CASE Emit
  <2> DEFINE e == Emission(1, <<callbacks[1]>>, Members(callbacks), 0)
  <2>1. /\ callbacks # << >> /\ emissions' = Append(emissions, e)
        /\ callbacks' = callbacks /\ n' = n /\ ended' = ended
    BY <1>3 DEF Emit
  <2>2. e \in Emissions(n) /\ Sound(e, callbacks)
    BY <1>0, <2>1, SoundNew
  <2> HIDE DEF e
  <2>3. /\ emissions' \in Seq(Emissions(n))
        /\ \A k \in DOMAIN emissions' : Sound(emissions'[k], callbacks)
    BY <1>0, <1>s, <2>1, <2>2, AppendSound
  <2> QED
    BY <1>0, <1>t, <1>e, <2>1, <2>3
<1>4. CASE CallNext
  <2> DEFINE f == Emission(Top.at + 1, Append(Top.told, callbacks[Top.at + 1]),
                           Top.due, Top.shifts)
  <2>1. /\ emissions # << >> /\ Top.at < Len(callbacks)
        /\ emissions' = Append(Outer, f)
        /\ callbacks' = callbacks /\ n' = n /\ ended' = ended
    BY <1>4 DEF CallNext, More
  <2>2. /\ Top \in Emissions(n) /\ Sound(Top, callbacks)
        /\ Outer \in Seq(Emissions(n))
        /\ \A k \in DOMAIN Outer : Sound(Outer[k], callbacks)
    <3>1. Sound(Top, callbacks)
      BY <1>0, <1>s, <2>1, TopIs DEF Top
    <3>2. \A k \in DOMAIN Outer : k \in DOMAIN emissions /\ Outer[k] = emissions[k]
      BY <1>0, <2>1, TopIs
    <3>3. \A k \in DOMAIN Outer : Sound(Outer[k], callbacks)
      BY <1>s, <3>2
    <3> QED
      BY <1>0, <2>1, <3>1, <3>3, TopIs
  <2>3. f \in Emissions(n) /\ Sound(f, callbacks)
    BY <1>0, <2>1, <2>2, SoundNext
  <2> HIDE DEF f
  <2>4. /\ emissions' \in Seq(Emissions(n))
        /\ \A k \in DOMAIN emissions' : Sound(emissions'[k], callbacks)
    BY <1>0, <2>1, <2>2, <2>3, AppendSound
  <2> QED
    BY <1>0, <1>t, <1>e, <2>1, <2>4
<1>5. CASE EmitReturns
  <2>1. /\ emissions # << >> /\ ~(Top.at < Len(callbacks))
        /\ emissions' = Outer /\ ended' = Top
        /\ callbacks' = callbacks /\ n' = n
    BY <1>5 DEF EmitReturns, More
  <2>2. /\ Top \in Emissions(n) /\ Outer \in Seq(Emissions(n))
        /\ \A k \in DOMAIN Outer : k \in DOMAIN emissions /\ Outer[k] = emissions[k]
    BY <1>0, <2>1, TopIs
  <2>3. Sound(Top, callbacks)
    BY <1>0, <1>s, <2>1, TopIs DEF Top
  <2>4. \A k \in DOMAIN emissions' : Sound(emissions'[k], callbacks)
    BY <1>s, <2>1, <2>2
  <2>5. SkipsAccounted'
    BY <1>0, <2>1, <2>2, <2>3, ReturnsAccounted DEF SkipsAccounted
  <2>6. IsEmission(ended)'
    BY <2>1, <2>2, SMT DEF IsEmission, Emissions
  <2> QED
    BY <1>0, <1>t, <2>1, <2>2, <2>4, <2>5, <2>6
<1>6. CASE UNCHANGED vars
  BY <1>0, <1>s, <1>t, <1>e, <1>6 DEF vars
<1> QED
  BY <1>1, <1>2, <1>3, <1>4, <1>5, <1>6 DEF Next

LEMMA Invariance == Spec => []IInv
BY InitIInv, NextIInv, PTL DEF Spec

-----------------------------------------------------------------------------
(* The theorems.                                                           *)

(* Type correctness.                                                       *)
THEOREM TypeCorrect == Spec => []TypeOK
<1>1. IInv => TypeOK
  BY DEF IInv
<1> QED
  BY <1>1, Invariance, PTL

(* emit (observer.hpp:92) calls nobody twice and its subscribers in the    *)
(* order they subscribed in, whatever the callbacks do to the list.        *)
THEOREM CallsInOrder == Spec => []ToldInOrder
<1>1. IInv => ToldInOrder
  BY DEF IInv, ToldInOrder, Sound
<1> QED
  BY <1>1, Invariance, PTL

(* Each removal of an earlier or the running callback costs at most one    *)
(* of the others its call (observer.hpp:87).                               *)
THEOREM SkipsBounded == Spec => []SkipsAccounted
<1>1. IInv => SkipsAccounted
  BY DEF IInv
<1> QED
  BY <1>1, Invariance, PTL

(* While only callbacks behind it are removed, the iterator of emit stays  *)
(* in the list.                                                            *)
THEOREM IteratorValid == Spec => []NeverDangling
<1>1. IInv => NeverDangling
  <2> SUFFICES ASSUME IInv, NEW k \in DOMAIN emissions, emissions[k].shifts = 0
               PROVE  ~Dangling(emissions[k])
    BY DEF NeverDangling
  <2>1. emissions[k] \in Emissions(id_count) /\ Sound(emissions[k], callbacks)
        /\ callbacks \in Seq(1 .. id_count)
    BY Parts
  <2>2. emissions[k].at \in Nat /\ Len(callbacks) \in Nat
    BY <2>1, SMT DEF Emissions
  <2> QED
    BY <2>1, <2>2, SMT DEF Sound, Dangling
<1> QED
  BY <1>1, Invariance, PTL
=============================================================================
