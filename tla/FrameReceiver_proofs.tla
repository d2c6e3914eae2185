------------------------ MODULE FrameReceiver_proofs ------------------------
(***************************************************************************)
(* Theorems about RxRing, for every ring size, counter width, burst and    *)
(* number of bytes, and about FrameReceiver, for every stream and kind of  *)
(* driver.  The receiver is a step-by-step refinement of RxRing, so that   *)
(* what is proved of the ring holds of it, and it implements LossyLine,    *)
(* whether or not the ring is lapped.                                      *)
(***************************************************************************)
EXTENDS FrameReceiver, TLAPS

(***************************************************************************)
(* The ring.                                                               *)
(*                                                                         *)
(* RingInv is the inductive invariant.  RingView alone is not inductive:   *)
(* a parser step shortens the modular distance by the part of the window   *)
(* it passes, so what is in the window and what came after it have to be   *)
(* known apart (WindowView); CountedAtMostOnce needs the relation of the   *)
(* wrapping counters to the number of increments (CounterView).            *)
(***************************************************************************)

(* The two wrapping counters differ by the increments made since the last  *)
(* save, until they are a whole cycle apart, and a value of loaded that is *)
(* about to be logged is backed by that many increments.                   *)
CounterView ==
  /\ uncounted >= CountMod \/ CounterDiff(last_byte_count, byte_count) = uncounted
  /\ pc = "compared" /\ ~in_order => uncounted >= 1
  /\ pc = "counted" => loaded <= uncounted
  /\ bytes_rxed + uncounted <= arrived + Lent

RingInv == TypeOK /\ RingView /\ WindowView /\ CounterView

-----------------------------------------------------------------------------
(* Arithmetic of the ring.                                                 *)

(* Positions stay in the ring.                                             *)
LEMMA IndexClosed ==
  /\ Lent \in Index
  /\ write_it \in Index => Latest \in Index
  /\ \A i \in Index : Advance(i) \in Index
  /\ \A i, j \in Index : Distance(i, j) \in Index
BY SizeAssumption, SMT DEF Lent, Index, Latest, Advance, Distance

(* One more byte makes the newest byte one position more distant, modulo   *)
(* the ring, for a storing and for a lending driver.                       *)
LEMMA LatestAdvances ==
  ASSUME write_it \in Index, write_it' = Advance(write_it), NEW i \in Index
  PROVE  Distance(i, Latest') = IF Distance(i, Latest) + 1 = BufSize
                                  THEN 0 ELSE Distance(i, Latest) + 1
BY SizeAssumption, SMT DEF Index, Latest, Advance, Distance

(* Passing a position of the window leaves the rest of the window.         *)
LEMMA DistanceSplits ==
  ASSUME NEW i \in Index, NEW j \in Index, NEW k \in Index,
         Distance(i, j) <= Distance(i, k)
  PROVE  Distance(j, k) = Distance(i, k) - Distance(i, j)
BY SizeAssumption, SMT DEF Index, Distance

(* Consecutive windows add up as long as they fit in the ring together.    *)
LEMMA DistanceAdds ==
  ASSUME NEW i \in Index, NEW j \in Index, NEW k \in Index,
         Distance(i, j) + Distance(j, k) < BufSize
  PROVE  Distance(i, k) = Distance(i, j) + Distance(j, k)
BY SizeAssumption, SMT DEF Index, Distance

-----------------------------------------------------------------------------

(* The initial state satisfies the invariant.                              *)
LEMMA InitRingInv == Init => RingInv
<1> SUFFICES ASSUME Init PROVE RingInv
  OBVIOUS
<1>1. TypeOK
  <2>1. in_order \in BOOLEAN
    BY DEF Init
  <2>2. Lent \in Index /\ Lent \in Nat /\ 0 \in Index
    BY IndexClosed, SizeAssumption, SMT DEF Lent, Index
  <2> QED
    BY <2>1, <2>2, SizeAssumption, SMT DEF Init, TypeOK, Index
<1>2. RingView /\ WindowView
  BY SizeAssumption, SMT DEF Init, RingView, WindowView, Latest, Distance, Lent
<1>3. CounterView
  BY SizeAssumption, SMT DEF Init, CounterView, CounterDiff, Lent
<1> QED
  BY <1>1, <1>2, <1>3 DEF RingInv

(* The interrupt preserves the invariant.                                  *)
LEMMA RxByteKeeps == RingInv /\ RxByte => RingInv'
<1> SUFFICES ASSUME RingInv, RxByte PROVE RingInv'
  OBVIOUS
<1> USE DEF RingInv
<1>1. TypeOK'
  BY SizeAssumption, SMT DEF TypeOK, RxByte, Index, Advance
<1>2. RingView'
  <2>1. Distance(read_it, Latest') = IF Distance(read_it, Latest) + 1 = BufSize
                                       THEN 0 ELSE Distance(read_it, Latest) + 1
    BY LatestAdvances, SMT DEF TypeOK, RxByte
  <2>2. behind < BufSize => Distance(read_it, Latest) = behind
    BY DEF RingView
  <2>3. read_it' = read_it /\ behind' = behind + 1 /\ behind \in Nat
    BY DEF RxByte, TypeOK
  <2>4. behind' < BufSize => Distance(read_it, Latest') = behind'
    BY <2>1, <2>2, <2>3, SizeAssumption, SMT
  <2> QED
    BY <2>3, <2>4 DEF RingView, Distance
<1>3. WindowView'
  <2>1. Distance(write, Latest') = IF Distance(write, Latest) + 1 = BufSize
                                     THEN 0 ELSE Distance(write, Latest) + 1
    BY LatestAdvances, SMT DEF TypeOK, RxByte
  <2>2. /\ write' = write /\ read_it' = read_it /\ pc' = pc
        /\ fresh' = fresh + 1 /\ behind' = behind + 1
        /\ fresh \in Nat /\ behind \in Nat
    BY SizeAssumption, SMT DEF RxByte, TypeOK
  <2>3. pc' # "idle" => /\ behind' >= fresh'
                        /\ Distance(read_it, write) = behind' - fresh'
                        /\ fresh' < BufSize => Distance(write, Latest') = fresh'
    BY <2>1, <2>2, SizeAssumption, SMT DEF WindowView
  <2> QED
    BY <2>2, <2>3 DEF WindowView, Distance
<1>4. CounterView'
  BY SizeAssumption, SMT DEF TypeOK, CounterView, RxByte, CounterDiff, Lent
<1> QED
  BY <1>1, <1>2, <1>3, <1>4

(* Latching write starts a window that holds exactly the unread bytes.     *)
LEMMA LatchKeeps == RingInv /\ Latch => RingInv'
<1> SUFFICES ASSUME RingInv, Latch PROVE RingInv'
  OBVIOUS
<1> USE DEF RingInv
<1>1. Latest \in Index /\ Distance(read_it, Latest) \in Index /\ Latest' = Latest
  BY IndexClosed, SMT DEF TypeOK, Latch, Latest
<1>2. TypeOK'
  BY <1>1, SizeAssumption, SMT DEF TypeOK, Latch, countVars, Index
<1>3. RingView'
  BY <1>1, SMT DEF RingView, Latch, Distance
<1>4. WindowView'
  <2>1. Distance(write', Latest') = 0
    BY <1>1, SizeAssumption, SMT DEF Latch, Distance, Index
  <2>2. Distance(read_it', write') = behind' /\ fresh' = 0 /\ behind' \in Nat
    BY <1>1, SizeAssumption, SMT DEF Latch, Distance, Index
  <2> QED
    BY <2>1, <2>2, SMT DEF WindowView, Distance
<1>5. CounterView'
  BY SMT DEF CounterView, Latch, countVars, CounterDiff, Lent
<1> QED
  BY <1>2, <1>3, <1>4, <1>5

(* The reads of the counter disturb nothing but the counters' view.        *)
LEMMA CompareKeeps == RingInv /\ Compare => RingInv'
<1> SUFFICES ASSUME RingInv, Compare PROVE RingInv'
  OBVIOUS
<1> USE DEF RingInv
<1>1. TypeOK'
  <2>1. in_order' \in BOOLEAN
    BY DEF Compare
  <2> QED
    BY <2>1, SMT DEF TypeOK, Compare, ringVars
<1>2. RingView' /\ WindowView'
  BY SMT DEF RingView, WindowView, Compare, ringVars, Latest, Distance
<1>3. CounterView'
  <2>1. ~in_order' => ~(last_byte_count <= byte_count)
    BY DEF Compare
  <2>2. ~(last_byte_count <= byte_count) => uncounted >= 1
    BY SizeAssumption, SMT DEF TypeOK, CounterView, CounterDiff
  <2> QED
    BY <2>1, <2>2, SMT DEF CounterView, Compare, CounterDiff, Lent
<1> QED
  BY <1>1, <1>2, <1>3

LEMMA CountKeeps == RingInv /\ Count => RingInv'
<1> SUFFICES ASSUME RingInv, Count PROVE RingInv'
  OBVIOUS
<1> USE DEF RingInv
<1>1. TypeOK'
  BY SizeAssumption, SMT DEF TypeOK, Count, ringVars, CounterDiff
<1>2. RingView' /\ WindowView'
  BY SMT DEF RingView, WindowView, Count, ringVars, Latest, Distance
<1>3. CounterView'
  BY SizeAssumption, SMT DEF TypeOK, CounterView, Count, CounterDiff, Lent
<1> QED
  BY <1>1, <1>2, <1>3

(* The save, with or without the overflow reset of the read position.      *)
LEMMA SaveKeeps == RingInv /\ Save => RingInv'
<1> SUFFICES ASSUME RingInv, Save PROVE RingInv'
  OBVIOUS
<1> USE DEF RingInv
<1>1. TypeOK'
  BY SizeAssumption, SMT DEF TypeOK, Save
<1>2. Latest' = Latest /\ write' = write /\ fresh' = fresh
  BY DEF Save, Latest
<1>3. RingView' /\ WindowView'
  <2>1. CASE loaded >= BufSize
    <3>1. read_it' = write /\ behind' = fresh
      BY <2>1, SizeAssumption, SMT DEF Save, TypeOK
    <3>2. fresh < BufSize => Distance(write, Latest) = fresh
      BY SMT DEF WindowView, Save
    <3>3. Distance(write, write) = 0 /\ fresh \in Nat
      BY SizeAssumption, SMT DEF Distance, TypeOK, Index
    <3> QED
      BY <1>2, <3>1, <3>2, <3>3, SMT DEF RingView, WindowView, Distance
  <2>2. CASE loaded < BufSize
    <3>1. read_it' = read_it /\ behind' = behind /\ pc = "counted"
      BY <2>2, SizeAssumption, SMT DEF Save, TypeOK
    <3> QED
      BY <1>2, <3>1, SMT DEF RingView, WindowView, Distance
  <2> QED
    BY <2>1, <2>2, SizeAssumption, SMT DEF TypeOK
<1>4. CounterView'
  BY SizeAssumption, SMT DEF TypeOK, CounterView, Save, CounterDiff, Lent
<1> QED
  BY <1>1, <1>3, <1>4

(* Any move of the parser within its window.                               *)
LEMMA ScanKeeps ==
  ASSUME RingInv, NEW to \in Index, NEW done \in BOOLEAN, Scan(to, done)
  PROVE  RingInv'
<1> USE DEF RingInv
<1>1. Latest \in Index /\ Latest' = Latest /\ read_it \in Index /\ write \in Index
  BY IndexClosed DEF TypeOK, Scan, Latest
<1>2. Distance(to, write) = Distance(read_it, write) - Distance(read_it, to)
  BY <1>1, DistanceSplits DEF Scan
<1>3. /\ Distance(read_it, to) \in Nat /\ Distance(to, write) \in Nat
      /\ Distance(to, Latest) \in Nat
  BY <1>1, IndexClosed, SizeAssumption, SMT DEF Index
<1>4. /\ behind >= fresh /\ Distance(read_it, write) = behind - fresh
      /\ fresh < BufSize => Distance(write, Latest) = fresh
  BY SMT DEF WindowView, Scan
<1>5. /\ read_it' = to /\ write' = write /\ fresh' = fresh
      /\ behind' = behind - Distance(read_it, to)
      /\ behind \in Nat /\ fresh \in Nat
  BY SizeAssumption, SMT DEF Scan, TypeOK
<1>6. behind' \in Nat /\ behind' >= fresh /\ Distance(to, write) = behind' - fresh
  BY <1>2, <1>3, <1>4, <1>5, SMT
<1>7. TypeOK'
  BY <1>6, SizeAssumption, SMT DEF TypeOK, Scan, countVars
<1>8. RingView'
  <2> SUFFICES ASSUME behind' < BufSize
               PROVE  Distance(to, Latest) = behind'
    BY <1>1, <1>5 DEF RingView, Distance
  <2>1. Distance(write, Latest) = fresh
    BY <1>4, <1>5, <1>6, SizeAssumption, SMT
  <2>2. Distance(to, write) + Distance(write, Latest) = behind'
    BY <2>1, <1>5, <1>6, SMT
  <2>3. Distance(to, write) + Distance(write, Latest) < BufSize
    BY <2>2
  <2>4. Distance(to, Latest) = Distance(to, write) + Distance(write, Latest)
    BY <2>3, <1>1, DistanceAdds
  <2> QED
    BY <2>2, <2>4
<1>9. WindowView'
  BY <1>1, <1>4, <1>5, <1>6, SMT DEF WindowView, Distance
<1>10. CounterView'
  BY SMT DEF CounterView, Scan, countVars, CounterDiff, Lent
<1> QED
  BY <1>7, <1>8, <1>9, <1>10

(* A step that changes nothing keeps the invariant.                        *)
LEMMA StutterKeeps == RingInv /\ UNCHANGED rxVars => RingInv'
BY SMT DEF RingInv, TypeOK, RingView, WindowView, CounterView, rxVars, ringVars,
           countVars, Latest, Distance, CounterDiff, Lent

(* Every step of RxRing preserves the invariant.                           *)
LEMMA NextKeeps == RingInv /\ [Next]_rxVars => RingInv'
BY RxByteKeeps, LatchKeeps, CompareKeeps, CountKeeps, SaveKeeps, ScanKeeps,
   StutterKeeps DEF Next

(* RingInv is an invariant of the specification.                           *)
THEOREM Invariance == Spec => []RingInv
BY InitRingInv, NextKeeps, PTL DEF Spec

(* Type correctness.                                                       *)
THEOREM TypeCorrect == Spec => []TypeOK
<1>1. RingInv => TypeOK
  BY DEF RingInv
<1> QED
  BY <1>1, Invariance, PTL

(* For every ring size and every interleaving of the interrupt with        *)
(* do_receive, the parser's modular distances are true byte counts as long *)
(* as fewer bytes are unread than the ring holds.                          *)
THEOREM RingViewCorrect == Spec => [](RingView /\ WindowView)
<1>1. RingInv => RingView /\ WindowView
  BY DEF RingInv
<1> QED
  BY <1>1, Invariance, PTL

(* No byte is counted twice by log_received_count, although _byte_count is *)
(* read three times without a lock and wraps.                              *)
THEOREM NeverOvercounts == Spec => []CountedAtMostOnce
<1>1. RingInv => CountedAtMostOnce
  BY SizeAssumption, SMT DEF RingInv, TypeOK, CounterView, CountedAtMostOnce, Lent
<1> QED
  BY <1>1, Invariance, PTL

(***************************************************************************)
(* The receiver.                                                           *)
(***************************************************************************)

Shape ==
  /\ line \in Lines /\ arrived <= Len(line.bytes)
  /\ ring \in [Index -> 0 .. arrived]
  /\ copying \in BOOLEAN /\ found \in Index
  /\ fragment_size \in 0 .. ByteMod + HeaderSize + FooterSize
  /\ delivered \in Seq([at : 1 .. arrived,
                        event : {"receive", "broadcast", "other"}])

(* What the ring holds is told by the distance from the newest byte.       *)
Cells ==
  \A i \in Index :
    ring[i] = IF Distance(i, Latest) < arrived THEN arrived - Distance(i, Latest) ELSE 0

(* A fragment that is to be copied lies in the window of the call.         *)
CopyInWindow ==
  copying => /\ pc = "scan" /\ fragment_size > 0
             /\ Distance(read_it, found) + fragment_size <= Distance(read_it, write)

(* What was delivered is older than what the parser has yet to read: while *)
(* a call runs, than its window; between two calls, than what the next one *)
(* will find, which after a lap is less than what is unread.               *)
DeliveredBefore ==
  \A i \in DOMAIN delivered :
    delivered[i].at + (IF pc = "idle" THEN Distance(read_it, Latest) ELSE behind) <= arrived

(* The inductive invariant.                                                *)
FInv == RingInv /\ Shape /\ Cells /\ CopyInWindow /\ DeliveredBefore

-----------------------------------------------------------------------------
(* Arithmetic of the ring.                                                 *)

(* Positions moved forward within the ring stay in it.                     *)
LEMMA ForwardClosed ==
  \A i \in Index, n \in 0 .. BufSize : Forward(i, n) \in Index
BY SizeAssumption, SMT DEF Index, Forward

(* Moving forward makes a position more distant, up to the ring's size.    *)
LEMMA ForwardDistance ==
  ASSUME NEW r \in Index, NEW i \in Index, NEW n \in Nat,
         Distance(r, i) + n < BufSize
  PROVE  /\ Forward(i, n) \in Index
         /\ Distance(r, Forward(i, n)) = Distance(r, i) + n
BY SizeAssumption, SMT DEF Index, Forward, Distance

(* Moving forward in two steps or one is the same.                         *)
LEMMA ForwardTwice ==
  ASSUME NEW i \in Index, NEW n \in Nat, n > 0, n < BufSize
  PROVE  Forward(Forward(i, 1), n - 1) = Forward(i, n)
BY SizeAssumption, SMT DEF Index, Forward

(* The distance is a way round the ring: a detour is not shorter.          *)
LEMMA DistanceTriangle ==
  ASSUME NEW i \in Index, NEW j \in Index, NEW k \in Index
  PROVE  Distance(i, k) <= Distance(i, j) + Distance(j, k)
BY SizeAssumption, SMT DEF Index, Distance

(* A position of the window is at most as far from the newest byte as      *)
(* bytes follow it, lapped or not.                                         *)
LEMMA WithinBehind ==
  ASSUME RingInv, pc # "idle", NEW i \in Index,
         Distance(read_it, i) <= Distance(read_it, write)
  PROVE  Distance(i, Latest) + Distance(read_it, i) <= behind
<1>1. /\ read_it \in Index /\ write \in Index /\ Latest \in Index
      /\ behind \in Nat /\ fresh \in Nat
  BY IndexClosed, SizeAssumption, SMT DEF RingInv, TypeOK
<1>2. /\ Distance(i, Latest) \in Nat /\ Distance(i, Latest) < BufSize
      /\ Distance(read_it, i) \in Nat /\ Distance(i, write) \in Nat
      /\ Distance(write, Latest) \in Nat /\ Distance(read_it, write) \in Nat
  BY <1>1, IndexClosed, SizeAssumption, SMT DEF Index
<1>3. /\ behind >= fresh /\ Distance(read_it, write) = behind - fresh
      /\ fresh < BufSize => Distance(write, Latest) = fresh
  BY DEF RingInv, WindowView
<1>4. Distance(i, write) = Distance(read_it, write) - Distance(read_it, i)
  BY <1>1, DistanceSplits
<1>5. Distance(i, Latest) <= Distance(i, write) + Distance(write, Latest)
  BY <1>1, DistanceTriangle
<1> HIDE DEF RingInv
<1>6. CASE fresh < BufSize
  BY <1>1, <1>2, <1>3, <1>4, <1>5, <1>6, SMT
<1>7. CASE ~(fresh < BufSize)
  BY <1>1, <1>2, <1>3, <1>7, SizeAssumption, SMT
<1> QED
  BY <1>6, <1>7

(* Between two calls too: as far as bytes are unread.                      *)
LEMMA ReadWithinBehind ==
  ASSUME RingInv
  PROVE  Distance(read_it, Latest) <= behind
<1>1. Distance(read_it, Latest) \in Index /\ behind \in Nat
  BY IndexClosed DEF RingInv, TypeOK
<1>2. behind < BufSize => Distance(read_it, Latest) = behind
  BY DEF RingInv, RingView
<1> QED
  BY <1>1, <1>2, SizeAssumption, SMT DEF Index

-----------------------------------------------------------------------------

(* What a sequence is made of.                                             *)
LEMMA SeqElement ==
  ASSUME NEW S, NEW s \in Seq(S)
  PROVE  /\ \A i \in 1 .. Len(s) : s[i] \in S
         /\ \A i \in DOMAIN s : s[i] \in S
         /\ Len(s) \in Nat /\ DOMAIN s = 1 .. Len(s)
BY SMT

(* What is in the ring are bytes.                                          *)
LEMMA BytesInRing ==
  ASSUME Shape, arrived \in Nat, NEW i \in Index
  PROVE  At(i) \in 0 .. ByteMod - 1
<1>1. /\ line.bytes \in Seq(0 .. ByteMod - 1) /\ arrived <= Len(line.bytes)
      /\ ring[i] \in 0 .. arrived /\ ByteMod \in Nat /\ 0 \in 0 .. ByteMod - 1
  BY FrameAssumption, SMT DEF Shape
<1>2. CASE ring[i] = 0
  BY <1>1, <1>2 DEF At
<1>3. CASE ring[i] # 0
  <2>1. Len(line.bytes) \in Nat
    BY <1>1, SeqElement
  <2>2. ring[i] \in 1 .. Len(line.bytes)
    BY <1>1, <1>3, <2>1, SMT
  <2>3. line.bytes[ring[i]] \in 0 .. ByteMod - 1
    BY <1>1, <2>2, SeqElement
  <2> QED
    BY <2>3, <1>3 DEF At
<1> QED
  BY <1>2, <1>3

(* Bytes in the cells before the newest one: distances are positions.      *)
LEMMA RingTypes ==
  ASSUME FInv
  PROVE  /\ read_it \in Index /\ write \in Index /\ write_it \in Index
         /\ Latest \in Index /\ found \in Index /\ arrived \in Nat
         /\ behind \in Nat /\ fresh \in Nat
         /\ \A i, j \in Index : Distance(i, j) \in Nat /\ Distance(i, j) < BufSize
<1>1. /\ read_it \in Index /\ write \in Index /\ write_it \in Index
      /\ found \in Index /\ arrived \in Nat /\ behind \in Nat /\ fresh \in Nat
  BY SizeAssumption, SMT DEF FInv, Shape, RingInv, TypeOK
<1>2. \A i, j \in Index : Distance(i, j) \in Nat /\ Distance(i, j) < BufSize
  BY SizeAssumption, SMT DEF Index, Distance
<1> QED
  BY <1>1, <1>2, IndexClosed

(* A move of the read position keeps what was delivered before it, and     *)
(* when the call ends the next one begins behind it.                       *)
LEMMA ScanOrders ==
  ASSUME FInv, NEW to \in Index, NEW done \in BOOLEAN, Scan(to, done),
         NEW at \in Nat, at + behind <= arrived
  PROVE  at + (IF pc' = "idle" THEN Distance(read_it', Latest') ELSE behind') <= arrived'
<1>1. /\ read_it' = to /\ write_it' = write_it /\ arrived' = arrived
      /\ behind' = behind - Distance(read_it, to)
      /\ pc = "scan" /\ Distance(read_it, to) <= Distance(read_it, write)
  BY DEF Scan, ringVars
<1>2. Distance(to, Latest) + Distance(read_it, to) <= behind
  BY <1>1, WithinBehind DEF FInv
<1>3. /\ Distance(to, Latest) \in Nat /\ Distance(read_it, to) \in Nat
      /\ behind \in Nat /\ arrived \in Nat
  BY RingTypes
<1>4. Latest' = Latest
  BY <1>1 DEF Latest
<1>5. at + Distance(to, Latest) <= arrived /\ at + behind' <= arrived
  BY <1>1, <1>2, <1>3, SMT
<1> QED
  BY <1>1, <1>4, <1>5

(* Steps in which nothing arrives leave the contents of the ring.          *)
LEMMA QuietCells ==
  ASSUME Cells, ring' = ring, write_it' = write_it, arrived' = arrived
  PROVE  Cells'
<1>1. Latest' = Latest
  BY DEF Latest
<1>2. \A i \in Index : Distance(i, Latest)' = Distance(i, Latest)
  BY <1>1 DEF Distance
<1> QED
  BY <1>2 DEF Cells

-----------------------------------------------------------------------------

(* The initial state satisfies the invariant.                              *)
LEMMA InitFInv == FInit => FInv
<1> SUFFICES ASSUME FInit PROVE FInv
  OBVIOUS
<1>1. RingInv
  BY InitRingInv DEF FInit
<1>2. /\ line \in Lines /\ arrived = 0 /\ 0 <= Len(line.bytes) /\ 0 \in Index
      /\ copying = FALSE /\ found = 0 /\ fragment_size = 0 /\ delivered = << >>
  <2>1. line \in Lines /\ line.bytes \in Seq(0 .. ByteMod - 1)
    BY FrameAssumption DEF FInit
  <2>2. Len(line.bytes) \in Nat
    BY <2>1, SMT
  <2> QED
    BY <2>1, <2>2, SizeAssumption, SMT DEF FInit, Init, Index
<1>3. Shape
  <2>1. delivered \in Seq([at : 1 .. arrived, event : {"receive", "broadcast", "other"}])
    <3> DEFINE S == [at : 1 .. arrived, event : {"receive", "broadcast", "other"}]
    <3> HIDE DEF S
    <3>1. delivered \in Seq(S)
      BY <1>2, SMT
    <3> QED
      BY <3>1 DEF S
  <2>2. ring \in [Index -> 0 .. arrived]
    BY <1>2, SMT DEF FInit
  <2>3. fragment_size \in 0 .. ByteMod + HeaderSize + FooterSize
    BY <1>2, FrameAssumption, SMT
  <2> QED
    BY <1>2, <2>1, <2>2, <2>3 DEF Shape
<1>4. Cells
  <2> SUFFICES ASSUME NEW i \in Index
               PROVE  ring[i] = 0 /\ ~(Distance(i, Latest) < arrived)
    BY DEF Cells
  <2>1. Distance(i, Latest) \in Index
    BY <1>1, IndexClosed DEF RingInv, TypeOK
  <2> QED
    BY <2>1, <1>2, SizeAssumption, SMT DEF Index, FInit
<1>5. CopyInWindow
  BY <1>2 DEF CopyInWindow
<1>6. DeliveredBefore
  <2>1. DOMAIN delivered = {}
    BY <1>2, SMT
  <2> QED
    BY <2>1 DEF DeliveredBefore
<1> QED
  BY <1>1, <1>3, <1>4, <1>5, <1>6 DEF FInv

(* A byte arrives.                                                         *)
LEMMA FRxByteKeeps == FInv /\ FRxByte => FInv'
<1> SUFFICES ASSUME FInv, FRxByte PROVE FInv'
  OBVIOUS
<1>1. RingInv'
  BY RxByteKeeps DEF FInv, FRxByte
<1>2. /\ arrived < Len(line.bytes) /\ arrived' = arrived + 1
      /\ write_it' = Advance(write_it) /\ pc' = pc /\ read_it' = read_it
      /\ write' = write /\ behind' = behind + 1
      /\ ring' = [ring EXCEPT ![NextSlot] = arrived + 1]
      /\ line' = line /\ copying' = copying /\ found' = found
      /\ fragment_size' = fragment_size /\ delivered' = delivered
  BY DEF FRxByte, RxByte, parserVars
<1>3. NextSlot \in Index /\ Latest' = NextSlot
  <2>1. write_it \in Index /\ write_it' = Advance(write_it)
    BY <1>2, RingTypes
  <2> QED
    BY <2>1, SizeAssumption, SMT DEF Index, Latest, NextSlot, Advance
<1>4. /\ line \in Lines /\ arrived <= Len(line.bytes) /\ ring \in [Index -> 0 .. arrived]
      /\ copying \in BOOLEAN /\ found \in Index
      /\ fragment_size \in 0 .. ByteMod + HeaderSize + FooterSize
      /\ arrived \in Nat /\ behind \in Nat
  BY RingTypes DEF FInv, Shape
<1>5. \A i \in Index :
        /\ Distance(i, Latest) \in Nat /\ Distance(i, Latest) < BufSize
        /\ Distance(i, Latest') = IF Distance(i, Latest) + 1 = BufSize
                                    THEN 0 ELSE Distance(i, Latest) + 1
        /\ Distance(i, Latest') = 0 <=> i = NextSlot
  <2>1. \A i \in Index : Distance(i, NextSlot) = 0 <=> i = NextSlot
    BY <1>3, SizeAssumption, SMT DEF Index, Distance
  <2> QED
    BY <2>1, <1>2, <1>3, RingTypes, LatestAdvances
<1>6. Shape'
  <2>1. arrived' <= Len(line.bytes)
    <3>1. Len(line.bytes) \in Nat
      <4>1. line.bytes \in Seq(0 .. ByteMod - 1)
        BY <1>4, FrameAssumption
      <4> QED
        BY <4>1, SMT
    <3> QED
      BY <3>1, <1>2, <1>4, SMT
  <2>2. ring' \in [Index -> 0 .. arrived']
    BY <1>2, <1>3, <1>4, SMT
  <2>3. delivered' \in Seq([at : 1 .. arrived', event : {"receive", "broadcast", "other"}])
    <3> DEFINE S == [at : 1 .. arrived, event : {"receive", "broadcast", "other"}]
               T == [at : 1 .. arrived', event : {"receive", "broadcast", "other"}]
    <3>1. 1 .. arrived \subseteq 1 .. arrived'
      BY <1>2, <1>4, SMT
    <3>2. S \subseteq T
      BY <3>1
    <3>3. delivered \in Seq(S)
      BY DEF FInv, Shape
    <3> HIDE DEF S, T
    <3>4. delivered \in Seq(T)
      BY <3>2, <3>3, SMT
    <3> QED
      BY <3>4, <1>2 DEF T
  <2> QED
    BY <1>2, <1>4, <2>1, <2>2, <2>3 DEF Shape
<1>7. Cells'
  <2> SUFFICES ASSUME NEW i \in Index
               PROVE  ring'[i] = IF Distance(i, Latest') < arrived'
                                   THEN arrived' - Distance(i, Latest') ELSE 0
    BY DEF Cells, Distance
  <2>1. ring[i] = IF Distance(i, Latest) < arrived THEN arrived - Distance(i, Latest) ELSE 0
    BY DEF FInv, Cells
  <2>2. ring'[i] = IF i = NextSlot THEN arrived + 1 ELSE ring[i]
    BY <1>2, <1>4
  <2> QED
    BY <2>1, <2>2, <1>2, <1>4, <1>5, SMT
<1>8. CopyInWindow'
  BY <1>2 DEF FInv, CopyInWindow, Distance
<1>9. DeliveredBefore'
  <2> SUFFICES ASSUME NEW i \in DOMAIN delivered
               PROVE  delivered[i].at + (IF pc = "idle" THEN Distance(read_it, Latest')
                                         ELSE behind + 1) <= arrived + 1
    BY <1>2 DEF DeliveredBefore, Distance
  <2>1. delivered[i].at \in Nat
    <3>1. delivered[i] \in [at : 1 .. arrived, event : {"receive", "broadcast", "other"}]
      BY SeqElement DEF FInv, Shape
    <3> QED
      BY <3>1, <1>4, SMT
  <2>2. delivered[i].at + (IF pc = "idle" THEN Distance(read_it, Latest) ELSE behind) <= arrived
    BY DEF FInv, DeliveredBefore
  <2>3. /\ read_it \in Index /\ Distance(read_it, Latest) \in Nat
        /\ Distance(read_it, Latest') = IF Distance(read_it, Latest) + 1 = BufSize
                                          THEN 0 ELSE Distance(read_it, Latest) + 1
    BY <1>5, RingTypes
  <2> QED
    BY <2>1, <2>2, <2>3, <1>4, SMT
<1> QED
  BY <1>1, <1>6, <1>7, <1>8, <1>9 DEF FInv

(* A move of the read position keeps the invariant if what was delivered   *)
(* is before it.                                                           *)
LEMMA MoveKeeps ==
  ASSUME FInv, NEW to \in Index, NEW done \in BOOLEAN, Scan(to, done),
         line' = line, ring' = ring, copying' = FALSE, found' \in Index,
         fragment_size' \in 0 .. ByteMod + HeaderSize + FooterSize,
         delivered' \in Seq([at : 1 .. arrived,
                             event : {"receive", "broadcast", "other"}]),
         DeliveredBefore'
  PROVE  FInv' /\ Next
<1>1. Next
  BY DEF Next
<1>2. RingInv'
  BY ScanKeeps DEF FInv
<1>3. write_it' = write_it /\ arrived' = arrived
  BY DEF Scan, ringVars
<1>4. Shape'
  BY <1>3 DEF FInv, Shape
<1>5. Cells'
  BY <1>3, QuietCells DEF FInv
<1>6. CopyInWindow'
  BY DEF CopyInWindow
<1> QED
  BY <1>1, <1>2, <1>4, <1>5, <1>6 DEF FInv

(* Nothing is delivered.                                                   *)
LEMMA MoveOrders ==
  ASSUME FInv, NEW to \in Index, NEW done \in BOOLEAN, Scan(to, done),
         delivered' = delivered
  PROVE  DeliveredBefore'
<1> SUFFICES ASSUME NEW i \in DOMAIN delivered
             PROVE  delivered[i].at + (IF pc' = "idle" THEN Distance(read_it', Latest')
                                       ELSE behind') <= arrived'
  BY DEF DeliveredBefore, Distance
<1>1. delivered[i].at \in Nat
  <2>1. delivered[i] \in [at : 1 .. arrived, event : {"receive", "broadcast", "other"}]
    BY SeqElement DEF FInv, Shape
  <2> QED
    BY <2>1, RingTypes, SMT
<1>2. delivered[i].at + behind <= arrived
  BY DEF FInv, DeliveredBefore, Scan
<1> QED
  BY <1>1, <1>2, ScanOrders

(* Where do_receive starts.                                                *)
LEMMA PrologueKeeps == FInv /\ Prologue => FInv' /\ Next
<1> SUFFICES ASSUME FInv, Prologue PROVE FInv' /\ Next
  OBVIOUS
<1>1. Next
  BY DEF Prologue, Next
<1>2. RingInv'
  BY <1>1, NextKeeps DEF FInv
<1>3. /\ write_it' = write_it /\ arrived' = arrived /\ line' = line /\ ring' = ring
      /\ copying' = copying /\ found' = found /\ fragment_size' = fragment_size
      /\ delivered' = delivered
  BY DEF Prologue, Latch, Compare, Count, Save, ringVars, parserVars
<1>4. Shape' /\ Cells'
  BY <1>3, QuietCells DEF FInv, Shape
<1>5. CopyInWindow'
  BY <1>3 DEF FInv, CopyInWindow, Prologue, Latch, Compare, Count, Save
<1>6. DeliveredBefore'
  <2> SUFFICES ASSUME NEW i \in DOMAIN delivered
               PROVE  delivered[i].at + behind' <= arrived /\ pc' # "idle"
    BY <1>3 DEF DeliveredBefore
  <2>1. delivered[i].at \in Nat
    <3>1. delivered[i] \in [at : 1 .. arrived, event : {"receive", "broadcast", "other"}]
      BY SeqElement DEF FInv, Shape
    <3> QED
      BY <3>1, RingTypes, SMT
  <2>2. delivered[i].at + (IF pc = "idle" THEN Distance(read_it, Latest) ELSE behind) <= arrived
    BY DEF FInv, DeliveredBefore
  <2>3. /\ behind \in Nat /\ fresh \in Nat /\ arrived \in Nat
        /\ pc # "idle" => fresh <= behind
    BY RingTypes DEF FInv, RingInv, WindowView
  <2>4. CASE Latch
    BY <2>2, <2>4 DEF Latch
  <2>5. CASE Compare \/ Count
    BY <2>2, <2>5 DEF Compare, Count, ringVars
  <2>6. CASE Save
    <3>1. pc # "idle" /\ pc' # "idle" /\ (behind' = fresh \/ behind' = behind)
      BY <2>6 DEF Save
    <3> QED
      BY <3>1, <2>1, <2>2, <2>3, SMT
  <2> QED
    BY <2>4, <2>5, <2>6 DEF Prologue
<1> QED
  BY <1>1, <1>2, <1>4, <1>5, <1>6 DEF FInv

(* A preamble found lies in the window; behind it are LoadedFrom bytes.    *)
LEMMA FoundInWindow ==
  ASSUME FInv, NEW p \in Index, Finds(p)
  PROVE  /\ Distance(read_it, p) + LoadedFrom(p) = Distance(read_it, write)
         /\ LoadedFrom(p) \in Nat /\ Forward(p, 1) \in Index
<1>1. /\ read_it \in Index /\ write \in Index
      /\ Distance(read_it, p) \in Nat /\ Distance(read_it, write) \in Nat
      /\ Distance(read_it, write) < BufSize
  BY RingTypes
<1>2. Distance(read_it, p) + 1 <= Distance(read_it, write)
  BY <1>1, SMT DEF Finds
<1>3. Distance(read_it, p) + 1 < BufSize
  BY <1>1, <1>2, SizeAssumption, SMT
<1>4. Forward(p, 1) \in Index /\ Distance(read_it, Forward(p, 1)) = Distance(read_it, p) + 1
  BY <1>1, <1>3, ForwardDistance
<1>5. Distance(Forward(p, 1), write) = Distance(read_it, write) - Distance(read_it, Forward(p, 1))
  BY <1>1, <1>2, <1>4, DistanceSplits
<1>6. Distance(Forward(p, 1), write) \in Nat
  BY <1>1, <1>4, RingTypes
<1> QED
  BY <1>1, <1>4, <1>5, <1>6, SMT DEF LoadedFrom

(* No preamble, one that has to wait for the rest, or a bad header.        *)
LEMMA SearchKeeps ==
  ASSUME FInv, NoPreamble \/ Preambled
  PROVE  FInv' /\ [Next]_rxVars
<1>1. /\ pc = "scan" /\ ~copying /\ line' = line /\ ring' = ring
      /\ copying = FALSE /\ found \in Index
      /\ fragment_size \in 0 .. ByteMod + HeaderSize + FooterSize
      /\ delivered \in Seq([at : 1 .. arrived, event : {"receive", "broadcast", "other"}])
  BY DEF NoPreamble, Preambled, FInv, Shape
<1>2. ASSUME NEW to \in Index, NEW done \in BOOLEAN, Scan(to, done), UNCHANGED parserVars
      PROVE  FInv' /\ Next
  <2>1. copying' = copying /\ found' = found /\ fragment_size' = fragment_size
        /\ delivered' = delivered
    BY <1>2 DEF parserVars
  <2>2. DeliveredBefore'
    BY <1>2, <2>1, MoveOrders
  <2> QED
    BY <1>1, <1>2, <2>1, <2>2, MoveKeeps
<1>3. CASE NoPreamble
  BY <1>2, <1>3, RingTypes DEF NoPreamble
<1>4. CASE Preambled
  <2>1. PICK p \in Index : Finds(p) /\ (AwaitHeader(p) \/ BadHeader(p) \/ GoodHeader(p))
    BY <1>4 DEF Preambled
  <2>2. Forward(p, 1) \in Index
    BY <2>1, FoundInWindow
  <2>3. CASE AwaitHeader(p)
    BY <1>2, <2>3 DEF AwaitHeader
  <2>4. CASE BadHeader(p)
    BY <1>2, <2>2, <2>4 DEF BadHeader
  <2>5. CASE GoodHeader(p)
    <3> DEFINE h == HeaderAt(Forward(p, 1))
               size == h.size + FooterSize + HeaderSize
    <3>1. AwaitFragment(p, size) \/ StartCopy(p, size)
      BY <2>5 DEF GoodHeader
    <3>2. CASE AwaitFragment(p, size)
      BY <1>2, <3>2 DEF AwaitFragment
    <3>3. CASE StartCopy(p, size)
      <4>1. h.size \in 0 .. ByteMod - 1
        <5>1. Forward(Forward(p, 1), 2) \in Index
          <6>1. 2 \in 0 .. BufSize
            BY SizeAssumption, SMT
          <6> QED
            BY <2>2, <6>1, ForwardClosed
        <5>2. h.size = At(Forward(Forward(p, 1), 2))
          BY DEF HeaderAt
        <5> QED
          BY <5>1, <5>2, BytesInRing, RingTypes DEF FInv
      <4> DEFINE n == size
      <4>2. n \in 0 .. ByteMod + HeaderSize + FooterSize /\ n > 0 /\ n \in Nat
        BY <4>1, FrameAssumption, SMT
      <4> HIDE DEF h, n
      <4>3. /\ n <= LoadedFrom(p) /\ copying' = TRUE /\ found' = p /\ fragment_size' = n
            /\ delivered' = delivered /\ rxVars' = rxVars
        BY <3>3, <4>1, SMT DEF StartCopy, n
      <4>4. /\ read_it' = read_it /\ write' = write /\ write_it' = write_it
            /\ arrived' = arrived /\ pc' = pc /\ behind' = behind
        BY <4>3 DEF rxVars, ringVars
      <4>5. RingInv'
        BY <4>3, StutterKeeps DEF FInv
      <4>6. Shape' /\ Cells'
        BY <1>1, <4>2, <4>3, <4>4, QuietCells DEF FInv, Shape
      <4>7. CopyInWindow'
        <5>1. Distance(read_it, p) + n <= Distance(read_it, write)
          BY <2>1, <4>2, <4>3, FoundInWindow, RingTypes, SMT
        <5> QED
          BY <1>1, <4>2, <4>3, <4>4, <5>1 DEF CopyInWindow, Distance
      <4>8. DeliveredBefore'
        BY <4>3, <4>4 DEF FInv, DeliveredBefore, Distance, Latest
      <4> QED
        BY <4>3, <4>5, <4>6, <4>7, <4>8 DEF FInv
    <3> QED
      BY <3>1, <3>2, <3>3
  <2> QED
    BY <2>1, <2>3, <2>4, <2>5
<1> QED
  BY <1>3, <1>4

(* Where a fragment that is copied lies.                                   *)
LEMMA CopyPlace ==
  ASSUME FInv, copying
  PROVE  /\ Forward(found, 1) \in Index /\ Forward(found, fragment_size) \in Index
         /\ fragment_size \in Nat /\ fragment_size > 0 /\ fragment_size < BufSize
         /\ Forward(Forward(found, 1), fragment_size - 1) = Forward(found, fragment_size)
         /\ Distance(read_it, Forward(found, 1)) = Distance(read_it, found) + 1
         /\ Distance(read_it, Forward(found, 1)) <= Distance(read_it, write)
<1>1. /\ fragment_size > 0 /\ Distance(read_it, found) + fragment_size <= Distance(read_it, write)
      /\ fragment_size \in 0 .. ByteMod + HeaderSize + FooterSize
  BY DEF FInv, CopyInWindow, Shape
<1>2. /\ read_it \in Index /\ found \in Index /\ write \in Index
      /\ Distance(read_it, found) \in Nat /\ Distance(read_it, write) \in Nat
      /\ Distance(read_it, write) < BufSize
  BY RingTypes
<1>3. /\ fragment_size \in Nat /\ fragment_size < BufSize /\ 1 \in Nat
      /\ Distance(read_it, found) + fragment_size < BufSize
      /\ Distance(read_it, found) + 1 < BufSize
      /\ Distance(read_it, found) + 1 <= Distance(read_it, write)
  BY <1>1, <1>2, FrameAssumption, SizeAssumption, SMT
<1>4. /\ Forward(found, 1) \in Index /\ Forward(found, fragment_size) \in Index
      /\ Distance(read_it, Forward(found, 1)) = Distance(read_it, found) + 1
  BY <1>2, <1>3, ForwardDistance
<1>5. Forward(Forward(found, 1), fragment_size - 1) = Forward(found, fragment_size)
  BY <1>1, <1>2, <1>3, ForwardTwice
<1> QED
  BY <1>1, <1>3, <1>4, <1>5

(* An intact copy is a fragment that has arrived and is younger than all   *)
(* that was delivered: this is where the lap of a ring does no harm, since *)
(* a cell that was overwritten holds a later byte.                         *)
LEMMA CopyIsNew ==
  ASSUME FInv, copying, CopyIsIntact(Forward(found, 1))
  PROVE  LET start == Forward(found, 1)
             end   == Forward(found, fragment_size)
         IN  /\ ring[start] \in 1 .. arrived
             /\ ring[start] + Distance(end, Latest) <= arrived
             /\ ring[end] = ring[start] + fragment_size - 1 /\ ring[end] <= arrived
             /\ \A i \in DOMAIN delivered : delivered[i].at < ring[start]
             /\ \E f \in line.frames :
                  f.at = ring[start] /\ FragmentEnd(f) = ring[start] + fragment_size - 1
<1> DEFINE start == Forward(found, 1)
           end   == Forward(found, fragment_size)
<1>1. /\ start \in Index /\ end \in Index /\ fragment_size \in Nat /\ fragment_size > 0
      /\ Forward(start, fragment_size - 1) = end
      /\ Distance(read_it, start) = Distance(read_it, found) + 1
      /\ Distance(read_it, start) <= Distance(read_it, write)
  BY CopyPlace
<1>2. PICK f \in line.frames : f.at = ring[start] /\ FragmentEnd(f) = f.at + fragment_size - 1
  BY DEF CopyIsIntact
<1>3. f.at \in Nat \ {0}
  BY FrameAssumption DEF FInv, Shape
<1>4. ring[end] = ring[start] + (fragment_size - 1)
  <2>1. fragment_size - 1 \in 0 .. fragment_size - 1
    BY <1>1, SMT
  <2> QED
    BY <1>1, <2>1 DEF CopyIsIntact
<1>5. /\ pc = "scan" /\ behind \in Nat /\ arrived \in Nat
      /\ Distance(read_it, found) \in Nat
      /\ Distance(start, Latest) \in Nat /\ Distance(end, Latest) \in Nat
  BY <1>1, RingTypes DEF FInv, CopyInWindow
<1> HIDE DEF start, end
<1>6. /\ ring[start] = IF Distance(start, Latest) < arrived THEN arrived - Distance(start, Latest) ELSE 0
      /\ ring[end] = IF Distance(end, Latest) < arrived THEN arrived - Distance(end, Latest) ELSE 0
  BY <1>1 DEF FInv, Cells
<1>7. Distance(start, Latest) + Distance(read_it, start) <= behind
  BY <1>1, <1>5, WithinBehind DEF FInv
<1>8. /\ ring[start] \in 1 .. arrived /\ ring[start] = arrived - Distance(start, Latest)
      /\ ring[end] = arrived - Distance(end, Latest)
      /\ ring[start] + Distance(end, Latest) <= arrived /\ ring[end] <= arrived
  BY <1>1, <1>2, <1>3, <1>4, <1>5, <1>6, SMT
<1>9. ASSUME NEW i \in DOMAIN delivered
      PROVE  delivered[i].at < ring[start]
  <2>1. delivered[i].at \in Nat
    <3>1. delivered[i] \in [at : 1 .. arrived, event : {"receive", "broadcast", "other"}]
      BY SeqElement DEF FInv, Shape
    <3> QED
      BY <3>1, <1>5, SMT
  <2>2. delivered[i].at + behind <= arrived
    BY <1>5 DEF FInv, DeliveredBefore
  <2> QED
    BY <1>1, <1>5, <1>7, <1>8, <2>1, <2>2, SMT
<1>10. ring[end] = ring[start] + fragment_size - 1
  BY <1>1, <1>4, <1>8, SMT
<1>11. \E g \in line.frames :
         g.at = ring[start] /\ FragmentEnd(g) = ring[start] + fragment_size - 1
  BY <1>2
<1> QED
  BY <1>8, <1>9, <1>10, <1>11 DEF start, end

(* The copy and its outcome: what passes is delivered as LossyLine allows. *)
LEMMA ParseKeeps ==
  ASSUME FInv, Parse
  PROVE  FInv' /\ Next /\ ((\E f \in line.frames : Abstract!Deliver(f)) \/ delivered' = delivered)
<1> DEFINE start == Forward(found, 1)
           end   == Forward(found, fragment_size)
           Reports == [at : 1 .. arrived, event : {"receive", "broadcast", "other"}]
<1>1. /\ copying /\ line' = line /\ ring' = ring /\ copying' = FALSE
      /\ found' = 0 /\ fragment_size' = 0
  BY DEF Parse
<1>2. start \in Index /\ end \in Index
  BY <1>1, CopyPlace
<1>3. found' \in Index /\ fragment_size' \in 0 .. ByteMod + HeaderSize + FooterSize
  BY <1>1, FrameAssumption, SizeAssumption, SMT DEF Index
<1>4. delivered \in Seq(Reports)
  BY DEF FInv, Shape
<1>5. CASE ~CopyIsIntact(start)
  <2>1. Scan(start, TRUE) /\ delivered' = delivered
    BY <1>5 DEF Parse
  <2>2. DeliveredBefore'
    BY <1>2, <2>1, MoveOrders
  <2> QED
    BY <1>1, <1>2, <1>3, <1>4, <2>1, <2>2, MoveKeeps
<1>6. CASE CopyIsIntact(start)
  <2> DEFINE report == [at |-> ring[start], event |-> Event(At(start))]
  <2>1. Scan(end, TRUE) /\ delivered' = Append(delivered, report)
    BY <1>6 DEF Parse
  <2>2. /\ ring[start] \in 1 .. arrived /\ ring[start] + Distance(end, Latest) <= arrived
        /\ ring[end] = ring[start] + fragment_size - 1 /\ ring[end] <= arrived
        /\ \A i \in DOMAIN delivered : delivered[i].at < ring[start]
        /\ \E f \in line.frames :
             f.at = ring[start] /\ FragmentEnd(f) = ring[start] + fragment_size - 1
    BY <1>1, <1>6, CopyIsNew
  <2>3. report \in Reports /\ report.at = ring[start]
    BY <2>2 DEF Event
  <2>4. PICK f \in line.frames :
          f.at = ring[start] /\ FragmentEnd(f) = ring[start] + fragment_size - 1
    BY <2>2
  <2>5. report = [at |-> f.at, event |-> Abstract!EventOf(f)]
    <3>1. At(start) = line.bytes[f.at]
      <4>1. ring[start] # 0
        BY <2>2, RingTypes, SMT
      <4> QED
        BY <4>1, <2>4 DEF At
    <3> QED
      BY <3>1, <2>4 DEF Event, Abstract!EventOf
  <2> HIDE DEF Reports, report
  <2>6. /\ delivered' \in Seq(Reports) /\ DOMAIN delivered' = 1 .. Len(delivered) + 1
        /\ DOMAIN delivered = 1 .. Len(delivered) /\ Len(delivered) \in Nat
        /\ \A i \in DOMAIN delivered : delivered'[i] = delivered[i]
        /\ delivered'[Len(delivered) + 1] = report
        /\ delivered # << >> => Len(delivered) \in DOMAIN delivered
    BY <1>4, <2>1, <2>3, SMT
  <2>7. \A i \in DOMAIN delivered' :
          (i \in DOMAIN delivered /\ delivered'[i] = delivered[i]) \/ delivered'[i] = report
    BY <2>6, SMT
  <2>8. /\ read_it' = end /\ Latest' = Latest /\ arrived' = arrived /\ pc' = "idle"
    BY <2>1 DEF Scan, ringVars, Latest
  <2>9. DeliveredBefore'
    <3> SUFFICES ASSUME NEW i \in DOMAIN delivered'
                 PROVE  delivered'[i].at + Distance(end, Latest) <= arrived
      BY <2>8 DEF DeliveredBefore, Distance
    <3>1. CASE i \in DOMAIN delivered /\ delivered'[i] = delivered[i]
      <4>1. delivered[i].at \in Nat
        <5>1. delivered[i] \in Reports
          BY <1>4, <3>1, SeqElement
        <5> QED
          BY <5>1, RingTypes, SMT DEF Reports
      <4>2. delivered[i].at < ring[start]
        BY <2>2, <3>1
      <4>3. /\ Distance(end, Latest) \in Nat /\ arrived \in Nat
        BY <1>2, RingTypes
      <4> HIDE DEF end, start
      <4>4. delivered[i].at + Distance(end, Latest) <= arrived
        BY <2>2, <4>1, <4>2, <4>3, SMT
      <4> QED
        BY <3>1, <4>4
    <3>2. CASE delivered'[i] = report
      BY <2>2, <2>3, <3>2
    <3> QED
      BY <2>7, <3>1, <3>2
  <2>10. FInv' /\ Next
    BY <1>1, <1>2, <1>3, <2>1, <2>6, <2>9, MoveKeeps DEF Reports
  <2>11. Abstract!Deliver(f)
    <3>1. f.at + HeaderSize + f.size + FooterSize - 1 <= arrived
      BY <2>2, <2>4 DEF FragmentEnd
    <3>2. delivered # << >> => delivered[Len(delivered)].at < f.at
      BY <2>2, <2>4, <2>6
    <3>3. delivered' = Append(delivered, [at |-> f.at, event |-> Abstract!EventOf(f)])
      BY <2>1, <2>5
    <3> QED
      BY <1>1, <2>8, <3>1, <3>2, <3>3 DEF Abstract!Deliver
  <2> QED
    BY <2>10, <2>11
<1> QED
  BY <1>5, <1>6

(* Every step of the receiver is one of the ring, and of LossyLine.        *)
LEMMA FStep ==
  ASSUME FInv, [FNext]_vars
  PROVE  FInv' /\ [Next]_rxVars /\ [Abstract!Next]_(Abstract!vars)
<1>1. CASE FRxByte
  <2>1. FInv' /\ Next
    BY <1>1, FRxByteKeeps DEF FRxByte, Next
  <2>2. Abstract!Receive
    BY <1>1 DEF FRxByte, RxByte, parserVars, Abstract!Receive
  <2> QED
    BY <2>1, <2>2 DEF Abstract!Next
<1>2. CASE Prologue
  <2>1. UNCHANGED Abstract!vars
    BY <1>2 DEF Prologue, Latch, Compare, Count, Save, parserVars, Abstract!vars
  <2> QED
    BY <1>2, <2>1, PrologueKeeps
<1>3. CASE NoPreamble \/ Preambled
  <2>1. UNCHANGED Abstract!vars
    BY <1>3 DEF NoPreamble, Preambled, AwaitHeader, BadHeader, GoodHeader, AwaitFragment,
                StartCopy, Scan, rxVars, parserVars, Abstract!vars
  <2> QED
    BY <1>3, <2>1, SearchKeeps
<1>4. CASE Parse
  <2>1. line' = line /\ arrived' = arrived
    BY <1>4 DEF Parse, Scan
  <2> QED
    BY <1>4, <2>1, ParseKeeps DEF Abstract!Next, Abstract!vars
<1>5. CASE UNCHANGED vars
  <2>1. RingInv' /\ UNCHANGED rxVars
    BY <1>5, StutterKeeps DEF vars, FInv
  <2>2. UNCHANGED <<line, ring, copying, found, fragment_size, delivered, read_it, write,
                    write_it, arrived, pc, behind>>
    BY <1>5 DEF vars, parserVars, rxVars, ringVars
  <2>3. Shape' /\ Cells'
    BY <2>2, QuietCells DEF FInv, Shape
  <2>4. CopyInWindow' /\ DeliveredBefore'
    BY <2>2 DEF FInv, CopyInWindow, DeliveredBefore, Distance, Latest
  <2> QED
    BY <2>1, <2>2, <2>3, <2>4 DEF FInv, Abstract!vars
<1> QED
  BY <1>1, <1>2, <1>3, <1>4, <1>5 DEF FNext, DoReceive

-----------------------------------------------------------------------------
(* The theorems.                                                           *)

(* FInv is an invariant of the receiver.                                   *)
THEOREM FInvariance == FSpec => []FInv
<1>1. FInv /\ [FNext]_vars => FInv'
  BY FStep
<1> QED
  BY InitFInv, <1>1, PTL DEF FSpec

(* The receiver is the ring of RxRing with a parser: every theorem about   *)
(* RxRing is one about buffered_parser_interface.                          *)
THEOREM ReceiverIsRing == FSpec => Spec
<1>1. FInit => Init
  BY DEF FInit
<1>2. FInv /\ [FNext]_vars => [Next]_rxVars
  BY FStep
<1> QED
  BY <1>1, <1>2, FInvariance, PTL DEF FSpec, Spec

(* The parser's distances and the byte counts are right in the receiver.   *)
THEOREM ReceiverRingView == FSpec => [](RingView /\ CountedAtMostOnce)
BY ReceiverIsRing, RingViewCorrect, NeverOvercounts, PTL

(* Type correctness of ring, parser and deliveries.                        *)
THEOREM FTypeCorrect == FSpec => []FTypeOK
<1>1. FInv => FTypeOK
  BY DEF FInv, Shape, RingInv, FTypeOK
<1> QED
  BY <1>1, FInvariance, PTL

(* The copy of do_receive is never of a whole ring, whose start would be   *)
(* its end, however long a header says the fragment is (buffered.hpp:267). *)
THEOREM CopyNeverEmpty == FSpec => []NeverCopiesEmpty
<1>1. FInv => NeverCopiesEmpty
  BY CopyPlace DEF NeverCopiesEmpty
<1> QED
  BY <1>1, FInvariance, PTL

(* What the receiver delivers are intact fragments, each once, in the      *)
(* order of the line and on the right event, even if the ring is lapped    *)
(* while a fragment is copied out of it.                                   *)
THEOREM ImplementsLine == FSpec => ImplementsLossyLine
<1>1. FInit => Abstract!Init
  BY DEF FInit, Init, Abstract!Init
<1>2. FInv /\ [FNext]_vars => [Abstract!Next]_(Abstract!vars)
  BY FStep
<1> QED
  BY <1>1, <1>2, FInvariance, PTL DEF FSpec, ImplementsLossyLine, Abstract!Spec

-----------------------------------------------------------------------------
(* A ring that always has room loses nothing.                              *)

(* The increments that the counter has yet to tell are of unread bytes, or *)
(* of the byte lent at the start; those made while the parser runs are of  *)
(* bytes behind its window.  As long as there is room, they are fewer than *)
(* the ring holds, and the overflow test drops nothing.                    *)
CountedSoon ==
  /\ uncounted <= Lent + behind
  /\ pc = "scan" => uncounted <= fresh

(* Of the fragments that start at or before the n-th byte behind the read  *)
(* position, all were delivered.                                           *)
NoneBefore(n) ==
  \A f \in line.frames : f.at + behind <= arrived + n => WasDelivered(f)

(* The parser has delivered what it has passed; a fragment it has begun to *)
(* copy is the first it has not, if one starts there.                      *)
Kept ==
  /\ behind <= arrived /\ CountedSoon
  /\ NoneBefore(0)
  /\ copying =>
       /\ NoneBefore(Distance(read_it, found))
       /\ \A f \in line.frames :
            f.at + behind = arrived + Distance(read_it, found) + 1
              => fragment_size = f.size + FooterSize + HeaderSize

(* The positions and sizes of fragments are numbers.                       *)
LEMMA FrameNumbers ==
  ASSUME FInv, NEW f \in line.frames
  PROVE  f.at \in Nat /\ f.at > 1 /\ f.size \in Nat
<1>1. line \in Lines
  BY DEF FInv, Shape
<1> QED
  BY <1>1, FrameAssumption, StreamAssumption

(* The window of a call that is not lapped holds the stream's next bytes.  *)
LEMMA WindowCells ==
  ASSUME FInv, Kept, pc = "scan", behind < BufSize,
         NEW n \in Nat, n <= Distance(read_it, write)
  PROVE  /\ Forward(read_it, n) \in Index
         /\ Distance(read_it, Forward(read_it, n)) = n
         /\ ring[Forward(read_it, n)] + behind = arrived + n
<1> DEFINE i == Forward(read_it, n)
<1>1. /\ read_it \in Index /\ write \in Index /\ Latest \in Index
      /\ behind \in Nat /\ fresh \in Nat /\ arrived \in Nat
      /\ Distance(read_it, write) \in Nat /\ Distance(read_it, write) < BufSize
  BY RingTypes
<1>2. Distance(read_it, read_it) = 0
  BY <1>1, SizeAssumption, SMT DEF Distance, Index
<1>3. Distance(read_it, read_it) + n < BufSize
  BY <1>1, <1>2, SizeAssumption, SMT
<1>4. i \in Index /\ Distance(read_it, i) = Distance(read_it, read_it) + n
  BY <1>1, <1>3, ForwardDistance
<1> HIDE DEF i
<1>5. Distance(read_it, i) = n
  BY <1>2, <1>4, SMT
<1>6. Distance(read_it, Latest) = behind /\ Distance(read_it, write) <= behind
  <2>1. Distance(read_it, Latest) = behind
    BY DEF FInv, RingInv, RingView
  <2>2. Distance(read_it, write) = behind - fresh
    BY DEF FInv, RingInv, WindowView
  <2> QED
    BY <1>1, <2>1, <2>2, SMT
<1>7. Distance(i, Latest) = behind - n
  <2>1. Distance(read_it, i) <= Distance(read_it, Latest)
    BY <1>1, <1>5, <1>6, SMT
  <2>2. Distance(i, Latest) = Distance(read_it, Latest) - Distance(read_it, i)
    BY <1>1, <1>4, <2>1, DistanceSplits
  <2> QED
    BY <1>5, <1>6, <2>2
<1>8. ring[i] = IF Distance(i, Latest) < arrived THEN arrived - Distance(i, Latest) ELSE 0
  BY <1>4 DEF FInv, Cells
<1>9. behind <= arrived
  BY DEF Kept
<1>10. ring[i] + behind = arrived + n
  BY <1>1, <1>6, <1>7, <1>8, <1>9, SMT
<1> QED
  BY <1>4, <1>5, <1>10 DEF i

(* No fragment starts up to a preamble that find found first.              *)
LEMMA NoneUpToFound ==
  ASSUME FInv, Kept, pc = "scan", behind < BufSize, NEW p \in Index, Finds(p)
  PROVE  NoneBefore(Distance(read_it, p))
<1> SUFFICES ASSUME NEW f \in line.frames, f.at + behind <= arrived + Distance(read_it, p),
                    ~WasDelivered(f)
             PROVE  FALSE
  BY DEF NoneBefore
<1>1. /\ f.at \in Nat /\ f.at > 1 /\ behind \in Nat /\ arrived \in Nat
      /\ Distance(read_it, p) \in Nat /\ Distance(read_it, write) \in Nat
      /\ behind <= arrived /\ Distance(read_it, p) < Distance(read_it, write)
  BY FrameNumbers, RingTypes DEF Kept, Finds
<1>2. ~(f.at + behind <= arrived + 0)
  BY DEF Kept, NoneBefore
<1> DEFINE n == f.at + behind - arrived - 1
           i == Forward(read_it, n)
<1>3. n \in Nat /\ n <= Distance(read_it, write) /\ n < Distance(read_it, p)
  BY <1>1, <1>2, SMT
<1> HIDE DEF n
<1>4. i \in Index /\ Distance(read_it, i) = n /\ ring[i] + behind = arrived + n
  BY <1>3, WindowCells
<1>5. At(i) # Preamble
  BY <1>3, <1>4 DEF Finds
<1>6. ring[i] = f.at - 1 /\ ring[i] # 0
  <2>1. ring[i] \in Nat
    <3>1. ring[i] \in 0 .. arrived
      BY <1>4 DEF FInv, Shape
    <3> QED
      BY <3>1, <1>1, SMT
  <2> QED
    BY <1>1, <1>4, <2>1, SMT DEF n
<1>7. line.bytes[f.at - 1] = Preamble
  BY StreamAssumption DEF FInv, Shape
<1> QED
  BY <1>5, <1>6, <1>7 DEF At

(* The cells behind a preamble hold the bytes behind it.                   *)
LEMMA CellsBehind ==
  ASSUME FInv, Kept, pc = "scan", behind < BufSize, NEW p \in Index, NEW k \in Nat,
         Distance(read_it, p) + 1 + k <= Distance(read_it, write)
  PROVE  /\ Forward(Forward(p, 1), k) \in Index
         /\ ring[Forward(Forward(p, 1), k)] + behind = arrived + Distance(read_it, p) + 1 + k
<1>1. /\ read_it \in Index /\ Distance(read_it, p) \in Nat /\ arrived \in Nat /\ behind \in Nat
      /\ Distance(read_it, write) \in Nat /\ Distance(read_it, write) < BufSize
  BY RingTypes
<1> DEFINE n == Distance(read_it, p) + 1 + k
<1>2. n \in Nat /\ n <= Distance(read_it, write)
  BY <1>1, SMT
<1>3. Forward(Forward(p, 1), k) = Forward(read_it, n)
  BY <1>1, <1>2, SizeAssumption, SMT DEF Forward, Index, Distance
<1> HIDE DEF n
<1>4. Forward(read_it, n) \in Index /\ ring[Forward(read_it, n)] + behind = arrived + n
  BY <1>2, WindowCells
<1>5. arrived + n = arrived + Distance(read_it, p) + 1 + k
  BY <1>1, SMT DEF n
<1> QED
  BY <1>3, <1>4, <1>5

(* Where a fragment starts, the parser sees its header.                    *)
LEMMA HeaderThere ==
  ASSUME FInv, Kept, pc = "scan", behind < BufSize, NEW p \in Index, Finds(p),
         LoadedFrom(p) >= HeaderSize, NEW f \in line.frames,
         f.at + behind = arrived + Distance(read_it, p) + 1
  PROVE  IsValid(HeaderAt(Forward(p, 1))) /\ HeaderAt(Forward(p, 1)).size = f.size
<1>1. /\ Distance(read_it, p) + LoadedFrom(p) = Distance(read_it, write)
      /\ LoadedFrom(p) \in Nat /\ Forward(p, 1) \in Index
  BY FoundInWindow
<1>2. /\ f.at \in Nat /\ f.at > 1 /\ behind \in Nat /\ arrived \in Nat
      /\ Distance(read_it, p) \in Nat
  BY FrameNumbers, RingTypes
<1>3. ASSUME NEW k \in {0, 1, 2, 3}
      PROVE  At(Forward(Forward(p, 1), k)) = line.bytes[f.at + k]
  <2>1. k \in Nat /\ Distance(read_it, p) + 1 + k <= Distance(read_it, write)
    BY <1>1, <1>2, FrameAssumption, SMT
  <2>2. /\ Forward(Forward(p, 1), k) \in Index
        /\ ring[Forward(Forward(p, 1), k)] + behind = arrived + Distance(read_it, p) + 1 + k
    BY <2>1, CellsBehind
  <2>3. ring[Forward(Forward(p, 1), k)] \in Nat
    <3>1. ring[Forward(Forward(p, 1), k)] \in 0 .. arrived
      BY <2>2 DEF FInv, Shape
    <3> QED
      BY <3>1, <1>2, SMT
  <2>4. ring[Forward(Forward(p, 1), k)] = f.at + k /\ f.at + k # 0
    BY <1>2, <2>1, <2>2, <2>3, SMT
  <2> QED
    BY <2>4 DEF At
<1>4. Forward(Forward(p, 1), 0) = Forward(p, 1) /\ f.at + 0 = f.at
  BY <1>1, <1>2, SizeAssumption, SMT DEF Forward, Index
<1>5. /\ At(Forward(p, 1)) = line.bytes[f.at]
      /\ At(Forward(Forward(p, 1), 1)) = line.bytes[f.at + 1]
      /\ At(Forward(Forward(p, 1), 2)) = line.bytes[f.at + 2]
      /\ At(Forward(Forward(p, 1), 3)) = line.bytes[f.at + 3]
  BY <1>3, <1>4
<1>6. /\ line.bytes[f.at + 2] = f.size
      /\ IsValid([destination |-> line.bytes[f.at], source |-> line.bytes[f.at + 1],
                  size |-> f.size, check |-> line.bytes[f.at + 3]])
  BY StreamAssumption DEF FInv, Shape
<1>7. HeaderAt(Forward(p, 1)) =
        [destination |-> line.bytes[f.at], source |-> line.bytes[f.at + 1],
         size |-> f.size, check |-> line.bytes[f.at + 3]]
  BY <1>5, <1>6 DEF HeaderAt
<1> QED
  BY <1>6, <1>7

(* A move past fragments that were all delivered.                          *)
LEMMA MoveKept ==
  ASSUME FInv, Kept, NEW to \in Index, NEW done \in BOOLEAN, Scan(to, done),
         line' = line, copying' = FALSE,
         \A f \in line.frames :
           f.at + behind <= arrived + Distance(read_it, to) => WasDelivered(f)'
  PROVE  Kept'
<1>1. /\ behind' = behind - Distance(read_it, to) /\ arrived' = arrived
      /\ uncounted' = uncounted /\ fresh' = fresh /\ pc = "scan" /\ pc' \in {"idle", "scan"}
      /\ Distance(read_it, to) <= Distance(read_it, write)
  BY DEF Scan, countVars
<1>2. /\ behind \in Nat /\ fresh \in Nat /\ arrived \in Nat
      /\ Distance(read_it, to) \in Nat /\ Distance(read_it, write) \in Nat
      /\ Distance(read_it, write) = behind - fresh /\ behind <= arrived
  BY <1>1, RingTypes DEF FInv, RingInv, WindowView, Kept
<1>3. behind' \in Nat /\ behind' <= arrived'
  BY <1>1, <1>2, SMT
<1>4. CountedSoon'
  <2>1. uncounted <= fresh /\ Lent \in Nat /\ uncounted \in Nat
    BY <1>1, SizeAssumption DEF Kept, CountedSoon, Lent, FInv, RingInv, TypeOK
  <2>2. uncounted <= behind'
    BY <1>1, <1>2, <2>1, SMT
  <2>3. uncounted <= Lent + behind'
    <3>1. \A l, b, u \in Nat : u <= b => u <= l + b
      BY SMT
    <3> QED
      BY <1>3, <2>1, <2>2, <3>1
  <2>4. Lent' = Lent
    BY DEF Lent
  <2> QED
    BY <1>1, <2>1, <2>3, <2>4 DEF CountedSoon
<1>5. NoneBefore(0)'
  <2> SUFFICES ASSUME NEW f \in line.frames, f.at + behind' <= arrived + 0
               PROVE  WasDelivered(f)'
    BY <1>1 DEF NoneBefore
  <2>1. f.at \in Nat
    BY FrameNumbers
  <2>2. f.at + behind <= arrived + Distance(read_it, to)
    BY <1>1, <1>2, <2>1, SMT
  <2> QED
    BY <2>2
<1> QED
  BY <1>3, <1>4, <1>5 DEF Kept

(* The interrupt.                                                          *)
LEMMA RxByteKept == ASSUME FInv, Kept, FRxByte PROVE Kept'
<1>1. /\ arrived' = arrived + 1 /\ behind' = behind + 1 /\ fresh' = fresh + 1
      /\ uncounted' = uncounted + 1 /\ pc' = pc /\ read_it' = read_it
      /\ line' = line /\ copying' = copying /\ found' = found
      /\ fragment_size' = fragment_size /\ delivered' = delivered
  BY DEF FRxByte, RxByte, parserVars
<1>2. /\ behind \in Nat /\ fresh \in Nat /\ arrived \in Nat /\ uncounted \in Nat
      /\ read_it \in Index /\ found \in Index /\ Distance(read_it, found) \in Nat
  <2>1. uncounted \in Nat
    BY DEF FInv, RingInv, TypeOK
  <2> QED
    BY <2>1, RingTypes
<1>3. ASSUME NEW n \in Nat, NoneBefore(n) PROVE NoneBefore(n)'
  <2> SUFFICES ASSUME NEW f \in line.frames, f.at + (behind + 1) <= arrived + 1 + n
               PROVE  WasDelivered(f)
    BY <1>1 DEF NoneBefore, WasDelivered
  <2>1. f.at \in Nat
    BY FrameNumbers
  <2>2. f.at + behind <= arrived + n
    BY <1>2, <2>1, SMT
  <2> QED
    BY <1>3, <2>2 DEF NoneBefore
<1>4. behind' <= arrived' /\ CountedSoon'
  BY <1>1, <1>2, SizeAssumption, SMT DEF Kept, CountedSoon, Lent
<1>5. NoneBefore(0)'
  BY <1>3 DEF Kept
<1>6. ASSUME copying'
      PROVE  /\ NoneBefore(Distance(read_it, found))'
             /\ \A f \in line'.frames :
                  f.at + behind' = arrived' + Distance(read_it', found') + 1
                    => fragment_size' = f.size + FooterSize + HeaderSize
  <2>1. NoneBefore(Distance(read_it, found)) /\ copying
    BY <1>1, <1>6 DEF Kept
  <2>2. NoneBefore(Distance(read_it, found))'
    <3> DEFINE n == Distance(read_it, found)
    <3>1. n' = n
      BY <1>1 DEF Distance
    <3> HIDE DEF n
    <3>2. n \in Nat /\ NoneBefore(n)
      BY <1>2, <2>1 DEF n
    <3>3. \A f \in line.frames : f.at + (behind + 1) <= arrived + 1 + n => WasDelivered(f)
      <4> SUFFICES ASSUME NEW f \in line.frames, f.at + (behind + 1) <= arrived + 1 + n
                   PROVE  WasDelivered(f)
        OBVIOUS
      <4>1. f.at \in Nat
        BY FrameNumbers
      <4>2. f.at + behind <= arrived + n
        BY <1>2, <3>2, <4>1, SMT
      <4> QED
        BY <3>2, <4>2 DEF NoneBefore
    <3> QED
      BY <1>1, <3>1, <3>3 DEF NoneBefore, WasDelivered, n
  <2>3. ASSUME NEW f \in line.frames,
               f.at + (behind + 1) = arrived + 1 + Distance(read_it, found) + 1
        PROVE  fragment_size = f.size + FooterSize + HeaderSize
    <3>1. f.at \in Nat
      BY FrameNumbers
    <3>2. f.at + behind = arrived + Distance(read_it, found) + 1
      BY <1>2, <2>3, <3>1, SMT
    <3> QED
      BY <2>1, <3>2 DEF Kept
  <2> QED
    BY <1>1, <2>2, <2>3 DEF Distance
<1> QED
  BY <1>4, <1>5, <1>6 DEF Kept

(* The start of a call: nothing is dropped.                                *)
LEMMA PrologueKept ==
  ASSUME FInv, Kept, Prologue, Room
  PROVE  Kept'
<1>1. /\ arrived' = arrived /\ line' = line /\ copying' = copying /\ delivered' = delivered
      /\ pc # "scan" /\ ~copying
  BY DEF Prologue, Latch, Compare, Count, Save, parserVars, ringVars, FInv, CopyInWindow
<1>2. /\ behind \in Nat /\ fresh \in Nat /\ uncounted \in Nat
      /\ Lent \in {0, 1} /\ behind <= arrived /\ BufSize \in Nat
  BY SizeAssumption, SMT DEF FInv, RingInv, TypeOK, Kept, Lent
<1>3. uncounted <= Lent + behind /\ behind + Lent < BufSize /\ behind < BufSize
  BY <1>2, SMT DEF Kept, CountedSoon, Room
<1>4. behind' = behind /\ CountedSoon'
  <2>1. CASE Latch
    <3>1. behind' = behind /\ pc' = "latched" /\ uncounted' = uncounted
      BY <1>3, <2>1 DEF Latch, FInv, RingInv, RingView, countVars
    <3> QED
      BY <3>1, <1>3 DEF CountedSoon, Lent
  <2>2. CASE Compare \/ Count
    <3>1. behind' = behind /\ uncounted' = uncounted /\ pc' # "scan"
      BY <2>2 DEF Compare, Count, ringVars
    <3> QED
      BY <3>1, <1>3 DEF CountedSoon, Lent
  <2>3. CASE Save
    <3>1. pc = "counted" /\ loaded <= uncounted /\ loaded \in Nat
      BY <2>3, SizeAssumption, SMT DEF Save, FInv, RingInv, CounterView, TypeOK
    <3>2. ~(loaded >= BufSize)
      BY <3>1, <1>2, <1>3, SMT
    <3>3. behind' = behind /\ fresh' = fresh /\ uncounted' = 0 /\ pc' = "scan"
      BY <2>3, <3>2 DEF Save
    <3> QED
      BY <3>3, <1>2, SMT DEF CountedSoon, Lent
  <2> QED
    BY <2>1, <2>2, <2>3 DEF Prologue
<1>5. NoneBefore(0)'
  BY <1>1, <1>4 DEF Kept, NoneBefore, WasDelivered
<1> QED
  BY <1>1, <1>2, <1>4, <1>5 DEF Kept

(* The search: it stops before every fragment that was not delivered.      *)
LEMMA SearchKept ==
  ASSUME FInv, Kept, NoPreamble \/ Preambled, behind < BufSize
  PROVE  Kept'
<1>1. /\ pc = "scan" /\ ~copying /\ line' = line
      /\ read_it \in Index /\ Distance(read_it, read_it) = 0
  <2>1. read_it \in Index
    BY RingTypes
  <2>2. Distance(read_it, read_it) = 0
    BY <2>1, SizeAssumption, SMT DEF Distance, Index
  <2> QED
    BY <2>1, <2>2 DEF NoPreamble, Preambled
<1>2. ASSUME NEW to \in Index, NEW done \in BOOLEAN, Scan(to, done), UNCHANGED parserVars,
             NoneBefore(Distance(read_it, to))
      PROVE  Kept'
  <2>1. copying' = FALSE /\ delivered' = delivered
    BY <1>1, <1>2 DEF parserVars, FInv, Shape
  <2>2. \A f \in line.frames :
          f.at + behind <= arrived + Distance(read_it, to) => WasDelivered(f)'
    BY <1>2, <2>1 DEF NoneBefore, WasDelivered
  <2> QED
    BY <1>1, <1>2, <2>1, <2>2, MoveKept
<1>3. CASE NoPreamble
  <2>1. Scan(read_it, TRUE) /\ UNCHANGED parserVars
    BY <1>3 DEF NoPreamble
  <2>2. NoneBefore(Distance(read_it, read_it))
    BY <1>1 DEF Kept
  <2> QED
    BY <1>1, <1>2, <2>1, <2>2
<1>4. CASE Preambled
  <2>1. PICK p \in Index : Finds(p) /\ (AwaitHeader(p) \/ BadHeader(p) \/ GoodHeader(p))
    BY <1>4 DEF Preambled
  <2>2. NoneBefore(Distance(read_it, p))
    BY <1>1, <2>1, NoneUpToFound
  <2>3. /\ Distance(read_it, p) + LoadedFrom(p) = Distance(read_it, write)
        /\ LoadedFrom(p) \in Nat /\ Forward(p, 1) \in Index
        /\ Distance(read_it, p) \in Nat /\ Distance(read_it, write) \in Nat
        /\ Distance(read_it, write) < BufSize /\ arrived \in Nat /\ behind \in Nat
    BY <2>1, FoundInWindow, RingTypes
  <2>4. CASE AwaitHeader(p)
    BY <1>2, <2>2, <2>4 DEF AwaitHeader
  <2>5. CASE BadHeader(p)
    <3>1. /\ LoadedFrom(p) >= HeaderSize /\ ~IsValid(HeaderAt(Forward(p, 1)))
          /\ Scan(Forward(p, 1), FALSE) /\ UNCHANGED parserVars
      BY <2>5 DEF BadHeader
    <3>2. Distance(read_it, Forward(p, 1)) = Distance(read_it, p) + 1
      <4>1. Distance(read_it, p) + 1 < BufSize /\ 1 \in Nat
        BY <2>3, <3>1, FrameAssumption, SizeAssumption, SMT
      <4> QED
        BY <1>1, <4>1, ForwardDistance
    <3>3. NoneBefore(Distance(read_it, p) + 1)
      <4> SUFFICES ASSUME NEW f \in line.frames,
                          f.at + behind <= arrived + (Distance(read_it, p) + 1), ~WasDelivered(f)
                   PROVE  FALSE
        BY DEF NoneBefore
      <4>1. ~(f.at + behind <= arrived + Distance(read_it, p))
        BY <2>2 DEF NoneBefore
      <4>2. f.at \in Nat
        BY FrameNumbers
      <4>3. f.at + behind = arrived + Distance(read_it, p) + 1
        BY <2>3, <4>1, <4>2, SMT
      <4> QED
        BY <1>1, <2>1, <3>1, <4>3, HeaderThere
    <3> QED
      BY <1>2, <2>3, <3>1, <3>2, <3>3
  <2>6. CASE GoodHeader(p)
    <3> DEFINE h == HeaderAt(Forward(p, 1))
               size == h.size + FooterSize + HeaderSize
    <3>1. LoadedFrom(p) >= HeaderSize /\ (AwaitFragment(p, size) \/ StartCopy(p, size))
      BY <2>6 DEF GoodHeader
    <3>2. CASE AwaitFragment(p, size)
      BY <1>2, <2>2, <3>2 DEF AwaitFragment
    <3>3. CASE StartCopy(p, size)
      <4>1. /\ copying' = TRUE /\ found' = p /\ fragment_size' = size
            /\ delivered' = delivered /\ rxVars' = rxVars
        BY <3>3 DEF StartCopy
      <4>2. /\ read_it' = read_it /\ arrived' = arrived /\ pc' = pc /\ behind' = behind
            /\ fresh' = fresh /\ uncounted' = uncounted
        BY <4>1 DEF rxVars, ringVars, countVars
      <4>3. behind' <= arrived' /\ CountedSoon'
        BY <4>2 DEF Kept, CountedSoon, Lent
      <4>4. NoneBefore(0)'
        BY <1>1, <4>1, <4>2 DEF Kept, NoneBefore, WasDelivered
      <4>5. NoneBefore(Distance(read_it, found))'
        BY <1>1, <2>2, <4>1, <4>2 DEF NoneBefore, WasDelivered, Distance
      <4>6. \A f \in line.frames :
              f.at + behind = arrived + Distance(read_it, p) + 1
                => size = f.size + FooterSize + HeaderSize
        BY <1>1, <2>1, <3>1, HeaderThere
      <4>7. \A f \in line'.frames :
              f.at + behind' = arrived' + Distance(read_it', found') + 1
                => fragment_size' = f.size + FooterSize + HeaderSize
        BY <1>1, <4>1, <4>2, <4>6 DEF Distance
      <4> QED
        BY <4>3, <4>4, <4>5, <4>7 DEF Kept
    <3> QED
      BY <3>1, <3>2, <3>3
  <2> QED
    BY <2>1, <2>4, <2>5, <2>6
<1> QED
  BY <1>3, <1>4

(* The copy: it delivers the fragment that starts there, if one does.      *)
LEMMA ParseKept ==
  ASSUME FInv, Kept, Parse, behind < BufSize
  PROVE  Kept'
<1> DEFINE start == Forward(found, 1)
           end   == Forward(found, fragment_size)
           d     == Distance(read_it, found)
<1>1. /\ pc = "scan" /\ copying /\ line' = line /\ copying' = FALSE
      /\ fragment_size > 0 /\ d + fragment_size <= Distance(read_it, write)
  BY DEF Parse, FInv, CopyInWindow
<1>2. /\ start \in Index /\ end \in Index /\ fragment_size \in Nat /\ fragment_size < BufSize
      /\ Distance(read_it, start) = d + 1
  BY <1>1, CopyPlace
<1>3. /\ read_it \in Index /\ found \in Index /\ arrived \in Nat /\ behind \in Nat
      /\ d \in Nat /\ Distance(read_it, write) \in Nat /\ Distance(read_it, write) < BufSize
  BY RingTypes
<1>4. Distance(read_it, end) = d + fragment_size
  <2>1. d + fragment_size < BufSize
    BY <1>1, <1>2, <1>3, SizeAssumption, SMT
  <2> QED
    BY <1>2, <1>3, <2>1, ForwardDistance
<1>5. ASSUME NEW k \in 0 .. fragment_size - 1
      PROVE  /\ Forward(start, k) \in Index
             /\ ring[Forward(start, k)] + behind = arrived + d + 1 + k
  <2>1. k \in Nat /\ d + 1 + k <= Distance(read_it, write)
    BY <1>1, <1>2, <1>3, SMT
  <2> QED
    BY <1>1, <1>3, <2>1, CellsBehind
<1>6. ring[start] \in Nat /\ ring[start] + behind = arrived + d + 1
  <2>1. ring[start] \in 0 .. arrived
    BY <1>2 DEF FInv, Shape
  <2>2. 0 \in 0 .. fragment_size - 1 /\ Forward(start, 0) = start
    BY <1>1, <1>2, SizeAssumption, SMT DEF Forward, Index
  <2>3. ring[start] + behind = arrived + d + 1 + 0
    BY <1>5, <2>2
  <2> HIDE DEF start, d
  <2> QED
    BY <1>3, <2>1, <2>3, SMT
<1>7. NoneBefore(d)
  BY <1>1 DEF Kept
<1>10. HeaderSize = 4 /\ FooterSize \in Nat
  BY FrameAssumption
<1> HIDE DEF start, end, d
<1>8. CASE CopyIsIntact(start)
  <2>1. /\ Scan(end, TRUE)
        /\ delivered' = Append(delivered, [at |-> ring[start], event |-> Event(At(start))])
    BY <1>8 DEF Parse, start, end
  <2>2. PICK g \in line.frames : g.at = ring[start] /\ FragmentEnd(g) = g.at + fragment_size - 1
    BY <1>8 DEF CopyIsIntact
  <2>3. \A f \in line.frames : f.at = g.at \/ WasDelivered(f) => WasDelivered(f)'
    <3> DEFINE Reports == [at : 1 .. arrived, event : {"receive", "broadcast", "other"}]
               report  == [at |-> ring[start], event |-> Event(At(start))]
    <3>1. delivered \in Seq(Reports)
      BY DEF FInv, Shape
    <3>2. report.at = ring[start]
      OBVIOUS
    <3> HIDE DEF Reports, report
    <3>3. /\ Len(delivered') = Len(delivered) + 1 /\ Len(delivered) \in Nat
          /\ \A i \in 1 .. Len(delivered) : delivered'[i] = delivered[i]
          /\ delivered'[Len(delivered) + 1] = report
      BY <2>1, <3>1, SMT DEF report
    <3>4. /\ Len(delivered) + 1 \in 1 .. Len(delivered')
          /\ \A i \in 1 .. Len(delivered) : i \in 1 .. Len(delivered')
      BY <3>3, SMT
    <3>5. ASSUME NEW f \in line.frames, f.at = g.at
          PROVE  WasDelivered(f)'
      BY <1>1, <2>2, <3>2, <3>3, <3>4, <3>5 DEF WasDelivered
    <3>6. ASSUME NEW f \in line.frames, WasDelivered(f)
          PROVE  WasDelivered(f)'
      BY <3>3, <3>4, <3>6 DEF WasDelivered
    <3> QED
      BY <3>5, <3>6
  <2>4. ASSUME NEW f \in line.frames, f.at + behind <= arrived + Distance(read_it, end)
        PROVE  WasDelivered(f)'
    <3>1. /\ f.at \in Nat /\ f.at > 1 /\ f.size \in Nat /\ g.at \in Nat /\ g.size \in Nat
      BY FrameNumbers
    <3>2. CASE f.at + behind <= arrived + d
      BY <1>7, <2>3, <3>2 DEF NoneBefore
    <3>3. CASE ~(f.at + behind <= arrived + d) /\ f # g
      <4>1. FragmentEnd(g) < f.at \/ FragmentEnd(f) < g.at
        BY <3>3, StreamAssumption DEF FInv, Shape
      <4>2. FragmentEnd(g) = g.at + fragment_size - 1 /\ FragmentEnd(f) >= f.at
        BY <2>2, <1>10, <3>1, SMT DEF FragmentEnd
      <4>3. f.at + behind <= arrived + (d + fragment_size) /\ g.at + behind = arrived + d + 1
        BY <1>4, <1>6, <2>2, <2>4
      <4>4. FragmentEnd(g) \in Nat /\ FragmentEnd(f) \in Nat
        BY <1>10, <3>1, SMT DEF FragmentEnd
      <4>5. FragmentEnd(g) + behind = arrived + d + fragment_size
        BY <1>2, <1>3, <3>1, <4>2, <4>3, <4>4, SMT
      <4>6. CASE FragmentEnd(g) < f.at
        BY <1>2, <1>3, <3>1, <4>3, <4>4, <4>5, <4>6, SMT
      <4>7. CASE FragmentEnd(f) < g.at
        BY <1>3, <3>1, <3>3, <4>2, <4>3, <4>4, <4>7, SMT
      <4> QED
        BY <4>1, <4>6, <4>7
    <3>4. CASE f = g
      BY <2>3, <3>4
    <3> QED
      BY <3>2, <3>3, <3>4
  <2> QED
    BY <1>1, <1>2, <2>1, <2>4, MoveKept
<1>9. CASE ~CopyIsIntact(start)
  <2>1. Scan(start, TRUE) /\ delivered' = delivered
    BY <1>9 DEF Parse, start
  <2>2. ASSUME NEW f \in line.frames, f.at + behind <= arrived + Distance(read_it, start)
        PROVE  WasDelivered(f)'
    <3>1. f.at \in Nat /\ f.size \in Nat
      BY FrameNumbers
    <3>2. CASE f.at + behind <= arrived + d
      BY <1>7, <2>1, <3>2 DEF NoneBefore, WasDelivered
    <3>3. CASE ~(f.at + behind <= arrived + d)
      <4>1. f.at + behind = arrived + d + 1
        <5>1. f.at + behind <= arrived + (d + 1)
          BY <1>2, <2>2
        <5> QED
          BY <1>3, <3>1, <3>3, <5>1, SMT
      <4>2. ring[start] = f.at
        BY <1>3, <1>6, <3>1, <4>1, SMT
      <4>3. fragment_size = f.size + FooterSize + HeaderSize
        BY <1>1, <4>1 DEF Kept, d
      <4>4. FragmentEnd(f) = f.at + fragment_size - 1
        BY <1>10, <3>1, <4>3, SMT DEF FragmentEnd
      <4>5. ASSUME NEW k \in 0 .. fragment_size - 1
            PROVE  ring[Forward(start, k)] = ring[start] + k
        <5>1. ring[Forward(start, k)] \in Nat
          <6>1. ring[Forward(start, k)] \in 0 .. arrived
            BY <1>5 DEF FInv, Shape
          <6> QED
            BY <6>1, <1>3, SMT
        <5>2. ring[Forward(start, k)] + behind = arrived + d + 1 + k /\ k \in Nat
          BY <1>2, <1>5, SMT
        <5> QED
          BY <1>3, <1>6, <5>1, <5>2, SMT
      <4>6. fragment_size # BufSize
        BY <1>2, SizeAssumption, SMT
      <4>7. CopyIsIntact(start)
        BY <4>2, <4>4, <4>5, <4>6 DEF CopyIsIntact
      <4> QED
        BY <1>9, <4>7
    <3> QED
      BY <3>2, <3>3
  <2> QED
    BY <1>1, <1>2, <2>1, <2>2, MoveKept
<1> QED
  BY <1>8, <1>9

(* An intact fragment is never skipped by the parser, whatever noise,      *)
(* damaged fragments and false headers are around it and however the       *)
(* interrupts fall, and the overflow test drops none, as long as unread    *)
(* bytes do not fill the ring (buffered.hpp:240-321).  A behaviour that    *)
(* stays in Room may stop anywhere, so this is said of every behaviour up  *)
(* to the moment it first leaves Room.                                     *)
THEOREM NothingSkipped == FInit /\ [][FNext]_vars /\ []Room => []NoneSkipped
<1>1. FInit => Kept
  <2> SUFFICES ASSUME FInit PROVE Kept
    OBVIOUS
  <2>1. /\ behind = 0 /\ arrived = 0 /\ copying = FALSE /\ uncounted = Lent /\ fresh = 0
        /\ pc = "idle"
    BY DEF FInit, Init
  <2>2. CountedSoon /\ behind <= arrived
    BY <2>1, SMT DEF CountedSoon, Lent
  <2>3. NoneBefore(0)
    <3> SUFFICES ASSUME NEW f \in line.frames PROVE ~(f.at + behind <= arrived + 0)
      BY DEF NoneBefore
    <3>1. f.at \in Nat /\ f.at > 1
      BY InitFInv, FrameNumbers
    <3> QED
      BY <2>1, <3>1, SMT
  <2> QED
    BY <2>1, <2>2, <2>3 DEF Kept
<1>2. FInit /\ [][FNext]_vars => []FInv
  <2>1. FInv /\ [FNext]_vars => FInv'
    BY FStep
  <2> QED
    BY InitFInv, <2>1, PTL
<1>3. FInv /\ Room /\ Kept /\ [FNext]_vars => Kept'
  <2> SUFFICES ASSUME FInv, Room, Kept, [FNext]_vars PROVE Kept'
    OBVIOUS
  <2>1. behind < BufSize
    BY SizeAssumption, SMT DEF FInv, RingInv, TypeOK, Room, Lent
  <2>2. CASE FRxByte
    BY <2>2, RxByteKept
  <2>3. CASE Prologue
    BY <2>3, PrologueKept
  <2>4. CASE NoPreamble \/ Preambled
    BY <2>1, <2>4, SearchKept DEF NoPreamble, Preambled
  <2>5. CASE Parse
    BY <2>1, <2>5, ParseKept DEF Parse
  <2>6. CASE UNCHANGED vars
    <3>1. UNCHANGED <<line, copying, found, fragment_size, delivered, read_it, arrived, pc,
                      behind, fresh, uncounted>>
      BY <2>6 DEF vars, parserVars, rxVars, ringVars, countVars
    <3> QED
      BY <3>1 DEF Kept, NoneBefore, WasDelivered, CountedSoon, Lent, Distance
  <2> QED
    BY <2>2, <2>3, <2>4, <2>5, <2>6 DEF FNext, DoReceive
<1>4. FInv /\ Kept => NoneSkipped
  <2> SUFFICES ASSUME FInv, Kept, NEW f \in line.frames, arrived - behind >= f.at
               PROVE  WasDelivered(f)
    BY DEF NoneSkipped
  <2>1. f.at \in Nat /\ arrived \in Nat /\ behind \in Nat
    BY FrameNumbers, RingTypes
  <2>2. f.at + behind <= arrived + 0
    BY <2>1, SMT
  <2> QED
    BY <2>2 DEF Kept, NoneBefore
<1> QED
  BY <1>1, <1>2, <1>3, <1>4, PTL
=============================================================================
