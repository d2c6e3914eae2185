------------------------------- MODULE RxRing -------------------------------
(***************************************************************************)
(* The receive ring of buffered_interface: one _rx_buffer, written byte by *)
(* byte in a receive-complete interrupt and read by do_receive in the main *)
(* task, with no lock between them.  This module keeps the positions and   *)
(* the byte counters of the two sides and abstracts the contents of the    *)
(* ring and the parser: Scan moves the read position anywhere the parser   *)
(* may move it.  FrameReceiver adds the contents and the real parser.      *)
(*                                                                         *)
(* Positions are indices 0 .. BufSize-1, as in circular_iterator.          *)
(***************************************************************************)
EXTENDS Naturals

CONSTANTS
  BufSize,     \* size of _rx_buffer in bytes
  CountMod,    \* the volatile uint _byte_count wraps at 2^32; smaller in TLC
  Postponed,   \* _postpone_by_one: TRUE for a driver that lends the interrupt
               \* the next byte (rx_buffer_future_write), FALSE for one that
               \* hands bytes over (put_single_received)
  Burst,       \* bound: bytes that arrive between two calls of do_receive
  MaxArrived   \* bound: bytes that arrive in a behaviour

ASSUME SizeAssumption ==
  /\ BufSize \in Nat /\ BufSize >= 2
  /\ CountMod \in Nat /\ CountMod > BufSize
  /\ Postponed \in BOOLEAN
  /\ Burst \in Nat
  /\ MaxArrived \in Nat

VARIABLES
  write_it,         \* _write_it
  byte_count,       \* _byte_count, modulo CountMod
  read_it,          \* _read, the last position the parser is done with
  last_byte_count,  \* _last_byte_count
  bytes_rxed,       \* interface::_bytes_rxed, as log_received_count keeps it
  pc,               \* where do_receive stands
  write,            \* the local write: the latest byte as this call knows it
  loaded,           \* the local loaded
  in_order,         \* outcome of the test _last_byte_count <= _byte_count
  \* What really happened, unknown to the code:
  arrived,          \* bytes the line delivered
  behind,           \* bytes between the read position and the newest one,
                    \* counted as they arrive and not modulo the ring
  fresh,            \* bytes since write was latched
  uncounted         \* counter increments since _last_byte_count was saved

ringVars  == <<write_it, read_it, write, fresh, behind>>
countVars == <<byte_count, last_byte_count, bytes_rxed, loaded, in_order,
               uncounted>>
rxVars    == <<ringVars, countVars, pc, arrived>>

Index == 0 .. BufSize - 1

(* Definitions marked (mutant) are faulty forms of the one that follows;   *)
(* no action uses them.                                                    *)

(* (mutant) Wraps one position too late.                                   *)
AdvancePastEnd(i) == IF i + 1 > BufSize THEN 0 ELSE i + 1

(* circular_iterator::operator++, and rx_buffer_advance on _write_it.      *)
Advance(i) == IF i + 1 >= BufSize THEN 0 ELSE i + 1

(* circular_iterator::operator+=, which wraps at most once.                *)
Forward(i, n) == IF i + n >= BufSize THEN i + n - BufSize ELSE i + n

(* distance(lagging, leading), always taken modulo the ring.               *)
Distance(lagging, leading) ==
  IF leading >= lagging THEN leading - lagging ELSE leading + BufSize - lagging

(* (mutant) _postpone_by_one read the wrong way round.                     *)
LatestInverted == IF Postponed THEN write_it
                  ELSE IF write_it = 0 THEN BufSize - 1 ELSE write_it - 1

(* rx_buffer_latest: the byte at _write_it is the newest one, unless the   *)
(* interrupt still has to fill it.                                         *)
Latest == IF Postponed
            THEN IF write_it = 0 THEN BufSize - 1 ELSE write_it - 1
            ELSE write_it

(* The position the next byte is stored at.                                *)
NextSlot == IF Postponed THEN write_it ELSE Advance(write_it)

(* (mutant) Counts both ends.                                              *)
CounterDiffInclusive(a, b) == IF b >= a THEN b - a + 1 ELSE b + CountMod - a

(* The unsigned difference b - a of two counters.                          *)
CounterDiff(a, b) == IF b >= a THEN b - a ELSE b + CountMod - a

(* A lending driver calls next_receive, hence rx_buffer_future_write, in   *)
(* its constructor, after _last_byte_count was initialised.                *)
Lent == IF Postponed THEN 1 ELSE 0

Init ==
  /\ write_it = Lent /\ byte_count = Lent /\ uncounted = Lent
  /\ read_it = 0 /\ write = 0
  /\ last_byte_count = 0 /\ bytes_rxed = 0
  /\ pc = "idle" /\ loaded = 0 /\ in_order = TRUE
  /\ arrived = 0 /\ behind = 0 /\ fresh = 0

(***************************************************************************)
(* The interrupt: one byte has been received.  Either put_single_received  *)
(* advances and stores it, or the driver's byte was filled and next_receive*)
(* advances to lend the following one.                                     *)
(***************************************************************************)
RxByte ==
  /\ arrived < MaxArrived /\ fresh < Burst
  /\ write_it' = Advance(write_it)
  /\ byte_count' = (IF byte_count + 1 >= CountMod THEN 0 ELSE byte_count + 1)
  /\ uncounted' = uncounted + 1
  /\ arrived' = arrived + 1
  /\ behind' = behind + 1
  /\ fresh' = fresh + 1
  /\ UNCHANGED <<read_it, write, last_byte_count, bytes_rxed, loaded, in_order,
                 pc>>

(***************************************************************************)
(* do_receive, one step for each access to a volatile that the interrupt   *)
(* may come between.                                                       *)
(***************************************************************************)

(* read = _read; write = rx_buffer_latest(): all the parser sees of the    *)
(* bytes behind it is their distance modulo the ring.                      *)
Latch ==
  /\ pc = "idle" /\ pc' = "latched"
  /\ write' = Latest
  /\ fresh' = 0
  /\ behind' = Distance(read_it, Latest)
  /\ UNCHANGED <<write_it, read_it, countVars, arrived>>

(* The condition _last_byte_count <= _byte_count, a first read.            *)
Compare ==
  /\ pc = "latched" /\ pc' = "compared"
  /\ in_order' = (last_byte_count <= byte_count)
  /\ UNCHANGED <<ringVars, byte_count, last_byte_count, bytes_rxed, loaded,
                 uncounted, arrived>>

(* The chosen branch, a second read.  When the counter has wrapped, loaded *)
(* is the truth value of a comparison, 0 or 1.                             *)
Count ==
  /\ pc = "compared" /\ pc' = "counted"
  /\ loaded' = (IF in_order THEN CounterDiff(last_byte_count, byte_count)
                ELSE IF CounterDiff(last_byte_count, CountMod - 1) + byte_count
                          >= BufSize
                  THEN 1 ELSE 0)
  /\ in_order' = TRUE    \* dead from here on
  /\ UNCHANGED <<ringVars, byte_count, last_byte_count, bytes_rxed, uncounted,
                 arrived>>

(* _last_byte_count = _byte_count, a third read; log_received_count; and   *)
(* the overflow test, which drops everything up to write.                  *)
Save ==
  /\ pc = "counted" /\ pc' = "scan"
  /\ last_byte_count' = byte_count
  /\ uncounted' = 0
  /\ bytes_rxed' = bytes_rxed + loaded
  /\ loaded' = 0         \* dead after the overflow test below
  /\ \/ /\ loaded >= BufSize
        /\ read_it' = write /\ behind' = fresh
     \/ /\ loaded < BufSize
        /\ UNCHANGED <<read_it, behind>>
  /\ UNCHANGED <<write_it, write, fresh, byte_count, in_order, arrived>>

(* One round of the parser: _read moves to some position `to` up to write, *)
(* and the call may return, whatever it leaves before write.               *)
Scan(to, done) ==
  /\ pc = "scan" /\ pc' = (IF done THEN "idle" ELSE "scan")
  /\ Distance(read_it, to) <= Distance(read_it, write)
  /\ read_it' = to
  /\ behind' = behind - Distance(read_it, to)
  /\ UNCHANGED <<write_it, write, fresh, countVars, arrived>>

Next ==
  \/ RxByte
  \/ Latch \/ Compare \/ Count \/ Save
  \/ \E to \in Index, done \in BOOLEAN : Scan(to, done)

Spec == Init /\ [][Next]_rxVars

-----------------------------------------------------------------------------

(* Every variable keeps its type.                                          *)
TypeOK ==
  /\ write_it \in Index /\ read_it \in Index /\ write \in Index
  /\ byte_count \in 0 .. CountMod - 1 /\ last_byte_count \in 0 .. CountMod - 1
  /\ bytes_rxed \in Nat /\ loaded \in 0 .. CountMod - 1
  /\ in_order \in BOOLEAN
  /\ pc \in {"idle", "latched", "compared", "counted", "scan"}
  /\ arrived \in Nat /\ behind \in Nat /\ fresh \in 0 .. Burst
  /\ uncounted \in Nat

(* The parser's view of the ring is right: as long as fewer bytes are      *)
(* unread than the ring holds, the modular distance from _read to the      *)
(* newest byte is their number, whatever steps the two sides took.         *)
RingView == behind < BufSize => Distance(read_it, Latest) = behind

(* The window of a call, (_read, write], holds exactly the bytes that were *)
(* unread when it latched write and that it has not passed since.          *)
WindowView ==
  pc # "idle" => /\ behind >= fresh
                 /\ Distance(read_it, write) = behind - fresh
                 /\ fresh < BufSize => Distance(write, Latest) = fresh

(* Received bytes are never counted twice: what log_received_count has     *)
(* added up never exceeds what the interrupts put in (a lending driver's   *)
(* first advance counts for a byte that has not come yet).                 *)
CountedAtMostOnce == bytes_rxed + (IF pc = "counted" THEN loaded ELSE 0)
                       <= arrived + Lent


(* At every moment the ring has a cell for the next byte besides those     *)
(* that are unread and the one a lending driver has lent: what calls leave *)
(* behind and what arrives meanwhile does not pile up to a lap.            *)
Room == behind + Lent < BufSize
=============================================================================
