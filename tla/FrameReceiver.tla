---------------------------- MODULE FrameReceiver ----------------------------
(***************************************************************************)
(* buffered_parser_interface::do_receive on the ring of RxRing: a line     *)
(* delivers a stream of bytes, interrupts store them, and the parser       *)
(* searches preambles, checks headers, waits for the rest of a fragment    *)
(* and hands intact fragments to put_received, one per call.               *)
(*                                                                         *)
(* A ring cell holds the position in the stream of the byte stored in it   *)
(* (0 for the zero the buffer is allocated with), so that a copy made of   *)
(* bytes of two laps is told from an intact one.  The checksum is ideal:   *)
(* a copy passes it exactly when it is, byte for byte, a fragment that     *)
(* reached the line unaltered.                                             *)
(***************************************************************************)
EXTENDS RxRing, Sequences

CONSTANTS
  ByteMod,     \* values of a byte
  Preamble,    \* preamble, 0x55
  HeaderSize,  \* sizeof(Header), 4
  FooterSize,  \* sizeof(Footer), 4 or 2; shorter in TLC
  MaxData,     \* max_data_size()
  Address,     \* _address
  Broadcast,   \* _broadcast_address
  Lines        \* streams: [bytes |-> sequence of bytes,
               \*           frames |-> the intact fragments of the stream, each
               \*             [at |-> position of its header, size |-> its data]]

ASSUME FrameAssumption ==
  /\ HeaderSize = 4 /\ FooterSize \in Nat \ {0}
  /\ ByteMod \in Nat /\ MaxData \in Nat /\ Preamble \in 0 .. ByteMod - 1
  /\ \A l \in Lines :
       /\ l.bytes \in Seq(0 .. ByteMod - 1) /\ Len(l.bytes) <= MaxArrived
       /\ \A f \in l.frames :
            /\ f.at \in Nat \ {0} /\ f.size \in Nat
            /\ f.at + HeaderSize + f.size + FooterSize <= Len(l.bytes) + 1

VARIABLES
  line,           \* the stream of this behaviour
  ring,           \* _rx_buffer: stream position of the byte in each cell
  copying,        \* the call has seen a whole fragment and is to copy it
  found,          \* the local read: position of the preamble found
  fragment_size,  \* the local fragment_size
  delivered       \* fragments put_received got, with the event it emitted

parserVars == <<copying, found, fragment_size, delivered>>
vars == <<rxVars, line, ring, parserVars>>

(* The byte in cell i, the header of a fragment that starts in cell i.     *)
At(i) == IF ring[i] = 0 THEN 0 ELSE line.bytes[ring[i]]
HeaderAt(i) == [destination |-> At(i), source |-> At(Forward(i, 1)),
                size |-> At(Forward(i, 2)), check |-> At(Forward(i, 3))]

(* interface_8b8b::is_valid, whose argument is a byte: the limit is taken  *)
(* modulo ByteMod.                                                         *)
IsValid(h) ==
  /\ h.check = (h.destination + h.source + h.size) % ByteMod
  /\ h.size > 0 /\ h.size <= MaxData % ByteMod
  /\ h.destination # h.source

(* serialize_fragment: what the sender of a fragment puts on the line.     *)
serialize_fragment(destination, source, data, footer) ==
  <<Preamble, Preamble, destination, source, Len(data),
    (destination + source + Len(data)) % ByteMod>> \o data \o <<footer>>

(* parsers::find over [read, write): it stops at the first preamble.       *)
Finds(p) ==
  /\ At(p) = Preamble
  /\ Distance(read_it, p) < Distance(read_it, write)
  /\ \A q \in Index :
       Distance(read_it, q) < Distance(read_it, p) => At(q) # Preamble

(* (mutant) Bytes counted once too often.                                  *)
LoadedOneMore(p) == Distance(Forward(p, 1), write) + 2

(* distance(fragment_start, write) + 1, the bytes loaded of a fragment     *)
(* whose last preamble byte is in cell p.                                  *)
LoadedFrom(p) == Distance(Forward(p, 1), write) + 1

(* The subject put_received emits on.                                      *)
Event(destination) ==
  IF destination = Address THEN "receive"
  ELSE IF destination = Broadcast THEN "broadcast" ELSE "other"

FragmentEnd(f) == f.at + HeaderSize + f.size + FooterSize - 1

(* The intact fragments of a stream follow a preamble, have a valid header *)
(* and lie apart.                                                          *)
ASSUME StreamAssumption ==
  \A l \in Lines : \A f \in l.frames :
    /\ f.at > 1 /\ l.bytes[f.at - 1] = Preamble
    /\ IsValid([destination |-> l.bytes[f.at], source |-> l.bytes[f.at + 1],
                size |-> f.size, check |-> l.bytes[f.at + 3]])
    /\ l.bytes[f.at + 2] = f.size
    /\ \A g \in l.frames : g = f \/ FragmentEnd(g) < f.at \/ FragmentEnd(f) < g.at

(* (mutant) The checksum is not compared.                                  *)
CopyUnchecked(start) == ring[start] > 0

(* The copy loop and parse_fragment: the copied cells are consecutive      *)
(* bytes of the stream and they are one of its intact fragments.  A        *)
(* fragment as long as the ring has fragment_start = fragment_end, nothing *)
(* is copied, and parse_fragment reads a header that is not there.         *)
CopyIsIntact(start) ==
  /\ fragment_size # BufSize
  /\ \A k \in 0 .. fragment_size - 1 :
       ring[Forward(start, k)] = ring[start] + k
  /\ \E f \in line.frames : /\ f.at = ring[start]
                            /\ FragmentEnd(f) = f.at + fragment_size - 1

FInit ==
  /\ Init
  /\ line \in Lines
  /\ ring = [i \in Index |-> 0]
  /\ copying = FALSE /\ found = 0 /\ fragment_size = 0
  /\ delivered = << >>

(* The interrupt stores the next byte of the line.                         *)
FRxByte ==
  /\ arrived < Len(line.bytes)
  /\ RxByte
  /\ ring' = [ring EXCEPT ![NextSlot] = arrived + 1]
  /\ UNCHANGED <<line, parserVars>>

(* Where do_receive starts.                                                *)
Prologue == /\ Latch \/ Compare \/ Count \/ Save
            /\ UNCHANGED <<line, ring, parserVars>>

(* No preamble before write: the call ends and _read stays where it was.   *)
NoPreamble ==
  /\ pc = "scan" /\ ~copying
  /\ ~\E p \in Index : Finds(p)
  /\ Scan(read_it, TRUE)
  /\ UNCHANGED <<line, ring, parserVars>>

(* A preamble, but not yet a header after it: wait at the preamble.        *)
AwaitHeader(p) ==
  /\ LoadedFrom(p) < HeaderSize
  /\ Scan(p, TRUE)
  /\ UNCHANGED parserVars

(* (mutant) The read position is not moved; it is moved past the preamble  *)
(* that may follow.                                                        *)
BadHeaderStays(p) ==
  /\ LoadedFrom(p) >= HeaderSize
  /\ ~IsValid(HeaderAt(Forward(p, 1)))
  /\ Scan(p, FALSE)
  /\ UNCHANGED parserVars
BadHeaderSkips(p) ==
  /\ LoadedFrom(p) >= HeaderSize
  /\ ~IsValid(HeaderAt(Forward(p, 1)))
  /\ Scan(Forward(p, 2), FALSE)
  /\ UNCHANGED parserVars

(* What follows the preamble is no header: search on from there.           *)
BadHeader(p) ==
  /\ LoadedFrom(p) >= HeaderSize
  /\ ~IsValid(HeaderAt(Forward(p, 1)))
  /\ Scan(Forward(p, 1), FALSE)
  /\ UNCHANGED parserVars

(* (mutant) An incomplete fragment is passed over.                         *)
AwaitFragmentSkips(p, size) ==
  /\ LoadedFrom(p) < size
  /\ Scan(write, TRUE)
  /\ UNCHANGED parserVars

(* A valid header: wait at the preamble for the rest of the fragment ...   *)
AwaitFragment(p, size) ==
  /\ LoadedFrom(p) < size
  /\ Scan(p, TRUE)
  /\ UNCHANGED parserVars

(* ... or go on to copy it.                                                *)
StartCopy(p, size) ==
  /\ LoadedFrom(p) >= size
  /\ copying' = TRUE /\ found' = p /\ fragment_size' = size
  /\ UNCHANGED <<rxVars, delivered>>

GoodHeader(p) ==
  /\ LoadedFrom(p) >= HeaderSize
  /\ LET h    == HeaderAt(Forward(p, 1))
         size == h.size + FooterSize + HeaderSize
     IN  IsValid(h) /\ (AwaitFragment(p, size) \/ StartCopy(p, size))

Preambled ==
  /\ pc = "scan" /\ ~copying
  /\ \E p \in Index :
       Finds(p) /\ (AwaitHeader(p) \/ BadHeader(p) \/ GoodHeader(p))
  /\ UNCHANGED <<line, ring>>

(* (mutant) A damaged fragment is not passed: it is tried for ever.        *)
ParseRetries ==
  /\ pc = "scan" /\ copying
  /\ copying' = FALSE /\ found' = 0 /\ fragment_size' = 0
  /\ LET start == Forward(found, 1)
     IN  \/ /\ CopyIsIntact(start)
            /\ delivered' = Append(delivered,
                              [at |-> ring[start], event |-> Event(At(start))])
            /\ Scan(Forward(found, fragment_size), TRUE)
         \/ /\ ~CopyIsIntact(start)
            /\ Scan(found, TRUE)
            /\ UNCHANGED delivered
  /\ UNCHANGED <<line, ring>>

(* Copy and parse: an intact fragment is delivered and passed, up to its   *)
(* last byte; otherwise only the preamble byte is passed.  Either way the  *)
(* call ends.                                                              *)
Parse ==
  /\ pc = "scan" /\ copying
  /\ copying' = FALSE /\ found' = 0 /\ fragment_size' = 0
  /\ LET start == Forward(found, 1)
     IN  \/ /\ CopyIsIntact(start)
            /\ delivered' = Append(delivered,
                              [at |-> ring[start], event |-> Event(At(start))])
            /\ Scan(Forward(found, fragment_size), TRUE)
         \/ /\ ~CopyIsIntact(start)
            /\ Scan(Forward(found, 1), TRUE)
            /\ UNCHANGED delivered
  /\ UNCHANGED <<line, ring>>

DoReceive == Prologue \/ NoPreamble \/ Preambled \/ Parse

FNext == FRxByte \/ DoReceive

(* main_task is called for ever, and nothing in it blocks.  Nothing is     *)
(* assumed of the line.                                                    *)
FSpec == FInit /\ [][FNext]_vars /\ WF_vars(DoReceive)

-----------------------------------------------------------------------------

(* Every variable keeps its type.                                          *)
FTypeOK ==
  /\ TypeOK
  /\ line \in Lines
  /\ ring \in [Index -> 0 .. arrived]
  /\ copying \in BOOLEAN /\ found \in Index
  /\ fragment_size \in 0 .. ByteMod + HeaderSize + FooterSize
  /\ delivered \in Seq([at : 1 .. arrived,
                        event : {"receive", "broadcast", "other"}])

WasDelivered(f) == \E i \in 1 .. Len(delivered) : delivered[i].at = f.at

(* An intact fragment is not lost in the ring: the parser does not pass    *)
(* the start of a header without having delivered its fragment.            *)
NoneSkipped ==
  \A f \in line.frames : arrived - behind >= f.at => WasDelivered(f)

(* The copy is never empty (buffered.hpp:267-272): bytes enough for a      *)
(* fragment as long as the ring, whose end would be its start, are never   *)
(* counted between the two preambles and write.                            *)
NeverCopiesEmpty == copying => fragment_size < BufSize

(* Every call of do_receive returns, whatever the ring contains and        *)
(* however the interrupts fall.                                            *)
CallReturns == pc # "idle" ~> pc = "idle"

(* An intact fragment is delivered once as many bytes follow the start of  *)
(* its header as the longest fragment has: false headers before it have    *)
(* been waited out by then.                                                *)
LongestFragment == HeaderSize + MaxData + FooterSize
EventuallyDelivered ==
  \A f \in UNION {l.frames : l \in Lines} :
    (f \in line.frames /\ arrived >= f.at + LongestFragment - 1)
      ~> (f \in line.frames /\ WasDelivered(f))

(* The abstract line: fragments are delivered unaltered, at most once, in  *)
(* the order they were sent, and not before they have arrived whole.       *)
Abstract == INSTANCE LossyLine WITH received <- arrived
ImplementsLossyLine == Abstract!Spec
=============================================================================
