--------------------------- MODULE MCFrameReceiver ---------------------------
(***************************************************************************)
(* Streams for TLC.  A stream is built from pieces; an intact piece is a   *)
(* serialised fragment that the receiver may deliver, any other piece is   *)
(* noise or a damaged one.                                                 *)
(* The preamble is 85 (0x55) and the checks are those of the code, so that *)
(* false headers arise as they do on a real line.                          *)
(***************************************************************************)
EXTENDS FrameReceiver, SequencesExt

P == 85

Intact(dst, src, data, footer) ==
  [bytes |-> serialize_fragment(dst, src, data, footer), size |-> Len(data), intact |-> TRUE]
Noise(s) == [bytes |-> s, size |-> 0, intact |-> FALSE]
(* A fragment hit by noise in its data or its footer.                      *)
Damaged(dst, src, data, footer) == Noise(serialize_fragment(dst, src, data, footer))

(* The stream of a sequence of pieces.                                     *)
Joined(pieces) ==
  FoldLeft(LAMBDA l, p :
             [bytes  |-> l.bytes \o p.bytes,
              frames |-> l.frames \union
                IF p.intact THEN {[at |-> Len(l.bytes) + 3, size |-> p.size]} ELSE {}],
           [bytes |-> << >>, frames |-> {}], pieces)

Me == 2
All == 255

(* Clean traffic: for this address, for another one, broadcast; a footer   *)
(* that looks like a preamble; data made of preambles.                     *)
CleanLines ==
  {Joined(<<Intact(Me, 3, <<7>>, 9), Intact(4, 3, <<7>>, 9), Intact(All, 3, <<P>>, P)>>),
   Joined(<<Intact(Me, 3, <<P, P>>, P), Intact(Me, 3, <<1>>, 9)>>)}

(* Traffic with noise before and damage to fragments, then a good one.     *)
NoisyLines ==
  {Joined(<<Noise(<<P>>), Intact(Me, 3, <<1>>, 9), Intact(Me, 3, <<2>>, 9)>>),
   Joined(<<Noise(<<P, 4, 3, 2, 9>>), Intact(Me, 3, <<1>>, 9), Intact(Me, 4, <<2>>, 9)>>),
   Joined(<<Damaged(Me, 3, <<1, 2>>, 9), Intact(Me, 3, <<1>>, P), Intact(Me, 3, <<1>>, 9)>>),
   Joined(<<Intact(Me, 3, <<1, 2>>, 9), Noise(<<P, P>>), Intact(Me, 3, <<1>>, 9)>>)}

AllLines == CleanLines \union NoisyLines

(* Streams longer than a small ring, with a fragment as long as it.        *)
LappingLines ==
  {Joined(<<Noise(<<0, 0, 0, 0, 0, 0>>), Intact(Me, 3, <<1>>, 9)>>),
   Joined(<<Intact(Me, 3, <<P, P, 1>>, 9), Intact(Me, 3, <<1>>, P)>>)}
=============================================================================
