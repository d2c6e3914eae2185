----------------------------- MODULE ByteString -----------------------------
(***************************************************************************)
(* What the container sp::bytes promises: a string of bytes that can grow  *)
(* and shrink at both ends, in which every byte that appears without being *)
(* written is zero.  Where the bytes are kept, and how much room there is  *)
(* around them, does not show.                                             *)
(*                                                                         *)
(* `call` is the last call with its arguments; any may come at any time.   *)
(* Positions start at 0, as in the code.                                   *)
(***************************************************************************)
EXTENDS Integers

VARIABLES call, size, content

vars == <<call, size, content>>

Zeros(n) == [i \in 0 .. n - 1 |-> 0]

Init == size = 0 /\ content = Zeros(0)

(* The string becomes the first n bytes of s.                              *)
Become(s, n) == size' = n /\ content' = [i \in 0 .. n - 1 |-> s[i]]

(* n bytes from s before and m bytes from t behind.                        *)
Extend(s, n, t, m) ==
  Become([i \in 0 .. n + size + m - 1 |->
            IF i < n THEN s[i]
            ELSE IF i < n + size THEN content[i - n] ELSE t[i - n - size]],
         n + size + m)

(* Bytes leave at both ends; all of them, when there are too few.          *)
Shrink(front, back) ==
  IF front + back > size THEN Become(Zeros(0), 0)
  ELSE Become([i \in 0 .. size - front - back - 1 |-> content[i + front]],
              size - front - back)

(* n bytes from position start on, as far as there are any.                *)
Set(start, n, v) ==
  Become([i \in 0 .. size - 1 |-> IF i >= start /\ i < start + n THEN v ELSE content[i]],
         size)

Next ==
  \/ call'.op = "construct"  /\ Become(Zeros(call'.length), call'.length)
  \/ call'.op = "assign"     /\ Become(call'.other, call'.length)
  \/ call'.op = "reserve"    /\ Become(content, size)
  \/ call'.op = "expand"     /\ Extend(Zeros(call'.front), call'.front,
                                       Zeros(call'.back), call'.back)
  \/ call'.op = "shrink"     /\ Shrink(call'.front, call'.back)
  \/ call'.op = "push_front" /\ Extend(call'.other, call'.length, Zeros(0), 0)
  \/ call'.op = "push_back"  /\ Extend(Zeros(0), 0, call'.other, call'.length)
  \/ call'.op = "set"        /\ Set(call'.start, call'.length, call'.value)
  \/ call'.op = "clear"      /\ Become(Zeros(0), 0)

Spec == Init /\ [][Next]_vars
=============================================================================
