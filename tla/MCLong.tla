------------------------------- MODULE MCLong -------------------------------
(* Instance of LongSms for TLC: frames of 3 bytes, parts of 2, a u8 of two  *)
(* bits.                                                                    *)
EXTENDS LongSms

Message(src, dest, bytes, inside, no_dests) ==
    [src |-> src, dests |-> <<dest>>, bytes |-> bytes, inside |-> inside, no_dests |-> no_dests]

(* One after the other, <<1, 2>> and <<3>>, <<1>> and <<2, 3>>, and        *)
(* <<1, 2, 3>> and no receiver (of one that the decoder leaves out) are    *)
(* the same: under one key there are two messages of two parts, from       *)
(* different numbers, one with a second part that begins within a          *)
(* character; one of three parts; one of one frame; and one of six parts,  *)
(* more than a byte can say here.                                          *)
MCMessages ==
    {Message(<<1, 2>>, <<3>>, 4, {}, FALSE), Message(<<1>>, <<2, 3>>, 4, {2}, FALSE),
     Message(<<1>>, <<2, 3>>, 5, {3}, FALSE), Message(<<1>>, <<2, 3>>, 3, {2}, FALSE),
     Message(<<1, 2, 3>>, <<3>>, 12, {}, TRUE)}

(* The six parts say they are 1, 2, 3, 0, 1 and 2 of 2: number 3 is more   *)
(* than there are, and the last two look like a whole text; the first two  *)
(* do not come.  The part that has no second one comes twice.              *)
MCCopies(m, i) ==
    CASE m.bytes = 12 /\ i \in {1, 2} -> 0
      [] m.bytes = 4 /\ m.inside = {2} /\ i = 1 -> 2
      [] OTHER -> 1
=============================================================================
