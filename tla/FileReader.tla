----------------------------- MODULE FileReader -----------------------------
(***************************************************************************)
(* What a protocol of this player promises to the demuxer that reads from  *)
(* it, whatever it buffers, caches and reconnects behind the scenes: the   *)
(* bytes it hands over are those of the file at its position, which a read *)
(* moves by their number and a seek moves at will.  The byte of the file   *)
(* at position p is p itself.                                              *)
(***************************************************************************)
EXTENDS Integers, Sequences

CONSTANT FileSize

VARIABLES pos,      \* where the next byte comes from
          data,     \* the bytes of the last read
          lost      \* a failed seek was told as position 0: pos means nothing

Init == pos = 0 /\ data = <<>> /\ lost = FALSE

\* A read hands over what there is, at most up to the end of the file.
Read == \E k \in 1 .. FileSize - pos :
    /\ data' = [i \in 1 .. k |-> pos + i - 1]
    /\ pos' = pos + k
    /\ UNCHANGED lost

\* A seek, or the part of a file a forward seek skips.
Seek == \E p \in 0 .. FileSize : pos' = p /\ data' = <<>> /\ lost' = FALSE

\* Nothing is promised of a reader whose position is lost.
Astray == lost \/ lost'

Next == Read \/ Seek \/ Astray

Spec == Init /\ [][Next]_<<pos, data, lost>>

=============================================================================
