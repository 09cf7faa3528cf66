-------------------------------- MODULE Lists --------------------------------
(***************************************************************************)
(* The loop that goes over a std::list or vector and erases elements, as   *)
(* the routing table and the block ack manager have it.                    *)
(***************************************************************************)
EXTENDS Integers, Sequences

(* the elements of s at the positions in I, in order: what erasing the others leaves *)
Kept(s, I) ==
    LET kept[n \in 0 .. Len(s)] ==
            IF n = 0 THEN << >>
            ELSE IF n \in I THEN Append(kept[n - 1], s[n]) ELSE kept[n - 1]
    IN  kept[Len(s)]
===============================================================================
