---------------------------- MODULE LinkService -----------------------------
(***************************************************************************)
(* What a wireless link promises to the layer above: packets may be lost,  *)
(* but those that arrive do so once, whole, and in the order they were     *)
(* handed over.  Packets are numbered in that order.                       *)
(***************************************************************************)
EXTENDS Naturals, Sequences

VARIABLES accepted,   \* how many packets have been handed over
          delivered   \* the packets that came out, oldest first

Init == accepted = 0 /\ delivered = << >>

Accept == accepted' = accepted + 1 /\ UNCHANGED delivered

Deliver ==
    /\ \E p \in 1 .. accepted :
         /\ delivered # << >> => p > delivered[Len(delivered)]
         /\ delivered' = Append(delivered, p)
    /\ UNCHANGED accepted

Next == Accept \/ Deliver

Spec == Init /\ [][Next]_<<accepted, delivered>>
====
