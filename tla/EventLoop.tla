----------------------------- MODULE EventLoop ------------------------------
(***************************************************************************)
(* What every simulator implementation promises its callers, whatever its  *)
(* threads and timers do: it keeps a set of event keys, all of them later  *)
(* than the last key it took up, and it only ever takes up the earliest.   *)
(* DefaultSimulatorImpl and RealtimeSimulatorImpl both implement it.       *)
(***************************************************************************)
EXTENDS EventKey

VARIABLES pending,   \* keys scheduled and neither taken up nor removed
          last       \* key of the event taken up last
vars == <<pending, last>>

Key == [ts : Nat, uid : Nat]

Init == /\ pending = {}
        /\ last = [ts |-> 0, uid |-> 0]

(* k is bound in pending' so that TLC can evaluate the step of a refinement. *)
Add == /\ \E k \in pending' :
            /\ k \in Key
            /\ KeyLess(last, k)
            /\ \A p \in pending : p.uid # k.uid
            /\ pending' = pending \cup {k}
       /\ UNCHANGED last

Drop == \E gone \in SUBSET pending : pending' = pending \ gone /\ UNCHANGED last

TakeUp == \E k \in pending :
            /\ IsNext(k, pending)
            /\ pending' = pending \ {k}
            /\ last' = k

Next == Add \/ Drop \/ TakeUp
Spec == Init /\ [][Next]_vars
=============================================================================
