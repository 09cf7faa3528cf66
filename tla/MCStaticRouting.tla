-------------------------- MODULE MCStaticRouting --------------------------
(* Instances of StaticRouting for TLC *)
EXTENDS StaticRouting, TLC

(* three equal shares, a hop that gets nothing, and a split that is refused *)
MCSplits == {<<1, 1, 1>>, <<0, 3>>, <<1, 1>>}

(* the default route, one network of two and a host of it *)
MCNetworks == {[dest |-> 0, mask |-> 0], [dest |-> 0, mask |-> 1], [dest |-> 1, mask |-> 2]}

(* an address of that network, and the host's own *)
MCLocals == {[local |-> 1, mask |-> 1], [local |-> 1, mask |-> 2]}

InterfaceSymmetry == Permutations(Interfaces)
====
