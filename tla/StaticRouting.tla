--------------------------- MODULE StaticRouting ----------------------------
(***************************************************************************)
(* Ipv4StaticRouting of one node: the list of network routes, the list of  *)
(* fractional host routes that the flyways use, and how the two follow the *)
(* interfaces that Ipv4L3Protocol takes up and down and the addresses it   *)
(* adds and removes.  Addresses are numbers of Bits bits, a mask is its    *)
(* length, a fraction a number of Total-ths.  Multicast is left out.       *)
(***************************************************************************)
EXTENDS Lists, FiniteSets, FiniteSetsExt, SequencesExt

CONSTANTS Interfaces, Bits, Total,
          Metrics, MaxMetric,   \* a metric is a uint32_t, MaxMetric 0xffffffff
          Splits,       \* the ways a fractional route may split its packets
          Locals,       \* what may be given to an interface: records of local and mask
          Networks,     \* what network routes are added for: records of dest and mask
          Hosts,        \* destinations of fractional routes
          MaxRoutes, MaxFractional, MaxAddresses   \* bounds of the run; MaxRoutes
                                                   \* is for the two lists together

ASSUME AddressAssumption ==
    /\ Bits \in Nat \ {0}
    /\ Locals \subseteq [local: 0 .. 2 ^ Bits - 1, mask: 0 .. Bits]
    /\ Networks \subseteq [dest: 0 .. 2 ^ Bits - 1, mask: 0 .. Bits]
    /\ Hosts \subseteq 0 .. 2 ^ Bits - 1
(* arithmetic that the provers, who know nothing of powers, have to be told *)
ASSUME PowersAssumption == \A k \in 0 .. Bits : 2 ^ k \in Nat \ {0}
ASSUME MetricAssumption == MaxMetric \in Nat /\ Metrics \subseteq 0 .. MaxMetric
ASSUME SplitAssumption ==
    /\ Total \in Nat \ {0}
    /\ \A s \in Splits : s \in Seq(0 .. Total) /\ s # << >>

VARIABLES up,          \* the interfaces that are up
          addresses,   \* m_ifaddrs of each interface
          routes,      \* m_networkRoutes
          fractional   \* m_fractionalRoutes

vars == <<up, addresses, routes, fractional>>

Addresses == 0 .. 2 ^ Bits - 1
Masks == 0 .. Bits
Ones == Bits
AnyDevice == "any"
NoRoute == [interface |-> "none"]

(* live is history: the interface was up when the route was added *)
NetworkRoutes == [dest: Addresses, mask: Masks, interface: Interfaces, metric: Metrics \cup {0},
                  live: BOOLEAN]

CombineMask(a, m) == a - (a % 2 ^ (Bits - m))
IsMatch(m, a, b) == CombineMask(a, m) = CombineMask(b, m)

Init == /\ up = {}
        /\ addresses = [i \in Interfaces |-> << >>]
        /\ routes = << >>
        /\ fractional = << >>

-----------------------------------------------------------------------------
(* Network routes *)

Entries == Len(routes) + Len(fractional)

Route(d, m, i, metric) ==
    [dest |-> d, mask |-> m, interface |-> i, metric |-> metric, live |-> i \in up]

(* AddNetworkRouteTo, with or without a gateway, AddHostRouteTo and SetDefaultRoute *)
AddNetworkRouteTo(d, m, i, metric) ==
    /\ Entries < MaxRoutes
    /\ routes' = Append(routes, Route(d, m, i, metric))
    /\ UNCHANGED <<up, addresses, fractional>>

RemoveRoute(n) ==
    /\ routes' = RemoveAt(routes, n)
    /\ UNCHANGED <<up, addresses, fractional>>

(* LookupStatic's loop: what is kept after looking at one more route *)
MetricKept(best, r, dest, oif) ==
    IF ~IsMatch(r.mask, dest, r.dest) \/ ~(oif \in {AnyDevice, r.interface})
       \/ r.mask < best.longest \/ r.metric > best.shortest
    THEN best
    ELSE [route |-> r, longest |-> r.mask, shortest |-> r.metric]
Better(best, r, dest, oif) ==
    LET shortest == IF r.mask > best.longest THEN MaxMetric ELSE best.shortest
    IN  IF \/ ~IsMatch(r.mask, dest, r.dest)
           \/ ~(oif \in {AnyDevice, r.interface})
           \/ r.mask < best.longest
        THEN best
        ELSE IF r.metric > shortest
             THEN [best EXCEPT !.longest = r.mask, !.shortest = shortest]
             ELSE [route |-> r, longest |-> r.mask, shortest |-> r.metric]

LookupNetwork(dest, oif) ==
    LET best[n \in 0 .. Len(routes)] ==
            IF n = 0 THEN [route |-> NoRoute, longest |-> 0, shortest |-> MaxMetric]
            ELSE Better(best[n - 1], routes[n], dest, oif)
    IN  best[Len(routes)].route

-----------------------------------------------------------------------------
(* Fractional routes *)

(* m_sum as the constructors compute it *)
RunningSums(share) ==
    LET sum[i \in DOMAIN share] == IF i = 1 THEN share[1] ELSE sum[i - 1] + share[i]
    IN  sum

(* what the list's entry gets of it: the compiler elides the copy that would *)
(* leave m_sum[i] = m_fraction[i], and the assignment copies every member    *)
CopyConstructed(sum, share) == share
Assigned(sum, share) == sum

(* a draw of m_selector: it falls between the sums, in units of half a share *)
Draws == {2 * k + 1 : k \in 0 .. Total - 1}

GetIndex(f, val) ==
    LET within == {i \in DOMAIN f.sum : val <= 2 * f.sum[i]}
    IN  IF within = {} THEN Len(f.sum) ELSE Min(within)

(* AddFractionalHostRouteTo: fractions that do not add up to 1 end the program *)
AddFractionalHostRouteTo(dest, share, hops) ==
    /\ Len(fractional) < MaxFractional /\ Entries < MaxRoutes
    /\ RunningSums(share)[Len(share)] = Total
    /\ fractional' = Append(fractional,
                            [dest |-> dest, share |-> share, interfaces |-> hops,
                             sum |-> Assigned(RunningSums(share), share)])
    /\ UNCHANGED <<up, addresses, routes>>

(* only the first route to the destination is removed *)
RemoveFractionalHostRouteTo(dest) ==
    /\ \E n \in DOMAIN fractional : fractional[n].dest = dest
    /\ fractional' = RemoveAt(fractional, CHOOSE n \in DOMAIN fractional :
                                 /\ fractional[n].dest = dest
                                 /\ \A k \in 1 .. n - 1 : fractional[k].dest # dest)
    /\ UNCHANGED <<up, addresses, routes>>

(* LookupStatic: the routes it may return, one draw for each fractional     *)
(* route it meets.  A hop that is down sends the packet on to the next      *)
(* route in the list; oif is not looked at before the network routes.       *)
LookupStatic(dest, oif) ==
    LET from[n \in 1 .. Len(fractional) + 1] ==
            IF n > Len(fractional) THEN {LookupNetwork(dest, oif)}
            ELSE IF fractional[n].dest # dest THEN from[n + 1]
            ELSE UNION {LET i == fractional[n].interfaces[GetIndex(fractional[n], val)]
                        IN  IF i \in up THEN {Route(dest, Ones, i, 0)} ELSE from[n + 1] :
                        val \in Draws}
    IN  from[1]

-----------------------------------------------------------------------------
(* Ipv4L3Protocol and its interfaces *)

NetworkOf(i, a) ==
    [dest |-> CombineMask(a.local, a.mask), mask |-> a.mask, interface |-> i, metric |-> 0,
     live |-> TRUE]

(* NotifyInterfaceUp adds the networks of the interface, whatever is there   *)
(* already; an address left unset has the value 0x66666666, so that 0.0.0.0  *)
(* and the mask /0 are added like any other                                  *)
InterfaceRoutes(i) ==
    LET wanted == Kept(addresses[i], {n \in DOMAIN addresses[i] : addresses[i][n].mask # Ones})
    IN  [n \in DOMAIN wanted |-> NetworkOf(i, wanted[n])]

SetUp(i) ==
    /\ Entries + Len(addresses[i]) <= MaxRoutes
    /\ up' = up \cup {i}
    /\ routes' = routes \o InterfaceRoutes(i)
    /\ UNCHANGED <<addresses, fractional>>

(* NotifyInterfaceDown; fractional routes stay *)
SkipsAfterRemoval(i) ==
    LET removed[n \in 0 .. Len(routes)] ==
            n > 0 /\ routes[n].interface = i /\ ~removed[n - 1]
    IN  Kept(routes, {n \in DOMAIN routes : ~removed[n]})
RoutesElsewhere(i) == Kept(routes, {n \in DOMAIN routes : routes[n].interface # i})

SetDown(i) ==
    /\ up' = up \ {i}
    /\ routes' = RoutesElsewhere(i)
    /\ UNCHANGED <<addresses, fractional>>

(* AddAddress and NotifyAddAddress, which adds a host route for a mask of all ones *)
AddAddress(i, a) ==
    /\ Len(addresses[i]) < MaxAddresses
    /\ addresses' = [addresses EXCEPT ![i] = Append(@, a)]
    /\ IF i \in up
       THEN /\ Entries < MaxRoutes
            /\ routes' = Append(routes, NetworkOf(i, a))
       ELSE UNCHANGED routes
    /\ UNCHANGED <<up, fractional>>

(* NotifyRemoveAddress: RemoveRoute(j) moves the next route to j, and j is    *)
(* advanced past it                                                           *)
WithoutNetwork(i, a) ==
    LET names(r) == /\ r.interface = i
                    /\ r.mask # Ones
                    /\ r.dest = CombineMask(a.local, a.mask)
                    /\ r.mask = a.mask
        removed[n \in 0 .. Len(routes)] == n > 0 /\ names(routes[n]) /\ ~removed[n - 1]
    IN  Kept(routes, {n \in DOMAIN routes : ~removed[n]})

(* the loop of Ipv4Interface::RemoveAddress counts to n and stays at the first address *)
RemoveAddress(i, n) ==
    /\ n \in DOMAIN addresses[i]
    /\ addresses' = [addresses EXCEPT ![i] = Tail(@)]
    /\ routes' = IF i \in up THEN WithoutNetwork(i, Head(addresses[i])) ELSE routes
    /\ UNCHANGED <<up, fractional>>

-----------------------------------------------------------------------------
AddRoute == \E net \in Networks, i \in Interfaces, metric \in Metrics :
                AddNetworkRouteTo(net.dest, net.mask, i, metric)

AddFractional == \E d \in Hosts, share \in Splits :
                    \E hops \in [DOMAIN share -> Interfaces] :
                        AddFractionalHostRouteTo(d, share, hops)

Next == \/ AddRoute
        \/ AddFractional
        \/ \E n \in DOMAIN routes : RemoveRoute(n)
        \/ \E d \in Hosts : RemoveFractionalHostRouteTo(d)
        \/ \E i \in Interfaces : SetUp(i) \/ SetDown(i)
        \/ \E i \in Interfaces, a \in Locals : AddAddress(i, a)
        \/ \E i \in Interfaces, n \in 1 .. MaxAddresses : RemoveAddress(i, n)

Spec == Init /\ [][Next]_vars

-----------------------------------------------------------------------------
(* The types; the index GetIndex draws is one of the route's hops. *)
TypeOK ==
    /\ up \subseteq Interfaces
    /\ addresses \in [Interfaces -> Seq(Locals)]
    /\ routes \in Seq(NetworkRoutes)
    /\ \A n \in DOMAIN fractional :
          \A val \in Draws : GetIndex(fractional[n], val) \in DOMAIN fractional[n].interfaces

(* What LookupStatic's single pass keeps is the longest match, of the least   *)
(* metric among those, and the last added among the equals, for every         *)
(* destination and with or without a device asked for.                        *)
LookupBest ==
    \A dest \in Addresses, oif \in Interfaces \cup {AnyDevice} :
        LET fit == {n \in DOMAIN routes : /\ IsMatch(routes[n].mask, dest, routes[n].dest)
                                          /\ oif \in {AnyDevice, routes[n].interface}}
            worse(k, n) == \/ routes[k].mask < routes[n].mask
                           \/ /\ routes[k].mask = routes[n].mask
                              /\ \/ routes[k].metric > routes[n].metric
                                 \/ routes[k].metric = routes[n].metric /\ k <= n
        IN  IF fit = {}
            THEN LookupNetwork(dest, oif) = NoRoute
            ELSE \E n \in fit : /\ \A k \in fit : worse(k, n)
                                /\ LookupNetwork(dest, oif) = routes[n]

(* A fractional route sends to each of its hops exactly the share of the      *)
(* draws it was given for it; and the types hold.                             *)
SharesExact ==
    /\ TypeOK
    /\ \A n \in DOMAIN fractional : \A i \in DOMAIN fractional[n].share :
          Cardinality({val \in Draws : GetIndex(fractional[n], val) = i}) = fractional[n].share[i]

(* No draw makes LookupStatic return a route over an interface that is down,  *)
(* unless the route was added while the interface was down: a fractional      *)
(* route, which stays when its interface goes down, gives way to the next     *)
(* route to the destination.                                                  *)
LookupUsable ==
    \A dest \in Addresses, oif \in Interfaces \cup {AnyDevice} :
        \A r \in LookupStatic(dest, oif) : r = NoRoute \/ r.interface \in up \/ ~r.live

-----------------------------------------------------------------------------
(* The inductive invariant *)

(* what the constructors make of a destination, a split and its hops *)
FractionalRoutes ==
    UNION {{[dest |-> d, share |-> s, interfaces |-> hops, sum |-> RunningSums(s)] :
               d \in Hosts, hops \in [DOMAIN s -> Interfaces]} :
           s \in {x \in Splits : RunningSums(x)[Len(x)] = Total}}

(* the lists hold what was put in them, and a route added while its interface *)
(* was up is gone when the interface is down                                  *)
IInv == /\ up \subseteq Interfaces
        /\ addresses \in [Interfaces -> Seq(Locals)]
        /\ routes \in Seq(NetworkRoutes)
        /\ fractional \in Seq(FractionalRoutes)
        /\ \A n \in DOMAIN routes : routes[n].live => routes[n].interface \in up
====
