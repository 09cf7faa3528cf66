--------------------------- MODULE ArpCacheProofs ---------------------------
(***************************************************************************)
(* The ARP cache for every set of hosts, every timeout, retry limit and    *)
(* queue size, and any number of packets.  One timer serves all entries,   *)
(* so the invariant says of each entry that waits where the timer stands   *)
(* against its age and against the ticks it has waited: that is why no     *)
(* entry expires unnoticed, and why none is given up too soon or too late. *)
(***************************************************************************)
EXTENDS ArpCache, SequenceTheorems, TLAPS

LEMMA MaxAgeNat == MaxAge \in Nat
<1> DEFINE S == {AliveTimeout, DeadTimeout, WaitReplyTimeout}
<1>1. \E x \in S : \A y \in S : x >= y
  BY TimeoutAssumption
<1>2. PICK m \in S : m = Max(S)
  BY <1>1 DEF Max
<1>3. S \subseteq Nat
  BY TimeoutAssumption
<1>4. MaxAge = m + 1
  BY <1>2 DEF MaxAge
<1> HIDE DEF S
<1> QED BY <1>2, <1>3, <1>4

(* Queues as sequences of packets *)
LEMMA ToSetAppend ==
  ASSUME NEW S, NEW s \in Seq(S), NEW e \in S
  PROVE  ToSet(Append(s, e)) = ToSet(s) \cup {e}
<1>1. DOMAIN s = 1 .. Len(s) /\ Len(s) \in Nat
  BY LenProperties
<1>2. DOMAIN Append(s, e) = 1 .. (Len(s) + 1)
  BY AppendProperties, LenProperties
<1> QED BY <1>1, <1>2, AppendProperties DEF ToSet

LEMMA ToSetConcat ==
  ASSUME NEW S, NEW s \in Seq(S), NEW t \in Seq(S)
  PROVE  ToSet(s \o t) = ToSet(s) \cup ToSet(t)
<1>1. /\ DOMAIN s = 1 .. Len(s) /\ Len(s) \in Nat
      /\ DOMAIN t = 1 .. Len(t) /\ Len(t) \in Nat
  BY LenProperties
<1>2. DOMAIN (s \o t) = 1 .. (Len(s) + Len(t))
  BY ConcatProperties, LenProperties
<1>3. \A i \in 1 .. Len(s) + Len(t) : (s \o t)[i] = IF i <= Len(s) THEN s[i] ELSE t[i - Len(s)]
  BY ConcatProperties
<1>4. ASSUME NEW x \in ToSet(s \o t) PROVE x \in ToSet(s) \cup ToSet(t)
  BY <1>1, <1>2, <1>3, <1>4 DEF ToSet
<1>5. ASSUME NEW i \in 1 .. Len(s) PROVE s[i] \in ToSet(s \o t)
  BY <1>1, <1>2, <1>3 DEF ToSet
<1>6. ASSUME NEW i \in 1 .. Len(t) PROVE t[i] \in ToSet(s \o t)
  <2>1. i + Len(s) \in 1 .. Len(s) + Len(t) /\ (s \o t)[i + Len(s)] = t[i]
    BY <1>1, <1>3
  <2> QED BY <2>1, <1>2 DEF ToSet
<1> QED BY <1>1, <1>4, <1>5, <1>6 DEF ToSet

LEMMA ToSetEmpty == ToSet(<< >>) = {}
BY DEF ToSet

LEMMA ToSetType ==
  ASSUME NEW S, NEW s \in Seq(S)
  PROVE  ToSet(s) \subseteq S
BY LenProperties DEF ToSet

LEMMA IncreasingAppend ==
  ASSUME NEW s \in Seq(Packets), NEW e \in Packets, Increasing(s), \A p \in ToSet(s) : p < e
  PROVE  Increasing(Append(s, e))
<1>1. DOMAIN s = 1 .. Len(s) /\ Len(s) \in Nat
  BY LenProperties
<1>2. DOMAIN Append(s, e) = 1 .. (Len(s) + 1)
  BY AppendProperties, LenProperties
<1> QED BY <1>1, <1>2, AppendProperties DEF ToSet, Increasing

LEMMA IncreasingConcat ==
  ASSUME NEW s \in Seq(Packets), NEW t \in Seq(Packets), Increasing(s), Increasing(t),
         \A p \in ToSet(s), q \in ToSet(t) : p < q
  PROVE  Increasing(s \o t)
<1>1. /\ DOMAIN s = 1 .. Len(s) /\ Len(s) \in Nat
      /\ DOMAIN t = 1 .. Len(t) /\ Len(t) \in Nat
  BY LenProperties
<1>2. DOMAIN (s \o t) = 1 .. (Len(s) + Len(t))
  BY ConcatProperties, LenProperties
<1>3. \A i \in 1 .. Len(s) + Len(t) : (s \o t)[i] = IF i <= Len(s) THEN s[i] ELSE t[i - Len(s)]
  BY ConcatProperties
<1> SUFFICES ASSUME NEW i \in 1 .. Len(s) + Len(t), NEW j \in 1 .. Len(s) + Len(t), i < j
             PROVE  (s \o t)[i] < (s \o t)[j]
  BY <1>2 DEF Increasing
<1>4. CASE j <= Len(s)
  BY <1>1, <1>3, <1>4 DEF Increasing
<1>5. CASE i <= Len(s) /\ j > Len(s)
  <2>1. s[i] \in ToSet(s) /\ t[j - Len(s)] \in ToSet(t)
    BY <1>1, <1>5 DEF ToSet
  <2> QED BY <2>1, <1>1, <1>3, <1>5
<1>6. CASE i > Len(s)
  <2>1. i - Len(s) \in DOMAIN t /\ j - Len(s) \in DOMAIN t /\ i - Len(s) < j - Len(s)
    BY <1>1, <1>6
  <2> QED BY <2>1, <1>1, <1>3, <1>6 DEF Increasing
<1> QED BY <1>1, <1>4, <1>5, <1>6

(* TypeOK, one variable at a time *)
LEMMA Types ==
  ASSUME TypeOK
  PROVE  /\ \A h \in Hosts : 
              /\ entry[h] = [state |-> entry[h].state, age |-> entry[h].age,
                             retries |-> entry[h].retries, pending |-> entry[h].pending]
              /\ entry[h].state \in {"absent", "ALIVE", "WAIT_REPLY", "DEAD"}
              /\ entry[h].age \in 0 .. MaxAge
              /\ entry[h].retries \in 0 .. MaxRetries
              /\ entry[h].pending \in Seq(Packets)
              /\ sent[h] \in Seq(Packets)
              /\ waited[h] \in Nat /\ asked[h] \in Nat
         /\ timer \in Int /\ -1 <= timer /\ timer <= WaitReplyTimeout
         /\ handed \in 0 .. MaxPackets /\ handed \in Nat
<1>1. \A h \in Hosts : entry[h] \in Entry
  BY DEF TypeOK
<1>2. timer \in Int /\ -1 <= timer /\ timer <= WaitReplyTimeout
  BY TimeoutAssumption DEF TypeOK, Off
<1>3. handed \in 0 .. MaxPackets /\ handed \in Nat
  BY BoundsAssumption DEF TypeOK
<1> QED BY <1>1, <1>2, <1>3 DEF TypeOK, Entry

LEMMA Numbers ==
  ASSUME TypeOK, NEW h \in Hosts
  PROVE  /\ entry[h].age \in Nat /\ entry[h].age <= MaxAge
         /\ entry[h].retries \in Nat /\ entry[h].retries <= MaxRetries
         /\ waited[h] \in Nat /\ asked[h] \in Nat
<1>1. /\ entry[h].age \in 0 .. MaxAge /\ entry[h].retries \in 0 .. MaxRetries
      /\ waited[h] \in Nat /\ asked[h] \in Nat
  BY Types
<1> QED BY <1>1, MaxAgeNat, LimitAssumption

LEMMA InitInv == Init => IInv
<1> SUFFICES ASSUME Init PROVE IInv
  OBVIOUS
<1>1. << >> \in Seq(Packets) /\ Len(<< >>) = 0
  OBVIOUS
<1>2. 0 \in 0 .. MaxAge /\ 0 \in 0 .. MaxRetries /\ 0 \in 0 .. MaxPackets /\ 0 \in 0 .. MaxFlaps
  BY MaxAgeNat, LimitAssumption, BoundsAssumption
<1>3. Off \in Off .. WaitReplyTimeout
  BY TimeoutAssumption DEF Off
<1>4. Absent \in Entry
  BY <1>1, <1>2 DEF Absent, Entry
<1>5. entry \in [Hosts -> Entry]
  BY <1>4 DEF Init
<1>6. \A h \in Hosts : entry[h] = Absent /\ entry[h].pending = << >> /\ ~IsWaitReply(h)
  BY DEF Init, Absent, IsWaitReply
<1>7. \A h \in Hosts : Len(entry[h].pending) <= MostPending
  BY <1>1, <1>6, LimitAssumption DEF MostPending
<1>8. fate \in [Packets -> Fates] /\ \A p \in Packets : fate[p] # "waiting"
  BY DEF Init, Fates
<1>9. TypeOK
  BY <1>1, <1>2, <1>3, <1>5, <1>7, <1>8 DEF Init, TypeOK
<1>10. FateInv
  BY <1>6, <1>8, ToSetEmpty DEF FateInv, Init
<1>11. OrderInv
  BY <1>6, ToSetEmpty DEF OrderInv, Init, Increasing
<1> QED BY <1>6, <1>9, <1>10, <1>11
        DEF IInv, NeverFatal, WatchInv, QuietInv, PaceInv, Absent, Init

-----------------------------------------------------------------------------
(* Ipv4Interface::Send *)

(* the next packet is in no queue yet, and comes after all that are *)
LEMMA NextPacket ==
  ASSUME IInv, handed < MaxPackets
  PROVE  /\ handed + 1 \in Packets
         /\ \A h \in Hosts : \A q \in ToSet(entry[h].pending) : q \in Packets /\ q < handed + 1
         /\ \A h \in Hosts : \A q \in ToSet(sent[h]) : q \in Packets /\ q < handed + 1
<1>1. TypeOK
  BY DEF IInv
<1>2. \A h \in Hosts : /\ ToSet(entry[h].pending) \subseteq Packets
                       /\ ToSet(sent[h]) \subseteq Packets
  BY <1>1, Types, ToSetType
<1>3. handed + 1 \in Packets
  BY <1>1, Types, BoundsAssumption DEF Packets
<1>4. ASSUME NEW h \in Hosts, NEW q \in ToSet(entry[h].pending) PROVE q < handed + 1
  <2>1. q \in Packets /\ fate[q] = "waiting"
    BY <1>2 DEF IInv, FateInv
  <2>2. ~ (q > handed)
    BY <2>1 DEF IInv, FateInv
  <2> QED BY <2>1, <2>2, <1>1, Types DEF Packets
<1>5. ASSUME NEW h \in Hosts, NEW q \in ToSet(sent[h]) PROVE q < handed + 1
  <2>1. q \in Packets /\ q <= handed
    BY <1>2 DEF IInv, OrderInv
  <2> QED BY <2>1, <1>1, Types DEF Packets
<1> QED BY <1>2, <1>3, <1>4, <1>5

(* a packet joins the queue of an entry that waits from now on, or did already *)
LEMMA EnqueueKeeps ==
  ASSUME IInv, handed < MaxPackets, NEW p, p = handed + 1, handed' = p,
         NEW h \in Hosts, NEW e \in Entry, e.state = "WAIT_REPLY",
         e.pending = Append(entry[h].pending, p), Len(e.pending) <= MostPending,
         entry' = [entry EXCEPT ![h] = e], sent' = sent,
         fate' = [fate EXCEPT ![p] = "waiting"]
  PROVE  /\ entry' \in [Hosts -> Entry] /\ \A g \in Hosts : Len(entry'[g].pending) <= MostPending
         /\ handed' \in 0 .. MaxPackets /\ fate' \in [Packets -> Fates]
         /\ sent' \in [Hosts -> Seq(Packets)]
         /\ QuietInv' /\ FateInv' /\ OrderInv'
<1>1. TypeOK
  BY DEF IInv
<1>2. /\ p \in Packets /\ p \in Nat
      /\ \A g \in Hosts : \A q \in ToSet(entry[g].pending) : q \in Packets /\ q < p
      /\ \A g \in Hosts : \A q \in ToSet(sent[g]) : q \in Packets /\ q < p
  BY NextPacket DEF Packets
<1>3. entry \in [Hosts -> Entry] /\ fate \in [Packets -> Fates]
  BY <1>1 DEF TypeOK
<1>4. \A g \in Hosts : entry'[g] = IF g = h THEN e ELSE entry[g]
  BY <1>3
<1>5. \A q \in Packets : fate'[q] = IF q = p THEN "waiting" ELSE fate[q]
  BY <1>3
<1>6. ToSet(e.pending) = ToSet(entry[h].pending) \cup {p}
  <2>1. entry[h].pending \in Seq(Packets)
    BY <1>1, Types
  <2> QED BY <2>1, <1>2, ToSetAppend
<1>7. Packets \subseteq Nat
  BY DEF Packets
<1>p. handed' = p /\ handed \in Nat /\ p > handed
  BY <1>1, Types
<1>8. entry' \in [Hosts -> Entry] /\ fate' \in [Packets -> Fates]
  BY <1>2, <1>3 DEF Fates
<1>9. \A g \in Hosts : Len(entry'[g].pending) <= MostPending
  BY <1>1, <1>4 DEF TypeOK
<1>10. handed' \in 0 .. MaxPackets
  BY <1>1, Types, BoundsAssumption
<1>11. QuietInv'
  BY <1>4 DEF IInv, QuietInv, IsWaitReply
<1>12. FateInv'
  <2>a. FateInv
    BY DEF IInv
  <2>b. ASSUME NEW g \in Hosts
        PROVE  \A q : q # p => (q \in ToSet(entry'[g].pending) <=> q \in ToSet(entry[g].pending))
    <3>1. CASE g = h
      <4>1. entry'[g] = e
        BY <3>1, <1>4
      <4> QED BY <4>1, <3>1, <1>6
    <3>2. CASE g # h
      <4>1. entry'[g] = entry[g]
        BY <3>2, <1>4
      <4> QED BY <4>1
    <3> QED BY <3>1, <3>2
  <2>1. ASSUME NEW q \in Packets, q > handed' PROVE fate'[q] = "unseen"
    <3>1. q > handed /\ q # p
      BY <2>1, <1>2, <1>p, <1>7
    <3> QED BY <3>1, <2>a, <1>5 DEF FateInv
  <2>2. ASSUME NEW q \in Packets
        PROVE  fate'[q] = "waiting" <=> \E g \in Hosts : q \in ToSet(entry'[g].pending)
    <3>1. CASE q = p
      BY <3>1, <1>4, <1>5, <1>6
    <3>2. CASE q # p
      <4>1. fate'[q] = fate[q]
        BY <3>2, <1>5
      <4>2. \A g \in Hosts : q \in ToSet(entry'[g].pending) <=> q \in ToSet(entry[g].pending)
        BY <3>2, <2>b
      <4> QED BY <4>1, <4>2, <2>a DEF FateInv
    <3> QED BY <3>1, <3>2
  <2>3. \A g \in Hosts : p \notin ToSet(entry[g].pending)
    BY <1>2
  <2>4. ASSUME NEW f \in Hosts, NEW g \in Hosts,
               ToSet(entry'[f].pending) \cap ToSet(entry'[g].pending) # {}
        PROVE  f = g
    <3>1. PICK q : q \in ToSet(entry'[f].pending) /\ q \in ToSet(entry'[g].pending)
      BY <2>4
    <3>2. CASE q = p
      BY <3>1, <3>2, <2>3, <1>4
    <3>3. CASE q # p
      <4>1. q \in ToSet(entry[f].pending) /\ q \in ToSet(entry[g].pending)
        BY <3>1, <3>3, <2>b
      <4> QED BY <4>1, <2>a DEF FateInv
    <3> QED BY <3>2, <3>3
  <2> QED BY <2>1, <2>2, <2>4 DEF FateInv
<1>13. OrderInv'
  <2> SUFFICES ASSUME NEW g \in Hosts
               PROVE  /\ Increasing(sent[g]) /\ Increasing(entry'[g].pending)
                      /\ \A r \in ToSet(sent[g]), q \in ToSet(entry'[g].pending) : r < q
                      /\ \A r \in ToSet(sent[g]) : r <= p
    BY <1>p DEF OrderInv, Increasing
  <2>1. /\ Increasing(sent[g]) /\ Increasing(entry[g].pending)
        /\ \A r \in ToSet(sent[g]), q \in ToSet(entry[g].pending) : r < q
    BY DEF IInv, OrderInv
  <2>2. ASSUME NEW r \in ToSet(sent[g]) PROVE r <= p
    <3>1. r \in Packets /\ r < p
      BY <1>2
    <3> QED BY <3>1, <1>2, <1>7
  <2>3. Increasing(Append(entry[g].pending, p))
    BY <2>1, <1>1, <1>2, Types, IncreasingAppend
  <2>4. CASE g = h
    <3>1. ToSet(entry'[g].pending) = ToSet(entry[g].pending) \cup {p}
      BY <2>4, <1>4, <1>6
    <3>2. \A r \in ToSet(sent[g]) : r < p
      BY <1>2
    <3>3. \A r \in ToSet(sent[g]), q \in ToSet(entry'[g].pending) : r < q
      BY <3>1, <3>2, <2>1
    <3> QED BY <3>3, <2>1, <2>2, <2>3, <2>4, <1>4
  <2>5. CASE g # h
    BY <2>1, <2>2, <2>5, <1>4
  <2> QED BY <2>4, <2>5
<1> QED BY <1>1, <1>8, <1>9, <1>10, <1>11, <1>12, <1>13 DEF TypeOK

(* a packet is sent, dropped or lost at once *)
LEMMA ResolveKeeps ==
  ASSUME IInv, handed < MaxPackets, NEW p, p = handed + 1, handed' = p, NEW h \in Hosts,
         NEW how \in {"sent", "dropped", "lost"}, fate' = [fate EXCEPT ![p] = how],
         entry' = entry,
         \/ sent' = sent
         \/ entry[h].pending = << >> /\ sent' = [sent EXCEPT ![h] = Append(@, p)]
  PROVE  /\ handed' \in 0 .. MaxPackets /\ fate' \in [Packets -> Fates]
         /\ sent' \in [Hosts -> Seq(Packets)]
         /\ QuietInv' /\ FateInv' /\ OrderInv'
<1>1. TypeOK /\ FateInv
  BY DEF IInv
<1>2. /\ p \in Packets /\ p \in Nat
      /\ \A g \in Hosts : \A q \in ToSet(entry[g].pending) : q \in Packets /\ q < p
      /\ \A g \in Hosts : \A q \in ToSet(sent[g]) : q \in Packets /\ q < p
  BY NextPacket DEF Packets
<1>3. fate \in [Packets -> Fates] /\ sent \in [Hosts -> Seq(Packets)] /\ handed \in Nat
  BY <1>1, Types DEF TypeOK
<1>4. \A q \in Packets : fate'[q] = IF q = p THEN how ELSE fate[q]
  BY <1>3
<1>5. Packets \subseteq Nat
  BY DEF Packets
<1>6. handed' \in 0 .. MaxPackets /\ fate' \in [Packets -> Fates]
  BY <1>2, <1>3, BoundsAssumption DEF Fates
<1>7. QuietInv'
  BY DEF IInv, QuietInv, IsWaitReply
<1>8. FateInv'
  <2>1. ASSUME NEW q \in Packets, q > handed' PROVE fate'[q] = "unseen"
    <3>1. q > handed /\ q # p
      BY <2>1, <1>2, <1>3, <1>5
    <3> QED BY <3>1, <1>1, <1>4 DEF FateInv
  <2>2. ASSUME NEW q \in Packets
        PROVE  fate'[q] = "waiting" <=> \E g \in Hosts : q \in ToSet(entry[g].pending)
    <3>1. CASE q = p
      BY <3>1, <1>2, <1>4
    <3>2. CASE q # p
      BY <3>2, <1>1, <1>4 DEF FateInv
    <3> QED BY <3>1, <3>2
  <2> QED BY <2>1, <2>2, <1>1 DEF FateInv
<1>9. CASE sent' = sent
  <2>1. ASSUME NEW g \in Hosts, NEW r \in ToSet(sent[g]) PROVE r <= p
    <3>1. r \in Packets /\ r < p
      BY <1>2
    <3> QED BY <3>1, <1>2, <1>5
  <2>2. OrderInv'
    BY <2>1, <1>9 DEF IInv, OrderInv, Increasing
  <2> QED BY <2>2, <1>3, <1>6, <1>7, <1>8, <1>9
<1>10. CASE entry[h].pending = << >> /\ sent' = [sent EXCEPT ![h] = Append(@, p)]
  <2>1. \A g \in Hosts : sent'[g] = IF g = h THEN Append(sent[g], p) ELSE sent[g]
    BY <1>3, <1>10
  <2>2. sent' \in [Hosts -> Seq(Packets)]
    BY <1>2, <1>3, <1>10
  <2>3. sent[h] \in Seq(Packets)
    BY <1>3
  <2>4. ToSet(sent'[h]) = ToSet(sent[h]) \cup {p}
    BY <2>1, <2>3, <1>2, ToSetAppend
  <2>5. Increasing(sent'[h])
    <3>1. Increasing(sent[h]) /\ \A q \in ToSet(sent[h]) : q < p
      BY <1>2 DEF IInv, OrderInv
    <3> QED BY <3>1, <2>1, <2>3, <1>2, IncreasingAppend
  <2>6. ASSUME NEW g \in Hosts, NEW r \in ToSet(sent'[g]) PROVE r <= p
    <3>1. CASE r = p
      BY <3>1, <1>2
    <3>2. CASE r # p
      <4>1. r \in Packets /\ r < p
        BY <3>2, <2>1, <2>4, <1>2
      <4> QED BY <4>1, <1>2, <1>5
    <3> QED BY <3>1, <3>2
  <2>7. ToSet(entry[h].pending) = {}
    BY <1>10, ToSetEmpty
  <2>8. ASSUME NEW g \in Hosts
        PROVE  /\ Increasing(sent'[g]) /\ Increasing(entry[g].pending)
               /\ \A r \in ToSet(sent'[g]), q \in ToSet(entry[g].pending) : r < q
    <3>1. CASE g = h
      BY <3>1, <2>5, <2>7 DEF IInv, OrderInv
    <3>2. CASE g # h
      BY <3>2, <2>1 DEF IInv, OrderInv
    <3> QED BY <3>1, <3>2
  <2>9. OrderInv'
    BY <2>6, <2>8 DEF OrderInv, Increasing
  <2> QED BY <2>2, <2>9, <1>6, <1>7, <1>8
<1> QED BY <1>9, <1>10

(* some queues are emptied together, and their packets resolved in the same way *)
LEMMA DrainKeeps ==
  ASSUME IInv, handed' = handed, NEW E \in SUBSET Hosts, NEW how \in {"sent", "dropped", "lost"},
         \A g \in Hosts : entry'[g].pending = IF g \in E THEN << >> ELSE entry[g].pending,
         fate' = [p \in Packets |-> IF \E g \in E : p \in ToSet(entry[g].pending)
                                    THEN how ELSE fate[p]],
         \/ sent' = sent
         \/ \E h \in E : sent' = [sent EXCEPT ![h] = @ \o entry[h].pending]
  PROVE  /\ fate' \in [Packets -> Fates] /\ sent' \in [Hosts -> Seq(Packets)]
         /\ FateInv' /\ OrderInv'
<1>1. TypeOK /\ FateInv /\ OrderInv
  BY DEF IInv
<1>2. fate \in [Packets -> Fates] /\ sent \in [Hosts -> Seq(Packets)] /\ handed \in Nat
  BY <1>1, Types DEF TypeOK
<1>3. fate' \in [Packets -> Fates]
  BY <1>2 DEF Fates
<1>4. \A g \in Hosts : ToSet(entry'[g].pending) = IF g \in E THEN {} ELSE ToSet(entry[g].pending)
  BY ToSetEmpty
<1>5. FateInv'
  <2>1. ASSUME NEW q \in Packets, q > handed' PROVE fate'[q] = "unseen"
    BY <2>1, <1>1 DEF FateInv
  <2>2. ASSUME NEW q \in Packets
        PROVE  fate'[q] = "waiting" <=> \E g \in Hosts : q \in ToSet(entry'[g].pending)
    <3>1. CASE \E g \in E : q \in ToSet(entry[g].pending)
      <4>1. fate'[q] # "waiting"
        BY <3>1
      <4>2. PICK f \in E : q \in ToSet(entry[f].pending)
        BY <3>1
      <4>3. ASSUME NEW g \in Hosts, q \in ToSet(entry'[g].pending) PROVE FALSE
        <5>1. g \notin E /\ q \in ToSet(entry[g].pending)
          BY <4>3, <1>4
        <5>2. g = f
          BY <5>1, <4>2, <1>1 DEF FateInv
        <5> QED BY <5>1, <5>2
      <4> QED BY <4>1, <4>3
    <3>2. CASE ~ \E g \in E : q \in ToSet(entry[g].pending)
      <4>1. fate'[q] = fate[q]
        BY <3>2
      <4>2. \A g \in Hosts : q \in ToSet(entry'[g].pending) <=> q \in ToSet(entry[g].pending)
        BY <3>2, <1>4
      <4> QED BY <4>1, <4>2, <1>1 DEF FateInv
    <3> QED BY <3>1, <3>2
  <2>3. \A f, g \in Hosts : ToSet(entry'[f].pending) \cap ToSet(entry'[g].pending) # {} => f = g
    BY <1>1, <1>4 DEF FateInv
  <2> QED BY <2>1, <2>2, <2>3 DEF FateInv
<1>6. \A g \in Hosts : Increasing(entry'[g].pending)
  BY <1>1 DEF OrderInv, Increasing
<1>7. CASE sent' = sent
  <2>1. \A g \in Hosts : \A r \in ToSet(sent[g]), q \in ToSet(entry'[g].pending) : r < q
    BY <1>1, <1>4 DEF OrderInv
  <2>2. OrderInv'
    BY <2>1, <1>1, <1>6, <1>7 DEF OrderInv, Increasing
  <2> QED BY <2>2, <1>2, <1>3, <1>5, <1>7
<1>8. ASSUME NEW h \in E, sent' = [sent EXCEPT ![h] = @ \o entry[h].pending]
      PROVE  sent' \in [Hosts -> Seq(Packets)] /\ OrderInv'
  <2>1. entry[h].pending \in Seq(Packets) /\ sent[h] \in Seq(Packets) /\ h \in Hosts
    BY <1>1, <1>2, Types
  <2>2. \A g \in Hosts : sent'[g] = IF g = h THEN sent[h] \o entry[h].pending ELSE sent[g]
    BY <1>2, <1>8
  <2>3. sent' \in [Hosts -> Seq(Packets)]
    BY <2>1, <1>2, <1>8
  <2>4. ToSet(sent'[h]) = ToSet(sent[h]) \cup ToSet(entry[h].pending)
    BY <2>1, <2>2, ToSetConcat
  <2>5. Increasing(sent'[h])
    BY <2>1, <2>2, <1>1, IncreasingConcat DEF OrderInv
  <2>6. ASSUME NEW q \in ToSet(entry[h].pending) PROVE q <= handed
    <3>1. q \in Packets
      BY <2>1, ToSetType
    <3>2. ~ (q > handed)
      BY <3>1, <1>1, <2>1 DEF FateInv
    <3> QED BY <3>1, <3>2, <1>2 DEF Packets
  <2>7. ASSUME NEW g \in Hosts
        PROVE  /\ Increasing(sent'[g])
               /\ \A r \in ToSet(sent'[g]), q \in ToSet(entry'[g].pending) : r < q
               /\ \A r \in ToSet(sent'[g]) : r <= handed
    <3>1. CASE g = h
      <4>1. ToSet(entry'[g].pending) = {}
        BY <3>1, <1>4
      <4>2. \A r \in ToSet(sent'[g]) : r <= handed
        BY <3>1, <2>1, <2>4, <2>6, <1>1 DEF OrderInv
      <4> QED BY <4>1, <4>2, <3>1, <2>5
    <3>2. CASE g # h
      BY <3>2, <2>2, <1>1, <1>4 DEF OrderInv
    <3> QED BY <3>1, <3>2
  <2>8. OrderInv'
    BY <2>7, <1>6 DEF OrderInv, Increasing
  <2> QED BY <2>3, <2>8
<1> QED BY <1>3, <1>5, <1>7, <1>8

(* The parts an action leaves to its own argument, put together *)
LEMMA Combine ==
  ASSUME up' \in BOOLEAN, aborted' = FALSE, entry' \in [Hosts -> Entry],
         \A h \in Hosts : Len(entry'[h].pending) <= MostPending,
         timer' \in Off .. WaitReplyTimeout, air' \subseteq Hosts, handed' \in 0 .. MaxPackets,
         fate' \in [Packets -> Fates], sent' \in [Hosts -> Seq(Packets)],
         waited' \in [Hosts -> Nat], asked' \in [Hosts -> Nat], flaps' \in 0 .. MaxFlaps,
         WatchInv', QuietInv', FateInv', OrderInv', PaceInv'
  PROVE  IInv'
<1>1. aborted' \in BOOLEAN
  OBVIOUS
<1> QED BY <1>1 DEF IInv, TypeOK, NeverFatal

LEMMA MarkWaitReplyKeeps ==
  ASSUME IInv, handed < MaxPackets, NEW p, p = handed + 1, handed' = p, NEW h \in Hosts,
         ~IsWaitReply(h), MarkWaitReply(h, p), UNCHANGED <<up, flaps>>
  PROVE  IInv'
<1>1. TypeOK /\ WatchInv /\ QuietInv /\ PaceInv
  BY DEF IInv
<1>2. entry[h].pending = << >> /\ entry[h].retries = 0
  BY <1>1 DEF QuietInv
<1> DEFINE e == [state |-> "WAIT_REPLY", age |-> 0, retries |-> entry[h].retries,
                 pending |-> Append(entry[h].pending, p)]
<1>3. /\ entry \in [Hosts -> Entry] /\ entry[h] \in Entry /\ p \in Packets
      /\ timer \in Int /\ -1 <= timer /\ timer <= WaitReplyTimeout
      /\ waited \in [Hosts -> Nat] /\ asked \in [Hosts -> Nat]
  BY <1>1, Types, NextPacket DEF TypeOK
<1>4. Append(entry[h].pending, p) \in Seq(Packets) /\ Len(Append(entry[h].pending, p)) = 1
  BY <1>2, <1>3
<1>5. e \in Entry
  BY <1>3, <1>4, MaxAgeNat DEF Entry
<1>6. /\ e.state = "WAIT_REPLY" /\ e.age = 0 /\ e.retries = 0
      /\ e.pending = Append(entry[h].pending, p)
  BY <1>2, <1>3 DEF Entry
<1>7. Len(e.pending) <= MostPending
  BY <1>4, <1>6, LimitAssumption DEF MostPending
<1>a. aborted' = FALSE
  BY <1>2 DEF MarkWaitReply
<1>8. /\ entry' = [entry EXCEPT ![h] = e] /\ sent' = sent
      /\ fate' = [fate EXCEPT ![p] = "waiting"] /\ air' = air \cup {h}
      /\ waited' = [waited EXCEPT ![h] = 0] /\ asked' = [asked EXCEPT ![h] = 1]
      /\ timer' = IF timer = Off THEN WaitReplyTimeout ELSE timer
  BY DEF MarkWaitReply, StartWaitReplyTimer, SendArpRequest
<1> HIDE DEF e
<1>9. /\ entry' \in [Hosts -> Entry] /\ \A g \in Hosts : Len(entry'[g].pending) <= MostPending
      /\ handed' \in 0 .. MaxPackets /\ fate' \in [Packets -> Fates]
      /\ sent' \in [Hosts -> Seq(Packets)]
      /\ QuietInv' /\ FateInv' /\ OrderInv'
  BY <1>5, <1>6, <1>7, <1>8, EnqueueKeeps
<1>10. /\ timer' \in Int /\ 0 <= timer' /\ timer' <= WaitReplyTimeout
       /\ timer' # Off /\ (timer # Off => timer' = timer)
  BY <1>3, <1>8, TimeoutAssumption DEF Off
<1>11. /\ entry'[h] = e /\ waited'[h] = 0 /\ asked'[h] = 1
       /\ \A g \in Hosts \ {h} :
             entry'[g] = entry[g] /\ waited'[g] = waited[g] /\ asked'[g] = asked[g]
  BY <1>3, <1>8
<1>12. WatchInv'
  <2> SUFFICES ASSUME NEW g \in Hosts, entry'[g].state = "WAIT_REPLY"
               PROVE  timer' # Off /\ entry'[g].age + timer' <= WaitReplyTimeout
    BY DEF WatchInv, IsWaitReply
  <2>1. CASE g = h
    BY <2>1, <1>6, <1>10, <1>11
  <2>2. CASE g # h
    BY <2>2, <1>1, <1>10, <1>11 DEF WatchInv, IsWaitReply
  <2> QED BY <2>1, <2>2
<1>13. PaceInv'
  <2> SUFFICES ASSUME NEW g \in Hosts, entry'[g].state = "WAIT_REPLY"
               PROVE  /\ asked'[g] = entry'[g].retries + 1
                      /\ entry'[g].retries * WaitReplyTimeout <= waited'[g] + timer'
                      /\ waited'[g] + timer' <= (entry'[g].retries + 1) * WaitReplyTimeout
    BY DEF PaceInv, IsWaitReply
  <2>1. CASE g = h
    <3>1. 0 * WaitReplyTimeout = 0 /\ (0 + 1) * WaitReplyTimeout = WaitReplyTimeout
      BY TimeoutAssumption
    <3> QED BY <3>1, <2>1, <1>6, <1>10, <1>11
  <2>2. CASE g # h
    <3>1. entry'[g] = entry[g] /\ waited'[g] = waited[g] /\ asked'[g] = asked[g] /\ timer' = timer
      BY <2>2, <1>1, <1>10, <1>11 DEF WatchInv, IsWaitReply
    <3> QED BY <3>1, <1>1 DEF PaceInv, IsWaitReply
  <2> QED BY <2>1, <2>2
<1>14. /\ waited' \in [Hosts -> Nat] /\ asked' \in [Hosts -> Nat] /\ air' \subseteq Hosts
       /\ timer' \in Off .. WaitReplyTimeout
       /\ up' \in BOOLEAN /\ flaps' \in 0 .. MaxFlaps
  BY <1>1, <1>3, <1>8, <1>10, TimeoutAssumption DEF TypeOK, Off
<1> QED BY <1>a, <1>9, <1>12, <1>13, <1>14, Combine

(* an entry that waits never expires, as the timer fires first *)
LEMMA NotExpired ==
  ASSUME IInv, NEW h \in Hosts, IsWaitReply(h)
  PROVE  IsExpired(h) = FALSE
<1>1. TypeOK /\ WatchInv
  BY DEF IInv
<1>2. timer \in Int /\ -1 <= timer /\ entry[h].age \in Nat
  <2>1. timer \in Int /\ -1 <= timer /\ entry[h].age \in 0 .. MaxAge
    BY <1>1, Types
  <2> QED BY <2>1, MaxAgeNat
<1>3. timer # -1 /\ entry[h].age + timer <= WaitReplyTimeout
  BY <1>1 DEF WatchInv, Off
<1>4. entry[h].age <= WaitReplyTimeout
  BY <1>2, <1>3, TimeoutAssumption
<1>5. GetTimeout(h) = WaitReplyTimeout
  BY DEF GetTimeout, IsWaitReply
<1>6. (entry[h].age > WaitReplyTimeout) = FALSE
  BY <1>2, <1>4, TimeoutAssumption
<1> QED BY <1>5, <1>6 DEF IsExpired

LEMMA UpdateWaitReplyKeeps ==
  ASSUME IInv, handed < MaxPackets, NEW p, p = handed + 1, handed' = p, NEW h \in Hosts,
         IsWaitReply(h), UpdateWaitReply(h, p), UNCHANGED <<up, flaps>>
  PROVE  IInv'
<1>1. TypeOK /\ WatchInv /\ PaceInv
  BY DEF IInv
<1>2. aborted' = FALSE
  BY NotExpired DEF UpdateWaitReply
<1>3. /\ entry \in [Hosts -> Entry] /\ entry[h] \in Entry /\ p \in Packets
      /\ entry[h].pending \in Seq(Packets) /\ Len(entry[h].pending) \in Nat
      /\ timer' = timer /\ waited' = waited /\ asked' = asked /\ sent' = sent /\ air' = air
  BY <1>1, Types, NextPacket DEF TypeOK, UpdateWaitReply
<1>4. CASE Len(entry[h].pending) >= PendingQueueSize
  <2>1. entry' = entry /\ fate' = [fate EXCEPT ![p] = "dropped"]
    BY <1>4 DEF UpdateWaitReply
  <2>2. /\ handed' \in 0 .. MaxPackets /\ fate' \in [Packets -> Fates]
        /\ sent' \in [Hosts -> Seq(Packets)] /\ QuietInv' /\ FateInv' /\ OrderInv'
    BY <2>1, <1>3, ResolveKeeps
  <2>3. WatchInv' /\ PaceInv'
    BY <2>1, <1>1, <1>3 DEF WatchInv, PaceInv, IsWaitReply
  <2> QED BY <2>1, <2>2, <2>3, <1>1, <1>2, <1>3, Combine DEF TypeOK
<1>5. CASE Len(entry[h].pending) < PendingQueueSize
  <2> DEFINE e == [entry[h] EXCEPT !.pending = Append(entry[h].pending, p)]
  <2>1. entry' = [entry EXCEPT ![h] = e] /\ fate' = [fate EXCEPT ![p] = "waiting"]
    BY <1>3, <1>5, LimitAssumption DEF UpdateWaitReply
  <2>2. /\ Append(entry[h].pending, p) \in Seq(Packets)
        /\ Len(Append(entry[h].pending, p)) = Len(entry[h].pending) + 1
    BY <1>3
  <2>3. /\ e \in Entry /\ e.state = "WAIT_REPLY" /\ e.age = entry[h].age
        /\ e.retries = entry[h].retries /\ e.pending = Append(entry[h].pending, p)
    BY <2>2, <1>3 DEF Entry, IsWaitReply
  <2>4. Len(e.pending) <= MostPending
    BY <2>2, <2>3, <1>3, <1>5, LimitAssumption DEF MostPending
  <2> HIDE DEF e
  <2>5. /\ entry' \in [Hosts -> Entry] /\ \A g \in Hosts : Len(entry'[g].pending) <= MostPending
        /\ handed' \in 0 .. MaxPackets /\ fate' \in [Packets -> Fates]
        /\ sent' \in [Hosts -> Seq(Packets)] /\ QuietInv' /\ FateInv' /\ OrderInv'
    BY <2>1, <2>3, <2>4, <1>3, EnqueueKeeps
  <2>6. \A g \in Hosts : /\ entry'[g].state = entry[g].state /\ entry'[g].age = entry[g].age
                         /\ entry'[g].retries = entry[g].retries
    BY <2>1, <2>3, <1>3 DEF IsWaitReply
  <2>7. WatchInv' /\ PaceInv'
    BY <2>6, <1>1, <1>3 DEF WatchInv, PaceInv, IsWaitReply
  <2> QED BY <2>5, <2>7, <1>1, <1>2, <1>3, Combine DEF TypeOK
<1> QED BY <1>3, <1>4, <1>5, LimitAssumption

LEMMA SendKeeps ==
  ASSUME IInv, NEW h \in Hosts, Send(h)
  PROVE  IInv'
<1>1. TypeOK /\ WatchInv /\ PaceInv /\ QuietInv /\ aborted = FALSE
  BY DEF IInv, NeverFatal, TypeOK
<1>2. PICK p : p = handed + 1
  OBVIOUS
<1>3. handed < MaxPackets /\ handed' = p /\ UNCHANGED <<up, flaps>>
  BY <1>2 DEF Send
<1>4. ASSUME entry' = entry, UNCHANGED <<timer, air, waited, asked, aborted>>,
             NEW how \in {"sent", "dropped", "lost"}, fate' = [fate EXCEPT ![p] = how],
             \/ sent' = sent
             \/ entry[h].pending = << >> /\ sent' = [sent EXCEPT ![h] = Append(@, p)]
      PROVE  IInv'
  <2>1. /\ handed' \in 0 .. MaxPackets /\ fate' \in [Packets -> Fates]
        /\ sent' \in [Hosts -> Seq(Packets)] /\ QuietInv' /\ FateInv' /\ OrderInv'
    BY <1>2, <1>3, <1>4, ResolveKeeps
  <2>2. WatchInv' /\ PaceInv'
    BY <1>1, <1>4 DEF WatchInv, PaceInv, IsWaitReply
  <2>3. /\ up' \in BOOLEAN /\ aborted' = FALSE /\ entry' \in [Hosts -> Entry]
        /\ \A g \in Hosts : Len(entry'[g].pending) <= MostPending
        /\ timer' \in Off .. WaitReplyTimeout /\ air' \subseteq Hosts
        /\ waited' \in [Hosts -> Nat] /\ asked' \in [Hosts -> Nat] /\ flaps' \in 0 .. MaxFlaps
    BY <1>1, <1>3, <1>4 DEF TypeOK
  <2> QED BY <2>1, <2>2, <2>3, Combine
<1>5. CASE ~up
  BY <1>2, <1>4, <1>5 DEF Send, End
<1>6. CASE up /\ ~IsWaitReply(h) /\ MarkWaitReply(h, p)
  BY <1>2, <1>3, <1>6, MarkWaitReplyKeeps
<1>7. CASE up /\ End(p, "dropped")
  BY <1>4, <1>7 DEF End
<1>8. CASE up /\ ~IsWaitReply(h) /\ Transmit(h, p)
  BY <1>1, <1>4, <1>8 DEF Transmit, QuietInv
<1>9. CASE up /\ IsWaitReply(h) /\ UpdateWaitReply(h, p)
  BY <1>2, <1>3, <1>9, UpdateWaitReplyKeeps
<1>10. up => Lookup(h, p)
  BY <1>2 DEF Send
<1> QED BY <1>5, <1>6, <1>7, <1>8, <1>9, <1>10 DEF Lookup, IsWaitReply

-----------------------------------------------------------------------------
(* The other actions *)

LEMMA ReceiveReplyKeeps ==
  ASSUME IInv, NEW h \in Hosts, NEW again \in BOOLEAN, ReceiveReply(h, again)
  PROVE  IInv'
<1>1. TypeOK /\ WatchInv /\ PaceInv /\ QuietInv /\ aborted = FALSE
  BY DEF IInv, NeverFatal, TypeOK
<1>2. /\ air' \subseteq Hosts /\ up' = up /\ timer' = timer /\ handed' = handed
      /\ flaps' = flaps /\ aborted' = FALSE
      /\ waited' = [waited EXCEPT ![h] = 0] /\ asked' = [asked EXCEPT ![h] = 0]
  BY <1>1 DEF ReceiveReply, TypeOK
<1>3. /\ waited' \in [Hosts -> Nat] /\ asked' \in [Hosts -> Nat]
      /\ \A g \in Hosts \ {h} : waited'[g] = waited[g] /\ asked'[g] = asked[g]
  BY <1>1, <1>2 DEF TypeOK
<1>4. fate \in [Packets -> Fates] /\ entry \in [Hosts -> Entry]
  BY <1>1 DEF TypeOK
<1>5. CASE IsWaitReply(h)
  <2> DEFINE e == [Absent EXCEPT !.state = "ALIVE"]
             q == entry[h].pending
  <2>1. e = [state |-> "ALIVE", age |-> 0, retries |-> 0, pending |-> << >>]
    BY DEF Absent
  <2>2. e \in Entry
    <3>1. 0 \in 0 .. MaxAge /\ 0 \in 0 .. MaxRetries /\ << >> \in Seq(Packets)
      BY MaxAgeNat, LimitAssumption
    <3> HIDE DEF e
    <3> QED BY <3>1, <2>1 DEF Entry
  <2>3. e.state = "ALIVE" /\ e.retries = 0 /\ e.pending = << >>
    BY <2>1
  <2>4. entry' = [entry EXCEPT ![h] = e]
    BY <1>5 DEF ReceiveReply
  <2> HIDE DEF e
  <2>5. \A g \in Hosts : entry'[g] = IF g = h THEN e ELSE entry[g]
    BY <2>4, <1>4
  <2>6. \A g \in Hosts : entry'[g].pending = IF g \in {h} THEN << >> ELSE entry[g].pending
    BY <2>3, <2>5
  <2>7. ASSUME NEW how \in {"sent", "lost"},
               fate' = [p \in Packets |-> IF p \in ToSet(q) THEN how ELSE fate[p]],
               sent' = sent \/ sent' = [sent EXCEPT ![h] = @ \o q]
        PROVE  /\ fate' \in [Packets -> Fates] /\ sent' \in [Hosts -> Seq(Packets)]
               /\ FateInv' /\ OrderInv'
    <3>1. fate' = [p \in Packets |-> IF \E g \in {h} : p \in ToSet(entry[g].pending)
                                     THEN how ELSE fate[p]]
      BY <2>7
    <3>2. sent' = sent \/ \E g \in {h} : sent' = [sent EXCEPT ![g] = @ \o entry[g].pending]
      BY <2>7
    <3>3. {h} \in SUBSET Hosts /\ how \in {"sent", "dropped", "lost"}
      OBVIOUS
    <3> QED BY <3>1, <3>2, <3>3, <2>6, <1>2, DrainKeeps
  <2>8. /\ fate' \in [Packets -> Fates] /\ sent' \in [Hosts -> Seq(Packets)]
        /\ FateInv' /\ OrderInv'
    <3>1. CASE up
      <4>1. fate' = [p \in Packets |-> IF p \in ToSet(q) THEN "sent" ELSE fate[p]]
        BY <3>1, <1>5 DEF ReceiveReply, DequeuePending
      <4>2. sent' = [sent EXCEPT ![h] = @ \o q]
        BY <3>1, <1>5 DEF ReceiveReply, DequeuePending
      <4> QED BY <4>1, <4>2, <2>7
    <3>2. CASE ~up
      <4>1. fate' = [p \in Packets |-> IF p \in ToSet(q) THEN "lost" ELSE fate[p]]
        BY <3>2, <1>5 DEF ReceiveReply, DequeuePending
      <4>2. sent' = sent
        BY <3>2, <1>5 DEF ReceiveReply, DequeuePending
      <4> QED BY <4>1, <4>2, <2>7
    <3> QED BY <3>1, <3>2
  <2>9. entry' \in [Hosts -> Entry]
    BY <2>2, <2>4, <1>4
  <2>10. \A g \in Hosts : Len(entry'[g].pending) <= MostPending
    <3>1. Len(<< >>) <= MostPending
      BY LimitAssumption DEF MostPending
    <3>2. \A g \in Hosts : Len(entry[g].pending) <= MostPending
      BY <1>1 DEF TypeOK
    <3> QED BY <3>1, <3>2, <2>6
  <2>11. QuietInv'
    BY <2>3, <2>5, <1>1 DEF QuietInv, IsWaitReply
  <2>12. WatchInv' /\ PaceInv'
    BY <2>3, <2>5, <1>1, <1>2, <1>3 DEF WatchInv, PaceInv, IsWaitReply
  <2> QED BY <2>8, <2>9, <2>10, <2>11, <2>12, <1>1, <1>2, <1>3, Combine DEF TypeOK
<1>6. CASE ~IsWaitReply(h)
  <2>1. entry' = entry /\ fate' = fate /\ sent' = sent
    BY <1>6 DEF ReceiveReply
  <2>2. FateInv' /\ OrderInv' /\ QuietInv' /\ WatchInv'
    BY <2>1, <1>2 DEF IInv, FateInv, OrderInv, Increasing, QuietInv, WatchInv, IsWaitReply
  <2>3. PaceInv'
    BY <2>1, <1>1, <1>2, <1>3, <1>6 DEF PaceInv, IsWaitReply
  <2> QED BY <2>1, <2>2, <2>3, <1>1, <1>2, <1>3, Combine DEF TypeOK
<1> QED BY <1>5, <1>6

LEMMA FlushKeeps ==
  ASSUME IInv, Flush
  PROVE  IInv'
<1>1. TypeOK /\ FateInv /\ aborted = FALSE
  BY DEF IInv, NeverFatal, TypeOK
<1>2. /\ \A h \in Hosts : entry'[h] = Absent /\ entry'[h].pending = << >>
                          /\ entry'[h].retries = 0 /\ entry'[h].state # "WAIT_REPLY"
      /\ handed' = handed /\ sent' = sent /\ timer' = Off /\ air' = air /\ up' = up
      /\ flaps < MaxFlaps /\ flaps' = flaps + 1 /\ aborted' = FALSE
  BY <1>1 DEF Flush, Absent
<1>3. Absent \in Entry
  BY MaxAgeNat, LimitAssumption DEF Absent, Entry
<1>4. entry' \in [Hosts -> Entry]
  BY <1>3 DEF Flush
<1>5. \A g \in Hosts : entry'[g].pending = IF g \in Hosts THEN << >> ELSE entry[g].pending
  BY <1>2
<1>6. fate' = [p \in Packets |-> IF \E g \in Hosts : p \in ToSet(entry[g].pending)
                                 THEN "lost" ELSE fate[p]]
  BY <1>1 DEF Flush, FateInv
<1>7. /\ fate' \in [Packets -> Fates] /\ sent' \in [Hosts -> Seq(Packets)]
      /\ FateInv' /\ OrderInv'
  <2>1. Hosts \in SUBSET Hosts /\ "lost" \in {"sent", "dropped", "lost"}
    OBVIOUS
  <2> QED BY <2>1, <1>2, <1>5, <1>6, DrainKeeps
<1>8. \A g \in Hosts : Len(entry'[g].pending) <= MostPending
  BY <1>2, LimitAssumption DEF MostPending
<1>9. waited' \in [Hosts -> Nat] /\ asked' \in [Hosts -> Nat]
  BY DEF Flush
<1>10. timer' \in Off .. WaitReplyTimeout /\ flaps' \in 0 .. MaxFlaps
  BY <1>1, <1>2, TimeoutAssumption, BoundsAssumption DEF TypeOK, Off
<1>11. QuietInv' /\ WatchInv' /\ PaceInv'
  BY <1>2 DEF QuietInv, WatchInv, PaceInv, IsWaitReply
<1> QED BY <1>1, <1>2, <1>4, <1>7, <1>8, <1>9, <1>10, <1>11, Combine DEF TypeOK

LEMMA SetUpDownKeeps ==
  ASSUME IInv, SetUpDown
  PROVE  IInv'
<1>1. TypeOK /\ FateInv /\ OrderInv /\ QuietInv /\ WatchInv /\ PaceInv /\ aborted = FALSE
  BY DEF IInv, NeverFatal, TypeOK
<1>2. up' \in BOOLEAN /\ aborted' = FALSE
  BY <1>1 DEF SetUpDown
<1>3. flaps' \in 0 .. MaxFlaps
  BY <1>1, BoundsAssumption DEF SetUpDown, TypeOK
<1>4. FateInv' /\ OrderInv' /\ QuietInv' /\ WatchInv' /\ PaceInv'
  BY <1>1 DEF SetUpDown, FateInv, OrderInv, Increasing, QuietInv, WatchInv, PaceInv, IsWaitReply
<1> QED BY <1>1, <1>2, <1>3, <1>4, Combine DEF SetUpDown, TypeOK

(* one timeout more *)
LEMMA OneMore ==
  ASSUME NEW r \in Nat
  PROVE  /\ r * WaitReplyTimeout \in Nat
         /\ (r + 1) * WaitReplyTimeout = r * WaitReplyTimeout + WaitReplyTimeout
         /\ r <= MaxRetries => (r + 1) * WaitReplyTimeout <= LongestWait
<1>1. r * WaitReplyTimeout \in Nat
  BY TimeoutAssumption
<1>2. (r + 1) * WaitReplyTimeout = r * WaitReplyTimeout + WaitReplyTimeout
  BY TimeoutAssumption
<1>3. r <= MaxRetries => (r + 1) * WaitReplyTimeout <= LongestWait
  <2> SUFFICES ASSUME r <= MaxRetries
               PROVE  (r + 1) * WaitReplyTimeout <= (MaxRetries + 1) * WaitReplyTimeout
    BY DEF LongestWait
  <2>1. PICK d \in Nat : MaxRetries = r + d
    <3>1. MaxRetries - r \in Nat /\ MaxRetries = r + (MaxRetries - r)
      BY LimitAssumption
    <3> QED BY <3>1
  <2>2. (MaxRetries + 1) * WaitReplyTimeout = (r + 1) * WaitReplyTimeout + d * WaitReplyTimeout
    BY <2>1, TimeoutAssumption
  <2>3. d * WaitReplyTimeout \in Nat /\ (r + 1) * WaitReplyTimeout \in Nat
    BY TimeoutAssumption
  <2> QED BY <2>2, <2>3
<1> QED BY <1>1, <1>2, <1>3

(* an entry that waits and whose timer has fired *)
LEMMA AtTimeout ==
  ASSUME IInv, timer = 0, NEW h \in Hosts, IsWaitReply(h)
  PROVE  /\ asked[h] = entry[h].retries + 1
         /\ entry[h].retries * WaitReplyTimeout <= waited[h]
         /\ waited[h] <= (entry[h].retries + 1) * WaitReplyTimeout
<1>1. TypeOK /\ PaceInv
  BY DEF IInv
<1>2. waited[h] + timer = waited[h]
  BY <1>1, Numbers
<1> QED BY <1>1, <1>2 DEF PaceInv

LEMMA TimeoutKeeps ==
  ASSUME IInv, HandleWaitReplyTimeout
  PROVE  IInv'
<1> DEFINE E == {h \in Hosts : GivesUp(h)}
           retried == {h \in Hosts : Retries(h)}
<1>1. TypeOK /\ FateInv /\ WatchInv /\ QuietInv /\ PaceInv /\ aborted = FALSE
  BY DEF IInv, NeverFatal, TypeOK
<1>2. /\ timer = 0 /\ handed' = handed /\ sent' = sent /\ up' = up /\ flaps' = flaps
      /\ aborted' = FALSE /\ air' = air \cup retried
      /\ entry' = [h \in Hosts |-> AfterTimeout(h)]
      /\ timer' = IF retried # {} THEN WaitReplyTimeout ELSE Off
      /\ asked' = [h \in Hosts |-> IF h \in retried THEN asked[h] + 1 ELSE 0]
      /\ waited' = [h \in Hosts |-> IF h \in retried THEN waited[h] ELSE 0]
  BY <1>1 DEF HandleWaitReplyTimeout, SendArpRequest, TimerAfter
<1>3. fate' = [p \in Packets |-> IF \E g \in E : p \in ToSet(entry[g].pending)
                                 THEN "dropped" ELSE fate[p]]
  BY DEF HandleWaitReplyTimeout
<1>4. ASSUME NEW h \in Hosts, h \in retried
      PROVE  /\ entry'[h] \in Entry /\ entry'[h].state = "WAIT_REPLY" /\ entry'[h].age = 0
             /\ entry'[h].retries = entry[h].retries + 1
             /\ entry'[h].pending = entry[h].pending /\ h \notin E
  <2>1. IsWaitReply(h) /\ entry[h].retries < MaxRetries /\ Retries(h)
    BY <1>4 DEF Retries
  <2>2. entry[h] \in Entry
    BY <1>1 DEF TypeOK
  <2>3. entry'[h] = [entry[h] EXCEPT !.retries = entry[h].retries + 1, !.age = 0]
    BY <2>1, <1>2 DEF AfterTimeout
  <2>4. entry[h].retries + 1 \in 0 .. MaxRetries /\ 0 \in 0 .. MaxAge
    BY <2>1, <1>1, Numbers, MaxAgeNat, LimitAssumption
  <2> QED BY <2>1, <2>2, <2>3, <2>4 DEF Entry, IsWaitReply, GivesUp
<1>5. ASSUME NEW h \in E
      PROVE  /\ entry'[h] \in Entry /\ entry'[h].state = "DEAD"
             /\ entry'[h].retries = 0 /\ entry'[h].pending = << >>
  <2>1. ~Retries(h) /\ GivesUp(h)
    BY DEF GivesUp
  <2>2. entry'[h] = [state |-> "DEAD", age |-> 0, retries |-> 0, pending |-> << >>]
    BY <2>1, <1>2 DEF AfterTimeout, Absent
  <2>3. 0 \in 0 .. MaxAge /\ 0 \in 0 .. MaxRetries /\ << >> \in Seq(Packets)
    BY MaxAgeNat, LimitAssumption
  <2> QED BY <2>2, <2>3 DEF Entry
<1>6. ASSUME NEW h \in Hosts, h \notin E, h \notin retried
      PROVE  entry'[h] = entry[h] /\ ~IsWaitReply(h)
  BY <1>2, <1>6 DEF AfterTimeout, GivesUp
<1> HIDE DEF E, retried
<1>7. E \in SUBSET Hosts /\ retried \subseteq Hosts
  BY DEF E, retried
<1>8. \A g \in Hosts : entry'[g].pending = IF g \in E THEN << >> ELSE entry[g].pending
  BY <1>4, <1>5, <1>6
<1>9. /\ fate' \in [Packets -> Fates] /\ sent' \in [Hosts -> Seq(Packets)]
      /\ FateInv' /\ OrderInv'
  <2>1. "dropped" \in {"sent", "dropped", "lost"}
    OBVIOUS
  <2> QED BY <2>1, <1>2, <1>3, <1>7, <1>8, DrainKeeps
<1>10. entry' \in [Hosts -> Entry]
  <2>1. \A h \in Hosts : entry'[h] \in Entry
    BY <1>1, <1>4, <1>5, <1>6 DEF TypeOK
  <2>2. DOMAIN entry' = Hosts /\ entry' = [h \in Hosts |-> entry'[h]]
    BY <1>2
  <2> QED BY <2>1, <2>2
<1>11. \A g \in Hosts : Len(entry'[g].pending) <= MostPending
  <2>1. Len(<< >>) <= MostPending
    BY LimitAssumption DEF MostPending
  <2>2. \A g \in Hosts : Len(entry[g].pending) <= MostPending
    BY <1>1 DEF TypeOK
  <2> QED BY <2>1, <2>2, <1>8
<1>12. timer' \in Off .. WaitReplyTimeout
  BY <1>2, TimeoutAssumption DEF Off
<1>13. waited' \in [Hosts -> Nat] /\ asked' \in [Hosts -> Nat]
  BY <1>1, <1>2, Numbers
<1>14. QuietInv'
  BY <1>1, <1>4, <1>5, <1>6 DEF QuietInv, IsWaitReply
<1>15. ASSUME NEW h \in Hosts, entry'[h].state = "WAIT_REPLY"
       PROVE  h \in retried /\ timer' = WaitReplyTimeout
  <2>1. h \in retried
    BY <1>5, <1>6, <1>15 DEF IsWaitReply
  <2> QED BY <2>1, <1>2
<1>16. WatchInv'
  BY <1>4, <1>15, TimeoutAssumption DEF WatchInv, IsWaitReply, Off
<1>17. PaceInv'
  <2> SUFFICES ASSUME NEW h \in Hosts, entry'[h].state = "WAIT_REPLY"
               PROVE  /\ asked'[h] = entry'[h].retries + 1
                      /\ entry'[h].retries * WaitReplyTimeout <= waited'[h] + timer'
                      /\ waited'[h] + timer' <= (entry'[h].retries + 1) * WaitReplyTimeout
    BY DEF PaceInv, IsWaitReply
  <2>1. /\ h \in retried /\ timer' = WaitReplyTimeout /\ IsWaitReply(h)
        /\ entry'[h].retries = entry[h].retries + 1
    BY <1>4, <1>15 DEF retried, Retries
  <2>2. waited'[h] = waited[h] /\ asked'[h] = asked[h] + 1
    BY <2>1, <1>2
  <2>3. PICK r \in Nat : r = entry[h].retries
    BY <1>1, Numbers
  <2>4. asked[h] = r + 1 /\ r * WaitReplyTimeout <= waited[h] /\ waited[h] <= (r + 1) * WaitReplyTimeout
    BY <2>1, <2>3, <1>2, AtTimeout
  <2>5. /\ (r + 1) * WaitReplyTimeout = r * WaitReplyTimeout + WaitReplyTimeout
        /\ (r + 1 + 1) * WaitReplyTimeout = (r + 1) * WaitReplyTimeout + WaitReplyTimeout
        /\ r * WaitReplyTimeout \in Nat /\ (r + 1) * WaitReplyTimeout \in Nat
    BY <2>3, OneMore
  <2>6. waited[h] \in Nat
    BY <1>1, Types
  <2> QED BY <2>1, <2>2, <2>3, <2>4, <2>5, <2>6, TimeoutAssumption
<1> QED BY <1>1, <1>2, <1>7, <1>9, <1>10, <1>11, <1>12, <1>13, <1>14, <1>16, <1>17, Combine
        DEF TypeOK

LEMMA TickKeeps ==
  ASSUME IInv, Tick
  PROVE  IInv'
<1>1. TypeOK /\ FateInv /\ OrderInv /\ WatchInv /\ QuietInv /\ PaceInv /\ aborted = FALSE
  BY DEF IInv, NeverFatal, TypeOK
<1>2. /\ timer # 0 /\ timer' = IF timer = Off THEN Off ELSE timer - 1
      /\ up' = up /\ air' = air /\ handed' = handed /\ fate' = fate /\ sent' = sent
      /\ asked' = asked /\ flaps' = flaps /\ aborted' = FALSE
      /\ waited' = [h \in Hosts |-> IF IsWaitReply(h) THEN Older(waited[h], LongestWait + 1)
                                    ELSE waited[h]]
  BY <1>1 DEF Tick
<1>3. timer' \in Off .. WaitReplyTimeout
  BY <1>1, <1>2, Types, TimeoutAssumption DEF Off
<1>4. ASSUME NEW h \in Hosts
      PROVE  /\ entry'[h] \in Entry
             /\ entry'[h].state = entry[h].state /\ entry'[h].retries = entry[h].retries
             /\ entry'[h].pending = entry[h].pending
             /\ entry'[h].age \in Nat /\ entry'[h].age <= entry[h].age + 1
  <2>1. entry[h] \in Entry /\ entry[h].age \in 0 .. MaxAge
    BY <1>1, Types DEF TypeOK
  <2>2. CASE entry[h].state = "absent"
    <3>1. entry'[h] = Absent
      BY <2>2 DEF Tick
    <3>2. entry[h].pending = << >> /\ entry[h].retries = 0
      BY <2>2, <1>1 DEF QuietInv, IsWaitReply
    <3>3. 0 \in 0 .. MaxAge /\ 0 \in 0 .. MaxRetries /\ << >> \in Seq(Packets)
      BY MaxAgeNat, LimitAssumption
    <3>4. Absent \in Entry
      BY <3>3 DEF Absent, Entry
    <3> QED BY <3>1, <3>2, <3>4, <2>1, <2>2, MaxAgeNat DEF Absent
  <2>3. CASE entry[h].state # "absent"
    <3>1. PICK a : a = Older(entry[h].age, MaxAge)
      OBVIOUS
    <3>2. a \in 0 .. MaxAge /\ a \in Nat /\ a <= entry[h].age + 1
      BY <3>1, <2>1, MaxAgeNat DEF Older
    <3>3. entry'[h] = [entry[h] EXCEPT !.age = a]
      BY <3>1, <2>3 DEF Tick
    <3> QED BY <3>2, <3>3, <2>1 DEF Entry
  <2> QED BY <2>2, <2>3
<1>5. entry' \in [Hosts -> Entry]
  <2>1. DOMAIN entry' = Hosts /\ entry' = [h \in Hosts |-> entry'[h]]
    BY DEF Tick
  <2> QED BY <2>1, <1>4
<1>6. \A h \in Hosts : Len(entry'[h].pending) <= MostPending
  BY <1>1, <1>4 DEF TypeOK
<1>7. LongestWait \in Nat
  BY TimeoutAssumption, LimitAssumption DEF LongestWait
<1>8. waited' \in [Hosts -> Nat]
  <2>1. \A h \in Hosts : waited[h] \in Nat /\ Older(waited[h], LongestWait + 1) \in Nat
    BY <1>1, <1>7, Numbers DEF Older
  <2> QED BY <2>1, <1>2
<1>9. FateInv' /\ OrderInv' /\ QuietInv'
  <2>1. \A h \in Hosts : entry'[h].pending = entry[h].pending
    BY <1>4
  <2>2. FateInv'
    BY <2>1, <1>1, <1>2 DEF FateInv
  <2>3. OrderInv'
    BY <2>1, <1>1, <1>2 DEF OrderInv, Increasing
  <2>4. QuietInv'
    BY <1>1, <1>4 DEF QuietInv, IsWaitReply
  <2> QED BY <2>2, <2>3, <2>4
<1>10. ASSUME NEW h \in Hosts, IsWaitReply(h)
       PROVE  /\ timer \in Nat \ {0} /\ timer' = timer - 1
              /\ entry[h].age + timer <= WaitReplyTimeout
  BY <1>1, <1>2, <1>10, Types DEF WatchInv, Off
<1>11. WatchInv'
  <2> SUFFICES ASSUME NEW h \in Hosts, IsWaitReply(h)
               PROVE  timer' # Off /\ entry'[h].age + timer' <= WaitReplyTimeout
    BY <1>4 DEF WatchInv, IsWaitReply
  <2>1. entry[h].age \in Nat
    BY <1>1, Numbers
  <2> QED BY <2>1, <1>4, <1>10, TimeoutAssumption DEF Off
<1>12. PaceInv'
  <2> SUFFICES ASSUME NEW h \in Hosts, IsWaitReply(h)
               PROVE  /\ asked[h] = entry[h].retries + 1
                      /\ entry[h].retries * WaitReplyTimeout <= waited'[h] + timer'
                      /\ waited'[h] + timer' <= (entry[h].retries + 1) * WaitReplyTimeout
    BY <1>2, <1>4 DEF PaceInv, IsWaitReply
  <2>1. PICK r \in Nat : r = entry[h].retries /\ r <= MaxRetries
    BY <1>1, Numbers
  <2>2. /\ asked[h] = r + 1 /\ r * WaitReplyTimeout <= waited[h] + timer
        /\ waited[h] + timer <= (r + 1) * WaitReplyTimeout
    BY <2>1, <1>1 DEF PaceInv
  <2>3. r * WaitReplyTimeout \in Nat /\ (r + 1) * WaitReplyTimeout <= LongestWait
        /\ (r + 1) * WaitReplyTimeout \in Nat
    BY <2>1, OneMore
  <2>4. waited[h] \in Nat /\ timer \in Nat \ {0} /\ timer' = timer - 1
    BY <1>1, <1>10, Numbers
  <2>5. waited[h] < LongestWait + 1
    BY <2>2, <2>3, <2>4, <1>7
  <2>6. waited'[h] = waited[h] + 1
    BY <2>5, <1>2 DEF Older
  <2>7. waited'[h] + timer' = waited[h] + timer
    BY <2>4, <2>6
  <2> QED BY <2>1, <2>2, <2>7
<1> QED BY <1>1, <1>2, <1>3, <1>5, <1>6, <1>8, <1>9, <1>11, <1>12, Combine DEF TypeOK

-----------------------------------------------------------------------------
LEMMA NextKeeps == IInv /\ [Next]_vars => IInv'
<1> SUFFICES ASSUME IInv, [Next]_vars PROVE IInv'
  OBVIOUS
<1>1. CASE UNCHANGED vars
  BY <1>1 DEF vars, IInv, TypeOK, NeverFatal, WatchInv, QuietInv, FateInv, OrderInv, Increasing,
              PaceInv, IsWaitReply
<1> QED BY <1>1, SendKeeps, ReceiveReplyKeeps, TimeoutKeeps, FlushKeeps, SetUpDownKeeps, TickKeeps
        DEF Next

(* The invariant of the cache, whatever the network answers and when. *)
THEOREM Invariance == Spec => []IInv
BY InitInv, NextKeeps, PTL DEF Spec

(* Neither the NS_FATAL_ERROR of ArpL3Protocol::Lookup nor the assertion of *)
(* MarkWaitReply is reached, for any timeouts.                              *)
THEOREM FatalUnreached == Spec => []NeverFatal
<1>1. IInv => NeverFatal
  BY DEF IInv
<1> QED BY <1>1, Invariance, PTL

(* Every packet the cache holds waits in one queue, of an entry that waits  *)
(* while the timer runs.                                                    *)
THEOREM QueuesSound == Spec => []NoneStranded
<1>1. IInv => NoneStranded
  BY DEF IInv, NoneStranded, QuietInv, WatchInv, FateInv
<1> QED BY <1>1, Invariance, PTL

(* The device gets the packets for a host in the order they were handed over. *)
THEOREM OrderKept == Spec => []SentInOrder
<1>1. IInv => SentInOrder
  <2> SUFFICES ASSUME IInv, NEW h \in Hosts, NEW i \in 1 .. Len(sent[h]) - 1
               PROVE  sent[h][i] < sent[h][i + 1]
    BY DEF SentInOrder
  <2>1. TypeOK
    BY DEF IInv
  <2>2. sent[h] \in Seq(Packets)
    BY <2>1, Types
  <2>3. DOMAIN sent[h] = 1 .. Len(sent[h]) /\ Len(sent[h]) \in Nat
    BY <2>2, LenProperties
  <2>4. i \in DOMAIN sent[h] /\ i + 1 \in DOMAIN sent[h] /\ i < i + 1
    BY <2>3
  <2> QED BY <2>4 DEF IInv, OrderInv, Increasing
<1> QED BY <1>1, Invariance, PTL

(* ArpCache::HandleWaitReplyTimeout gives an entry up after MaxRetries       *)
(* retransmissions, and within one timeout of MaxRetries timeouts.           *)
THEOREM GivesUpInTime == Spec => GivenUpInTime
<1> DEFINE InTime == \A h \in Hosts : IsWaitReply(h) /\ entry'[h].state = "DEAD" =>
                        /\ asked[h] = MaxRetries + 1
                        /\ waited[h] \in MaxRetries * WaitReplyTimeout .. LongestWait
<1>1. IInv /\ [Next]_vars => [InTime]_vars
  <2> SUFFICES ASSUME IInv, Next, NEW h \in Hosts, IsWaitReply(h), entry'[h].state = "DEAD"
               PROVE  /\ asked[h] = MaxRetries + 1
                      /\ waited[h] \in MaxRetries * WaitReplyTimeout .. LongestWait
    OBVIOUS
  <2>1. TypeOK
    BY DEF IInv
  <2>2. entry \in [Hosts -> Entry] /\ entry[h] \in Entry /\ entry[h].state = "WAIT_REPLY"
    BY <2>1 DEF TypeOK, IsWaitReply
  <2>3. HandleWaitReplyTimeout
    <3>1. ~ \E g \in Hosts : Send(g)
      <4> SUFFICES ASSUME NEW g \in Hosts, Send(g) PROVE FALSE
        OBVIOUS
      <4>1. entry' # entry
        BY <2>2
      <4>2. \/ MarkWaitReply(g, handed + 1)
            \/ UpdateWaitReply(g, handed + 1)
        BY <4>1 DEF Send, Lookup, Transmit, End
      <4>3. CASE MarkWaitReply(g, handed + 1)
        BY <4>3, <2>2 DEF MarkWaitReply
      <4>4. CASE UpdateWaitReply(g, handed + 1)
        <5>1. entry' = [entry EXCEPT ![g].pending = Append(entry[g].pending, handed + 1)]
          BY <4>1, <4>4 DEF UpdateWaitReply
        <5> QED BY <5>1, <2>2 DEF Entry
      <4> QED BY <4>2, <4>3, <4>4
    <3>2. ~ \E g \in Hosts, again \in BOOLEAN : ReceiveReply(g, again)
      <4> SUFFICES ASSUME NEW g \in Hosts, NEW again \in BOOLEAN, ReceiveReply(g, again)
                   PROVE  FALSE
        OBVIOUS
      <4>1. CASE IsWaitReply(g)
        <5>1. entry' = [entry EXCEPT ![g] = [Absent EXCEPT !.state = "ALIVE"]]
          BY <4>1 DEF ReceiveReply
        <5>2. entry'[h] = entry[h] \/ entry'[h] = [Absent EXCEPT !.state = "ALIVE"]
          BY <5>1, <2>2
        <5> QED BY <5>2, <2>2 DEF Absent
      <4>2. CASE ~IsWaitReply(g)
        BY <4>2, <2>2 DEF ReceiveReply
      <4> QED BY <4>1, <4>2
    <3>3. ~Flush
      BY DEF Flush, Absent
    <3>4. ~SetUpDown
      BY <2>2 DEF SetUpDown
    <3>5. ~Tick
      <4> SUFFICES ASSUME Tick PROVE FALSE
        OBVIOUS
      <4>1. entry'[h] = [entry[h] EXCEPT !.age = Older(@, MaxAge)]
        BY <2>2 DEF Tick
      <4> QED BY <4>1, <2>2 DEF Entry
    <3> QED BY <3>1, <3>2, <3>3, <3>4, <3>5 DEF Next
  <2>4. timer = 0 /\ ~Retries(h)
    BY <2>2, <2>3 DEF HandleWaitReplyTimeout, AfterTimeout, Entry
  <2>5. entry[h].retries = MaxRetries
    BY <2>1, <2>4, Numbers, LimitAssumption DEF Retries
  <2>6. /\ asked[h] = MaxRetries + 1 /\ MaxRetries * WaitReplyTimeout <= waited[h]
        /\ waited[h] <= LongestWait
    BY <2>4, <2>5, AtTimeout DEF LongestWait
  <2>7. waited[h] \in Nat /\ MaxRetries * WaitReplyTimeout \in Int /\ LongestWait \in Int
    BY <2>1, Numbers, TimeoutAssumption, LimitAssumption DEF LongestWait
  <2> QED BY <2>6, <2>7
<1>2. Spec => [][InTime]_vars
  BY <1>1, Invariance, PTL DEF Spec
<1> QED BY <1>2 DEF GivenUpInTime
====
