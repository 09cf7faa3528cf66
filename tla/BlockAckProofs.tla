--------------------------- MODULE BlockAckProofs ---------------------------
(***************************************************************************)
(* Proofs about BlockAck, for any threshold, buffer, bitmap and number of  *)
(* packets: the lists of the block ack manager stay sound, and while the   *)
(* sequence numbers stay in the lower half of their space the recipient    *)
(* hands up every packet once and in order.                                *)
(***************************************************************************)
EXTENDS BlockAck, SequenceTheorems, WellFoundedInduction, TLAPS

-----------------------------------------------------------------------------
(* Induction and recursion *)

(* A set of natural numbers has a least element. *)
LEMMA LeastElement ==
  ASSUME NEW T, T \subseteq Nat, T # {}
  PROVE  \E n \in T : \A m \in T : n <= m
<1>1. PICK R : R = OpToRel(<, Nat)
  OBVIOUS
<1>2. IsWellFoundedOn(R, Nat)
  BY <1>1, NatLessThanWellFounded
<1>3. PICK n \in T : \A m \in T : ~(<<m, n>> \in R)
  BY <1>2, WFMin
<1>4. R = {ss \in Nat \X Nat : ss[1] < ss[2]}
  BY <1>1, Zenon DEF OpToRel
<1>5. ASSUME NEW m \in T PROVE n <= m
  <2>1. <<m, n>> \in Nat \X Nat /\ <<m, n>> \notin {ss \in Nat \X Nat : ss[1] < ss[2]}
    BY <1>3, <1>4
  <2>2. ~(m < n)
    BY <2>1
  <2> QED BY <2>2
<1> QED BY <1>5

(* A set that holds 0 and, with every number below N, the next, holds all. *)
LEMMA Induction ==
  ASSUME NEW N \in Nat, NEW P, 0 \in P, \A n \in 1 .. N : n - 1 \in P => n \in P
  PROVE  \A n \in 0 .. N : n \in P
<1>1. PICK T : T = (0 .. N) \ P
  OBVIOUS
<1>2. SUFFICES ASSUME T # {} PROVE FALSE
  BY <1>1
<1>3. T \subseteq Nat
  BY <1>1
<1>4. PICK n \in T : \A m \in T : n <= m
  BY <1>2, <1>3, LeastElement
<1>5. n \in 0 .. N /\ n # 0
  BY <1>1
<1>6. n - 1 \in 0 .. N /\ n - 1 \notin T
  BY <1>3, <1>4, <1>5
<1>7. n - 1 \in P
  BY <1>1, <1>6
<1> QED BY <1>1, <1>5, <1>7

(* The function f of a loop starts with c, and its round n makes step[n][x] of x. *)
Steps(N, D) == [1 .. N -> [D -> D]]
IsLoop(f, c, N, step) == f[0] = c /\ \A n \in 1 .. N : f[n] = step[n][f[n - 1]]

(* There is such a function, for any number of rounds. *)
LEMMA Recursion ==
  ASSUME NEW D, NEW c \in D, NEW N \in Nat, NEW step \in Steps(N, D)
  PROVE  \E f \in [0 .. N -> D] : IsLoop(f, c, N, step)
<1> USE DEF Steps, IsLoop
<1> DEFINE Upto(m, f) == IsLoop(f, c, m, step)
           P == {m \in 0 .. N : \E f \in [0 .. m -> D] : Upto(m, f)}
<1>1. 0 \in P
  <2>1. PICK f : f = [n \in 0 .. 0 |-> c]
    OBVIOUS
  <2>2. f \in [0 .. 0 -> D] /\ f[0] = c
    BY <2>1
  <2>3. Upto(0, f)
    BY <2>2
  <2>4. \E g \in [0 .. 0 -> D] : Upto(0, g)
    BY <2>2, <2>3
  <2> QED BY <2>4
<1>2. ASSUME NEW m \in 1 .. N, m - 1 \in P PROVE m \in P
  <2>1. PICK f \in [0 .. m - 1 -> D] : Upto(m - 1, f)
    BY <1>2
  <2>2. PICK g : g = [n \in 0 .. m |-> IF n = m THEN step[m][f[m - 1]] ELSE f[n]]
    OBVIOUS
  <2>3. f[m - 1] \in D
    OBVIOUS
  <2>4. step[m][f[m - 1]] \in D
    BY <2>3
  <2>5. g \in [0 .. m -> D]
    BY <2>2, <2>4
  <2>6. \A n \in 0 .. m - 1 : g[n] = f[n]
    BY <2>2
  <2>7. g[m] = step[m][g[m - 1]] /\ g[0] = c
    BY <2>1, <2>2, <2>6
  <2>8. \A n \in 1 .. m - 1 : g[n] = step[n][g[n - 1]]
    BY <2>1, <2>6
  <2>9. Upto(m, g)
    BY <2>7, <2>8
  <2> QED BY <2>5, <2>9
<1>3. PICK Q : Q = P
  OBVIOUS
<1> HIDE DEF P
<1>4. 0 \in Q
  BY <1>1, <1>3
<1>5. \A n \in 1 .. N : n - 1 \in Q => n \in Q
  BY <1>2, <1>3
<1>6. \A n \in 0 .. N : n \in Q
  BY <1>4, <1>5, Induction
<1>7. N \in Q
  BY <1>6
<1>8. \E f \in [0 .. N -> D] : Upto(N, f)
  BY <1>3, <1>7 DEF P
<1> QED BY <1>8

-----------------------------------------------------------------------------
(* Kept *)

(* Kept is the loop it is written as. *)
LEMMA KeptDefined ==
  ASSUME NEW S, NEW s \in Seq(S), NEW I
  PROVE  \E f : /\ f[0] = << >>
                /\ \A n \in 1 .. Len(s) :
                      f[n] = IF n \in I THEN Append(f[n - 1], s[n]) ELSE f[n - 1]
                /\ Kept(s, I) = f[Len(s)]
<1> DEFINE Round(f, n) == IF n = 0 THEN << >>
                          ELSE IF n \in I THEN Append(f[n - 1], s[n]) ELSE f[n - 1]
           Loop(f) == f = [n \in 0 .. Len(s) |-> Round(f, n)]
<1>1. Len(s) \in Nat /\ \A n \in 1 .. Len(s) : s[n] \in S
  OBVIOUS
<1>2. PICK step : step = [n \in 1 .. Len(s) |->
                            [t \in Seq(S) |-> IF n \in I THEN Append(t, s[n]) ELSE t]]
  OBVIOUS
<1>3. step \in [1 .. Len(s) -> [Seq(S) -> Seq(S)]]
  <2>1. ASSUME NEW n \in 1 .. Len(s), NEW t \in Seq(S)
        PROVE  (IF n \in I THEN Append(t, s[n]) ELSE t) \in Seq(S)
    BY <1>1
  <2> QED BY <1>2, <2>1
<1>4. << >> \in Seq(S)
  OBVIOUS
<1>5. PICK f \in [0 .. Len(s) -> Seq(S)] :
        f[0] = << >> /\ \A n \in 1 .. Len(s) : f[n] = step[n][f[n - 1]]
  <2>1. PICK D, c, N : D = Seq(S) /\ c = << >> /\ N = Len(s)
    OBVIOUS
  <2>2. c \in D /\ N \in Nat /\ step \in Steps(N, D)
    BY <1>1, <1>3, <1>4, <2>1 DEF Steps
  <2>3. \E f \in [0 .. N -> D] : IsLoop(f, c, N, step)
    BY <2>2, Recursion
  <2> QED BY <2>1, <2>3 DEF IsLoop
<1>6. \A n \in 1 .. Len(s) : f[n] = IF n \in I THEN Append(f[n - 1], s[n]) ELSE f[n - 1]
  <2> TAKE n \in 1 .. Len(s)
  <2>1. f[n - 1] \in Seq(S)
    BY <1>1
  <2> QED BY <1>2, <1>5, <2>1
<1>7. Loop(f)
  <2>1. f = [n \in 0 .. Len(s) |-> f[n]]
    OBVIOUS
  <2>2. \A n \in 0 .. Len(s) : f[n] = Round(f, n)
    <3> TAKE n \in 0 .. Len(s)
    <3>1. CASE n = 0
      BY <1>5, <3>1
    <3>2. CASE n # 0
      <4>1. n \in 1 .. Len(s)
        BY <1>1, <3>2
      <4> QED BY <1>6, <3>2, <4>1
    <3> QED BY <3>1, <3>2
  <2> HIDE DEF Round
  <2> QED BY <2>1, <2>2
<1> HIDE DEF Loop
<1>8. PICK g : g = CHOOSE h : Loop(h)
  OBVIOUS
<1>9. Loop(g)
  BY <1>7, <1>8
<1>10. \A n \in 0 .. Len(s) : g[n] = Round(g, n)
  BY <1>9 DEF Loop
<1>11. Kept(s, I) = g[Len(s)]
  BY <1>8 DEF Kept, Loop
<1> QED BY <1>1, <1>10, <1>11

(* What is kept comes from the positions that were to be kept, in their order. *)
LEMMA KeptSound ==
  ASSUME NEW S, NEW s \in Seq(S), NEW I
  PROVE  /\ Kept(s, I) \in Seq(S) /\ Len(Kept(s, I)) <= Len(s)
         /\ \A k \in 1 .. Len(Kept(s, I)) :
               \E m \in 1 .. Len(s) : m \in I /\ Kept(s, I)[k] = s[m]
         /\ \A k, l \in 1 .. Len(Kept(s, I)) : k < l =>
               \E m, n \in 1 .. Len(s) : m < n /\ Kept(s, I)[k] = s[m] /\ Kept(s, I)[l] = s[n]
<1>1. PICK f : /\ f[0] = << >>
               /\ \A n \in 1 .. Len(s) :
                     f[n] = IF n \in I THEN Append(f[n - 1], s[n]) ELSE f[n - 1]
               /\ Kept(s, I) = f[Len(s)]
  BY KeptDefined
<1> DEFINE From(t, n) == \A k \in 1 .. Len(t) : \E m \in 1 .. n : m \in I /\ t[k] = s[m]
           StaysInOrder(t, n) == \A k, l \in 1 .. Len(t) : k < l =>
                               \E i, j \in 1 .. n : i < j /\ t[k] = s[i] /\ t[l] = s[j]
<1>2. PICK P : P = {n \in 0 .. Len(s) : /\ f[n] \in Seq(S) /\ Len(f[n]) <= n
                                  /\ From(f[n], n) /\ StaysInOrder(f[n], n)}
  OBVIOUS
<1>3. Len(s) \in Nat /\ \A n \in 1 .. Len(s) : s[n] \in S
  OBVIOUS
<1>4. 0 \in P
  <2>1. PICK t : t = << >> /\ f[0] = t
    BY <1>1
  <2>2. t \in Seq(S) /\ Len(t) <= 0 /\ From(t, 0) /\ StaysInOrder(t, 0)
    BY <2>1
  <2>3. /\ 0 \in 0 .. Len(s) /\ f[0] \in Seq(S) /\ Len(f[0]) <= 0
        /\ From(f[0], 0) /\ StaysInOrder(f[0], 0)
    BY <1>3, <2>1, <2>2
  <2> QED BY <1>2, <2>3
<1>5. ASSUME NEW n \in 1 .. Len(s), n - 1 \in P PROVE n \in P
  <2>1. n - 1 \in 0 .. Len(s) /\ n \in 0 .. Len(s)
    BY <1>3
  <2>2. PICK t \in Seq(S) : /\ t = f[n - 1] /\ Len(t) <= n - 1
                           /\ From(t, n - 1) /\ StaysInOrder(t, n - 1)
    BY <1>2, <1>5
  <2>3. f[n] = IF n \in I THEN Append(t, s[n]) ELSE t
    BY <1>1, <2>2
  <2>4. \A m \in 1 .. n - 1 : m \in 1 .. n /\ m < n
    BY <1>3
  <2>5. n \in 1 .. n
    BY <1>3
  <2>6. CASE n \in I
    <3>1. PICK u : u = Append(t, s[n]) /\ f[n] = u
      BY <2>3, <2>6
    <3>2. PICK L \in Nat : L = Len(t)
      OBVIOUS
    <3>3. /\ u \in Seq(S) /\ Len(u) = L + 1 /\ u[L + 1] = s[n]
          /\ \A k \in 1 .. L : u[k] = t[k]
      BY <1>3, <3>1, <3>2
    <3>4. Len(u) <= n
      BY <2>2, <3>2, <3>3
    <3>5. From(u, n)
      <4> TAKE k \in 1 .. Len(u)
      <4>1. CASE k = L + 1
        BY <2>5, <2>6, <3>3, <4>1
      <4>2. CASE k \in 1 .. L
        BY <2>2, <2>4, <3>2, <3>3, <4>2
      <4> QED BY <3>3, <4>1, <4>2
    <3>6. StaysInOrder(u, n)
      <4> SUFFICES ASSUME NEW k \in 1 .. Len(u), NEW l \in 1 .. Len(u), k < l
                   PROVE  \E i, j \in 1 .. n : i < j /\ u[k] = s[i] /\ u[l] = s[j]
        OBVIOUS
      <4>1. k \in 1 .. L
        BY <3>3
      <4>2. CASE l = L + 1
        <5>1. PICK m \in 1 .. n - 1 : t[k] = s[m]
          BY <2>2, <3>2, <4>1
        <5> QED BY <2>4, <2>5, <3>3, <4>1, <4>2, <5>1
      <4>3. CASE l \in 1 .. L
        <5>1. PICK i, j \in 1 .. n - 1 : i < j /\ t[k] = s[i] /\ t[l] = s[j]
          BY <2>2, <3>2, <4>1, <4>3
        <5> QED BY <2>4, <3>3, <4>1, <4>3, <5>1
      <4> QED BY <3>3, <4>2, <4>3
    <3> HIDE DEF From, StaysInOrder
    <3> QED BY <1>2, <2>1, <3>1, <3>3, <3>4, <3>5, <3>6
  <2>7. CASE n \notin I
    <3>1. From(t, n) /\ StaysInOrder(t, n) /\ Len(t) <= n
      BY <2>2, <2>4
    <3> HIDE DEF From, StaysInOrder
    <3> QED BY <1>2, <2>1, <2>2, <2>3, <2>7, <3>1
  <2> QED BY <2>6, <2>7
<1>6. \A n \in 0 .. Len(s) : n \in P
  <2>1. PICK N \in Nat : N = Len(s)
    OBVIOUS
  <2>2. \A n \in 1 .. N : n - 1 \in P => n \in P
    BY <1>5, <2>1
  <2>3. \A n \in 0 .. N : n \in P
    BY <1>4, <2>2, Induction
  <2> QED BY <2>1, <2>3
<1>7. Len(s) \in P
  BY <1>3, <1>6
<1>8. /\ f[Len(s)] \in Seq(S) /\ Len(f[Len(s)]) <= Len(s)
      /\ From(f[Len(s)], Len(s)) /\ StaysInOrder(f[Len(s)], Len(s))
  BY <1>2, <1>7
<1> QED BY <1>1, <1>8

-----------------------------------------------------------------------------
(* Numbers and prefixes *)

(* A set of numbers up to N has a greatest element. *)
LEMMA GreatestElement ==
  ASSUME NEW N \in Nat, NEW T, T \subseteq 0 .. N, T # {}
  PROVE  Max(T) \in T /\ \A n \in T : n <= Max(T)
<1>1. PICK D : D = {d \in 0 .. N : N - d \in T}
  OBVIOUS
<1>2. D \subseteq Nat /\ D # {}
  <2>1. PICK x \in T : x \in 0 .. N
    OBVIOUS
  <2>2. N - x \in 0 .. N /\ N - (N - x) = x
    BY <2>1
  <2>3. N - x \in D
    BY <1>1, <2>1, <2>2
  <2>4. D \subseteq Nat
    BY <1>1
  <2> QED BY <2>3, <2>4
<1>3. PICK d \in D : \A m \in D : d <= m
  BY <1>2, LeastElement
<1>4. PICK x \in T : x = N - d /\ d = N - x
  <2>1. N - d \in T /\ d = N - (N - d)
    BY <1>1
  <2> QED BY <2>1
<1>5. \A y \in T : x >= y
  <2> TAKE y \in T
  <2>1. x \in 0 .. N /\ y \in 0 .. N
    OBVIOUS
  <2>2. N - y \in D
    <3>1. N - y \in 0 .. N /\ N - (N - y) = y
      BY <2>1
    <3> QED BY <1>1, <3>1
  <2>3. N - x <= N - y
    BY <1>3, <1>4, <2>2
  <2> QED BY <2>1, <2>3
<1>6. Max(T) \in T /\ \A y \in T : Max(T) >= y
  BY <1>5 DEF Max
<1> QED BY <1>6

(* The longest prefix is one. *)
LEMMA PrefixSound ==
  ASSUME NEW S, NEW es \in Seq(S), NEW good
  PROVE  LongestPrefix(es, good) \in 0 .. Len(es)
<1>1. PICK N \in Nat : N = Len(es)
  OBVIOUS
<1>2. PICK T : T = {n \in 0 .. N : 1 .. n \subseteq good}
  OBVIOUS
<1>3. 0 \in T /\ T \subseteq 0 .. N
  BY <1>2
<1>4. Max(T) \in T
  BY <1>3, GreatestElement
<1> QED BY <1>1, <1>2, <1>3, <1>4 DEF LongestPrefix

(* A sequence number has twelve bits. *)
LEMMA SequenceNumber ==
  ASSUME NEW p \in Nat
  PROVE  Seq4096(p) \in SequenceNumbers
<1>1. PICK n : n = First + p - 1
  OBVIOUS
<1>2. n \in Int
  <2>1. First \in Int
    BY BlockAckAssumption
  <2> QED BY <1>1, <2>1
<1>3. PICK m : m = (n % 4096)
  OBVIOUS
<1>4. m \in 0 .. 4095
  BY <1>2, <1>3
<1>5. m \in SequenceNumbers
  BY <1>4 DEF SequenceNumbers
<1>6. Seq4096(p) = m
  BY <1>1, <1>3 DEF Seq4096
<1> QED BY <1>5, <1>6, Zenon

(* The retry counter does not pass MaxSlrc. *)
LEMMA CounterBounded ==
  ASSUME NEW n \in Nat
  PROVE  Min({n, MaxSlrc}) \in 0 .. MaxSlrc
<1>1. MaxSlrc \in Nat
  BY BlockAckAssumption
<1>2. PICK x : x = Min({n, MaxSlrc})
  OBVIOUS
<1>3. \E m \in {n, MaxSlrc} : \A y \in {n, MaxSlrc} : m <= y
  BY <1>1
<1>4. x \in {n, MaxSlrc} /\ \A y \in {n, MaxSlrc} : x <= y
  BY <1>2, <1>3 DEF Min
<1> QED BY <1>1, <1>2, <1>4

-----------------------------------------------------------------------------
(* The recipient *)

(* Part of a list is a list of the same elements. *)
LEMMA PartSound ==
  ASSUME NEW S, NEW s \in Seq(S), NEW m \in Nat \ {0}, NEW n \in 0 .. Len(s)
  PROVE  SubSeq(s, m, n) \in Seq(S)
OBVIOUS

(* MacRxMiddle hands up packets there are, and keeps the number of one of them. *)
LEMMA HandUpSound ==
  ASSUME accepted \in Nat, RecipientInv, NEW es \in Seq(Entries), HandUp(es)
  PROVE  last' \in SequenceNumbers /\ delivered' \in Seq(Packets)
<1>1. PICK I, fresh :
        /\ fresh = Kept(es, I)
        /\ last' = IF es = << >> THEN last ELSE Seq4096(es[Len(es)].packet)
        /\ delivered' = delivered \o [n \in DOMAIN fresh |-> fresh[n].packet]
  <2> DEFINE before(n) == IF n = 1 THEN last ELSE Seq4096(es[n - 1].packet)
             fresh == Kept(es, {n \in DOMAIN es :
                                  ~(es[n].retry /\ before(n) = Seq4096(es[n].packet))})
  <2>1. /\ last' = IF es = << >> THEN last ELSE Seq4096(es[Len(es)].packet)
        /\ delivered' = delivered \o [n \in DOMAIN fresh |-> fresh[n].packet]
    BY DEF HandUp
  <2> HIDE DEF before
  <2> QED BY <2>1
<1>2. fresh \in Seq(Entries)
  BY <1>1, KeptSound
<1>3. \A e \in Entries : e.packet \in Packets /\ e.packet \in Nat
  BY DEF Entries, Packets
<1>4. PICK more : more = [n \in DOMAIN fresh |-> fresh[n].packet]
  OBVIOUS
<1>5. more \in Seq(Packets)
  <2>1. DOMAIN fresh = 1 .. Len(fresh) /\ Len(fresh) \in Nat
    BY <1>2
  <2>2. \A n \in 1 .. Len(fresh) : fresh[n].packet \in Packets
    BY <1>2, <1>3
  <2>3. more \in [1 .. Len(fresh) -> Packets]
    BY <1>4, <2>1, <2>2
  <2> QED BY <2>1, <2>3
<1>6. delivered \o more \in Seq(Packets)
  BY <1>5, ConcatProperties DEF RecipientInv
<1>7. CASE es = << >>
  BY <1>1, <1>4, <1>6, <1>7 DEF RecipientInv
<1>8. CASE es # << >>
  <2>1. es[Len(es)] \in Entries
    BY <1>8
  <2>2. PICK p \in Nat : p = es[Len(es)].packet
    BY <1>3, <2>1
  <2>3. Seq4096(p) \in SequenceNumbers
    BY SequenceNumber
  <2>4. last' = Seq4096(p)
    BY <1>1, <1>8, <2>2
  <2>5. delivered' = delivered \o more
    BY <1>1, <1>4
  <2> QED BY <1>6, <2>3, <2>4, <2>5
<1> QED BY <1>7, <1>8

(* The reordering buffer keeps packets there are, whichever of them are complete. *)
LEMMA CompleteSound ==
  ASSUME accepted \in Nat, RecipientInv,
         NEW es \in Seq(Entries), NEW s \in SequenceNumbers, NEW from,
         Complete(es, s, from)
  PROVE  /\ rStart' \in SequenceNumbers /\ last' \in SequenceNumbers
         /\ rBuffer' \in Seq(Entries) /\ delivered' \in Seq(Packets)
<1>1. PICK k, rest, n :
        /\ k = Smaller(es, from) /\ rest = Rest(es, k) /\ n = InSequence(rest, s)
        /\ HandUp(OneEach(Prefix(es, k)) \o SubSeq(es, k + 1, k + n))
        /\ rStart' = (s + n) % 4096
        /\ rBuffer' = Rest(es, k + n)
  BY DEF Complete
<1>2. k \in 0 .. Len(es) /\ k \in Nat /\ Len(es) \in Nat
  BY <1>1, PrefixSound DEF Smaller
<1>3. rest \in Seq(Entries) /\ Len(rest) = Len(es) - k
  BY <1>1, <1>2 DEF Rest
<1>4. n \in 0 .. Len(rest)
  BY <1>1, <1>3, PrefixSound DEF InSequence
<1>5. k + n \in 0 .. Len(es) /\ k + n \in Nat /\ n \in Nat
  BY <1>2, <1>3, <1>4
<1>6. rBuffer' \in Seq(Entries)
  <2>1. k + n + 1 \in Nat \ {0} /\ Len(es) \in 0 .. Len(es)
    BY <1>2, <1>5
  <2> QED BY <1>1, <2>1, PartSound DEF Rest
<1>7. OneEach(Prefix(es, k)) \in Seq(Entries)
  <2>1. Prefix(es, k) \in Seq(Entries)
    BY <1>2, PartSound DEF Prefix
  <2> QED BY <2>1, KeptSound DEF OneEach
<1>8. SubSeq(es, k + 1, k + n) \in Seq(Entries)
  <2>1. k + 1 \in Nat \ {0}
    BY <1>2
  <2> QED BY <1>5, <2>1, PartSound
<1>9. OneEach(Prefix(es, k)) \o SubSeq(es, k + 1, k + n) \in Seq(Entries)
  BY <1>7, <1>8, ConcatProperties
<1>10. last' \in SequenceNumbers /\ delivered' \in Seq(Packets)
  <2>1. PICK all : all = OneEach(Prefix(es, k)) \o SubSeq(es, k + 1, k + n)
    OBVIOUS
  <2>2. all \in Seq(Entries) /\ HandUp(all)
    BY <1>1, <1>9, <2>1
  <2> QED BY <2>2, HandUpSound
<1>11. rStart' \in SequenceNumbers
  <2>1. PICK x \in Nat : x = s + n
    BY <1>5 DEF SequenceNumbers
  <2>2. x % 4096 \in SequenceNumbers
    BY SMT DEF SequenceNumbers
  <2> QED BY <1>1, <2>1, <2>2
<1> QED BY <1>6, <1>10, <1>11

(* Storing a packet that arrived leaves a list of packets there are. *)
LEMMA StoreSound ==
  ASSUME RecipientInv, NEW e \in Entries
  PROVE  Store(e) \in Seq(Entries)
<1>1. rBuffer \in Seq(Entries)
  BY DEF RecipientInv
<1>2. PICK good, n : /\ n = LongestPrefix(rBuffer, good)
                     /\ Store(e) = Prefix(rBuffer, n) \o <<e>> \o Rest(rBuffer, n)
  BY DEF Store
<1>3. n \in 0 .. Len(rBuffer) /\ n + 1 \in Nat \ {0} /\ Len(rBuffer) \in 0 .. Len(rBuffer)
  BY <1>1, <1>2, PrefixSound
<1>4. Prefix(rBuffer, n) \in Seq(Entries) /\ Rest(rBuffer, n) \in Seq(Entries)
  BY <1>1, <1>3, PartSound DEF Prefix, Rest
<1>5. <<e>> \in Seq(Entries)
  OBVIOUS
<1>6. Prefix(rBuffer, n) \o <<e>> \in Seq(Entries)
  BY <1>4, <1>5, ConcatProperties
<1> QED BY <1>2, <1>4, <1>6, ConcatProperties

-----------------------------------------------------------------------------
(* The invariant holds at the start *)

(* Nothing is queued, sent or buffered yet. *)
LEMMA InitInv == Init => IInv
<1> SUFFICES ASSUME Init PROVE IInv
  OBVIOUS
<1>1. Packet(current) = {} /\ current.kind = "none" /\ air.kind = "none"
  BY DEF Init, Packet, None, Silence
<1>2. 0 \in SequenceNumbers /\ MaxSlrc \in Nat
  BY BlockAckAssumption DEF SequenceNumbers
<1>3. OriginatorInv
  <2>1. slrc \in 0 .. MaxSlrc /\ taken \in 0 .. accepted
    BY <1>2 DEF Init
  <2>2. acked \cup failed \cup Packet(current) \subseteq 1 .. taken
    BY <1>1 DEF Init
  <2>3. buffer \in Seq(1 .. taken) /\ retries \in Seq(1 .. taken)
    BY DEF Init
  <2> QED BY <1>2, <2>1, <2>2, <2>3 DEF Init, OriginatorInv
<1>4. CurrentInv
  BY <1>2 DEF Init, CurrentInv
<1>5. AirInv
  BY <1>1 DEF AirInv
<1>6. RecipientInv
  <2>1. last \in SequenceNumbers
    BY BlockAckAssumption, SMT DEF Init, SequenceNumbers
  <2> QED BY <1>2, <2>1 DEF Init, RecipientInv
<1>7. ManagerInv
  <2>1. BufferSize \div 2 \in Nat /\ 0 < BufferSize \div 2
    BY BlockAckAssumption
  <2>2. ~BarPending
    BY <1>1 DEF Init, BarPending
  <2>3. ToSet(buffer) = {}
    BY DEF Init, ToSet
  <2>4. Sent = 0 /\ Len(retries) = 0 /\ Len(buffer) = 0 /\ Ordered(buffer)
    BY DEF Init, Sent, Ordered
  <2> QED BY <2>1, <2>2, <2>3, <2>4 DEF Init, ManagerInv
<1> QED BY <1>3, <1>4, <1>5, <1>6, <1>7 DEF IInv

-----------------------------------------------------------------------------
(* What the steps share *)

(* The frame kept is none, a packet, an ADDBA request or a BlockAckReq. *)
LEMMA FrameKept ==
  ASSUME CurrentInv
  PROVE  /\ current.kind \in {"none", "data", "addba", "bar"}
         /\ (current = None) <=> (current.kind = "none")
         /\ current.kind = "data" =>
              current \in [kind : {"data"}, packet : Packets, retry : BOOLEAN, block : {FALSE}]
         /\ current.kind = "addba" =>
              current \in [kind : {"addba"}, start : SequenceNumbers, retry : BOOLEAN]
         /\ current.kind = "bar" => current \in [kind : {"bar"}, start : SequenceNumbers]
         /\ current.kind # "data" => Packet(current) = {}
<1>1. CASE current = None
  BY <1>1 DEF None, Packet
<1>2. CASE current \in [kind : {"data"}, packet : Packets, retry : BOOLEAN, block : {FALSE}]
  <2>1. current.kind = "data"
    BY <1>2
  <2>2. current # None
    BY <2>1 DEF None
  <2> QED BY <1>2, <2>1, <2>2
<1>3. CASE current \in [kind : {"addba"}, start : SequenceNumbers, retry : BOOLEAN]
  <2>1. current.kind = "addba"
    BY <1>3
  <2>2. current # None
    BY <2>1 DEF None
  <2>3. Packet(current) = {}
    BY <2>1 DEF Packet
  <2> QED BY <1>3, <2>1, <2>2, <2>3
<1>4. CASE current \in [kind : {"bar"}, start : SequenceNumbers]
  <2>1. current.kind = "bar"
    BY <1>4
  <2>2. current # None
    BY <2>1 DEF None
  <2>3. Packet(current) = {}
    BY <2>1 DEF Packet
  <2> QED BY <1>4, <2>1, <2>2, <2>3
<1> QED BY <1>1, <1>2, <1>3, <1>4 DEF CurrentInv

(* What the originator's steps leave alone at the recipient stays well formed. *)
LEMMA RecipientKept ==
  ASSUME IInv, UNCHANGED Recipient, accepted' \in Nat, accepted <= accepted'
  PROVE  RecipientInv'
<1>1. Packets \subseteq Packets' /\ Entries \subseteq Entries'
  BY DEF Packets, Entries, IInv, OriginatorInv
<1>2. rBuffer \in Seq(Entries') /\ delivered \in Seq(Packets')
  BY <1>1 DEF IInv, RecipientInv
<1> QED BY <1>2 DEF IInv, RecipientInv, Recipient

(* What the recipient's and the channel's steps leave alone at the originator. *)
LEMMA OriginatorKept ==
  ASSUME IInv, UNCHANGED Originator
  PROVE  OriginatorInv' /\ CurrentInv' /\ ManagerInv'
<1>1. /\ UNCHANGED <<accepted, taken, requested, current, waiting, slrc>>
      /\ UNCHANGED <<agreement, start, sentMpdus, buffer, retries, bars, acked, failed>>
  BY DEF Originator, Queued, Manager
<1>2. UNCHANGED <<Packets, Packet(current), InQueue, BarPending, Ordered(buffer), Sent>>
  BY <1>1 DEF Packets, Packet, InQueue, BarPending, Ordered, Sent
<1>3. OriginatorInv'
  BY <1>1, <1>2 DEF IInv, OriginatorInv
<1>4. CurrentInv'
  BY <1>1, <1>2 DEF IInv, CurrentInv
<1>5. ManagerInv'
  <2>1. (/\ Len(retries) <= Len(buffer)
         /\ \A n \in 1 .. Len(retries) : retries[n] = buffer[Sent + n])'
    BY <1>1, <1>2 DEF IInv, ManagerInv
  <2> QED BY <1>1, <1>2, <2>1 DEF IInv, ManagerInv
<1> QED BY <1>3, <1>4, <1>5

-----------------------------------------------------------------------------
(* The originator's steps that touch no list *)

(* While packets are only queued, everything known of the lists stays so. *)
LEMMA QueueKeeps ==
  ASSUME IInv, Queue
  PROVE  IInv'
<1>1. /\ accepted' = accepted + 1 /\ requested' \in BOOLEAN
      /\ UNCHANGED <<taken, current, waiting, slrc, acked, failed, air>>
      /\ UNCHANGED <<agreement, start, sentMpdus, buffer, retries, bars>>
      /\ UNCHANGED Recipient
  BY DEF Queue, Manager, IInv, OriginatorInv
<1>2. accepted \in Nat /\ accepted' \in Nat /\ taken \in Nat /\ taken <= accepted
  BY <1>1 DEF IInv, OriginatorInv
<1>3. Packets \subseteq Packets' /\ InQueue' = InQueue + 1 /\ InQueue \in Nat
  BY <1>1, <1>2 DEF Packets, InQueue
<1>4. UNCHANGED <<Packet(current), BarPending, Ordered(buffer), Sent>>
  BY <1>1 DEF Packet, BarPending, Ordered, Sent
<1>5. OriginatorInv'
  BY <1>1, <1>2, <1>4 DEF IInv, OriginatorInv
<1>6. CurrentInv'
  <2>1. current \in [kind : {"data"}, packet : Packets, retry : BOOLEAN, block : {FALSE}]
        => current \in [kind : {"data"}, packet : Packets', retry : BOOLEAN, block : {FALSE}]
    BY <1>3
  <2> QED BY <1>1, <2>1 DEF IInv, CurrentInv
<1>7. AirInv'
  <2>1. air \in [kind : {"data"}, packet : Packets, retry : BOOLEAN, block : BOOLEAN]
        => air \in [kind : {"data"}, packet : Packets', retry : BOOLEAN, block : BOOLEAN]
    BY <1>3
  <2> QED BY <1>1, <2>1 DEF IInv, AirInv
<1>8. RecipientInv'
  BY <1>1, <1>2, RecipientKept
<1>9. ManagerInv'
  <2>1. (/\ Len(retries) <= Len(buffer)
         /\ \A n \in 1 .. Len(retries) : retries[n] = buffer[Sent + n])'
    BY <1>1, <1>4 DEF IInv, ManagerInv
  <2>2. InQueue > 0 => InQueue' > 0
    BY <1>3
  <2> QED BY <1>1, <1>4, <2>1, <2>2 DEF IInv, ManagerInv
<1> QED BY <1>5, <1>6, <1>7, <1>8, <1>9 DEF IInv

(* A frame goes on the channel, or the answer to it is given up: what is      *)
(* queued and buffered, and whether a BlockAckReq is pending, do not change.  *)
LEMMA SendingKeeps ==
  ASSUME IInv, UNCHANGED <<Queued, sentMpdus, buffer, retries, acked, failed>>,
         UNCHANGED Recipient, requested' \in BOOLEAN, slrc' \in 0 .. MaxSlrc,
         start' \in SequenceNumbers, CurrentInv', AirInv',
         Packet(current)' \subseteq Packet(current),
         BarPending' <=> BarPending,
         \/ agreement' = agreement
         \/ agreement' = "ESTABLISHED" /\ agreement = "PENDING"
         \/ agreement' = "PENDING" /\ agreement = "none"
  PROVE  IInv'
<1>1. UNCHANGED <<accepted, taken, sentMpdus, buffer, retries, acked, failed>>
  BY DEF Queued
<1>2. OriginatorInv'
  BY <1>1 DEF IInv, OriginatorInv
<1>3. RecipientInv'
  <2>1. accepted' \in Nat /\ accepted <= accepted'
    BY <1>1 DEF IInv, OriginatorInv
  <2> QED BY <2>1, RecipientKept
<1>4. ManagerInv'
  <2>1. /\ UNCHANGED InQueue /\ UNCHANGED Ordered(buffer) /\ UNCHANGED ToSet(buffer)
        /\ UNCHANGED Sent
    BY <1>1 DEF InQueue, Ordered, Sent
  <2>2. (ToSet(buffer) \cap (acked \cup failed \cup Packet(current)) = {})'
    BY <1>1, <2>1 DEF IInv, ManagerInv
  <2>3. agreement' \in {"none", "PENDING"} => agreement \in {"none", "PENDING"}
    OBVIOUS
  <2>4. agreement' # "ESTABLISHED" => agreement # "ESTABLISHED"
    OBVIOUS
  <2>5. (/\ Len(retries) <= Len(buffer)
         /\ \A n \in 1 .. Len(retries) : retries[n] = buffer[Sent + n])'
    BY <1>1, <2>1 DEF IInv, ManagerInv
  <2> QED BY <1>1, <2>1, <2>2, <2>3, <2>4, <2>5 DEF IInv, ManagerInv
<1> QED BY <1>2, <1>3, <1>4 DEF IInv

(* The BlockAckReq due is the frame sent and kept. *)
LEMMA SendBlockAckRequestKeeps ==
  ASSUME IInv, SendBlockAckRequest, UNCHANGED <<acked, failed, wide, Channel, Recipient>>
  PROVE  IInv'
<1>1. /\ bars \in Seq(SequenceNumbers) /\ bars # << >> /\ Len(bars) <= 1
      /\ bars' = Tail(bars)
      /\ current' = Bar(Head(bars)) /\ air' = current' /\ waiting' = "blockack"
  BY DEF SendBlockAckRequest, Transmit, IInv, CurrentInv
<1>2. bars' = << >> /\ Head(bars) \in SequenceNumbers
  BY <1>1
<1>3. current' \in [kind : {"bar"}, start : SequenceNumbers] /\ current'.kind = "bar"
  BY <1>1, <1>2 DEF Bar
<1>4. CurrentInv'
  <2>1. bars' \in Seq(SequenceNumbers) /\ Len(bars') <= 1
    BY <1>2
  <2>2. waiting' \in {"none", "ack", "blockack"} /\ waiting' # "ack"
    BY <1>1
  <2> QED BY <1>2, <1>3, <2>1, <2>2 DEF CurrentInv
<1>5. AirInv'
  BY <1>1, <1>3 DEF AirInv
<1>6. Packet(current)' \subseteq Packet(current)
  BY <1>3 DEF Packet
<1>7. BarPending' /\ BarPending
  BY <1>1, <1>3 DEF BarPending
<1>8. requested' \in BOOLEAN /\ slrc' \in 0 .. MaxSlrc /\ start' \in SequenceNumbers
  BY DEF SendBlockAckRequest, Transmit, IInv, OriginatorInv
<1>9. UNCHANGED <<Queued, agreement, sentMpdus, buffer, retries, acked, failed>>
  BY DEF SendBlockAckRequest
<1> QED BY <1>4, <1>5, <1>6, <1>7, <1>8, <1>9, SendingKeeps

(* A request for an agreement is made when there is none. *)
LEMMA SendAddBaRequestKeeps ==
  ASSUME IInv, SendAddBaRequest, UNCHANGED <<acked, failed, wide, Channel, Recipient>>
  PROVE  IInv'
<1>1. /\ bars = << >> /\ bars' = << >> /\ current = None
      /\ current' = AddBaRequest(Seq4096(taken + 1)) /\ air' = current' /\ waiting' = "ack"
      /\ start' = Seq4096(taken + 1) /\ agreement' = "PENDING" /\ agreement = "none"
  BY DEF SendAddBaRequest, Transmit, Idle, SetupNeeded
<1>2. start' \in SequenceNumbers
  <2>1. PICK p \in Nat : p = taken + 1
    BY DEF IInv, OriginatorInv
  <2> QED BY <1>1, <2>1, SequenceNumber
<1>3. /\ current' \in [kind : {"addba"}, start : SequenceNumbers, retry : BOOLEAN]
      /\ current'.kind = "addba"
  BY <1>1, <1>2 DEF AddBaRequest
<1>4. CurrentInv'
  <2>1. bars' \in Seq(SequenceNumbers) /\ Len(bars') <= 1 /\ bars' = << >>
    BY <1>1
  <2>2. waiting' \in {"none", "ack", "blockack"} /\ waiting' # "blockack"
    BY <1>1
  <2> QED BY <1>3, <2>1, <2>2 DEF CurrentInv
<1>5. AirInv'
  BY <1>1, <1>3 DEF AirInv
<1>6. Packet(current)' \subseteq Packet(current)
  BY <1>3 DEF Packet
<1>7. ~BarPending' /\ ~BarPending
  BY <1>1, <1>3 DEF BarPending, None
<1>8. requested' \in BOOLEAN /\ slrc' \in 0 .. MaxSlrc
  BY DEF SendAddBaRequest, Transmit, IInv, OriginatorInv
<1>9. UNCHANGED <<Queued, sentMpdus, buffer, retries, acked, failed>>
  BY DEF SendAddBaRequest
<1> QED BY <1>1, <1>2, <1>4, <1>5, <1>6, <1>7, <1>8, <1>9, SendingKeeps

(* Nothing was there to be sent. *)
LEMMA NothingAvailableKeeps ==
  ASSUME IInv, NothingAvailable, UNCHANGED <<acked, failed, wide, Channel, Recipient>>
  PROVE  IInv'
<1>1. /\ UNCHANGED <<current, waiting, slrc, air, Queued, acked, failed>>
      /\ UNCHANGED <<agreement, start, sentMpdus, buffer, retries, bars>>
      /\ requested' = FALSE
  BY DEF NothingAvailable, Manager
<1>2. UNCHANGED <<Packets, Packet(current), BarPending>>
  BY <1>1 DEF Packets, Packet, BarPending, Queued
<1>3. CurrentInv'
  BY <1>1, <1>2 DEF IInv, CurrentInv
<1>4. AirInv'
  BY <1>1, <1>2 DEF IInv, AirInv
<1>5. requested' \in BOOLEAN /\ slrc' \in 0 .. MaxSlrc /\ start' \in SequenceNumbers
  BY <1>1 DEF IInv, OriginatorInv
<1> QED BY <1>1, <1>2, <1>3, <1>4, <1>5, SendingKeeps

(* The frame kept is sent once more. *)
LEMMA RepeatKeeps ==
  ASSUME IInv, Repeat, UNCHANGED <<acked, failed, wide, Channel, Recipient>>
  PROVE  IInv'
<1>1. /\ UNCHANGED <<current, slrc, Queued, acked, failed>>
      /\ UNCHANGED <<agreement, start, sentMpdus, buffer, retries, bars>>
      /\ current # None /\ requested' = FALSE /\ air' = current
      /\ waiting' = IF current.kind = "bar" THEN "blockack" ELSE "ack"
  BY DEF Repeat, Transmit, Manager
<1>2. UNCHANGED <<Packets, Packet(current), BarPending>>
  BY <1>1 DEF Packets, Packet, BarPending, Queued
<1>3. CurrentInv /\ bars = << >>
  BY <1>1 DEF IInv, CurrentInv
<1>4. CurrentInv'
  <2>1. current.kind \in {"data", "addba", "bar"}
    BY <1>1, <1>3, FrameKept
  <2> QED BY <1>1, <1>2, <1>3, <2>1 DEF CurrentInv
<1>5. AirInv'
  <2>1. current \in [kind : {"data"}, packet : Packets, retry : BOOLEAN, block : {FALSE}]
        => current \in [kind : {"data"}, packet : Packets, retry : BOOLEAN, block : BOOLEAN]
    OBVIOUS
  <2> QED BY <1>1, <1>2, <1>3, <2>1 DEF CurrentInv, AirInv
<1>6. requested' \in BOOLEAN /\ slrc' \in 0 .. MaxSlrc /\ start' \in SequenceNumbers
  BY <1>1 DEF IInv, OriginatorInv
<1> QED BY <1>1, <1>2, <1>4, <1>5, <1>6, SendingKeeps

(* Asking for access again. *)
LEMMA RestartAccess ==
  ASSUME RestartAccessIfNeeded
  PROVE  requested' \in BOOLEAN
BY DEF RestartAccessIfNeeded

(* The BlockAckReq is kept, to be sent again. *)
LEMMA MissedBlockAckKeeps ==
  ASSUME IInv, MissedBlockAck
  PROVE  IInv'
<1>1. /\ UNCHANGED <<current, air, Queued, acked, failed, Recipient>>
      /\ UNCHANGED <<agreement, start, sentMpdus, buffer, retries, bars>>
      /\ waiting' = "none" /\ slrc' = Min({slrc + 1, MaxSlrc}) /\ RestartAccessIfNeeded
  BY DEF MissedBlockAck, Manager
<1>2. UNCHANGED <<Packets, Packet(current), BarPending>>
  BY <1>1 DEF Packets, Packet, BarPending, Queued
<1>3. CurrentInv'
  BY <1>1, <1>2 DEF IInv, CurrentInv
<1>4. AirInv'
  BY <1>1, <1>2 DEF IInv, AirInv
<1>5. slrc' \in 0 .. MaxSlrc
  <2>1. PICK n \in Nat : n = slrc + 1
    BY DEF IInv, OriginatorInv
  <2> QED BY <1>1, <2>1, CounterBounded
<1>6. requested' \in BOOLEAN /\ start' \in SequenceNumbers
  BY <1>1, RestartAccess DEF IInv, OriginatorInv
<1> QED BY <1>1, <1>2, <1>3, <1>4, <1>5, <1>6, SendingKeeps

(* The agreement asked for is there, with nothing sent under it yet. *)
LEMMA GotAddBaResponseKeeps ==
  ASSUME IInv, GotAddBaResponse
  PROVE  IInv'
<1>1. /\ UNCHANGED <<current, waiting, slrc, air, Queued, acked, failed, Recipient>>
      /\ UNCHANGED <<start, sentMpdus, buffer, retries, bars>>
      /\ agreement' = IF agreement = "PENDING" THEN "ESTABLISHED" ELSE agreement
      /\ RestartAccessIfNeeded
  BY DEF GotAddBaResponse
<1>2. UNCHANGED <<Packets, Packet(current), BarPending>>
  BY <1>1 DEF Packets, Packet, BarPending, Queued
<1>3. CurrentInv'
  BY <1>1, <1>2 DEF IInv, CurrentInv
<1>4. AirInv'
  BY <1>1, <1>2 DEF IInv, AirInv
<1>5. requested' \in BOOLEAN /\ slrc' \in 0 .. MaxSlrc /\ start' \in SequenceNumbers
  BY <1>1, RestartAccess DEF IInv, OriginatorInv
<1> QED BY <1>1, <1>2, <1>3, <1>4, <1>5, SendingKeeps

(* A frame is lost. *)
LEMMA LossKeeps ==
  ASSUME IInv, Lose \/ ResponseLost
  PROVE  IInv'
<1>1. UNCHANGED Originator /\ UNCHANGED Recipient /\ (air' = air \/ air' = Silence)
  BY DEF Lose, ResponseLost
<1>2. OriginatorInv' /\ CurrentInv' /\ ManagerInv'
  BY <1>1, OriginatorKept
<1>3. UNCHANGED accepted
  BY <1>1 DEF Originator, Queued
<1>4. RecipientInv'
  BY <1>1, <1>3, RecipientKept DEF IInv, OriginatorInv
<1>5. AirInv'
  <2>1. CASE air' = Silence
    BY <2>1 DEF AirInv, Silence
  <2>2. CASE air' = air
    BY <1>3, <2>2 DEF IInv, AirInv, Packets
  <2> QED BY <1>1, <2>1, <2>2
<1> QED BY <1>2, <1>4, <1>5 DEF IInv

-----------------------------------------------------------------------------
(* The answers to a frame kept *)

(* With its acknowledgement the packet kept is done with, and was not buffered. *)
LEMMA GotAckKeeps ==
  ASSUME IInv, GotAck
  PROVE  IInv'
<1>1. /\ UNCHANGED <<accepted, taken, failed, Recipient>>
      /\ UNCHANGED <<agreement, start, sentMpdus, buffer, retries, bars>>
      /\ waiting = "ack" /\ waiting' = "none" /\ current' = None /\ air' = Silence
      /\ slrc' = 0 /\ acked' = acked \cup Packet(current) /\ RestartAccessIfNeeded
  BY DEF GotAck, Manager, Queued
<1>2. Packet(current)' = {} /\ ~BarPending' /\ ~BarPending
  <2>1. current.kind \in {"data", "addba"} /\ current # None
    BY <1>1 DEF IInv, CurrentInv, None
  <2>2. bars = << >>
    BY <2>1 DEF IInv, CurrentInv
  <2> QED BY <1>1, <2>1, <2>2 DEF Packet, BarPending, None
<1>3. OriginatorInv'
  <2>1. slrc' \in 0 .. MaxSlrc
    BY <1>1, BlockAckAssumption
  <2>2. requested' \in BOOLEAN
    BY <1>1, RestartAccess
  <2> QED BY <1>1, <1>2, <2>1, <2>2 DEF IInv, OriginatorInv
<1>4. CurrentInv'
  BY <1>1 DEF IInv, CurrentInv
<1>5. AirInv'
  BY <1>1 DEF AirInv, Silence
<1>6. RecipientInv'
  BY <1>1, RecipientKept DEF IInv, OriginatorInv
<1>7. ManagerInv'
  <2>1. /\ UNCHANGED InQueue /\ UNCHANGED Ordered(buffer) /\ UNCHANGED ToSet(buffer)
        /\ UNCHANGED Sent
    BY <1>1 DEF InQueue, Ordered, Sent
  <2>2. (ToSet(buffer) \cap (acked \cup failed \cup Packet(current)) = {})'
    BY <1>1, <1>2, <2>1 DEF IInv, ManagerInv
  <2>3. (/\ Len(retries) <= Len(buffer)
         /\ \A n \in 1 .. Len(retries) : retries[n] = buffer[Sent + n])'
    BY <1>1, <2>1 DEF IInv, ManagerInv
  <2> QED BY <1>1, <1>2, <2>1, <2>2, <2>3 DEF IInv, ManagerInv
<1> QED BY <1>3, <1>4, <1>5, <1>6, <1>7 DEF IInv

(* Without it the frame is kept, or given up after its last retry. *)
LEMMA MissedAckKeeps ==
  ASSUME IInv, MissedAck
  PROVE  IInv'
<1>1. /\ UNCHANGED <<accepted, taken, acked, air, Recipient>>
      /\ UNCHANGED <<agreement, start, sentMpdus, buffer, retries, bars>>
      /\ waiting = "ack" /\ waiting' = "none" /\ RestartAccessIfNeeded
  BY DEF MissedAck, Manager, Queued
<1>2. \/ slrc' = slrc + 1 /\ slrc + 1 < MaxSlrc /\ failed' = failed
         /\ current' = [current EXCEPT !.retry = TRUE]
      \/ slrc' = 0 /\ current' = None /\ failed' = failed \cup Packet(current)
  BY DEF MissedAck
<1>3. current.kind \in {"data", "addba"} /\ current # None
  BY <1>1 DEF IInv, CurrentInv, None
<1>4. bars = << >>
  BY <1>3 DEF IInv, CurrentInv
<1>5. UNCHANGED <<Packets, InQueue, Ordered(buffer), ToSet(buffer)>>
  BY <1>1 DEF InQueue, Ordered, Packets
<1>6. /\ \/ current' = None
         \/ current' \in [kind : {"data"}, packet : Packets, retry : BOOLEAN, block : {FALSE}]
         \/ current' \in [kind : {"addba"}, start : SequenceNumbers, retry : BOOLEAN]
      /\ failed' \cup Packet(current)' \subseteq failed \cup Packet(current)
      /\ current'.kind # "bar"
  <2>1. CASE current' = None
    <3>1. Packet(current)' = {} /\ current'.kind = "none"
      BY <2>1 DEF Packet, None
    <3> QED BY <1>2, <2>1, <3>1
  <2>2. CASE current' # None /\ current.kind = "data"
    <3>1. current \in [kind : {"data"}, packet : Packets, retry : BOOLEAN, block : {FALSE}]
      BY <2>2, FrameKept DEF IInv
    <3>2. current' = [current EXCEPT !.retry = TRUE] /\ failed' = failed
      BY <1>2, <2>2
    <3>3. /\ current' \in [kind : {"data"}, packet : Packets, retry : BOOLEAN, block : {FALSE}]
          /\ current'.kind = "data" /\ current'.packet = current.packet
      BY <3>1, <3>2
    <3>4. Packet(current)' = Packet(current)
      BY <2>2, <3>3 DEF Packet
    <3> QED BY <3>2, <3>3, <3>4
  <2>3. CASE current' # None /\ current.kind = "addba"
    <3>1. current \in [kind : {"addba"}, start : SequenceNumbers, retry : BOOLEAN]
      BY <2>3, FrameKept DEF IInv
    <3>2. current' = [current EXCEPT !.retry = TRUE] /\ failed' = failed
      BY <1>2, <2>3
    <3>3. /\ current' \in [kind : {"addba"}, start : SequenceNumbers, retry : BOOLEAN]
          /\ current'.kind = "addba"
      BY <3>1, <3>2
    <3>4. Packet(current)' = {}
      BY <3>3 DEF Packet
    <3> QED BY <3>2, <3>3, <3>4
  <2> QED BY <1>3, <2>1, <2>2, <2>3
<1>7. ~BarPending' /\ ~BarPending
  BY <1>1, <1>3, <1>4, <1>6 DEF BarPending
<1>8. OriginatorInv'
  <2>1. slrc' \in 0 .. MaxSlrc
    <3>1. slrc \in Nat /\ MaxSlrc \in Nat
      BY BlockAckAssumption DEF IInv, OriginatorInv
    <3> QED BY <1>2, <3>1
  <2>2. requested' \in BOOLEAN
    BY <1>1, RestartAccess
  <2>3. (acked \cup failed \cup Packet(current) \subseteq 1 .. taken)'
    BY <1>1, <1>6 DEF IInv, OriginatorInv
  <2> QED BY <1>1, <2>1, <2>2, <2>3 DEF IInv, OriginatorInv
<1>9. CurrentInv'
  <2>1. bars' \in Seq(SequenceNumbers) /\ Len(bars') <= 1 /\ bars' = << >>
    BY <1>1, <1>4
  <2> QED BY <1>1, <1>5, <1>6, <2>1 DEF CurrentInv
<1>10. AirInv'
  BY <1>1, <1>5 DEF IInv, AirInv
<1>11. RecipientInv'
  BY <1>1, RecipientKept DEF IInv, OriginatorInv
<1>12. ManagerInv'
  <2>1. (ToSet(buffer) \cap (acked \cup failed \cup Packet(current)) = {})'
    BY <1>1, <1>5, <1>6 DEF IInv, ManagerInv
  <2>2. UNCHANGED Sent
    BY <1>1 DEF Sent
  <2>3. (/\ Len(retries) <= Len(buffer)
         /\ \A n \in 1 .. Len(retries) : retries[n] = buffer[Sent + n])'
    BY <1>1, <2>2 DEF IInv, ManagerInv
  <2> QED BY <1>1, <1>5, <1>7, <2>1, <2>2, <2>3 DEF IInv, ManagerInv
<1> QED BY <1>8, <1>9, <1>10, <1>11, <1>12 DEF IInv

-----------------------------------------------------------------------------
(* The recipient's steps *)

(* A packet received is handed up or buffered, and was a packet there is. *)
LEMMA ReceiveDataKeeps ==
  ASSUME IInv, ReceiveData
  PROVE  IInv'
<1>1. /\ UNCHANGED Originator /\ air.kind = "data" /\ (air' = Silence \/ air' = Ack)
      /\ \/ HandUp(<<Entry(air)>>) /\ UNCHANGED <<rStart, rBuffer>>
         \/ Complete(Store(Entry(air)), rStart, rStart)
         \/ rBuffer' = Store(Entry(air)) /\ UNCHANGED <<rStart, last, delivered>>
  BY DEF ReceiveData
<1>2. OriginatorInv' /\ CurrentInv' /\ ManagerInv'
  BY <1>1, OriginatorKept
<1>3. AirInv'
  BY <1>1 DEF AirInv, Silence, Ack
<1>4. /\ UNCHANGED <<accepted, Packets, Entries>> /\ accepted \in Nat /\ RecipientInv
      /\ rStart \in SequenceNumbers
  BY <1>1 DEF Originator, Queued, Packets, Entries, IInv, OriginatorInv, RecipientInv
<1>5. Entry(air) \in Entries
  <2>1. air \in [kind : {"data"}, packet : Packets, retry : BOOLEAN, block : BOOLEAN]
    BY <1>1 DEF IInv, AirInv
  <2> QED BY <2>1 DEF Entry, Entries
<1>6. PICK e : e = Entry(air) /\ e \in Entries
  BY <1>5
<1>7. <<e>> \in Seq(Entries) /\ Store(e) \in Seq(Entries)
  BY <1>4, <1>6, StoreSound
<1>8. /\ rStart' \in SequenceNumbers /\ last' \in SequenceNumbers
      /\ rBuffer' \in Seq(Entries) /\ delivered' \in Seq(Packets)
  <2>1. CASE HandUp(<<Entry(air)>>) /\ UNCHANGED <<rStart, rBuffer>>
    <3>1. HandUp(<<e>>)
      BY <1>6, <2>1
    <3>2. last' \in SequenceNumbers /\ delivered' \in Seq(Packets)
      BY <1>4, <1>7, <3>1, HandUpSound
    <3> QED BY <1>4, <2>1, <3>2 DEF RecipientInv
  <2>2. CASE Complete(Store(Entry(air)), rStart, rStart)
    <3>1. PICK es : es = Store(e)
      OBVIOUS
    <3>2. es \in Seq(Entries) /\ Complete(es, rStart, rStart)
      BY <1>6, <1>7, <2>2, <3>1
    <3> QED BY <1>4, <3>2, CompleteSound
  <2>3. CASE rBuffer' = Store(Entry(air)) /\ UNCHANGED <<rStart, last, delivered>>
    BY <1>4, <1>6, <1>7, <2>3 DEF RecipientInv
  <2> QED BY <1>1, <2>1, <2>2, <2>3
<1>9. RecipientInv'
  BY <1>4, <1>8 DEF RecipientInv
<1> QED BY <1>2, <1>3, <1>9 DEF IInv

(* A request for an agreement gives the reordering buffer its start. *)
LEMMA ReceiveAddBaRequestKeeps ==
  ASSUME IInv, ReceiveAddBaRequest
  PROVE  IInv'
<1>1. /\ UNCHANGED Originator /\ air.kind = "addba" /\ air' = Ack
      /\ rStart' = IF agreed THEN rStart ELSE air.start
      /\ UNCHANGED <<rBuffer, last, delivered>>
  BY DEF ReceiveAddBaRequest
<1>2. OriginatorInv' /\ CurrentInv' /\ ManagerInv'
  BY <1>1, OriginatorKept
<1>3. AirInv'
  BY <1>1 DEF AirInv, Ack
<1>4. air.start \in SequenceNumbers
  <2>1. air \in [kind : {"addba"}, start : SequenceNumbers, retry : BOOLEAN]
    BY <1>1 DEF IInv, AirInv
  <2> QED BY <2>1
<1>5. UNCHANGED <<accepted, Packets, Entries>> /\ RecipientInv
  BY <1>1 DEF Originator, Queued, Packets, Entries, IInv
<1>6. RecipientInv'
  BY <1>1, <1>4, <1>5 DEF RecipientInv
<1> QED BY <1>2, <1>3, <1>6 DEF IInv

(* A BlockAckReq completes packets of the buffer, and is answered. *)
LEMMA SendBlockAckKeeps ==
  ASSUME IInv, SendBlockAckAfterBlockAckRequest
  PROVE  IInv'
<1>1. PICK bitmap :
        /\ UNCHANGED Originator /\ air.kind = "bar"
        /\ Complete(rBuffer, air.start, air.start)
        /\ air' = [kind |-> "blockack", start |-> air.start, bitmap |-> bitmap]
  BY DEF SendBlockAckAfterBlockAckRequest
<1>2. OriginatorInv' /\ CurrentInv' /\ ManagerInv'
  BY <1>1, OriginatorKept
<1>3. AirInv'
  BY <1>1 DEF AirInv
<1>4. air.start \in SequenceNumbers
  <2>1. air \in [kind : {"bar"}, start : SequenceNumbers]
    BY <1>1 DEF IInv, AirInv
  <2> QED BY <2>1
<1>5. UNCHANGED <<accepted, Packets, Entries>> /\ RecipientInv /\ accepted \in Nat
  BY <1>1 DEF Originator, Queued, Packets, Entries, IInv, OriginatorInv
<1>6. PICK s : s = air.start /\ s \in SequenceNumbers /\ Complete(rBuffer, s, s)
  BY <1>1, <1>4
<1>7. /\ rStart' \in SequenceNumbers /\ last' \in SequenceNumbers
      /\ rBuffer' \in Seq(Entries) /\ delivered' \in Seq(Packets)
  <2>1. rBuffer \in Seq(Entries)
    BY <1>5 DEF RecipientInv
  <2> QED BY <1>5, <1>6, <2>1, CompleteSound
<1>8. RecipientInv'
  BY <1>5, <1>7 DEF RecipientInv
<1> QED BY <1>2, <1>3, <1>8 DEF IInv

-----------------------------------------------------------------------------
(* The lists of the manager *)

(* The elements of a list are those at its positions. *)
LEMMA Elements ==
  ASSUME NEW S, NEW s \in Seq(S)
  PROVE  /\ ToSet(s) \subseteq S
         /\ \A x \in ToSet(s) : \E n \in 1 .. Len(s) : x = s[n]
         /\ \A n \in 1 .. Len(s) : s[n] \in ToSet(s)
BY DEF ToSet

(* A new packet goes behind all those the agreement holds. *)
LEMMA AppendOrdered ==
  ASSUME NEW t \in Nat, NEW b \in Seq(1 .. t), Ordered(b)
  PROVE  /\ Append(b, t + 1) \in Seq(1 .. t + 1) /\ Ordered(Append(b, t + 1))
         /\ Len(Append(b, t + 1)) = Len(b) + 1
         /\ ToSet(Append(b, t + 1)) \subseteq ToSet(b) \cup {t + 1}
<1>1. PICK L \in Nat : L = Len(b)
  OBVIOUS
<1>2. \A n \in 1 .. L : b[n] \in 1 .. t
  BY <1>1
<1>3. PICK u : u = Append(b, t + 1)
  OBVIOUS
<1>4. b \in Seq(Nat)
  BY <1>2
<1>5. /\ Len(u) = L + 1 /\ u[L + 1] = t + 1 /\ \A n \in 1 .. L : u[n] = b[n]
      /\ u \in Seq(Nat)
  BY <1>1, <1>3, <1>4
<1>6. \A n \in 1 .. L + 1 : u[n] \in 1 .. t + 1
  BY <1>2, <1>5
<1>7. u \in Seq(1 .. t + 1)
  BY <1>5, <1>6
<1>8. Ordered(u)
  <2> SUFFICES ASSUME NEW i \in 1 .. L + 1, NEW j \in 1 .. L + 1, i < j
               PROVE  u[i] < u[j]
    BY <1>5 DEF Ordered
  <2>1. i \in 1 .. L
    OBVIOUS
  <2>2. CASE j = L + 1
    <3>1. PICK x \in 1 .. t : u[i] = x
      BY <1>2, <1>5, <2>1
    <3>2. u[j] = t + 1
      BY <1>5, <2>2
    <3> QED BY <3>1, <3>2
  <2>3. CASE j \in 1 .. L
    BY <1>1, <1>5, <2>1, <2>3 DEF Ordered
  <2> QED BY <2>2, <2>3
<1>9. ToSet(u) \subseteq ToSet(b) \cup {t + 1}
  <2> SUFFICES ASSUME NEW x \in ToSet(u) PROVE x \in ToSet(b) \cup {t + 1}
    OBVIOUS
  <2>1. PICK n \in 1 .. L + 1 : x = u[n]
    BY <1>5, Elements
  <2>2. CASE n = L + 1
    BY <1>5, <2>1, <2>2
  <2>3. CASE n \in 1 .. L
    BY <1>1, <1>5, <2>1, <2>3, Elements
  <2> QED BY <2>2, <2>3
<1> QED BY <1>1, <1>3, <1>5, <1>7, <1>8, <1>9

(* Without its first element a list is the rest of it. *)
LEMMA TailSound ==
  ASSUME NEW S, NEW s \in Seq(S), s # << >>
  PROVE  /\ Tail(s) \in Seq(S) /\ Len(Tail(s)) = Len(s) - 1 /\ Len(s) \in Nat \ {0}
         /\ \A n \in 1 .. Len(s) - 1 : Tail(s)[n] = s[n + 1]
         /\ Head(s) = s[1] /\ s[1] \in S
OBVIOUS

(* In an ordered list the first element is found, and erased, first. *)
LEMMA ErasedFirst ==
  ASSUME NEW b \in Seq(Nat), Ordered(b), b # << >>
  PROVE  ErasedFrom(b, b[1]) = Tail(b)
<1>1. PICK L \in Nat : L = Len(b) /\ L # 0
  OBVIOUS
<1>2. \A n \in 1 .. L : b[n] = b[1] => n = 1
  <2> SUFFICES ASSUME NEW n \in 1 .. L, n # 1 PROVE b[n] # b[1]
    OBVIOUS
  <2>1. 1 \in 1 .. L /\ 1 < n
    BY <1>1
  <2>2. b[1] < b[n] /\ b[1] \in Nat /\ b[n] \in Nat
    BY <1>1, <2>1 DEF Ordered
  <2> QED BY <2>2
<1>3. PICK k : k = CHOOSE n \in DOMAIN b : b[n] = b[1]
  OBVIOUS
<1>4. DOMAIN b = 1 .. L /\ 1 \in DOMAIN b
  BY <1>1
<1>5. k = 1
  BY <1>2, <1>3, <1>4
<1>6. ErasedFrom(b, b[1]) = SubSeq(b, 1, 1 - 1) \o SubSeq(b, 1 + 1, Len(b))
  BY <1>3, <1>5 DEF ErasedFrom, RemoveAt
<1>7. SubSeq(b, 1, 0) = << >> /\ SubSeq(b, 2, L) = Tail(b) /\ Tail(b) \in Seq(Nat)
  BY <1>1
<1>8. << >> \o Tail(b) = Tail(b)
  BY <1>7, ConcatEmptySeq
<1> QED BY <1>1, <1>6, <1>7, <1>8

-----------------------------------------------------------------------------
(* Sending under the agreement *)

(* How the packet p sent under block ack, for the first time or again, leaves *)
(* the lists: a packet of the retry list is the first of those of the buffer  *)
(* that have not been sent since the last block ack, and a new one is behind  *)
(* all of them.                                                               *)
Handed(p, again) ==
    \/ /\ again /\ retries # << >> /\ p = Head(retries) /\ retries' = Tail(retries)
       /\ taken' = taken
    \/ /\ ~again /\ retries = << >> /\ retries' = << >> /\ p = taken + 1
       /\ taken' = taken + 1 /\ taken < accepted

(* No frame is kept and no BlockAckReq due. *)
Free == current = None /\ bars = << >>

(* The packets to be sent again are the last of the buffer. *)
LEMMA RetriesLast ==
  ASSUME IInv
  PROVE  /\ Sent \in Nat /\ Len(buffer) = Sent + Len(retries)
         /\ Len(buffer) \in Nat /\ Len(retries) \in Nat
         /\ \A n \in 1 .. Len(retries) : retries[n] = buffer[Sent + n]
<1>1. Len(buffer) \in Nat /\ Len(retries) \in Nat
  <2>1. buffer \in Seq(1 .. taken) /\ retries \in Seq(1 .. taken)
    BY DEF IInv, OriginatorInv
  <2> QED BY <2>1, LenProperties
<1>2. /\ Len(retries) <= Len(buffer) /\ Sent = Len(buffer) - Len(retries)
      /\ \A n \in 1 .. Len(retries) : retries[n] = buffer[Sent + n]
  BY DEF IInv, ManagerInv, Sent
<1>3. Sent \in Nat /\ Len(buffer) = Sent + Len(retries)
  BY <1>1, <1>2
<1> QED BY <1>1, <1>2, <1>3

(* What the manager's lists are while no BlockAckReq is pending. *)
LEMMA NotPending ==
  ASSUME IInv, Free
  PROVE  /\ ~BarPending /\ Sent \in Nat /\ Len(buffer) = Sent + Len(retries)
         /\ \A n \in 1 .. Len(retries) : retries[n] = buffer[Sent + n]
<1>1. ~BarPending
  BY DEF Free, BarPending, None
<1> QED BY <1>1, RetriesLast

(* The packets of the retry list are packets of the buffer. *)
LEMMA RetriesBuffered ==
  ASSUME IInv, Free, retries # << >>
  PROVE  /\ Head(retries) \in ToSet(buffer) /\ Head(retries) \in 1 .. taken
         /\ Head(retries) = buffer[Sent + 1]
         /\ buffer # << >>
<1>1. /\ retries \in Seq(1 .. taken) /\ buffer \in Seq(1 .. taken) /\ Sent \in Nat
      /\ Len(buffer) = Sent + Len(retries)
      /\ \A n \in 1 .. Len(retries) : retries[n] = buffer[Sent + n]
  BY NotPending DEF IInv, OriginatorInv
<1>2. /\ Len(retries) \in Nat \ {0} /\ Len(buffer) \in Nat
      /\ Head(retries) = retries[1] /\ retries[1] \in 1 .. taken
  <2>1. PICK s, b : s = retries /\ b = buffer
    OBVIOUS
  <2>2. s \in Seq(1 .. taken) /\ s # << >> /\ b \in Seq(1 .. taken)
    BY <1>1, <2>1
  <2>3. Len(s) \in Nat \ {0} /\ Head(s) = s[1] /\ s[1] \in 1 .. taken
    BY <2>2, TailSound, Zenon
  <2>4. Len(b) \in Nat
    BY <2>2, LenProperties, Zenon
  <2> QED BY <2>1, <2>3, <2>4
<1>3. 1 \in 1 .. Len(retries) /\ Sent + 1 \in 1 .. Len(buffer) /\ Len(buffer) # 0
  BY <1>1, <1>2
<1>4. buffer[Sent + 1] \in ToSet(buffer)
  BY <1>1, <1>3, Elements
<1> QED BY <1>1, <1>2, <1>3, <1>4

(* A packet sent under block ack stays in the buffer until it is reported on. *)
LEMMA CompleteTxKeeps ==
  ASSUME IInv, NEW p, NEW again \in BOOLEAN, CompleteTx(p, again), Handed(p, again),
         Free, agreement' = "ESTABLISHED",
         start' \in SequenceNumbers,
         UNCHANGED <<accepted, slrc, acked, failed>>, UNCHANGED Recipient
  PROVE  IInv'
<1>1. /\ accepted \in Nat /\ taken \in Nat /\ taken <= accepted /\ sentMpdus \in Nat
      /\ buffer \in Seq(1 .. taken) /\ retries \in Seq(1 .. taken) /\ Ordered(buffer)
      /\ sentMpdus < BufferSize \div 2
      /\ Len(buffer) \in Nat /\ Len(retries) \in Nat
  BY DEF IInv, OriginatorInv, ManagerInv
<1>2. BufferSize \div 2 \in Nat
  BY BlockAckAssumption
<1>3. /\ buffer' = IF again THEN buffer ELSE Append(buffer, p)
      /\ sentMpdus' = IF BarNeeded THEN 0 ELSE SentMpdus
      /\ bars' = IF BarNeeded THEN <<start'>> ELSE << >>
      /\ current' = None /\ waiting' = "none"
      /\ air' = BlockData(p, again)
  BY DEF CompleteTx, Free
<1>4. /\ Sent \in Nat /\ Len(buffer) = Sent + Len(retries)
      /\ \A n \in 1 .. Len(retries) : retries[n] = buffer[Sent + n]
  BY NotPending
<1>5. Packet(current)' = {} /\ (BarPending' <=> bars' # << >>)
  BY <1>3 DEF Packet, BarPending, None
<1>6. /\ taken' \in Nat /\ taken <= taken' /\ taken' <= accepted /\ p \in 1 .. taken'
      /\ buffer' \in Seq(1 .. taken') /\ retries' \in Seq(1 .. taken') /\ Ordered(buffer)'
      /\ ToSet(buffer)' \cap (acked \cup failed) = {}
      /\ Len(buffer') = Sent + 1 + Len(retries') /\ Len(retries') \in Nat
      /\ \A n \in 1 .. Len(retries') : retries'[n] = buffer'[Sent + 1 + n]
  <2>1. CASE /\ again /\ retries # << >> /\ p = Head(retries) /\ retries' = Tail(retries)
             /\ taken' = taken
    <3>1. /\ Tail(retries) \in Seq(1 .. taken) /\ Len(Tail(retries)) = Len(retries) - 1
          /\ \A n \in 1 .. Len(retries) - 1 : Tail(retries)[n] = retries[n + 1]
          /\ Len(retries) \in Nat \ {0}
      BY <1>1, <2>1, TailSound
    <3>2. p \in 1 .. taken
      BY <2>1, RetriesBuffered
    <3>3. buffer' = buffer /\ retries' = Tail(retries)
      BY <1>3, <2>1
    <3>4. UNCHANGED Ordered(buffer) /\ UNCHANGED ToSet(buffer)
      BY <3>3 DEF Ordered
    <3>5. ToSet(buffer) \cap (acked \cup failed) = {}
      BY DEF IInv, ManagerInv
    <3>6. \A n \in 1 .. Len(retries) - 1 : retries[n + 1] = buffer[Sent + 1 + n]
      <4> TAKE n \in 1 .. Len(retries) - 1
      <4>1. n + 1 \in 1 .. Len(retries) /\ Sent + (n + 1) = Sent + 1 + n
        BY <1>1, <1>4
      <4> QED BY <1>4, <4>1
    <3>7. Len(buffer') = Sent + 1 + Len(retries') /\ Len(retries') = Len(retries) - 1
      <4>1. PICK a, n, l : a = Len(buffer) /\ n = Sent /\ l = Len(retries)
        OBVIOUS
      <4>2. n \in Nat /\ l \in Nat /\ a = n + 1 + (l - 1)
        BY <1>1, <1>4, <4>1
      <4>3. Len(retries') = l - 1 /\ Len(buffer') = a
        BY <3>1, <3>3, <4>1
      <4> QED BY <4>1, <4>2, <4>3, Zenon
    <3>8. \A n \in 1 .. Len(retries') : retries'[n] = buffer'[Sent + 1 + n]
      BY <3>1, <3>3, <3>6, <3>7
    <3>9. /\ taken' \in Nat /\ taken <= taken' /\ taken' <= accepted /\ p \in 1 .. taken'
          /\ Len(retries') \in Nat
      BY <1>1, <2>1, <3>1, <3>2, <3>3
    <3>10. buffer' \in Seq(1 .. taken') /\ retries' \in Seq(1 .. taken')
      BY <1>1, <2>1, <3>1, <3>3
    <3>11. /\ Ordered(buffer)' /\ ToSet(buffer)' \cap (acked \cup failed) = {}
      BY <1>1, <3>3, <3>4, <3>5
    <3> QED BY <3>7, <3>8, <3>9, <3>10, <3>11
  <2>2. CASE /\ ~again /\ retries = << >> /\ retries' = << >> /\ p = taken + 1
             /\ taken' = taken + 1 /\ taken < accepted
    <3>1. buffer' = Append(buffer, taken + 1)
      BY <1>3, <2>2
    <3>2. /\ buffer' \in Seq(1 .. taken') /\ Ordered(buffer)' /\ Len(buffer') = Len(buffer) + 1
          /\ ToSet(buffer)' \subseteq ToSet(buffer) \cup {taken + 1}
      <4>1. PICK b, t : b = buffer /\ t = taken
        OBVIOUS
      <4>2. t \in Nat /\ b \in Seq(1 .. t) /\ Ordered(b)
        BY <1>1, <4>1
      <4>3. PICK u : u = Append(b, t + 1)
        OBVIOUS
      <4>4. /\ u \in Seq(1 .. t + 1) /\ Ordered(u) /\ Len(u) = Len(b) + 1
            /\ ToSet(u) \subseteq ToSet(b) \cup {t + 1}
        BY <4>2, <4>3, AppendOrdered
      <4>5. buffer' = u /\ taken' = t + 1
        BY <2>2, <3>1, <4>1, <4>3
      <4>6. (Ordered(buffer))' /\ ToSet(buffer)' = ToSet(u)
        BY <4>4, <4>5 DEF Ordered
      <4> QED BY <4>1, <4>4, <4>5, <4>6
    <3>3. ToSet(buffer)' \cap (acked \cup failed) = {}
      <4>1. ToSet(buffer) \cap (acked \cup failed) = {} /\ acked \cup failed \subseteq 1 .. taken
        BY DEF IInv, ManagerInv, OriginatorInv
      <4>2. taken + 1 \notin 1 .. taken
        BY <1>1
      <4> QED BY <3>2, <4>1, <4>2
    <3>4. Len(retries') = 0 /\ Len(retries) = 0 /\ retries' \in Seq(1 .. taken')
      BY <2>2
    <3> QED BY <1>1, <1>2, <1>4, <2>2, <3>2, <3>3, <3>4
  <2> QED BY <2>1, <2>2 DEF Handed
<1>7. InQueue' = accepted - taken' /\ InQueue' \in Nat
  <2>1. accepted' = accepted /\ accepted \in Nat /\ taken' \in Nat /\ taken' <= accepted
    BY <1>1, <1>6
  <2>2. \A a, b \in Nat : b <= a => a - b \in Nat
    OBVIOUS
  <2>3. accepted - taken' \in Nat
    BY <2>1, <2>2, Zenon
  <2> QED BY <2>1, <2>3, Zenon DEF InQueue
<1>8. /\ sentMpdus' \in Nat /\ sentMpdus' < BufferSize \div 2
      /\ \/ bars' = << >> /\ (retries' # << >> \/ InQueue' > 0)
         \/ bars' = <<start'>> /\ retries' = << >>
  <2>1. SentMpdus \in Nat /\ SentMpdus < BufferSize \div 2
    <3>1. PICK m, c, h : m = sentMpdus + 1 /\ c = CounterSpace /\ h = BufferSize \div 2
      OBVIOUS
    <3>2. m \in Nat /\ c \in Nat \ {0} /\ h \in Nat /\ c <= h
      BY <1>1, <1>2, <3>1, BlockAckAssumption
    <3>3. m % c \in Nat /\ m % c < h
      BY <3>2
    <3> QED BY <3>1, <3>3 DEF SentMpdus
  <2>2. CASE BarNeeded
    <3>1. bars' = <<start'>> /\ sentMpdus' = 0
      BY <1>3, <2>2
    <3>2. 0 \in Nat /\ 0 < BufferSize \div 2
      BY <1>1, <1>2
    <3>3. retries' = << >>
      BY <2>1, <2>2 DEF BarNeeded
    <3> QED BY <3>1, <3>2, <3>3
  <2>3. CASE ~BarNeeded
    <3>1. SentMpdus # BufferSize \div 2 /\ (retries' # << >> \/ InQueue' # 0)
      BY <2>3 DEF BarNeeded
    <3>2. bars' = << >> /\ sentMpdus' = SentMpdus
      BY <1>3, <2>3
    <3>3. retries' # << >> \/ InQueue' > 0
      BY <1>7, <3>1
    <3> QED BY <2>1, <3>2, <3>3
  <2> QED BY <2>2, <2>3
<1>9. OriginatorInv'
  <2>1. (acked \cup failed \cup Packet(current) \subseteq 1 .. taken)'
    <3>1. acked \cup failed \subseteq 1 .. taken
      BY DEF IInv, OriginatorInv
    <3> QED BY <1>1, <1>5, <1>6, <3>1
  <2>2. sentMpdus' \in Nat
    BY <1>8
  <2>3. requested' \in BOOLEAN
    BY DEF CompleteTx, NeedsAccess
  <2>4. accepted' \in Nat /\ (taken \in 0 .. accepted)' /\ slrc' \in 0 .. MaxSlrc
    BY <1>1, <1>6 DEF IInv, OriginatorInv
  <2> QED BY <1>6, <2>1, <2>2, <2>3, <2>4 DEF OriginatorInv
<1>10. CurrentInv'
  <2>1. bars' \in Seq(SequenceNumbers) /\ Len(bars') <= 1
    <3>1. PICK s \in SequenceNumbers : s = start'
      OBVIOUS
    <3>2. bars' = << >> \/ bars' = <<s>>
      BY <1>8, <3>1
    <3>3. << >> \in Seq(SequenceNumbers) /\ <<s>> \in Seq(SequenceNumbers)
      OBVIOUS
    <3>4. Len(<< >>) <= 1 /\ Len(<<s>>) <= 1
      OBVIOUS
    <3> QED BY <3>2, <3>3, <3>4, Zenon
  <2> QED BY <1>3, <2>1 DEF CurrentInv
<1>11. AirInv'
  <2>1. Packets' = 1 .. accepted /\ p \in Packets'
    BY <1>1, <1>6 DEF Packets
  <2>2. air' \in [kind : {"data"}, packet : Packets', retry : BOOLEAN, block : BOOLEAN]
    BY <1>3, <2>1 DEF BlockData
  <2> QED BY <2>2 DEF AirInv
<1>12. RecipientInv'
  BY <1>1, RecipientKept
<1>13. ManagerInv'
  <2>1. (ToSet(buffer) \cap (acked \cup failed \cup Packet(current)) = {})'
    BY <1>5, <1>6
  <2>2. Sent' = Sent + 1
    <3>1. PICK a, b, n : a = Len(buffer') /\ b = Len(retries') /\ n = Sent
      OBVIOUS
    <3>2. a = n + 1 + b /\ n \in Nat /\ b \in Nat
      BY <1>4, <1>6, <3>1
    <3>3. a - b = n + 1
      BY <3>2
    <3> QED BY <3>1, <3>3 DEF Sent
  <2>3. Len(retries') <= Len(buffer')
    BY <1>4, <1>6
  <2>4. \A n \in 1 .. Len(retries') : retries'[n] = buffer'[Sent' + n]
    BY <1>6, <2>2
  <2>5. (IF BarPending THEN retries = << >>
         ELSE Sent # 0 => retries # << >> \/ InQueue > 0)'
    BY <1>5, <1>8
  <2> QED BY <1>6, <1>8, <2>1, <2>3, <2>4, <2>5 DEF ManagerInv
<1> QED BY <1>9, <1>10, <1>11, <1>12, <1>13 DEF IInv

(* A packet lost under the agreement is sent again under it, or, when the     *)
(* agreement is inactive, leaves the buffer and is sent on its own.           *)
LEMMA RetransmitKeeps ==
  ASSUME IInv, Retransmit, UNCHANGED <<acked, failed, wide, Channel, Recipient>>
  PROVE  IInv'
<1>1. PICK p :
        /\ Free /\ retries # << >> /\ waiting = "none"
        /\ p = Head(retries) /\ retries' = Tail(retries)
        /\ UNCHANGED <<accepted, taken, slrc, acked, failed>> /\ UNCHANGED Recipient
        /\ \/ /\ agreement = "ESTABLISHED" /\ agreement' = agreement
              /\ start' = Seq4096(Head(buffer)) /\ CompleteTx(p, TRUE)
           \/ /\ agreement' = "ESTABLISHED" /\ start' = Seq4096(p) /\ CompleteTx(p, TRUE)
           \/ /\ agreement # "ESTABLISHED" /\ start' = Seq4096(Head(buffer))
              /\ buffer' = ErasedFrom(buffer, p) /\ Transmit(Data(p, TRUE), "ack")
              /\ UNCHANGED <<agreement, sentMpdus, bars>>
  BY DEF Retransmit, Free, Granted, Queued
<1>2. /\ buffer \in Seq(1 .. taken) /\ retries \in Seq(1 .. taken) /\ taken \in Nat
      /\ accepted \in Nat /\ taken <= accepted
      /\ p \in 1 .. taken /\ p \in ToSet(buffer) /\ p = buffer[Sent + 1]
      /\ buffer # << >>
  BY <1>1, RetriesBuffered DEF IInv, OriginatorInv
<1>3. start' \in SequenceNumbers
  <2>1. buffer[1] \in 1 .. taken /\ Head(buffer) = buffer[1]
    BY <1>2, TailSound, Zenon
  <2>2. Seq4096(p) \in SequenceNumbers /\ Seq4096(Head(buffer)) \in SequenceNumbers
    <3>1. PICK h \in Nat : h = Head(buffer)
      BY <1>2, <2>1
    <3>2. p \in Nat
      BY <1>2
    <3> QED BY <3>1, <3>2, SequenceNumber
  <2> QED BY <1>1, <2>2
<1>4. CASE agreement' = "ESTABLISHED" /\ CompleteTx(p, TRUE)
  <2>1. Handed(p, TRUE)
    BY <1>1 DEF Handed
  <2>2. TRUE \in BOOLEAN
    OBVIOUS
  <2> QED BY <1>1, <1>3, <1>4, <2>1, <2>2, CompleteTxKeeps
<1>5. CASE /\ agreement # "ESTABLISHED" /\ buffer' = ErasedFrom(buffer, p)
           /\ Transmit(Data(p, TRUE), "ack") /\ UNCHANGED <<agreement, sentMpdus, bars>>
  <2>1. /\ ~BarPending /\ Sent = 0 /\ Len(buffer) = Len(retries)
        /\ \A n \in 1 .. Len(retries) : retries[n] = buffer[n]
        /\ buffer \in Seq(1 .. taken) /\ retries \in Seq(1 .. taken)
    <3>1. Sent = 0
      BY <1>5 DEF IInv, ManagerInv
    <3>2. /\ ~BarPending /\ Len(buffer) = Sent + Len(retries)
          /\ \A n \in 1 .. Len(retries) : retries[n] = buffer[Sent + n]
      BY <1>1, NotPending
    <3>3. Len(retries) \in Nat /\ 0 + Len(retries) = Len(retries)
      BY <1>2, LenProperties
    <3> QED BY <1>2, <1>5, <3>1, <3>2, <3>3
  <2>2. /\ current' = Data(p, TRUE) /\ air' = Data(p, TRUE) /\ waiting' = "ack"
        /\ requested' = FALSE /\ bars = << >> /\ bars' = << >>
    BY <1>1, <1>5 DEF Transmit, Free
  <2>3. buffer' = Tail(buffer)
    <3>1. buffer \in Seq(Nat) /\ Ordered(buffer) /\ p = buffer[1]
      BY <1>2, <2>1 DEF IInv, ManagerInv
    <3> QED BY <1>2, <1>5, <3>1, ErasedFirst, Zenon
  <2>4. /\ buffer' \in Seq(1 .. taken) /\ Len(buffer') = Len(buffer) - 1
        /\ \A n \in 1 .. Len(buffer) - 1 : buffer'[n] = buffer[n + 1]
        /\ Len(buffer) \in Nat \ {0}
    BY <1>2, <2>3, TailSound, Zenon
  <2>5. /\ retries' \in Seq(1 .. taken) /\ Len(retries') = Len(retries) - 1
        /\ \A n \in 1 .. Len(retries) - 1 : retries'[n] = retries[n + 1]
    BY <1>1, <1>2, TailSound, Zenon
  <2>6. PICK L \in Nat : /\ Len(buffer) = L + 1 /\ Len(retries) = L + 1
                         /\ Len(buffer') = L /\ Len(retries') = L
    <3>1. Len(buffer) - 1 \in Nat /\ Len(buffer) = (Len(buffer) - 1) + 1
      BY <2>4
    <3> QED BY <2>1, <2>4, <2>5, <3>1
  <2>7. /\ \A n \in 1 .. L : buffer'[n] = buffer[n + 1] /\ retries'[n] = retries[n + 1]
        /\ \A n \in 1 .. L + 1 : retries[n] = buffer[n] /\ buffer[n] \in 1 .. taken
        /\ \A n \in 1 .. L : n \in 1 .. L + 1 /\ n + 1 \in 1 .. L + 1
    <3>1. Len(buffer) - 1 = L /\ Len(retries) - 1 = L
      BY <2>6
    <3>2. \A n \in 1 .. L + 1 : buffer[n] \in 1 .. taken
      <4>1. \A n \in 1 .. Len(buffer) : buffer[n] \in 1 .. taken
        BY <2>1, ElementOfSeq, Zenon
      <4> QED BY <2>6, <4>1, Zenon
    <3> QED BY <2>1, <2>4, <2>5, <2>6, <3>1, <3>2
  <2>8. Ordered(buffer)' /\ \A n \in 1 .. L : p < buffer'[n]
    <3>1. \A i, j \in 1 .. L + 1 : i < j => buffer[i] < buffer[j]
      BY <2>6 DEF IInv, ManagerInv, Ordered
    <3>2. \A i, j \in 1 .. L : i < j => buffer'[i] < buffer'[j]
      <4> SUFFICES ASSUME NEW i \in 1 .. L, NEW j \in 1 .. L, i < j
                   PROVE  buffer'[i] < buffer'[j]
        OBVIOUS
      <4>1. i + 1 \in 1 .. L + 1 /\ j + 1 \in 1 .. L + 1 /\ i + 1 < j + 1
        OBVIOUS
      <4> QED BY <2>7, <3>1, <4>1
    <3>3. \A n \in 1 .. L : buffer[1] < buffer'[n]
      <4> SUFFICES ASSUME NEW n \in 1 .. L PROVE buffer[1] < buffer'[n]
        OBVIOUS
      <4>1. 1 \in 1 .. L + 1 /\ n + 1 \in 1 .. L + 1 /\ 1 < n + 1
        OBVIOUS
      <4> QED BY <2>7, <3>1, <4>1
    <3>4. p = buffer[1]
      BY <1>2, <2>1
    <3> QED BY <2>6, <3>2, <3>3, <3>4 DEF Ordered
  <2>9. ToSet(buffer') \subseteq ToSet(buffer) \ {p} /\ ToSet(buffer)' = ToSet(buffer')
    <3> SUFFICES ASSUME NEW x \in ToSet(buffer') PROVE x \in ToSet(buffer) /\ x # p
      OBVIOUS
    <3>1. PICK n \in 1 .. L : x = buffer'[n]
      BY <2>4, <2>6, Elements
    <3>2. x = buffer[n + 1] /\ n + 1 \in 1 .. Len(buffer)
      BY <2>6, <2>7, <3>1
    <3>3. x \in ToSet(buffer)
      BY <2>1, <3>2, Elements
    <3>4. p < x /\ p \in Nat
      BY <1>2, <2>8, <3>1
    <3>5. x # p
      BY <3>4
    <3> QED BY <3>3, <3>5
  <2>10. Packet(current)' = {p} /\ current'.kind = "data"
    BY <2>2 DEF Data, Packet
  <2>11. OriginatorInv'
    <3>1. (acked \cup failed \cup Packet(current) \subseteq 1 .. taken)'
      BY <1>1, <1>2, <2>10 DEF IInv, OriginatorInv
    <3>2. buffer' \in Seq(1 .. taken') /\ retries' \in Seq(1 .. taken')
      BY <1>1, <2>4, <2>5
    <3> QED BY <1>1, <1>3, <1>5, <2>2, <3>1, <3>2 DEF IInv, OriginatorInv
  <2>12. Data(p, TRUE) \in [kind : {"data"}, packet : Packets', retry : BOOLEAN, block : {FALSE}]
    <3>1. p \in Packets'
      BY <1>1, <1>2 DEF Packets
    <3> QED BY <3>1 DEF Data
  <2>13. CurrentInv'
    <3>1. bars' \in Seq(SequenceNumbers) /\ Len(bars') <= 1
      BY <2>2
    <3>2. waiting' \in {"none", "ack", "blockack"} /\ waiting' # "blockack"
      BY <2>2
    <3> QED BY <2>2, <2>10, <2>12, <3>1, <3>2 DEF CurrentInv
  <2>14. AirInv'
    <3>1. \A c \in [kind : {"data"}, packet : Packets', retry : BOOLEAN, block : {FALSE}] :
            c \in [kind : {"data"}, packet : Packets', retry : BOOLEAN, block : BOOLEAN]
      OBVIOUS
    <3> QED BY <2>2, <2>12, <3>1 DEF AirInv
  <2>15. RecipientInv'
    BY <1>1, <1>2, RecipientKept
  <2>16. ManagerInv'
    <3>1. ~BarPending'
      BY <2>2, <2>10 DEF BarPending
    <3>2. (ToSet(buffer) \cap (acked \cup failed \cup Packet(current)) = {})'
      <4>1. ToSet(buffer) \cap (acked \cup failed) = {}
        BY DEF IInv, ManagerInv
      <4> QED BY <1>1, <2>9, <2>10, <4>1
    <3>3. Sent' = 0 /\ Len(retries') <= Len(buffer')
      <4>1. L - L = 0 /\ L <= L
        OBVIOUS
      <4> QED BY <2>6, <4>1 DEF Sent
    <3>4. \A n \in 1 .. Len(retries') : retries'[n] = buffer'[0 + n]
      <4> SUFFICES ASSUME NEW n \in 1 .. L PROVE retries'[n] = buffer'[n]
        BY <2>6
      <4> QED BY <2>7
    <3>5. ~(agreement' \in {"none", "PENDING"}) /\ sentMpdus' < BufferSize \div 2
      <4>1. agreement \notin {"none", "PENDING"}
        BY <1>2 DEF IInv, ManagerInv
      <4>2. sentMpdus' = sentMpdus
        BY <1>5
      <4> QED BY <1>5, <4>1, <4>2 DEF IInv, ManagerInv
    <3> QED BY <2>1, <2>8, <3>1, <3>2, <3>3, <3>4, <3>5 DEF ManagerInv
  <2> QED BY <2>11, <2>13, <2>14, <2>15, <2>16 DEF IInv
<1> QED BY <1>1, <1>4, <1>5

(* A packet dequeued is sent under the agreement, and buffered, or on its own. *)
LEMMA DequeueKeeps ==
  ASSUME IInv, Dequeue, UNCHANGED <<acked, failed, wide, Channel, Recipient>>
  PROVE  IInv'
<1>1. PICK p :
        /\ Free /\ retries = << >> /\ waiting = "none" /\ InQueue > 0
        /\ p = taken + 1 /\ taken' = taken + 1 /\ retries' = retries
        /\ UNCHANGED <<accepted, slrc, acked, failed>> /\ UNCHANGED Recipient
        /\ start' = Seq4096(p) \/ start' = start
        /\ agreement # "PENDING"
        /\ agreement' = "ESTABLISHED" \/ agreement' = agreement
        /\ IF agreement' = "ESTABLISHED" THEN CompleteTx(p, FALSE)
           ELSE Transmit(Data(p, FALSE), "ack") /\ UNCHANGED <<sentMpdus, buffer, bars>>
  BY DEF Dequeue, Free, Idle, Granted
<1>2. /\ accepted \in Nat /\ taken \in Nat /\ taken < accepted
      /\ p \in Nat /\ p \in 1 .. accepted /\ p \notin 1 .. taken
  <2>1. accepted \in Nat /\ taken \in Nat /\ accepted - taken > 0
    BY <1>1 DEF InQueue, IInv, OriginatorInv
  <2>2. taken < accepted
    BY <2>1
  <2> QED BY <1>1, <2>1, <2>2
<1>3. start' \in SequenceNumbers
  <2>1. Seq4096(p) \in SequenceNumbers
    BY <1>2, SequenceNumber
  <2> QED BY <1>1, <2>1 DEF IInv, OriginatorInv
<1>4. CASE agreement' = "ESTABLISHED"
  <2>1. Handed(p, FALSE)
    BY <1>1, <1>2 DEF Handed
  <2>2. FALSE \in BOOLEAN /\ CompleteTx(p, FALSE)
    BY <1>1, <1>4
  <2> QED BY <1>1, <1>3, <1>4, <2>1, <2>2, CompleteTxKeeps
<1>5. CASE agreement' # "ESTABLISHED"
  <2>1. /\ current' = Data(p, FALSE) /\ air' = Data(p, FALSE) /\ waiting' = "ack"
        /\ requested' = FALSE /\ bars = << >> /\ bars' = << >>
        /\ UNCHANGED <<agreement, sentMpdus, buffer, retries>>
    BY <1>1, <1>5 DEF Transmit, Free
  <2>2. Packet(current)' = {p} /\ current'.kind = "data"
    BY <2>1 DEF Data, Packet
  <2>3. ~BarPending /\ UNCHANGED Sent
    BY <1>1, <2>1, NotPending DEF Sent
  <2>4. ToSet(buffer) \subseteq 1 .. taken /\ acked \cup failed \subseteq 1 .. taken
    <3>1. buffer \in Seq(1 .. taken)
      BY DEF IInv, OriginatorInv
    <3> QED BY <3>1, Elements DEF IInv, OriginatorInv
  <2>5. 1 .. taken \subseteq 1 .. taken' /\ taken' \in 0 .. accepted /\ p \in 1 .. taken'
    BY <1>1, <1>2
  <2>6. OriginatorInv'
    <3>1. (acked \cup failed \cup Packet(current) \subseteq 1 .. taken)'
      BY <1>1, <2>2, <2>4, <2>5
    <3>2. buffer' \in Seq(1 .. taken') /\ retries' \in Seq(1 .. taken')
      <4>1. buffer \in Seq(1 .. taken') /\ retries \in Seq(1 .. taken')
        BY <2>5 DEF IInv, OriginatorInv
      <4> QED BY <2>1, <4>1
    <3> QED BY <1>1, <1>3, <2>1, <2>5, <3>1, <3>2 DEF IInv, OriginatorInv
  <2>7. Data(p, FALSE) \in [kind : {"data"}, packet : Packets', retry : BOOLEAN, block : {FALSE}]
    <3>1. p \in Packets'
      BY <1>1, <1>2 DEF Packets
    <3> QED BY <3>1 DEF Data
  <2>8. CurrentInv'
    <3>1. bars' \in Seq(SequenceNumbers) /\ Len(bars') <= 1
      BY <2>1
    <3>2. waiting' \in {"none", "ack", "blockack"} /\ waiting' # "blockack"
      BY <2>1
    <3> QED BY <2>1, <2>2, <2>7, <3>1, <3>2 DEF CurrentInv
  <2>9. AirInv'
    <3>1. \A c \in [kind : {"data"}, packet : Packets', retry : BOOLEAN, block : {FALSE}] :
            c \in [kind : {"data"}, packet : Packets', retry : BOOLEAN, block : BOOLEAN]
      OBVIOUS
    <3> QED BY <2>1, <2>7, <3>1 DEF AirInv
  <2>10. RecipientInv'
    BY <1>1, <1>2, RecipientKept
  <2>11. ManagerInv'
    <3>1. ~BarPending'
      BY <2>1, <2>2 DEF BarPending
    <3>2. UNCHANGED Ordered(buffer) /\ UNCHANGED ToSet(buffer)
      BY <2>1 DEF Ordered
    <3>3. (ToSet(buffer) \cap (acked \cup failed \cup Packet(current)) = {})'
      <4>1. ToSet(buffer) \cap (acked \cup failed) = {}
        BY DEF IInv, ManagerInv
      <4> QED BY <1>1, <1>2, <2>2, <2>4, <3>2, <4>1
    <3>4. Sent = 0
      BY <1>5, <2>1 DEF IInv, ManagerInv
    <3> QED BY <2>1, <2>3, <3>1, <3>2, <3>3, <3>4 DEF IInv, ManagerInv
  <2> QED BY <2>6, <2>8, <2>9, <2>10, <2>11 DEF IInv
<1> QED BY <1>4, <1>5

-----------------------------------------------------------------------------
(* The answer to the BlockAckReq *)

(* The packets a block ack does not report stay buffered, in order, and all   *)
(* of them are to be sent again.                                              *)
LEMMA GotBlockAckKeeps ==
  ASSUME IInv, GotBlockAck
  PROVE  IInv'
<1>1. PICK I, lost :
        /\ lost = Kept(buffer, I) /\ buffer' = lost /\ retries' = retries \o lost
        /\ acked' = acked \cup (ToSet(buffer) \ ToSet(lost))
        /\ \/ start' = Seq4096(Head(lost)) /\ lost # << >>
           \/ start' = Seq4096(taken + 1) \/ start' = start
        /\ agreement' \in {"ESTABLISHED", "INACTIVE"}
        /\ sentMpdus' = sentMpdus \/ sentMpdus' = 0
        /\ waiting = "blockack" /\ waiting' = "none" /\ current' = None /\ air' = Silence
        /\ UNCHANGED <<accepted, taken, slrc, bars, failed>> /\ UNCHANGED Recipient
        /\ RestartAccessIfNeeded
  <2> DEFINE lost == Kept(buffer, {n \in DOMAIN buffer : ~IsPacketReceived(air, buffer[n])})
  <2>1. /\ buffer' = lost /\ retries' = retries \o lost
        /\ acked' = acked \cup (ToSet(buffer) \ ToSet(lost))
        /\ \/ start' = Seq4096(Head(lost)) /\ lost # << >>
           \/ start' = Seq4096(taken + 1) \/ start' = start
        /\ agreement' \in {"ESTABLISHED", "INACTIVE"}
        /\ sentMpdus' = sentMpdus \/ sentMpdus' = 0
        /\ waiting = "blockack" /\ waiting' = "none" /\ current' = None /\ air' = Silence
        /\ UNCHANGED <<accepted, taken, slrc, bars, failed>> /\ UNCHANGED Recipient
        /\ RestartAccessIfNeeded
    BY DEF GotBlockAck, Queued
  <2> QED BY <2>1
<1>2. /\ buffer \in Seq(1 .. taken) /\ accepted \in Nat /\ taken \in Nat /\ taken <= accepted
      /\ Ordered(buffer)
      /\ acked \cup failed \subseteq 1 .. taken
      /\ ToSet(buffer) \cap (acked \cup failed) = {}
  BY DEF IInv, OriginatorInv, ManagerInv
<1>3. /\ current.kind = "bar" /\ bars = << >> /\ bars' = << >>
      /\ retries = << >> /\ Packet(current) = {}
  <2>1. current.kind = "bar" /\ bars = << >>
    BY <1>1 DEF IInv, CurrentInv
  <2>2. BarPending
    BY <2>1 DEF BarPending
  <2>3. retries = << >>
    BY <2>2 DEF IInv, ManagerInv
  <2>4. Packet(current) = {}
    BY <2>1 DEF Packet
  <2> QED BY <1>1, <2>1, <2>3, <2>4
<1>4. /\ lost \in Seq(1 .. taken) /\ Len(lost) <= Len(buffer)
      /\ ToSet(lost) \subseteq ToSet(buffer) /\ Ordered(lost)
      /\ Len(lost) \in Nat /\ Len(buffer) \in Nat
  <2>1. PICK b : b = buffer
    OBVIOUS
  <2>2. b \in Seq(1 .. taken) /\ lost = Kept(b, I) /\ Ordered(b)
    BY <1>1, <1>2, <2>1
  <2>3. /\ lost \in Seq(1 .. taken) /\ Len(lost) <= Len(b)
        /\ \A k \in 1 .. Len(lost) : \E m \in 1 .. Len(b) : m \in I /\ lost[k] = b[m]
        /\ \A k, l \in 1 .. Len(lost) : k < l =>
             \E m, n \in 1 .. Len(b) : m < n /\ lost[k] = b[m] /\ lost[l] = b[n]
    <3>1. PICK S : S = 1 .. taken /\ b \in Seq(S)
      BY <2>2
    <3>2. /\ Kept(b, I) \in Seq(S) /\ Len(Kept(b, I)) <= Len(b)
          /\ \A k \in 1 .. Len(Kept(b, I)) :
               \E m \in 1 .. Len(b) : m \in I /\ Kept(b, I)[k] = b[m]
          /\ \A k, l \in 1 .. Len(Kept(b, I)) : k < l =>
               \E m, n \in 1 .. Len(b) :
                  m < n /\ Kept(b, I)[k] = b[m] /\ Kept(b, I)[l] = b[n]
      BY <3>1, KeptSound
    <3>3. Kept(b, I) = lost
      BY <2>2
    <3>4. lost \in Seq(1 .. taken) /\ Len(lost) <= Len(b)
      BY <3>1, <3>2, <3>3
    <3>5. \A k \in 1 .. Len(lost) : \E m \in 1 .. Len(b) : m \in I /\ lost[k] = b[m]
      BY <3>2, <3>3
    <3>6. \A k, l \in 1 .. Len(lost) : k < l =>
             \E m, n \in 1 .. Len(b) : m < n /\ lost[k] = b[m] /\ lost[l] = b[n]
      BY <3>2, <3>3
    <3> QED BY <3>4, <3>5, <3>6
  <2>4. ToSet(lost) \subseteq ToSet(b)
    <3> SUFFICES ASSUME NEW x \in ToSet(lost) PROVE x \in ToSet(b)
      OBVIOUS
    <3>1. PICK k \in 1 .. Len(lost) : x = lost[k]
      BY <2>3, Elements
    <3>2. PICK m \in 1 .. Len(b) : x = b[m]
      BY <2>3, <3>1
    <3> QED BY <2>2, <3>2, Elements
  <2>5. Ordered(lost)
    BY <2>2, <2>3 DEF Ordered
  <2> QED BY <2>1, <2>2, <2>3, <2>4, <2>5, LenProperties
<1>5. retries' = lost
  BY <1>1, <1>3, <1>4, ConcatEmptySeq
<1>6. start' \in SequenceNumbers
  <2>1. CASE start' = Seq4096(Head(lost)) /\ lost # << >>
    <3>1. Head(lost) = lost[1] /\ lost[1] \in 1 .. taken
      BY <1>4, <2>1, TailSound, Zenon
    <3>2. PICK h \in Nat : h = Head(lost)
      BY <1>2, <3>1
    <3> QED BY <2>1, <3>2, SequenceNumber
  <2>2. CASE start' = Seq4096(taken + 1)
    <3>1. PICK h \in Nat : h = taken + 1
      BY <1>2
    <3> QED BY <2>2, <3>1, SequenceNumber
  <2> QED BY <1>1, <2>1, <2>2 DEF IInv, OriginatorInv
<1>7. Packet(current)' = {} /\ ~BarPending'
  BY <1>1, <1>3 DEF Packet, BarPending, None
<1>8. OriginatorInv'
  <2>1. requested' \in BOOLEAN
    BY <1>1, RestartAccess
  <2>2. (acked \cup failed \cup Packet(current) \subseteq 1 .. taken)'
    <3>1. ToSet(buffer) \subseteq 1 .. taken
      BY <1>2, Elements
    <3> QED BY <1>1, <1>2, <1>7, <3>1
  <2>3. buffer' \in Seq(1 .. taken') /\ retries' \in Seq(1 .. taken')
    BY <1>1, <1>4, <1>5
  <2>4. agreement' \in {"none", "PENDING", "ESTABLISHED", "INACTIVE"} /\ sentMpdus' \in Nat
    BY <1>1 DEF IInv, OriginatorInv
  <2> QED BY <1>1, <1>6, <2>1, <2>2, <2>3, <2>4 DEF IInv, OriginatorInv
<1>9. CurrentInv'
  <2>1. bars' \in Seq(SequenceNumbers) /\ Len(bars') <= 1
    BY <1>3
  <2> QED BY <1>1, <1>3, <2>1 DEF CurrentInv
<1>10. AirInv'
  BY <1>1 DEF AirInv, Silence
<1>11. RecipientInv'
  BY <1>1, <1>2, RecipientKept
<1>12. ManagerInv'
  <2>1. (Ordered(buffer))'
    BY <1>1, <1>4 DEF Ordered
  <2>2. sentMpdus' < BufferSize \div 2
    <3>1. BufferSize \div 2 \in Nat /\ 0 < BufferSize \div 2
      BY BlockAckAssumption
    <3> QED BY <1>1, <3>1 DEF IInv, ManagerInv
  <2>3. Sent' = 0 /\ Len(retries') <= Len(buffer')
    <3>1. Len(lost) - Len(lost) = 0 /\ Len(lost) <= Len(lost)
      BY <1>4
    <3> QED BY <1>1, <1>5, <3>1 DEF Sent
  <2>4. (ToSet(buffer) \cap (acked \cup failed \cup Packet(current)) = {})'
    <3>1. ToSet(buffer)' = ToSet(lost)
      BY <1>1
    <3> QED BY <1>1, <1>2, <1>4, <1>7, <3>1
  <2>5. \A n \in 1 .. Len(retries') : retries'[n] = buffer'[0 + n]
    <3> SUFFICES ASSUME NEW n \in 1 .. Len(lost) PROVE lost[n] = lost[0 + n]
      BY <1>1, <1>5
    <3>1. n \in Nat /\ 0 + n = n
      BY <1>4
    <3> QED BY <3>1
  <2>6. agreement' \notin {"none", "PENDING"}
    BY <1>1
  <2> QED BY <1>3, <1>7, <2>1, <2>2, <2>3, <2>4, <2>5, <2>6 DEF ManagerInv
<1> QED BY <1>8, <1>9, <1>10, <1>11, <1>12 DEF IInv

-----------------------------------------------------------------------------
(* The invariant, and what follows from it *)

(* Every step keeps the invariant. *)
LEMMA NextInv == IInv /\ [Next]_vars => IInv'
<1> SUFFICES ASSUME IInv, [Next]_vars PROVE IInv'
  OBVIOUS
<1>1. CASE Queue
  BY <1>1, QueueKeeps
<1>2. CASE NotifyAccessGranted
  <2>1. UNCHANGED <<acked, failed, wide, Channel, Recipient>>
    BY <1>2 DEF NotifyAccessGranted
  <2>2. CASE SendBlockAckRequest
    BY <2>1, <2>2, SendBlockAckRequestKeeps
  <2>3. CASE Retransmit
    BY <2>1, <2>3, RetransmitKeeps
  <2>4. CASE SendAddBaRequest
    BY <2>1, <2>4, SendAddBaRequestKeeps
  <2>5. CASE Dequeue
    BY <2>1, <2>5, DequeueKeeps
  <2>6. CASE NothingAvailable
    BY <2>1, <2>6, NothingAvailableKeeps
  <2>7. CASE Repeat
    BY <2>1, <2>7, RepeatKeeps
  <2> QED BY <1>2, <2>2, <2>3, <2>4, <2>5, <2>6, <2>7 DEF NotifyAccessGranted
<1>3. CASE Answered
  BY <1>3, GotAckKeeps, MissedAckKeeps, GotBlockAckKeeps, MissedBlockAckKeeps DEF Answered
<1>4. CASE GotAddBaResponse
  BY <1>4, GotAddBaResponseKeeps
<1>5. CASE Receive
  BY <1>5, ReceiveDataKeeps, ReceiveAddBaRequestKeeps, SendBlockAckKeeps DEF Receive
<1>6. CASE Lose \/ ResponseLost
  BY <1>6, LossKeeps
<1>7. CASE UNCHANGED vars
  <2>1. UNCHANGED Originator /\ UNCHANGED Recipient /\ air' = air
    BY <1>7 DEF vars
  <2>2. OriginatorInv' /\ CurrentInv' /\ ManagerInv'
    BY <2>1, OriginatorKept
  <2>3. UNCHANGED accepted /\ accepted \in Nat
    BY <2>1 DEF Originator, Queued, IInv, OriginatorInv
  <2>4. RecipientInv'
    BY <2>1, <2>3, RecipientKept
  <2>5. AirInv'
    BY <2>1, <2>3 DEF IInv, AirInv, Packets
  <2> QED BY <2>2, <2>4, <2>5 DEF IInv
<1> QED BY <1>1, <1>2, <1>3, <1>4, <1>5, <1>6, <1>7 DEF Next

(* The invariant holds in every reachable state, for any threshold, buffer,   *)
(* bitmap, number of packets and number of losses: the packets still to be    *)
(* sent again are the last of the agreement's, after those sent since the     *)
(* last block ack, and there are none while a BlockAckReq is pending.         *)
THEOREM Invariance == Spec => []IInv
<1>1. Init => IInv
  BY InitInv
<1>2. IInv /\ [Next]_vars => IInv'
  BY NextInv
<1> QED BY <1>1, <1>2, PTL DEF Spec

(* An ordered list increases, and so does its end. *)
LEMMA Increases ==
  ASSUME NEW b \in Seq(Nat), Ordered(b), NEW s \in Seq(Nat), NEW k \in Nat,
         Len(b) = k + Len(s), \A n \in 1 .. Len(s) : s[n] = b[k + n]
  PROVE  Increasing(b) /\ Increasing(s) /\ ToSet(s) \subseteq ToSet(b)
<1>1. PICK L \in Nat, M \in Nat : L = Len(s) /\ M = Len(b) /\ M = k + L
  OBVIOUS
<1>2. \A i, j \in 1 .. M : i < j => b[i] < b[j]
  BY <1>1 DEF Ordered
<1>3. \A i \in 1 .. M - 1 : b[i] < b[i + 1]
  <2> SUFFICES ASSUME NEW i \in 1 .. M - 1 PROVE b[i] < b[i + 1]
    OBVIOUS
  <2>1. i \in 1 .. M /\ i + 1 \in 1 .. M /\ i < i + 1
    OBVIOUS
  <2> QED BY <1>2, <2>1
<1>4. \A i \in 1 .. L - 1 : s[i] < s[i + 1]
  <2> SUFFICES ASSUME NEW i \in 1 .. L - 1 PROVE s[i] < s[i + 1]
    OBVIOUS
  <2>1. k + i \in 1 .. M /\ k + (i + 1) \in 1 .. M /\ k + i < k + (i + 1)
    BY <1>1
  <2>2. s[i] = b[k + i] /\ s[i + 1] = b[k + (i + 1)]
    BY <1>1
  <2> QED BY <1>2, <2>1, <2>2
<1>5. ToSet(s) \subseteq ToSet(b)
  <2> SUFFICES ASSUME NEW x \in ToSet(s) PROVE x \in ToSet(b)
    OBVIOUS
  <2>1. PICK n \in 1 .. L : x = s[n]
    BY <1>1, Elements
  <2>2. k + n \in 1 .. M /\ x = b[k + n]
    BY <1>1, <2>1
  <2> QED BY <1>1, <2>2, Elements
<1> QED BY <1>1, <1>3, <1>4, <1>5 DEF Increasing

(* From the invariant: the types, and one BlockAckReq at most. *)
LEMMA Types == IInv => TypeOK
<1> SUFFICES ASSUME IInv PROVE TypeOK
  OBVIOUS
<1>1. /\ current.kind \in {"none", "data", "addba", "bar"}
      /\ current.kind = "data" =>
           current \in [kind : {"data"}, packet : Packets, retry : BOOLEAN, block : {FALSE}]
  BY FrameKept DEF IInv
<1>2. \A e \in ToSet(rBuffer) : e.packet \in Packets
  <2>1. ToSet(rBuffer) \subseteq Entries
    BY Elements DEF IInv, RecipientInv
  <2>2. \A e \in Entries : e.packet \in Packets
    BY DEF Entries
  <2> QED BY <2>1, <2>2
<1>3. ToSet(delivered) \subseteq Packets
  BY Elements DEF IInv, RecipientInv
<1>4. acked \cup failed \subseteq Packets
  <2>1. 1 .. taken \subseteq Packets
    BY DEF IInv, OriginatorInv, Packets
  <2> QED BY <2>1 DEF IInv, OriginatorInv
<1>5. /\ taken \in 0 .. accepted /\ requested \in BOOLEAN /\ slrc \in 0 .. MaxSlrc
      /\ start \in SequenceNumbers
      /\ agreement \in {"none", "PENDING", "ESTABLISHED", "INACTIVE"}
  BY DEF IInv, OriginatorInv
<1>6. waiting \in {"none", "ack", "blockack"} /\ Len(bars) <= 1
  BY DEF IInv, CurrentInv
<1>7. rStart \in SequenceNumbers /\ last \in SequenceNumbers
  BY DEF IInv, RecipientInv
<1> QED BY <1>1, <1>2, <1>3, <1>4, <1>5, <1>6, <1>7 DEF TypeOK

(* From the invariant: the manager's lists are sound. *)
LEMMA Sound == IInv => ListsSound
<1> SUFFICES ASSUME IInv PROVE ListsSound
  OBVIOUS
<1>1. /\ buffer \in Seq(Nat) /\ retries \in Seq(Nat) /\ Ordered(buffer) /\ sentMpdus \in Nat
      /\ sentMpdus < BufferSize
      /\ ToSet(buffer) \cap (acked \cup failed \cup Packet(current)) = {}
  <2>1. \A n \in 1 .. taken : n \in Nat
    OBVIOUS
  <2>2. sentMpdus < BufferSize
    <3>1. PICK b \in Nat : b = BufferSize
      BY BlockAckAssumption
    <3>2. b \div 2 \in Nat /\ b \div 2 <= b
      OBVIOUS
    <3> QED BY <3>1, <3>2 DEF IInv, OriginatorInv, ManagerInv
  <2> QED BY <2>1, <2>2 DEF IInv, OriginatorInv, ManagerInv
<1>2. Len(buffer) \in Nat /\ Len(retries) \in Nat
  BY <1>1, LenProperties
<1>3. Increasing(buffer) /\ Increasing(retries) /\ ToSet(retries) \subseteq ToSet(buffer)
  BY <1>1, RetriesLast, Increases
<1>4. ToSet(buffer) # ToSet(retries) =>
        bars # << >> \/ current.kind = "bar" \/ retries # << >> \/ InQueue > 0
  <2> SUFFICES ASSUME ~BarPending, retries = << >>, ~(InQueue > 0)
               PROVE  ToSet(buffer) = ToSet(retries)
    BY DEF BarPending
  <2>1. Sent = 0
    BY DEF IInv, ManagerInv
  <2>2. Len(buffer) = 0
    BY <2>1, RetriesLast
  <2>3. buffer = << >>
    BY <1>1, <2>2
  <2> QED BY <2>3
<1> QED BY <1>1, <1>3, <1>4, Types DEF ListsSound

(* ListsSound holds in every reachable state: the iterators of the retry list *)
(* always point into the buffer, none twice and in order, no packet is kept   *)
(* after the originator is done with it, the assertion of                     *)
(* NotifyMpduTransmission holds, and packets sent and not reported on have a  *)
(* BlockAckReq to come.                                                       *)
THEOREM ManagerSound == Spec => []ListsSound
BY Invariance, Sound, PTL

-----------------------------------------------------------------------------
(* Sequence numbers in the lower half of their space: they are in the order *)
(* of the packets, and so is what MacLow maps them to.                      *)

(* A number below the modulus is its own remainder. *)
LEMMA SmallModulo ==
  ASSUME NEW n \in Nat, n <= 4095
  PROVE  n % 4096 = n
OBVIOUS

(* There a packet has the number it would have without the modulus. *)
LEMMA HalfNumber ==
  ASSUME HalfSpace, NEW p \in 1 .. MaxPackets + 1
  PROVE  Seq4096(p) = First + p - 1 /\ Seq4096(p) \in Nat /\ Seq4096(p) <= 2048
<1>1. First \in Nat /\ MaxPackets \in Nat /\ First + MaxPackets <= 2048
  BY BlockAckAssumption DEF HalfSpace
<1>2. First + p - 1 \in 0 .. 2048
  BY <1>1
<1>3. PICK n : n = First + p - 1
  OBVIOUS
<1>4. n \in Nat /\ n <= 2048
  BY <1>2, <1>3
<1>5. n % 4096 = n
  BY <1>4, SmallModulo
<1>6. Seq4096(p) = n
  BY <1>3, <1>5 DEF Seq4096
<1> QED BY <1>2, <1>3, <1>6

(* The numbers are in the order of the packets. *)
LEMMA HalfOrder ==
  ASSUME HalfSpace, NEW p \in 1 .. MaxPackets + 1, NEW q \in 1 .. MaxPackets + 1
  PROVE  /\ Seq4096(p) < Seq4096(q) <=> p < q
         /\ Seq4096(p) = Seq4096(q) <=> p = q
         /\ Seq4096(p) <= Seq4096(q) <=> p <= q
<1>1. First \in Nat /\ MaxPackets \in Nat
  BY BlockAckAssumption
<1>2. Seq4096(p) = First + p - 1 /\ Seq4096(q) = First + q - 1
  BY HalfNumber
<1> QED BY <1>1, <1>2

(* What a sequence number is mapped to when it is taken for a sequence control, *)
LEMMA MapNumber ==
  ASSUME NEW e \in Nat, 2047 <= e, e <= 4095, NEW n \in Nat, n <= 2048
  PROVE  MapSeqControl(n, e) = (4095 - e) * 16 + n
<1>1. PICK q, r : q = n \div 16 /\ r = n % 16
  OBVIOUS
<1>2. q \in Nat /\ r \in Nat /\ q <= 128 /\ n = q * 16 + r
  BY <1>1
<1>3. MapSeqControl(n, e) = ((4096 - (e + 1) + q) % 4096) * 16 + r
  BY <1>1 DEF MapSeqControl
<1>4. (4096 - (e + 1) + q) % 4096 = 4096 - (e + 1) + q
  <2>1. PICK x : x = 4096 - (e + 1) + q
    OBVIOUS
  <2>2. x \in Nat /\ x <= 4095
    BY <1>2, <2>1
  <2> QED BY <2>1, <2>2, SmallModulo
<1>5. MapSeqControl(n, e) = (4096 - (e + 1) + q) * 16 + r
  BY <1>3, <1>4
<1> QED BY <1>2, <1>5

(* and when it is made a sequence control first. *)
LEMMA MapControl ==
  ASSUME NEW e \in Nat, 2047 <= e, e <= 4095, NEW n \in Nat, n <= 2047
  PROVE  MapSeqControl(16 * n, e) = (4095 - e + n) * 16
<1>1. (16 * n) \div 16 = n /\ (16 * n) % 16 = 0
  OBVIOUS
<1>2. MapSeqControl(16 * n, e) = ((4096 - (e + 1) + n) % 4096) * 16 + 0
  BY <1>1 DEF MapSeqControl
<1>3. (4096 - (e + 1) + n) % 4096 = 4096 - (e + 1) + n
  <2>1. PICK x : x = 4096 - (e + 1) + n
    OBVIOUS
  <2>2. x \in Nat /\ x <= 4095
    BY <2>1
  <2> QED BY <2>1, <2>2, SmallModulo
<1> QED BY <1>2, <1>3

(* The end of the window, from its start. *)
LEMMA HalfEnd ==
  ASSUME HalfSpace, rStart \in 0 .. First + MaxPackets
  PROVE  EndSequence \in Nat /\ 2047 <= EndSequence /\ EndSequence <= 4095
<1>1. First + MaxPackets \in Nat /\ First + MaxPackets <= 2048
  BY BlockAckAssumption DEF HalfSpace
<1>2. rStart + 2047 \in 2047 .. 4095
  BY <1>1
<1>3. PICK n : n = rStart + 2047
  OBVIOUS
<1>4. n \in Nat /\ n <= 4095
  BY <1>2, <1>3
<1>5. n % 4096 = n
  BY <1>4, SmallModulo
<1>6. EndSequence = n
  BY <1>3, <1>5 DEF EndSequence
<1> QED BY <1>2, <1>3, <1>6

-----------------------------------------------------------------------------
(* Lists *)

(* Nothing is lost that was to be kept. *)
LEMMA KeptComplete ==
  ASSUME NEW S, NEW s \in Seq(S), NEW I
  PROVE  \A m \in 1 .. Len(s) : m \in I => \E k \in 1 .. Len(Kept(s, I)) : Kept(s, I)[k] = s[m]
<1>1. PICK f : /\ f[0] = << >>
               /\ \A n \in 1 .. Len(s) :
                     f[n] = IF n \in I THEN Append(f[n - 1], s[n]) ELSE f[n - 1]
               /\ Kept(s, I) = f[Len(s)]
  BY KeptDefined
<1> DEFINE All(t, n) == \A m \in 1 .. n : m \in I => \E k \in 1 .. Len(t) : t[k] = s[m]
<1>2. PICK P : P = {n \in 0 .. Len(s) : f[n] \in Seq(S) /\ All(f[n], n)}
  OBVIOUS
<1>3. Len(s) \in Nat /\ \A n \in 1 .. Len(s) : s[n] \in S
  OBVIOUS
<1>4. 0 \in P
  <2>1. PICK t : t = << >> /\ f[0] = t
    BY <1>1
  <2>2. t \in Seq(S) /\ All(t, 0)
    BY <2>1
  <2>3. 0 \in 0 .. Len(s) /\ f[0] \in Seq(S) /\ All(f[0], 0)
    BY <1>3, <2>1, <2>2
  <2> QED BY <1>2, <2>3
<1>5. ASSUME NEW n \in 1 .. Len(s), n - 1 \in P PROVE n \in P
  <2>1. n - 1 \in 0 .. Len(s) /\ n \in 0 .. Len(s)
    BY <1>3
  <2>2. PICK t \in Seq(S) : t = f[n - 1] /\ All(t, n - 1)
    BY <1>2, <1>5
  <2>3. f[n] = IF n \in I THEN Append(t, s[n]) ELSE t
    BY <1>1, <2>2
  <2>4. \A m \in 1 .. n : m = n \/ m \in 1 .. n - 1
    BY <1>3
  <2>5. CASE n \in I
    <3>1. PICK u : u = Append(t, s[n]) /\ f[n] = u
      BY <2>3, <2>5
    <3>2. PICK L \in Nat : L = Len(t)
      OBVIOUS
    <3>3. /\ u \in Seq(S) /\ Len(u) = L + 1 /\ u[L + 1] = s[n]
          /\ \A k \in 1 .. L : k \in 1 .. L + 1 /\ u[k] = t[k]
          /\ L + 1 \in 1 .. L + 1
      BY <1>3, <3>1, <3>2
    <3>4. All(u, n)
      <4> SUFFICES ASSUME NEW m \in 1 .. n, m \in I PROVE \E k \in 1 .. Len(u) : u[k] = s[m]
        OBVIOUS
      <4>1. CASE m = n
        BY <3>3, <4>1
      <4>2. CASE m \in 1 .. n - 1
        <5>1. PICK k \in 1 .. L : t[k] = s[m]
          BY <2>2, <3>2, <4>2
        <5> QED BY <3>3, <5>1
      <4> QED BY <2>4, <4>1, <4>2
    <3> HIDE DEF All
    <3> QED BY <1>2, <2>1, <3>1, <3>3, <3>4
  <2>6. CASE n \notin I
    <3>1. All(t, n)
      BY <2>2, <2>4, <2>6
    <3> HIDE DEF All
    <3> QED BY <1>2, <2>1, <2>2, <2>3, <2>6, <3>1
  <2> QED BY <2>5, <2>6
<1>6. Len(s) \in P
  <2>1. PICK N \in Nat : N = Len(s)
    OBVIOUS
  <2>2. \A n \in 1 .. N : n - 1 \in P => n \in P
    BY <1>5, <2>1
  <2>3. \A n \in 0 .. N : n \in P
    BY <1>4, <2>2, Induction
  <2> QED BY <2>1, <2>3
<1>7. All(f[Len(s)], Len(s))
  BY <1>2, <1>6
<1> QED BY <1>1, <1>7

(* The longest prefix is good, and what follows it is not. *)
LEMMA PrefixExact ==
  ASSUME NEW S, NEW es \in Seq(S), NEW good
  PROVE  /\ LongestPrefix(es, good) \in 0 .. Len(es)
         /\ \A i \in 1 .. LongestPrefix(es, good) : i \in good
         /\ LongestPrefix(es, good) < Len(es) => LongestPrefix(es, good) + 1 \notin good
<1>1. PICK N \in Nat : N = Len(es)
  OBVIOUS
<1>2. PICK T : T = {n \in 0 .. N : 1 .. n \subseteq good}
  OBVIOUS
<1>3. 0 \in T /\ T \subseteq 0 .. N
  BY <1>2
<1>4. PICK n : n = Max(T) /\ n \in T /\ \A m \in T : m <= n
  BY <1>3, GreatestElement
<1>5. n < N => n + 1 \notin good
  <2> SUFFICES ASSUME n < N, n + 1 \in good PROVE FALSE
    OBVIOUS
  <2>1. n + 1 \in 0 .. N /\ ~(n + 1 <= n)
    BY <1>3, <1>4
  <2>2. \A i \in 1 .. n + 1 : i = n + 1 \/ i \in 1 .. n
    BY <1>3, <1>4
  <2>3. n + 1 \in T
    BY <1>2, <1>4, <2>1, <2>2
  <2> QED BY <1>4, <2>1, <2>3
<1> QED BY <1>1, <1>2, <1>3, <1>4, <1>5 DEF LongestPrefix

(* The parts of a list, by their positions. *)
LEMMA Parts ==
  ASSUME NEW S, NEW s \in Seq(S), NEW m \in Nat, NEW n \in Nat, m <= n, n <= Len(s)
  PROVE  /\ SubSeq(s, m + 1, n) \in Seq(S) /\ Len(SubSeq(s, m + 1, n)) = n - m
         /\ \A i \in 1 .. n - m : SubSeq(s, m + 1, n)[i] = s[m + i]
<1>1. Len(s) \in Nat /\ \A i \in 1 .. Len(s) : s[i] \in S
  OBVIOUS
<1>2. PICK t : t = SubSeq(s, m + 1, n)
  OBVIOUS
<1>3. t = [i \in 1 .. n - m |-> s[m + i]]
  BY <1>1, <1>2
<1>4. t \in Seq(S) /\ Len(t) = n - m
  BY <1>1, <1>2
<1> QED BY <1>2, <1>3, <1>4

(* The packets of a list. *)
LEMMA PacketIn ==
  ASSUME NEW S, NEW es \in Seq(S)
  PROVE  /\ \A n \in 1 .. Len(es) : es[n].packet \in PacketsOf(es)
         /\ \A p \in PacketsOf(es) : \E n \in 1 .. Len(es) : es[n].packet = p
<1>1. DOMAIN es = 1 .. Len(es)
  OBVIOUS
<1> QED BY <1>1 DEF PacketsOf

-----------------------------------------------------------------------------
(* The reordering buffer *)

(* The packets of what was received are those there are. *)
LEMMA PacketBounds ==
  ASSUME accepted \in 0 .. MaxPackets
  PROVE  /\ \A p \in Packets : p \in 1 .. MaxPackets /\ p \in Nat
         /\ \A e \in Entries : e.packet \in 1 .. MaxPackets /\ e.packet \in Nat
<1>1. \A p \in Packets : p \in 1 .. MaxPackets /\ p \in Nat
  BY BlockAckAssumption DEF Packets
<1> QED BY <1>1 DEF Entries

(* StoreMpduIfNeeded compares packets as they come, *)
LEMMA StoreOrder ==
  ASSUME HalfSpace, rStart \in 0 .. First + MaxPackets,
         NEW p \in 1 .. MaxPackets, NEW q \in 1 .. MaxPackets
  PROVE  MapSeqControl(16 * Seq4096(p), EndSequence) < MapSeqControl(16 * Seq4096(q), EndSequence)
           <=> p < q
<1>1. MaxPackets \in Nat /\ First \in Nat /\ First + MaxPackets <= 2048
  BY BlockAckAssumption DEF HalfSpace
<1>2. p \in 1 .. MaxPackets + 1 /\ q \in 1 .. MaxPackets + 1
  BY <1>1
<1>11. Seq4096(p) = First + p - 1
  BY <1>2, HalfNumber
<1>12. Seq4096(q) = First + q - 1
  BY <1>2, HalfNumber
<1>3. PICK a, b, w : a = Seq4096(p) /\ b = Seq4096(q) /\ w = EndSequence
  OBVIOUS
<1>4. a = First + p - 1 /\ b = First + q - 1
  BY <1>11, <1>12, <1>3
<1>5. a \in Nat /\ a <= 2047 /\ b \in Nat /\ b <= 2047
  BY <1>1, <1>4
<1>6. a < b <=> p < q
  BY <1>1, <1>4
<1>7. w \in Nat /\ 2047 <= w /\ w <= 4095
  BY <1>3, HalfEnd
<1>8. MapSeqControl(16 * a, w) = (4095 - w + a) * 16
  BY <1>5, <1>7, MapControl
<1>9. MapSeqControl(16 * b, w) = (4095 - w + b) * 16
  BY <1>5, <1>7, MapControl
<1>10. (4095 - w + a) * 16 < (4095 - w + b) * 16 <=> a < b
  BY <1>5, <1>7
<1> QED BY <1>3, <1>6, <1>8, <1>9, <1>10

(* and the loop that hands up what lies before the start does as well. *)
LEMMA SmallerOrder ==
  ASSUME HalfSpace, rStart \in 0 .. First + MaxPackets,
         NEW p \in 1 .. MaxPackets, NEW s \in 0 .. First + MaxPackets
  PROVE  MapSeqControl(Seq4096(p), EndSequence) < MapSeqControl(s, EndSequence) <=> Seq4096(p) < s
<1>1. MaxPackets \in Nat /\ First \in Nat /\ First + MaxPackets <= 2048
  BY BlockAckAssumption DEF HalfSpace
<1>2. p \in 1 .. MaxPackets + 1
  BY <1>1
<1>10. Seq4096(p) = First + p - 1
  BY <1>2, HalfNumber
<1>3. PICK a, w : a = Seq4096(p) /\ w = EndSequence
  OBVIOUS
<1>4. a = First + p - 1
  BY <1>10, <1>3
<1>5. a \in Nat /\ a <= 2048 /\ s \in Nat /\ s <= 2048
  BY <1>1, <1>4
<1>6. w \in Nat /\ 2047 <= w /\ w <= 4095
  BY <1>3, HalfEnd
<1>7. MapSeqControl(a, w) = (4095 - w) * 16 + a
  BY <1>5, <1>6, MapNumber
<1>8. MapSeqControl(s, w) = (4095 - w) * 16 + s
  BY <1>5, <1>6, MapNumber
<1>9. (4095 - w) * 16 + a < (4095 - w) * 16 + s <=> a < s
  BY <1>5, <1>6
<1> QED BY <1>3, <1>7, <1>8, <1>9

(* StoreMpduIfNeeded puts a packet where it belongs. *)
LEMMA StoreOrdered ==
  ASSUME HalfSpace, rBuffer \in Seq(Entries), rStart \in 0 .. First + MaxPackets,
         accepted \in 0 .. MaxPackets, InOrder(rBuffer),
         NEW e \in Entries, e.packet \in Buffered => e.packet \in unanswered
  PROVE  /\ Store(e) \in Seq(Entries) /\ InOrder(Store(e))
         /\ PacketsOf(Store(e)) = Buffered \cup {e.packet}
<1>1. PICK r, L : r = rBuffer /\ L = Len(r) /\ L \in Nat /\ r \in Seq(Entries)
  OBVIOUS
<1>2. PICK p : p = e.packet /\ p \in 1 .. MaxPackets /\ p \in Nat
  BY PacketBounds
<1>3. \A i \in 1 .. L : r[i] \in Entries /\ r[i].packet \in 1 .. MaxPackets /\ r[i].packet \in Nat
  BY <1>1, PacketBounds
<1>4. PICK before : before = {i \in DOMAIN r : r[i].packet < p}
  OBVIOUS
<1>5. PICK n \in 0 .. L : /\ \A i \in 1 .. n : i \in before
                          /\ n < L => n + 1 \notin before
                          /\ Store(e) = Prefix(r, n) \o <<e>> \o Rest(r, n)
  <2>1. PICK good : good = {i \in DOMAIN rBuffer :
                              MapSeqControl(16 * Seq4096(rBuffer[i].packet), EndSequence)
                                < MapSeqControl(16 * Seq4096(e.packet), EndSequence)}
    OBVIOUS
  <2>2. \A i \in 1 .. L : MapSeqControl(16 * Seq4096(r[i].packet), EndSequence)
                            < MapSeqControl(16 * Seq4096(p), EndSequence) <=> r[i].packet < p
    <3> SUFFICES ASSUME NEW i \in 1 .. L
                 PROVE  MapSeqControl(16 * Seq4096(r[i].packet), EndSequence)
                          < MapSeqControl(16 * Seq4096(p), EndSequence) <=> r[i].packet < p
      OBVIOUS
    <3>1. PICK q : q = r[i].packet /\ q \in 1 .. MaxPackets
      BY <1>3
    <3> QED BY <1>2, <3>1, StoreOrder
  <2>3. good = before
    BY <1>1, <1>2, <1>4, <2>1, <2>2
  <2>4. PICK n : n = LongestPrefix(r, before)
    OBVIOUS
  <2>5. Store(e) = Prefix(r, n) \o <<e>> \o Rest(r, n)
    BY <1>1, <2>1, <2>3, <2>4 DEF Store
  <2>6. n \in 0 .. L /\ (\A i \in 1 .. n : i \in before) /\ (n < L => n + 1 \notin before)
    BY <1>1, <2>4, PrefixExact
  <2> QED BY <2>5, <2>6
<1>6. PICK t : t = Store(e)
  OBVIOUS
<1>7. /\ t \in Seq(Entries) /\ Len(t) = L + 1 /\ t[n + 1] = e
      /\ \A i \in 1 .. n : t[i] = r[i]
      /\ \A i \in n + 1 .. L : t[i + 1] = r[i]
  <2>1. PICK x, y, z : x = Prefix(r, n) /\ y = x \o <<e>> /\ z = Rest(r, n)
    OBVIOUS
  <2>2. x \in Seq(Entries) /\ Len(x) = n /\ \A i \in 1 .. n : x[i] = r[i]
    <3>1. 0 \in Nat /\ n \in Nat /\ 0 <= n /\ n <= Len(r)
      BY <1>1
    <3>2. /\ SubSeq(r, 0 + 1, n) \in Seq(Entries) /\ Len(SubSeq(r, 0 + 1, n)) = n - 0
          /\ \A i \in 1 .. n - 0 : SubSeq(r, 0 + 1, n)[i] = r[0 + i]
      BY <1>1, <3>1, Parts
    <3>3. 0 + 1 = 1 /\ n - 0 = n /\ \A i \in 1 .. n : 0 + i = i
      BY <3>1
    <3> QED BY <2>1, <3>2, <3>3 DEF Prefix
  <2>3. z \in Seq(Entries) /\ Len(z) = L - n /\ \A i \in 1 .. L - n : z[i] = r[n + i]
    <3>1. n \in Nat /\ L \in Nat /\ n <= L /\ L <= Len(r)
      BY <1>1
    <3>2. /\ SubSeq(r, n + 1, L) \in Seq(Entries) /\ Len(SubSeq(r, n + 1, L)) = L - n
          /\ \A i \in 1 .. L - n : SubSeq(r, n + 1, L)[i] = r[n + i]
      BY <1>1, <3>1, Parts
    <3> QED BY <1>1, <2>1, <3>2 DEF Rest
  <2>4. /\ y \in Seq(Entries) /\ Len(y) = n + 1 /\ y[n + 1] = e
        /\ \A i \in 1 .. n : y[i] = r[i]
    <3>1. y = Append(x, e)
      BY <2>1, <2>2
    <3> QED BY <2>2, <3>1
  <2>5. t = y \o z
    BY <1>5, <1>6, <2>1
  <2>6. /\ t \in Seq(Entries) /\ Len(t) = Len(y) + Len(z)
        /\ \A i \in 1 .. Len(y) + Len(z) :
              t[i] = IF i <= Len(y) THEN y[i] ELSE z[i - Len(y)]
    BY <2>3, <2>4, <2>5, ConcatProperties
  <2>7. Len(t) = L + 1
    BY <1>1, <2>3, <2>4, <2>6
  <2>8. \A i \in 1 .. n + 1 : t[i] = y[i]
    <3> SUFFICES ASSUME NEW i \in 1 .. n + 1 PROVE t[i] = y[i]
      OBVIOUS
    <3>1. i \in 1 .. Len(y) + Len(z) /\ i <= Len(y)
      BY <1>1, <2>3, <2>4
    <3> QED BY <2>6, <3>1
  <2>9. \A i \in n + 1 .. L : t[i + 1] = r[i]
    <3> SUFFICES ASSUME NEW i \in n + 1 .. L PROVE t[i + 1] = r[i]
      OBVIOUS
    <3>1. PICK j : j = i - n /\ j \in 1 .. L - n /\ n + j = i
      BY <1>1
    <3>2. /\ i + 1 \in 1 .. Len(y) + Len(z) /\ ~(i + 1 <= Len(y))
          /\ (i + 1) - Len(y) = j
      BY <1>1, <2>3, <2>4, <3>1
    <3>3. t[i + 1] = z[j]
      BY <2>6, <3>2
    <3>4. z[j] = r[i]
      BY <2>3, <3>1
    <3> QED BY <3>3, <3>4
  <2>10. n + 1 \in 1 .. n + 1 /\ \A i \in 1 .. n : i \in 1 .. n + 1
    BY <1>1
  <2> QED BY <2>4, <2>6, <2>7, <2>8, <2>9, <2>10
<1>8. \A i, j \in 1 .. L :
         i < j => \/ r[i].packet < r[j].packet
                  \/ r[i].packet = r[j].packet /\ r[i].packet \in unanswered
  <2>1. InOrder(r)
    BY <1>1
  <2> QED BY <1>1, <2>1 DEF InOrder
<1>9. \A i \in 1 .. n : r[i].packet < p
  BY <1>4, <1>5
<1>10. \A i \in n + 1 .. L : p < r[i].packet \/ (p = r[i].packet /\ p \in unanswered)
  <2> SUFFICES ASSUME NEW i \in n + 1 .. L
               PROVE  p < r[i].packet \/ (p = r[i].packet /\ p \in unanswered)
    OBVIOUS
  <2>1. n + 1 \in 1 .. L /\ i \in 1 .. L /\ n < L
    BY <1>1
  <2>2. p <= r[n + 1].packet
    <3>1. ~(r[n + 1].packet < p)
      BY <1>1, <1>4, <1>5, <2>1
    <3> QED BY <1>2, <1>3, <2>1, <3>1
  <2>3. r[n + 1].packet <= r[i].packet
    <3>1. CASE i = n + 1
      BY <1>3, <2>1, <3>1
    <3>2. CASE n + 1 < i
      BY <1>3, <1>8, <2>1, <3>2
    <3> QED BY <3>1, <3>2
  <2>4. p <= r[i].packet
    BY <1>2, <1>3, <2>1, <2>2, <2>3
  <2>5. p = r[i].packet => p \in unanswered
    BY <1>1, <1>2, <2>1, PacketIn DEF Buffered
  <2> QED BY <1>2, <1>3, <2>1, <2>4, <2>5
<1>11. \A j \in 1 .. L + 1 : j \in 1 .. n \/ j = n + 1 \/ \E i \in n + 1 .. L : j = i + 1
  <2> SUFFICES ASSUME NEW j \in 1 .. L + 1, ~(j \in 1 .. n), j # n + 1
               PROVE  \E i \in n + 1 .. L : j = i + 1
    OBVIOUS
  <2>1. j - 1 \in n + 1 .. L /\ j = (j - 1) + 1
    BY <1>1
  <2> QED BY <2>1
<1>12. InOrder(t)
  <2> SUFFICES ASSUME NEW i \in 1 .. L + 1, NEW j \in 1 .. L + 1, i < j
               PROVE  \/ t[i].packet < t[j].packet
                      \/ t[i].packet = t[j].packet /\ t[i].packet \in unanswered
    BY <1>7 DEF InOrder
  <2>1. \A k \in 1 .. n : k \in 1 .. L
    BY <1>1
  <2>2. \A k \in n + 1 .. L : k \in 1 .. L
    BY <1>1
  <2>3. CASE i \in 1 .. n
    <3>1. t[i] = r[i] /\ i \in 1 .. L /\ r[i].packet < p
      BY <1>7, <1>9, <2>1, <2>3
    <3>2. CASE j \in 1 .. n
      BY <1>7, <1>8, <2>1, <3>1, <3>2
    <3>3. CASE j = n + 1
      BY <1>2, <1>7, <3>1, <3>3
    <3>4. ASSUME NEW k \in n + 1 .. L, j = k + 1 PROVE t[i].packet < t[j].packet
      <4>1. t[j] = r[k] /\ k \in 1 .. L /\ p <= r[k].packet
        BY <1>2, <1>3, <1>7, <1>10, <2>2, <3>4
      <4> QED BY <1>2, <1>3, <3>1, <4>1
    <3> QED BY <1>11, <3>2, <3>3, <3>4
  <2>4. CASE i = n + 1
    <3>1. PICK k \in n + 1 .. L : j = k + 1
      BY <1>1, <1>11, <2>4
    <3> QED BY <1>2, <1>7, <1>10, <2>4, <3>1
  <2>5. ASSUME NEW k \in n + 1 .. L, i = k + 1
        PROVE  \/ t[i].packet < t[j].packet
               \/ t[i].packet = t[j].packet /\ t[i].packet \in unanswered
    <3>1. PICK l \in n + 1 .. L : j = l + 1
      BY <1>1, <1>11, <2>5
    <3>2. k < l
      BY <1>1, <2>5, <3>1
    <3> QED BY <1>7, <1>8, <2>2, <2>5, <3>1, <3>2
  <2> QED BY <1>11, <2>3, <2>4, <2>5
<1>13. PacketsOf(t) = Buffered \cup {p}
  <2>1. ASSUME NEW x \in PacketsOf(t) PROVE x \in Buffered \cup {p}
    <3>1. PICK j \in 1 .. L + 1 : x = t[j].packet
      BY <1>7, PacketIn
    <3>2. \A i \in 1 .. L : r[i].packet \in Buffered
      BY <1>1, PacketIn DEF Buffered
    <3>3. \A i \in 1 .. n : i \in 1 .. L
      BY <1>1
    <3>4. \A i \in n + 1 .. L : i \in 1 .. L
      BY <1>1
    <3> QED BY <1>2, <1>7, <1>11, <3>1, <3>2, <3>3, <3>4
  <2>2. p \in PacketsOf(t)
    <3>1. n + 1 \in 1 .. Len(t)
      BY <1>1, <1>7
    <3> QED BY <1>2, <1>7, <3>1, PacketIn
  <2>3. ASSUME NEW x \in Buffered PROVE x \in PacketsOf(t)
    <3>1. PICK i \in 1 .. L : x = r[i].packet
      BY <1>1, PacketIn DEF Buffered
    <3>2. CASE i \in 1 .. n
      <4>1. i \in 1 .. Len(t) /\ t[i] = r[i]
        BY <1>1, <1>7, <3>2
      <4> QED BY <1>7, <3>1, <4>1, PacketIn
    <3>3. CASE i \in n + 1 .. L
      <4>1. i + 1 \in 1 .. Len(t) /\ t[i + 1] = r[i]
        BY <1>1, <1>7, <3>3
      <4> QED BY <1>7, <3>1, <4>1, PacketIn
    <3>4. i \in 1 .. n \/ i \in n + 1 .. L
      BY <1>1
    <3> QED BY <3>2, <3>3, <3>4
  <2> QED BY <2>1, <2>2, <2>3
<1> QED BY <1>2, <1>6, <1>7, <1>12, <1>13

-----------------------------------------------------------------------------
(* Handing up *)

(* t is what is left of s at the positions I *)
LeftOf(t, s, I) ==
    /\ \A k \in 1 .. Len(t) : \E m \in 1 .. Len(s) : m \in I /\ t[k] = s[m]
    /\ \A k, l \in 1 .. Len(t) : k < l =>
         \E m, n \in 1 .. Len(s) : m < n /\ t[k] = s[m] /\ t[l] = s[n]
    /\ \A m \in 1 .. Len(s) : m \in I => \E k \in 1 .. Len(t) : t[k] = s[m]

(* The loop leaves the elements at those positions, in order. *)
LEMMA KeptExact ==
  ASSUME NEW S, NEW s \in Seq(S), NEW I, NEW t, t = Kept(s, I)
  PROVE  t \in Seq(S) /\ LeftOf(t, s, I)
<1>1. /\ Kept(s, I) \in Seq(S) /\ Len(Kept(s, I)) <= Len(s)
      /\ \A k \in 1 .. Len(Kept(s, I)) :
           \E m \in 1 .. Len(s) : m \in I /\ Kept(s, I)[k] = s[m]
      /\ \A k, l \in 1 .. Len(Kept(s, I)) : k < l =>
           \E m, n \in 1 .. Len(s) : m < n /\ Kept(s, I)[k] = s[m] /\ Kept(s, I)[l] = s[n]
  BY KeptSound
<1>2. t \in Seq(S)
  BY <1>1
<1>3. \A k \in 1 .. Len(t) : \E m \in 1 .. Len(s) : m \in I /\ t[k] = s[m]
  BY <1>1
<1>4. \A k, l \in 1 .. Len(t) : k < l =>
        \E m, n \in 1 .. Len(s) : m < n /\ t[k] = s[m] /\ t[l] = s[n]
  BY <1>1
<1>5. \A m \in 1 .. Len(s) : m \in I => \E k \in 1 .. Len(t) : t[k] = s[m]
  BY KeptComplete
<1> QED BY <1>2, <1>3, <1>4, <1>5 DEF LeftOf

(* ps are the packets of what is left of es at the positions I, *)
PacketsLeft(ps, es, I) ==
    /\ \A k \in 1 .. Len(ps) : ps[k] \in PacketsOf(es)
    /\ \A k, l \in 1 .. Len(ps) : k < l =>
         \E m, n \in 1 .. Len(es) : m < n /\ ps[k] = es[m].packet /\ ps[l] = es[n].packet
    /\ \A m \in 1 .. Len(es) : m \in I => \E k \in 1 .. Len(ps) : ps[k] = es[m].packet

(* and the others have the number of the frame before. *)
OthersRepeat(es, I) ==
    \A m \in 1 .. Len(es) : \/ m \in I
                            \/ m = 1 /\ last = Seq4096(es[m].packet)
                            \/ m # 1 /\ Seq4096(es[m - 1].packet) = Seq4096(es[m].packet)

(* The packets of those kept. *)
LEMMA KeptPackets ==
  ASSUME NEW S, NEW es \in Seq(S), NEW I,
         NEW ps, ps = [n \in DOMAIN Kept(es, I) |-> Kept(es, I)[n].packet],
         NEW P, \A e \in S : e.packet \in P
  PROVE  ps \in Seq(P) /\ PacketsLeft(ps, es, I)
<1>1. PICK fresh : fresh = Kept(es, I)
  OBVIOUS
<1>10. fresh \in Seq(S) /\ LeftOf(fresh, es, I)
  BY <1>1, KeptExact
<1>2. /\ \A k \in 1 .. Len(fresh) : \E m \in 1 .. Len(es) : m \in I /\ fresh[k] = es[m]
      /\ \A k, l \in 1 .. Len(fresh) : k < l =>
           \E m, n \in 1 .. Len(es) : m < n /\ fresh[k] = es[m] /\ fresh[l] = es[n]
      /\ \A m \in 1 .. Len(es) : m \in I => \E k \in 1 .. Len(fresh) : fresh[k] = es[m]
  BY <1>10 DEF LeftOf
<1>3. PICK M \in Nat : M = Len(fresh) /\ DOMAIN fresh = 1 .. M
  BY <1>10
<1>4. \A k \in 1 .. M : fresh[k].packet \in P
  <2> SUFFICES ASSUME NEW k \in 1 .. M PROVE fresh[k].packet \in P
    OBVIOUS
  <2>1. fresh[k] \in S
    BY <1>10, <1>3
  <2> QED BY <2>1
<1>5. ps = [n \in 1 .. M |-> fresh[n].packet]
  BY <1>1, <1>3
<1>6. ps \in Seq(P) /\ Len(ps) = M /\ \A k \in 1 .. M : ps[k] = fresh[k].packet
  <2>1. ps \in [1 .. M -> P]
    BY <1>4, <1>5
  <2> QED BY <1>5, <2>1
<1>7. \A k \in 1 .. Len(ps) : ps[k] \in PacketsOf(es)
  <2> SUFFICES ASSUME NEW k \in 1 .. M PROVE ps[k] \in PacketsOf(es)
    BY <1>6
  <2>1. PICK m \in 1 .. Len(es) : fresh[k] = es[m]
    BY <1>2, <1>3
  <2> QED BY <1>6, <2>1, PacketIn
<1>8. \A k, l \in 1 .. Len(ps) : k < l =>
         \E m, n \in 1 .. Len(es) : m < n /\ ps[k] = es[m].packet /\ ps[l] = es[n].packet
  <2> SUFFICES ASSUME NEW k \in 1 .. M, NEW l \in 1 .. M, k < l
               PROVE  \E m, n \in 1 .. Len(es) :
                        m < n /\ ps[k] = es[m].packet /\ ps[l] = es[n].packet
    BY <1>6
  <2>1. PICK m \in 1 .. Len(es), n \in 1 .. Len(es) :
          m < n /\ fresh[k] = es[m] /\ fresh[l] = es[n]
    BY <1>2, <1>3
  <2> QED BY <1>6, <2>1
<1>9. \A m \in 1 .. Len(es) : m \in I => \E k \in 1 .. Len(ps) : ps[k] = es[m].packet
  <2> SUFFICES ASSUME NEW m \in 1 .. Len(es), m \in I
               PROVE  \E k \in 1 .. Len(ps) : ps[k] = es[m].packet
    OBVIOUS
  <2>1. PICK k \in 1 .. M : fresh[k] = es[m]
    BY <1>2, <1>3
  <2> QED BY <1>6, <2>1
<1> QED BY <1>6, <1>7, <1>8, <1>9 DEF PacketsLeft

(* What MacRxMiddle makes of a list: some of its packets, in their order, and *)
(* all but those that have the number of the one before.                      *)
LEMMA HandUpParts ==
  ASSUME NEW es \in Seq(Entries), accepted \in Nat, HandUp(es)
  PROVE  \E I : \E ps \in Seq(Packets) :
           /\ delivered' = delivered \o ps
           /\ PacketsLeft(ps, es, I) /\ OthersRepeat(es, I)
           /\ last' = IF es = << >> THEN last ELSE Seq4096(es[Len(es)].packet)
<1> DEFINE before(n) == IF n = 1 THEN last ELSE Seq4096(es[n - 1].packet)
           I == {n \in DOMAIN es : ~(es[n].retry /\ before(n) = Seq4096(es[n].packet))}
           ps == [n \in DOMAIN Kept(es, I) |-> Kept(es, I)[n].packet]
<1>1. /\ last' = IF es = << >> THEN last ELSE Seq4096(es[Len(es)].packet)
      /\ delivered' = delivered \o ps
  BY DEF HandUp
<1>2. \A m \in 1 .. Len(es) : \/ m \in I
                              \/ m = 1 /\ last = Seq4096(es[m].packet)
                              \/ m # 1 /\ Seq4096(es[m - 1].packet) = Seq4096(es[m].packet)
  <2> SUFFICES ASSUME NEW m \in 1 .. Len(es), m \notin I
               PROVE  \/ m = 1 /\ last = Seq4096(es[m].packet)
                      \/ m # 1 /\ Seq4096(es[m - 1].packet) = Seq4096(es[m].packet)
    OBVIOUS
  <2>1. m \in DOMAIN es
    OBVIOUS
  <2>2. before(m) = Seq4096(es[m].packet)
    BY <2>1
  <2> QED BY <2>2
<1>3. PICK J : J = I
  OBVIOUS
<1>4. PICK qs : qs = ps /\ qs = [n \in DOMAIN Kept(es, J) |-> Kept(es, J)[n].packet]
  BY <1>3
<1> HIDE DEF I, ps
<1>5. OthersRepeat(es, J)
  BY <1>2, <1>3 DEF OthersRepeat
<1>6. \A e \in Entries : e.packet \in Packets
  BY DEF Entries
<1>7. qs \in Seq(Packets) /\ PacketsLeft(qs, es, J)
  BY <1>4, <1>6, KeptPackets
<1>8. delivered' = delivered \o qs
  BY <1>1, <1>4
<1> QED BY <1>1, <1>5, <1>7, <1>8

(* Two lists one after the other. *)
LEMMA JoinedElements ==
  ASSUME NEW S, NEW s \in Seq(S), NEW t \in Seq(S)
  PROVE  ToSet(s \o t) = ToSet(s) \cup ToSet(t)
<1>1. PICK m \in Nat : m = Len(s) /\ DOMAIN s = 1 .. m
  OBVIOUS
<1>2. PICK n \in Nat : n = Len(t) /\ DOMAIN t = 1 .. n
  OBVIOUS
<1>3. PICK u : u = s \o t
  OBVIOUS
<1>4. /\ u \in Seq(S) /\ Len(u) = m + n
      /\ \A i \in 1 .. m + n : u[i] = IF i <= m THEN s[i] ELSE t[i - m]
  BY <1>1, <1>2, <1>3, ConcatProperties
<1>5. DOMAIN u = 1 .. m + n
  BY <1>4
<1>6. ASSUME NEW x \in ToSet(u) PROVE x \in ToSet(s) \cup ToSet(t)
  <2>1. PICK i \in 1 .. m + n : x = u[i]
    BY <1>5, <1>6 DEF ToSet
  <2>2. CASE i <= m
    <3>1. i \in 1 .. m /\ x = s[i]
      BY <1>4, <2>1, <2>2
    <3> QED BY <1>1, <3>1 DEF ToSet
  <2>3. CASE ~(i <= m)
    <3>1. i - m \in 1 .. n /\ x = t[i - m]
      BY <1>4, <2>1, <2>3
    <3> QED BY <1>2, <3>1 DEF ToSet
  <2> QED BY <2>2, <2>3
<1>7. ASSUME NEW x \in ToSet(s) PROVE x \in ToSet(u)
  <2>1. PICK i \in 1 .. m : x = s[i]
    BY <1>1, <1>7 DEF ToSet
  <2>2. i \in 1 .. m + n /\ u[i] = x
    BY <1>4, <2>1
  <2> QED BY <1>5, <2>2 DEF ToSet
<1>8. ASSUME NEW x \in ToSet(t) PROVE x \in ToSet(u)
  <2>1. PICK i \in 1 .. n : x = t[i]
    BY <1>2, <1>8 DEF ToSet
  <2>2. i + m \in 1 .. m + n /\ ~(i + m <= m) /\ (i + m) - m = i
    OBVIOUS
  <2>3. u[i + m] = x
    BY <1>4, <2>1, <2>2
  <2> QED BY <1>5, <2>2, <2>3 DEF ToSet
<1> QED BY <1>3, <1>6, <1>7, <1>8

(* Nothing is lost: what MacRxMiddle drops has been handed up. *)
LEMMA HandUpAll ==
  ASSUME HalfSpace, accepted \in 0 .. MaxPackets, RecipientInv, LastHanded,
         NEW es \in Seq(Entries), HandUp(es)
  PROVE  ToSet(delivered') = ToSet(delivered) \cup PacketsOf(es) /\ LastHanded'
<1>1. PICK I : \E ps \in Seq(Packets) :
         /\ delivered' = delivered \o ps
         /\ PacketsLeft(ps, es, I) /\ OthersRepeat(es, I)
         /\ last' = IF es = << >> THEN last ELSE Seq4096(es[Len(es)].packet)
  <2>1. accepted \in Nat
    BY BlockAckAssumption
  <2> QED BY <2>1, HandUpParts
<1>2. PICK ps \in Seq(Packets) :
         /\ delivered' = delivered \o ps
         /\ PacketsLeft(ps, es, I) /\ OthersRepeat(es, I)
         /\ last' = IF es = << >> THEN last ELSE Seq4096(es[Len(es)].packet)
  BY <1>1
<1>15. \A e \in Entries : e.packet \in Packets /\ e.packet \in 1 .. MaxPackets
  BY PacketBounds DEF Entries
<1>3. /\ \A k \in 1 .. Len(ps) : ps[k] \in PacketsOf(es)
      /\ \A m \in 1 .. Len(es) : m \in I => \E k \in 1 .. Len(ps) : ps[k] = es[m].packet
  BY <1>2 DEF PacketsLeft
<1>14. \A m \in 1 .. Len(es) : \/ m \in I
                               \/ m = 1 /\ last = Seq4096(es[m].packet)
                               \/ m # 1 /\ Seq4096(es[m - 1].packet) = Seq4096(es[m].packet)
  BY <1>2 DEF OthersRepeat
<1>4. delivered \in Seq(Packets)
  BY DEF RecipientInv
<1>5. ToSet(delivered') = ToSet(delivered) \cup ToSet(ps)
  BY <1>2, <1>3, <1>4, JoinedElements
<1>6. ToSet(ps) \subseteq PacketsOf(es)
  BY <1>3, Elements
<1>7. PICK N \in Nat : N = Len(es)
  OBVIOUS
<1>8. \A m \in 1 .. N : es[m].packet \in 1 .. MaxPackets
  BY <1>15, <1>7
<1>9. \A p, q \in 1 .. MaxPackets : Seq4096(p) = Seq4096(q) <=> p = q
  <2> SUFFICES ASSUME NEW p \in 1 .. MaxPackets, NEW q \in 1 .. MaxPackets
               PROVE  Seq4096(p) = Seq4096(q) <=> p = q
    OBVIOUS
  <2>1. p \in 1 .. MaxPackets + 1 /\ q \in 1 .. MaxPackets + 1
    BY BlockAckAssumption
  <2> QED BY <2>1, HalfOrder
<1>10. \A m \in 1 .. N : es[m].packet \in ToSet(delivered')
  <2>1. PICK T : T = {m \in 0 .. N : m # 0 => es[m].packet \in ToSet(delivered')}
    OBVIOUS
  <2>2. 0 \in T
    BY <2>1
  <2>3. ASSUME NEW m \in 1 .. N, m - 1 \in T PROVE m \in T
    <3>1. m \in 0 .. N
      BY <1>7
    <3>2. CASE m \in I
      <4>1. PICK k \in 1 .. Len(ps) : ps[k] = es[m].packet
        BY <1>3, <1>7, <3>2
      <4>2. es[m].packet \in ToSet(ps)
        BY <1>3, <4>1, Elements
      <4> QED BY <1>5, <2>1, <3>1, <4>2
    <3>3. CASE m = 1 /\ last = Seq4096(es[m].packet)
      <4>1. es[m].packet \in ToSet(delivered)
        BY <1>8, <3>3 DEF LastHanded
      <4> QED BY <1>5, <2>1, <3>1, <4>1
    <3>4. CASE m # 1 /\ Seq4096(es[m - 1].packet) = Seq4096(es[m].packet)
      <4>1. m - 1 \in 1 .. N /\ m - 1 # 0
        BY <1>7, <3>4
      <4>2. es[m - 1].packet = es[m].packet
        BY <1>8, <1>9, <3>4, <4>1
      <4> QED BY <2>1, <2>3, <3>1, <4>1, <4>2
    <3> QED BY <1>14, <1>7, <3>2, <3>3, <3>4
  <2>4. \A m \in 0 .. N : m \in T
    BY <1>7, <2>2, <2>3, Induction
  <2> QED BY <1>7, <2>1, <2>4
<1>11. PacketsOf(es) \subseteq ToSet(delivered')
  BY <1>7, <1>10, PacketIn
<1>12. ToSet(delivered') = ToSet(delivered) \cup PacketsOf(es)
  BY <1>5, <1>6, <1>11
<1>13. LastHanded'
  <2> SUFFICES ASSUME NEW p \in 1 .. MaxPackets, last' = Seq4096(p)
               PROVE  p \in ToSet(delivered')
    BY DEF LastHanded
  <2>1. CASE es = << >>
    <3>1. p \in ToSet(delivered)
      BY <1>2, <2>1 DEF LastHanded
    <3> QED BY <1>5, <3>1
  <2>2. CASE es # << >>
    <3>1. N \in 1 .. N
      BY <1>7, <2>2
    <3>2. p = es[N].packet
      BY <1>2, <1>7, <1>8, <1>9, <2>2, <3>1
    <3> QED BY <1>10, <3>1, <3>2
  <2> QED BY <2>1, <2>2
<1> QED BY <1>12, <1>13

(* What is handed up comes in order after what was before. *)
LEMMA HandUpOrdered ==
  ASSUME accepted \in Nat, RecipientInv, Ascending, UNCHANGED unanswered,
         NEW es \in Seq(Entries), HandUp(es), InOrder(es), HandedUpBefore(PacketsOf(es))
  PROVE  Ascending'
<1>1. PICK I : \E ps \in Seq(Packets) :
         /\ delivered' = delivered \o ps
         /\ PacketsLeft(ps, es, I) /\ OthersRepeat(es, I)
         /\ last' = IF es = << >> THEN last ELSE Seq4096(es[Len(es)].packet)
  BY HandUpParts
<1>2. PICK ps \in Seq(Packets) : delivered' = delivered \o ps /\ PacketsLeft(ps, es, I)
  BY <1>1
<1>3. /\ \A k \in 1 .. Len(ps) : ps[k] \in PacketsOf(es)
      /\ \A k, l \in 1 .. Len(ps) : k < l =>
           \E m, n \in 1 .. Len(es) : m < n /\ ps[k] = es[m].packet /\ ps[l] = es[n].packet
  BY <1>2 DEF PacketsLeft
<1>4. delivered \in Seq(Packets)
  BY DEF RecipientInv
<1>14. PICK N \in Nat : N = Len(delivered)
  BY <1>4
<1>13. PICK M \in Nat : M = Len(ps)
  OBVIOUS
<1>5. PICK d : /\ d = delivered' /\ N = Len(delivered) /\ M = Len(ps)
               /\ N \in Nat /\ M \in Nat
  BY <1>14, <1>13
<1>6. /\ Len(d) = N + M
      /\ \A i \in 1 .. N + M : d[i] = IF i <= N THEN delivered[i] ELSE ps[i - N]
  BY <1>2, <1>3, <1>4, <1>5, ConcatProperties
<1>7. \A i, j \in 1 .. N :
        i < j /\ {delivered[i], delivered[j]} \cap unanswered = {} => delivered[i] < delivered[j]
  BY <1>5 DEF Ascending
<1>8. \A i \in 1 .. N, p \in PacketsOf(es) :
        {delivered[i], p} \cap unanswered = {} => delivered[i] < p
  BY <1>5 DEF HandedUpBefore
<1>9. \A k, l \in 1 .. M : k < l => ps[k] < ps[l] \/ (ps[k] = ps[l] /\ ps[k] \in unanswered)
  <2> SUFFICES ASSUME NEW k \in 1 .. M, NEW l \in 1 .. M, k < l
               PROVE  ps[k] < ps[l] \/ (ps[k] = ps[l] /\ ps[k] \in unanswered)
    OBVIOUS
  <2>1. PICK m \in 1 .. Len(es), n \in 1 .. Len(es) :
           m < n /\ ps[k] = es[m].packet /\ ps[l] = es[n].packet
    BY <1>3, <1>5
  <2>2. InOrder(es)
    OBVIOUS
  <2> QED BY <2>1, <2>2 DEF InOrder
<1> SUFFICES ASSUME NEW i \in 1 .. N + M, NEW j \in 1 .. N + M, i < j,
                    {d[i], d[j]} \cap unanswered = {}
             PROVE  d[i] < d[j]
  BY <1>5, <1>6 DEF Ascending
<1>10. CASE j <= N
  <2>1. i \in 1 .. N /\ j \in 1 .. N /\ d[i] = delivered[i] /\ d[j] = delivered[j]
    BY <1>5, <1>6, <1>10
  <2> QED BY <1>7, <2>1
<1>11. CASE i <= N /\ ~(j <= N)
  <2>1. i \in 1 .. N /\ j - N \in 1 .. M /\ d[i] = delivered[i] /\ d[j] = ps[j - N]
    BY <1>5, <1>6, <1>11
  <2>2. ps[j - N] \in PacketsOf(es)
    BY <1>3, <1>5, <2>1
  <2> QED BY <1>8, <2>1, <2>2
<1>12. CASE ~(i <= N)
  <2>1. /\ i - N \in 1 .. M /\ j - N \in 1 .. M /\ i - N < j - N
        /\ d[i] = ps[i - N] /\ d[j] = ps[j - N]
    BY <1>5, <1>6, <1>12
  <2>2. ps[i - N] \notin unanswered
    BY <2>1
  <2> QED BY <1>9, <2>1, <2>2
<1> QED BY <1>5, <1>10, <1>11, <1>12

-----------------------------------------------------------------------------
(* What is complete *)

(* The frames before the start are the first ones of the list. *)
LEMMA SmallerSplit ==
  ASSUME HalfSpace, rStart \in 0 .. First + MaxPackets, accepted \in 0 .. MaxPackets,
         NEW es \in Seq(Entries), InOrder(es), NEW s \in 0 .. First + MaxPackets
  PROVE  /\ Smaller(es, s) \in 0 .. Len(es)
         /\ \A i \in 1 .. Smaller(es, s) : Seq4096(es[i].packet) < s
         /\ \A i \in Smaller(es, s) + 1 .. Len(es) : s <= Seq4096(es[i].packet)
<1>1. PICK L \in Nat : L = Len(es) /\ DOMAIN es = 1 .. L
  OBVIOUS
<1>2. \A i \in 1 .. L : es[i].packet \in 1 .. MaxPackets
  BY <1>1, PacketBounds
<1>3. PICK good : good = {i \in DOMAIN es : MapSeqControl(Seq4096(es[i].packet), EndSequence)
                                              < MapSeqControl(s, EndSequence)}
  OBVIOUS
<1>4. \A i \in 1 .. L : i \in good <=> Seq4096(es[i].packet) < s
  <2> SUFFICES ASSUME NEW i \in 1 .. L PROVE i \in good <=> Seq4096(es[i].packet) < s
    OBVIOUS
  <2>1. PICK p \in 1 .. MaxPackets : p = es[i].packet
    BY <1>2
  <2>2. MapSeqControl(Seq4096(p), EndSequence) < MapSeqControl(s, EndSequence) <=> Seq4096(p) < s
    BY SmallerOrder
  <2>3. i \in good <=> MapSeqControl(Seq4096(p), EndSequence) < MapSeqControl(s, EndSequence)
    BY <1>1, <1>3, <2>1
  <2> QED BY <2>1, <2>2, <2>3
<1>5. PICK k : k = LongestPrefix(es, good) /\ k = Smaller(es, s)
  BY <1>3 DEF Smaller
<1>6. k \in 0 .. L /\ (\A i \in 1 .. k : i \in good) /\ (k < L => k + 1 \notin good)
  <2>1. PICK S : S = Entries /\ es \in Seq(S)
    OBVIOUS
  <2>2. /\ LongestPrefix(es, good) \in 0 .. Len(es)
        /\ \A i \in 1 .. LongestPrefix(es, good) : i \in good
        /\ LongestPrefix(es, good) < Len(es) => LongestPrefix(es, good) + 1 \notin good
    BY <2>1, PrefixExact
  <2> QED BY <1>1, <1>5, <2>2
<1>7. \A i \in 1 .. k : i \in 1 .. L
  BY <1>1, <1>6
<1>8. \A i \in 1 .. L : Seq4096(es[i].packet) \in Nat
  <2> SUFFICES ASSUME NEW i \in 1 .. L PROVE Seq4096(es[i].packet) \in Nat
    OBVIOUS
  <2>1. PICK p \in 1 .. MaxPackets : p = es[i].packet
    BY <1>2
  <2>2. p \in 1 .. MaxPackets + 1
    BY BlockAckAssumption
  <2> QED BY <2>1, <2>2, HalfNumber
<1>9. \A i \in k + 1 .. L : s <= Seq4096(es[i].packet)
  <2> SUFFICES ASSUME NEW i \in k + 1 .. L PROVE s <= Seq4096(es[i].packet)
    OBVIOUS
  <2>1. k + 1 \in 1 .. L /\ i \in 1 .. L /\ k < L
    BY <1>1, <1>6
  <2>2. s <= Seq4096(es[k + 1].packet)
    <3>1. s \in Nat
      BY BlockAckAssumption
    <3> QED BY <1>4, <1>6, <1>8, <2>1, <3>1
  <2>3. es[k + 1].packet <= es[i].packet
    <3>1. CASE i = k + 1
      BY <1>2, <2>1, <3>1
    <3>2. CASE k + 1 < i
      <4>1. InOrder(es)
        OBVIOUS
      <4>2. es[k + 1].packet < es[i].packet \/ es[k + 1].packet = es[i].packet
        BY <1>1, <2>1, <3>2, <4>1 DEF InOrder
      <4> QED BY <1>2, <2>1, <4>2
    <3>3. k + 1 <= i
      BY <1>6
    <3> QED BY <1>6, <3>1, <3>2, <3>3
  <2>4. Seq4096(es[k + 1].packet) <= Seq4096(es[i].packet)
    <3>1. PICK p, q : p = es[k + 1].packet /\ q = es[i].packet
      OBVIOUS
    <3>2. p \in 1 .. MaxPackets + 1 /\ q \in 1 .. MaxPackets + 1 /\ p <= q
      BY <1>2, <2>1, <2>3, <3>1, BlockAckAssumption
    <3> QED BY <3>1, <3>2, HalfOrder
  <2>5. s \in Nat
    BY BlockAckAssumption
  <2> QED BY <1>8, <2>1, <2>2, <2>4, <2>5
<1> QED BY <1>1, <1>4, <1>5, <1>6, <1>7, <1>9

(* The run of frames that begins at the start ends before the numbers do. *)
LEMMA RunBounded ==
  ASSUME HalfSpace, accepted \in 0 .. MaxPackets,
         NEW es \in Seq(Entries), NEW s \in 0 .. First + MaxPackets
  PROVE  /\ InSequence(es, s) \in 0 .. Len(es)
         /\ s + InSequence(es, s) <= First + MaxPackets
         /\ \A i \in 1 .. InSequence(es, s) : Seq4096(es[i].packet) = s + i - 1
<1>1. PICK L \in Nat : L = Len(es) /\ DOMAIN es = 1 .. L
  OBVIOUS
<1>2. \A i \in 1 .. L : es[i].packet \in 1 .. MaxPackets
  BY <1>1, PacketBounds
<1>3. PICK good : good = {i \in DOMAIN es : Seq4096(es[i].packet) = (s + i - 1) % 4096}
  OBVIOUS
<1>4. PICK n : n = LongestPrefix(es, good) /\ n = InSequence(es, s)
  BY <1>3 DEF InSequence
<1>5. n \in 0 .. L /\ \A i \in 1 .. n : i \in good
  <2>1. PICK S : S = Entries /\ es \in Seq(S)
    OBVIOUS
  <2>2. /\ LongestPrefix(es, good) \in 0 .. Len(es)
        /\ \A i \in 1 .. LongestPrefix(es, good) : i \in good
        /\ LongestPrefix(es, good) < Len(es) => LongestPrefix(es, good) + 1 \notin good
    BY <2>1, PrefixExact
  <2> QED BY <1>1, <1>4, <2>2
<1>6. \A i \in 1 .. n : i \in 1 .. L /\ Seq4096(es[i].packet) = (s + i - 1) % 4096
  BY <1>1, <1>3, <1>5
<1>7. PICK t : t = First + MaxPackets /\ t \in Nat /\ t <= 2048 /\ s \in Nat /\ s <= t
  BY BlockAckAssumption DEF HalfSpace
<1>8. \A i \in 1 .. L : Seq4096(es[i].packet) \in Nat /\ Seq4096(es[i].packet) < t
  <2> SUFFICES ASSUME NEW i \in 1 .. L
               PROVE  Seq4096(es[i].packet) \in Nat /\ Seq4096(es[i].packet) < t
    OBVIOUS
  <2>1. PICK p \in 1 .. MaxPackets : p = es[i].packet
    BY <1>2
  <2>2. p \in 1 .. MaxPackets + 1 /\ First \in Nat /\ MaxPackets \in Nat
    BY BlockAckAssumption
  <2>3. Seq4096(p) = First + p - 1 /\ Seq4096(p) \in Nat
    BY <2>2, HalfNumber
  <2>4. First + p - 1 < First + MaxPackets
    BY <2>2
  <2> QED BY <1>7, <2>1, <2>3, <2>4
<1>9. \A m \in Nat : m <= t => m % 4096 = m
  <2> SUFFICES ASSUME NEW m \in Nat, m <= t PROVE m % 4096 = m
    OBVIOUS
  <2>1. m <= 4095
    BY <1>7
  <2> QED BY <2>1, SmallModulo
<1>10. s + n <= t
  <2> SUFFICES ASSUME ~(s + n <= t) PROVE FALSE
    OBVIOUS
  <2>1. PICK i : i = t - s + 1 /\ i \in 1 .. n /\ s + i - 1 = t
    BY <1>5, <1>7
  <2>2. (s + i - 1) % 4096 = t
    <3>1. (t % 4096) = t
      BY <1>7, <1>9
    <3> QED BY <2>1, <3>1
  <2>3. i \in 1 .. L /\ Seq4096(es[i].packet) = t
    BY <1>6, <2>1, <2>2
  <2>4. Seq4096(es[i].packet) \in Nat /\ Seq4096(es[i].packet) < t
    BY <1>8, <2>3
  <2> QED BY <1>7, <2>3, <2>4
<1>11. \A i \in 1 .. n : Seq4096(es[i].packet) = s + i - 1
  <2> SUFFICES ASSUME NEW i \in 1 .. n PROVE Seq4096(es[i].packet) = s + i - 1
    OBVIOUS
  <2>1. PICK m : m = s + i - 1
    OBVIOUS
  <2>2. m \in Nat /\ m <= t
    BY <1>5, <1>7, <1>10, <2>1
  <2>3. (m % 4096) = m
    BY <1>9, <2>2
  <2>4. Seq4096(es[i].packet) = (s + i - 1) % 4096
    BY <1>6
  <2> QED BY <2>1, <2>3, <2>4
<1> QED BY <1>1, <1>4, <1>5, <1>7, <1>10, <1>11

(* A part of a list in order is in order. *)
LEMMA PartOrdered ==
  ASSUME NEW es \in Seq(Entries), InOrder(es), NEW m \in Nat, NEW n \in Nat,
         m <= n, n <= Len(es)
  PROVE  /\ SubSeq(es, m + 1, n) \in Seq(Entries) /\ InOrder(SubSeq(es, m + 1, n))
         /\ PacketsOf(SubSeq(es, m + 1, n)) = {es[i].packet : i \in m + 1 .. n}
<1>1. PICK S : S = Entries /\ es \in Seq(S)
  OBVIOUS
<1>2. PICK t : t = SubSeq(es, m + 1, n)
  OBVIOUS
<1>3. t \in Seq(S) /\ Len(t) = n - m /\ \A i \in 1 .. n - m : t[i] = es[m + i]
  BY <1>1, <1>2, Parts
<1>4. PICK L \in Nat : L = Len(es)
  OBVIOUS
<1>5. \A i \in 1 .. n - m : m + i \in 1 .. L
  BY <1>4
<1>6. InOrder(t)
  <2> SUFFICES ASSUME NEW i \in 1 .. n - m, NEW j \in 1 .. n - m, i < j
               PROVE  \/ t[i].packet < t[j].packet
                      \/ t[i].packet = t[j].packet /\ t[i].packet \in unanswered
    BY <1>3 DEF InOrder
  <2>5. i \in Nat /\ j \in Nat /\ m + i < m + j
    OBVIOUS
  <2>1. m + i < m + j /\ m + i \in 1 .. L /\ m + j \in 1 .. L
    BY <1>5, <2>5, Zenon
  <2>2. InOrder(es)
    OBVIOUS
  <2>3. \/ es[m + i].packet < es[m + j].packet
        \/ es[m + i].packet = es[m + j].packet /\ es[m + i].packet \in unanswered
    BY <1>4, <2>1, <2>2 DEF InOrder
  <2> QED BY <1>3, <2>3
<1>7. ASSUME NEW x \in PacketsOf(t) PROVE x \in {es[i].packet : i \in m + 1 .. n}
  <2>1. PICK i \in 1 .. n - m : t[i].packet = x
    BY <1>3, <1>7, PacketIn
  <2>2. m + i \in m + 1 .. n /\ es[m + i].packet = x
    BY <1>3, <2>1
  <2> QED BY <2>2
<1>8. ASSUME NEW i \in m + 1 .. n PROVE es[i].packet \in PacketsOf(t)
  <2>1. i - m \in 1 .. n - m /\ m + (i - m) = i
    OBVIOUS
  <2>2. t[i - m] = es[i]
    BY <1>3, <2>1
  <2>3. i - m \in 1 .. Len(t)
    BY <1>3, <2>1
  <2>4. t[i - m].packet \in PacketsOf(t)
    BY <1>3, <2>3, PacketIn
  <2> QED BY <2>2, <2>4
<1> QED BY <1>1, <1>2, <1>3, <1>6, <1>7, <1>8

(* MacLow hands up one frame of each packet, in order. *)
LEMMA OneEachSound ==
  ASSUME NEW es \in Seq(Entries), InOrder(es), accepted \in Nat
  PROVE  /\ OneEach(es) \in Seq(Entries) /\ InOrder(OneEach(es))
         /\ PacketsOf(OneEach(es)) = PacketsOf(es)
<1>1. PICK I : I = {i \in DOMAIN es : i = 1 \/ es[i - 1].packet # es[i].packet}
  OBVIOUS
<1>2. PICK t : t = Kept(es, I) /\ t = OneEach(es)
  BY <1>1 DEF OneEach
<1>3. PICK S : S = Entries /\ es \in Seq(S)
  OBVIOUS
<1>4. t \in Seq(S) /\ LeftOf(t, es, I)
  BY <1>2, <1>3, KeptExact
<1>5. PICK L \in Nat : L = Len(es) /\ DOMAIN es = 1 .. L
  OBVIOUS
<1>6. PICK M \in Nat : M = Len(t)
  BY <1>4
<1>7. /\ \A k \in 1 .. M : \E m \in 1 .. L : m \in I /\ t[k] = es[m]
      /\ \A k, l \in 1 .. M : k < l =>
           \E m, n \in 1 .. L : m < n /\ t[k] = es[m] /\ t[l] = es[n]
      /\ \A m \in 1 .. L : m \in I => \E k \in 1 .. M : t[k] = es[m]
  BY <1>4, <1>5, <1>6 DEF LeftOf
<1>8. InOrder(t)
  <2> SUFFICES ASSUME NEW k \in 1 .. M, NEW l \in 1 .. M, k < l
               PROVE  \/ t[k].packet < t[l].packet
                      \/ t[k].packet = t[l].packet /\ t[k].packet \in unanswered
    BY <1>6 DEF InOrder
  <2>1. PICK m \in 1 .. L, n \in 1 .. L : m < n /\ t[k] = es[m] /\ t[l] = es[n]
    BY <1>7
  <2>2. InOrder(es)
    OBVIOUS
  <2>3. \/ es[m].packet < es[n].packet
        \/ es[m].packet = es[n].packet /\ es[m].packet \in unanswered
    BY <1>5, <2>1, <2>2 DEF InOrder
  <2> QED BY <2>1, <2>3
<1>9. ASSUME NEW x \in PacketsOf(t) PROVE x \in PacketsOf(es)
  <2>1. PICK k \in 1 .. M : t[k].packet = x
    BY <1>4, <1>6, <1>9, PacketIn
  <2>2. PICK m \in 1 .. L : t[k] = es[m]
    BY <1>7, <2>1
  <2> QED BY <1>3, <1>5, <2>1, <2>2, PacketIn
<1>10. \A m \in 1 .. L : es[m].packet \in PacketsOf(t)
  <2>1. PICK T : T = {m \in 0 .. L : m # 0 => es[m].packet \in PacketsOf(t)}
    OBVIOUS
  <2>2. 0 \in T
    BY <2>1
  <2>3. ASSUME NEW m \in 1 .. L, m - 1 \in T PROVE m \in T
    <3>1. m \in 0 .. L
      OBVIOUS
    <3>2. CASE m \in I
      <4>1. PICK k \in 1 .. M : t[k] = es[m]
        BY <1>7, <3>2
      <4>2. t[k].packet \in PacketsOf(t)
        BY <1>4, <1>6, PacketIn
      <4> QED BY <2>1, <3>1, <4>1, <4>2
    <3>3. CASE m \notin I
      <4>1. m # 1 /\ es[m - 1].packet = es[m].packet
        BY <1>1, <1>5, <3>3
      <4>2. m - 1 # 0
        BY <4>1
      <4> QED BY <2>1, <2>3, <3>1, <4>1, <4>2
    <3> QED BY <3>2, <3>3
  <2>4. \A m \in 0 .. L : m \in T
    BY <2>2, <2>3, Induction
  <2> QED BY <2>1, <2>4
<1>11. PacketsOf(es) \subseteq PacketsOf(t)
  BY <1>3, <1>5, <1>10, PacketIn
<1> QED BY <1>2, <1>3, <1>4, <1>8, <1>9, <1>11

(* Two lists in order, one after the other. *)
LEMMA JoinedOrdered ==
  ASSUME NEW S, NEW a \in Seq(S), NEW b \in Seq(S), InOrder(a), InOrder(b),
         \A p \in PacketsOf(a), q \in PacketsOf(b) : p < q \/ (p = q /\ p \in unanswered)
  PROVE  /\ a \o b \in Seq(S) /\ InOrder(a \o b)
         /\ PacketsOf(a \o b) = PacketsOf(a) \cup PacketsOf(b)
<1>1. PICK c : c = a \o b
  OBVIOUS
<1>2. PICK m \in Nat : m = Len(a)
  OBVIOUS
<1>3. PICK n \in Nat : n = Len(b)
  OBVIOUS
<1>4. /\ c \in Seq(S) /\ Len(c) = m + n
      /\ \A i \in 1 .. m + n : c[i] = IF i <= m THEN a[i] ELSE b[i - m]
  BY <1>1, <1>2, <1>3, ConcatProperties
<1>5. \A i \in 1 .. m : i \in 1 .. m + n /\ c[i] = a[i]
  <2>1. \A i \in 1 .. m : i \in 1 .. m + n /\ i <= m
    OBVIOUS
  <2> QED BY <1>4, <2>1
<1>6. \A i \in 1 .. n : i + m \in 1 .. m + n /\ c[i + m] = b[i]
  <2>1. \A i \in 1 .. n : i + m \in 1 .. m + n /\ ~(i + m <= m) /\ (i + m) - m = i
    OBVIOUS
  <2> QED BY <1>4, <2>1
<1>7. \A i \in 1 .. m + n : i \in 1 .. m \/ (i - m \in 1 .. n /\ i = (i - m) + m)
  OBVIOUS
<1>8. \A i \in 1 .. m : a[i].packet \in PacketsOf(a)
  BY <1>2, PacketIn
<1>9. \A i \in 1 .. n : b[i].packet \in PacketsOf(b)
  BY <1>3, PacketIn
<1>10. \A i, j \in 1 .. m : i < j => \/ a[i].packet < a[j].packet
                                     \/ a[i].packet = a[j].packet /\ a[i].packet \in unanswered
  <2>1. InOrder(a)
    OBVIOUS
  <2> QED BY <1>2, <2>1 DEF InOrder
<1>11. \A i, j \in 1 .. n : i < j => \/ b[i].packet < b[j].packet
                                     \/ b[i].packet = b[j].packet /\ b[i].packet \in unanswered
  <2>1. InOrder(b)
    OBVIOUS
  <2> QED BY <1>3, <2>1 DEF InOrder
<1>12. InOrder(c)
  <2> SUFFICES ASSUME NEW i \in 1 .. m + n, NEW j \in 1 .. m + n, i < j
               PROVE  \/ c[i].packet < c[j].packet
                      \/ c[i].packet = c[j].packet /\ c[i].packet \in unanswered
    BY <1>4 DEF InOrder
  <2>1. CASE i \in 1 .. m /\ j \in 1 .. m
    BY <1>5, <1>10, <2>1
  <2>2. CASE i \in 1 .. m /\ j - m \in 1 .. n
    <3>1. c[i] = a[i] /\ c[j] = b[j - m]
      <4>1. j = (j - m) + m
        OBVIOUS
      <4> QED BY <1>5, <1>6, <2>2, <4>1
    <3> QED BY <1>8, <1>9, <2>2, <3>1
  <2>3. CASE i - m \in 1 .. n
    <3>1. PICK k, l : k = i - m /\ l = j - m
      OBVIOUS
    <3>2. k \in 1 .. n /\ l \in 1 .. n /\ k < l /\ i = k + m /\ j = l + m
      BY <2>3, <3>1
    <3>3. c[i] = b[k] /\ c[j] = b[l]
      BY <1>6, <3>2
    <3> QED BY <1>11, <3>2, <3>3
  <2> QED BY <1>7, <2>1, <2>2, <2>3
<1>13. ASSUME NEW x \in PacketsOf(c) PROVE x \in PacketsOf(a) \cup PacketsOf(b)
  <2>1. PICK i \in 1 .. m + n : c[i].packet = x
    BY <1>4, <1>13, PacketIn
  <2>2. CASE i \in 1 .. m
    BY <1>5, <1>8, <2>1, <2>2
  <2>3. CASE i - m \in 1 .. n /\ i = (i - m) + m
    <3>1. c[i] = b[i - m]
      BY <1>6, <2>3
    <3> QED BY <1>9, <2>1, <2>3, <3>1
  <2> QED BY <1>7, <2>2, <2>3
<1>14. ASSUME NEW x \in PacketsOf(a) PROVE x \in PacketsOf(c)
  <2>1. PICK i \in 1 .. m : a[i].packet = x
    BY <1>2, <1>14, PacketIn
  <2>2. i \in 1 .. Len(c) /\ c[i].packet = x
    BY <1>4, <1>5, <2>1
  <2> QED BY <1>4, <2>2, PacketIn
<1>15. ASSUME NEW x \in PacketsOf(b) PROVE x \in PacketsOf(c)
  <2>1. PICK i \in 1 .. n : b[i].packet = x
    BY <1>3, <1>15, PacketIn
  <2>2. i + m \in 1 .. Len(c) /\ c[i + m].packet = x
    BY <1>4, <1>6, <2>1
  <2> QED BY <1>4, <2>2, PacketIn
<1> QED BY <1>1, <1>4, <1>12, <1>13, <1>14, <1>15

(* ps are the packets of es that are handed up, up to the start as it is then, *)
(* and the others wait *)
HandedUp(es, s, ps) ==
    /\ ToSet(delivered') = ToSet(delivered) \cup ps
    /\ ps \cup PacketsOf(rBuffer') = PacketsOf(es)
    /\ \A p \in ps : Seq4096(p) < rStart'
    /\ \A p \in 1 .. MaxPackets : s <= Seq4096(p) /\ Seq4096(p) < rStart' => p \in ps

(* The frames complete are handed up in order, and those that wait come after. *)
LEMMA CompleteOrdered ==
  ASSUME HalfSpace, RecipientInv, accepted \in 0 .. MaxPackets,
         rStart \in 0 .. First + MaxPackets, Ascending, LastHanded, UNCHANGED unanswered,
         NEW es \in Seq(Entries), InOrder(es), HandedUpBefore(PacketsOf(es)),
         NEW s \in 0 .. First + MaxPackets, Complete(es, s, s)
  PROVE  /\ Ascending' /\ LastHanded' /\ InOrder(rBuffer)' /\ HandedUpBefore(Buffered)'
         /\ s <= rStart' /\ rStart' \in 0 .. First + MaxPackets
         /\ \E ps : HandedUp(es, s, ps)
<1>1. PICK k, rest, n :
        /\ k = Smaller(es, s) /\ rest = Rest(es, k) /\ n = InSequence(rest, s)
        /\ HandUp(OneEach(Prefix(es, k)) \o SubSeq(es, k + 1, k + n))
        /\ rStart' = (s + n) % 4096
        /\ rBuffer' = Rest(es, k + n)
  BY DEF Complete
<1>2. PICK L \in Nat : L = Len(es)
  OBVIOUS
<1>3. /\ k \in 0 .. L /\ \A i \in 1 .. k : Seq4096(es[i].packet) < s
      /\ \A i \in k + 1 .. L : s <= Seq4096(es[i].packet)
  BY <1>1, <1>2, SmallerSplit
<1>4. PICK t : t = First + MaxPackets /\ t \in Nat /\ t <= 2048 /\ s \in Nat /\ s <= t
  BY BlockAckAssumption DEF HalfSpace
<1>5. /\ rest \in Seq(Entries) /\ Len(rest) = L - k
      /\ \A i \in 1 .. L - k : rest[i] = es[k + i]
  <2>1. PICK S : S = Entries /\ es \in Seq(S)
    OBVIOUS
  <2>2. k \in Nat /\ L \in Nat /\ k <= L /\ L <= Len(es)
    BY <1>2, <1>3
  <2>3. /\ SubSeq(es, k + 1, L) \in Seq(S) /\ Len(SubSeq(es, k + 1, L)) = L - k
        /\ \A i \in 1 .. L - k : SubSeq(es, k + 1, L)[i] = es[k + i]
    BY <2>1, <2>2, Parts
  <2> QED BY <1>1, <1>2, <2>1, <2>3 DEF Rest
<1>6. /\ n \in 0 .. L - k /\ s + n <= t
      /\ \A i \in 1 .. n : Seq4096(rest[i].packet) = s + i - 1
  <2>1. rest \in Seq(Entries)
    BY <1>5
  <2>2. /\ InSequence(rest, s) \in 0 .. Len(rest)
        /\ s + InSequence(rest, s) <= First + MaxPackets
        /\ \A i \in 1 .. InSequence(rest, s) : Seq4096(rest[i].packet) = s + i - 1
    BY <2>1, RunBounded
  <2>3. n = InSequence(rest, s) /\ Len(rest) = L - k
    BY <1>1, <1>5
  <2> QED BY <1>4, <2>2, <2>3
<1>7. k \in Nat /\ n \in Nat /\ k + n \in Nat /\ k <= k + n /\ k + n <= L
  BY <1>2, <1>3, <1>6
<1>8. \A i \in 1 .. n : Seq4096(es[k + i].packet) = s + i - 1
  <2> SUFFICES ASSUME NEW i \in 1 .. n PROVE Seq4096(es[k + i].packet) = s + i - 1
    OBVIOUS
  <2>1. i \in 1 .. L - k
    BY <1>6, <1>7
  <2>2. rest[i] = es[k + i] /\ Seq4096(rest[i].packet) = s + i - 1
    BY <1>5, <1>6, <2>1
  <2> QED BY <2>2
<1>9. rStart' = s + n
  <2>1. PICK m : m = s + n
    OBVIOUS
  <2>2. m \in Nat /\ m <= 4095
    BY <1>4, <1>6, <1>7, <2>1
  <2>3. m % 4096 = m
    BY <2>2, SmallModulo
  <2> QED BY <1>1, <2>1, <2>3
<1>10. PICK pre, run, hs :
         /\ pre = Prefix(es, k) /\ run = SubSeq(es, k + 1, k + n)
         /\ hs = OneEach(pre) \o run
  OBVIOUS
<1>11. /\ pre \in Seq(Entries) /\ InOrder(pre)
       /\ PacketsOf(pre) = {es[i].packet : i \in 1 .. k}
  <2>1. 0 \in Nat /\ k \in Nat /\ 0 <= k /\ k <= Len(es) /\ 0 + 1 = 1
    BY <1>2, <1>7
  <2>2. /\ SubSeq(es, 0 + 1, k) \in Seq(Entries) /\ InOrder(SubSeq(es, 0 + 1, k))
        /\ PacketsOf(SubSeq(es, 0 + 1, k)) = {es[i].packet : i \in 0 + 1 .. k}
    BY <2>1, PartOrdered
  <2> QED BY <1>10, <2>1, <2>2 DEF Prefix
<1>12. /\ run \in Seq(Entries) /\ InOrder(run)
       /\ PacketsOf(run) = {es[i].packet : i \in k + 1 .. k + n}
  <2>1. k + n <= Len(es)
    BY <1>2, <1>7
  <2> QED BY <1>7, <1>10, <2>1, PartOrdered
<1>13. /\ rBuffer' \in Seq(Entries) /\ InOrder(rBuffer')
       /\ PacketsOf(rBuffer') = {es[i].packet : i \in k + n + 1 .. L}
  <2>1. PICK m \in Nat : m = k + n /\ m <= L
    BY <1>7
  <2>2. L <= Len(es) /\ L \in Nat
    BY <1>2
  <2>3. /\ SubSeq(es, m + 1, L) \in Seq(Entries) /\ InOrder(SubSeq(es, m + 1, L))
        /\ PacketsOf(SubSeq(es, m + 1, L)) = {es[i].packet : i \in m + 1 .. L}
    BY <2>1, <2>2, PartOrdered
  <2>4. rBuffer' = SubSeq(es, m + 1, L)
    BY <1>1, <1>2, <2>1 DEF Rest
  <2> QED BY <2>1, <2>3, <2>4
<1>14. accepted \in Nat
  BY BlockAckAssumption
<1>15. \A i, j \in 1 .. L : i < j => \/ es[i].packet < es[j].packet
                                     \/ es[i].packet = es[j].packet /\ es[i].packet \in unanswered
  <2>1. InOrder(es)
    OBVIOUS
  <2> QED BY <1>2, <2>1 DEF InOrder
<1>16. /\ hs \in Seq(Entries) /\ InOrder(hs)
       /\ PacketsOf(hs) = PacketsOf(pre) \cup PacketsOf(run)
  <2>1. /\ OneEach(pre) \in Seq(Entries) /\ InOrder(OneEach(pre))
        /\ PacketsOf(OneEach(pre)) = PacketsOf(pre)
    BY <1>11, <1>14, OneEachSound
  <2>2. PICK one : one = OneEach(pre) /\ hs = one \o run
    BY <1>10
  <2>3. \A p \in PacketsOf(one), q \in PacketsOf(run) : p < q \/ (p = q /\ p \in unanswered)
    <3> SUFFICES ASSUME NEW p \in PacketsOf(one), NEW q \in PacketsOf(run)
                 PROVE  p < q \/ (p = q /\ p \in unanswered)
      OBVIOUS
    <3>1. PICK i \in 1 .. k : p = es[i].packet
      BY <1>11, <2>1, <2>2
    <3>2. PICK j \in k + 1 .. k + n : q = es[j].packet
      BY <1>12
    <3>3. i \in 1 .. L /\ j \in 1 .. L /\ i < j
      BY <1>7
    <3> QED BY <1>15, <3>1, <3>2, <3>3
  <2>4. PICK S : S = Entries /\ one \in Seq(S) /\ run \in Seq(S)
    BY <1>12, <2>1, <2>2
  <2>5. InOrder(one) /\ InOrder(run)
    BY <1>12, <2>1, <2>2
  <2>6. /\ one \o run \in Seq(S) /\ InOrder(one \o run)
        /\ PacketsOf(one \o run) = PacketsOf(one) \cup PacketsOf(run)
    BY <2>3, <2>4, <2>5, JoinedOrdered
  <2> QED BY <2>1, <2>2, <2>4, <2>6
<1>17. PICK ps : ps = PacketsOf(hs) /\ ps = {es[i].packet : i \in 1 .. k + n}
  <2>1. \A i \in 1 .. k + n : i \in 1 .. k \/ i \in k + 1 .. k + n
    BY <1>7
  <2>2. \A i \in 1 .. k : i \in 1 .. k + n
    BY <1>7
  <2>3. \A i \in k + 1 .. k + n : i \in 1 .. k + n
    BY <1>7
  <2> QED BY <1>11, <1>12, <1>16, <2>1, <2>2, <2>3
<1>18. \A i \in 1 .. L : es[i].packet \in PacketsOf(es) /\ es[i].packet \in 1 .. MaxPackets
  BY <1>2, PacketBounds, PacketIn
<1>19. ps \subseteq PacketsOf(es) /\ \A i \in 1 .. k + n : i \in 1 .. L
  <2>1. \A i \in 1 .. k + n : i \in 1 .. L
    BY <1>7
  <2> QED BY <1>17, <1>18, <2>1
<1>20. HandedUpBefore(ps)
  <2>1. HandedUpBefore(PacketsOf(es))
    OBVIOUS
  <2> QED BY <1>19, <2>1 DEF HandedUpBefore
<1>21. HandUp(hs)
  BY <1>1, <1>10
<1>22. Ascending'
  BY <1>14, <1>16, <1>17, <1>20, <1>21, HandUpOrdered
<1>23. ToSet(delivered') = ToSet(delivered) \cup ps /\ LastHanded'
  BY <1>16, <1>17, <1>21, HandUpAll
<1>24. \A i \in k + n + 1 .. L : i \in 1 .. L
  BY <1>7
<1>25. ps \cup PacketsOf(rBuffer') = PacketsOf(es)
  <2>1. \A i \in 1 .. L : i \in 1 .. k + n \/ i \in k + n + 1 .. L
    BY <1>7
  <2>2. ASSUME NEW x \in PacketsOf(es) PROVE x \in ps \cup PacketsOf(rBuffer')
    <3>1. PICK i \in 1 .. L : x = es[i].packet
      BY <1>2, PacketIn
    <3> QED BY <1>13, <1>17, <2>1, <3>1
  <2>3. PacketsOf(rBuffer') \subseteq PacketsOf(es)
    BY <1>13, <1>18, <1>24
  <2> QED BY <1>19, <2>2, <2>3
<1>26. \A p \in ps : Seq4096(p) < s + n
  <2> SUFFICES ASSUME NEW i \in 1 .. k + n PROVE Seq4096(es[i].packet) < s + n
    BY <1>17
  <2>1. CASE i <= k
    <3>1. i \in 1 .. k
      BY <1>7, <2>1
    <3>2. PICK x : x = Seq4096(es[i].packet) /\ x < s
      BY <1>3, <3>1
    <3>3. x \in Nat
      <4>1. es[i].packet \in 1 .. MaxPackets + 1
        BY <1>18, <1>19, BlockAckAssumption
      <4> QED BY <3>2, <4>1, HalfNumber
    <3> QED BY <1>4, <1>7, <3>2, <3>3
  <2>2. CASE ~(i <= k)
    <3>1. PICK j : j = i - k /\ j \in 1 .. n /\ i = k + j
      BY <1>7, <2>2
    <3>2. Seq4096(es[i].packet) = s + j - 1
      BY <1>8, <3>1
    <3> QED BY <1>4, <1>7, <3>1, <3>2
  <2> QED BY <2>1, <2>2
<1>27. \A p \in 1 .. MaxPackets : s <= Seq4096(p) /\ Seq4096(p) < s + n => p \in ps
  <2> SUFFICES ASSUME NEW p \in 1 .. MaxPackets, s <= Seq4096(p), Seq4096(p) < s + n
               PROVE  p \in ps
    OBVIOUS
  <2>1. p \in 1 .. MaxPackets + 1
    BY BlockAckAssumption
  <2>2. PICK x \in Nat : x = Seq4096(p) /\ s <= x /\ x < s + n
    BY <2>1, HalfNumber
  <2>3. PICK j : j = x - s + 1 /\ j \in 1 .. n /\ s + j - 1 = x
    BY <1>4, <1>7, <2>2
  <2>4. k + j \in 1 .. k + n
    BY <1>7, <2>3
  <2>5. PICK q : q = es[k + j].packet /\ Seq4096(q) = x
    BY <1>8, <2>3
  <2>6. q \in 1 .. MaxPackets + 1 /\ q \in ps
    BY <1>17, <1>18, <1>19, <2>4, <2>5, BlockAckAssumption
  <2>7. p = q
    BY <2>1, <2>2, <2>5, <2>6, HalfOrder
  <2> QED BY <2>6, <2>7
<1>28. HandedUp(es, s, ps)
  BY <1>9, <1>23, <1>25, <1>26, <1>27 DEF HandedUp
<1>29. HandedUpBefore(Buffered)'
  <2> SUFFICES ASSUME NEW i \in 1 .. Len(delivered'), NEW q \in PacketsOf(rBuffer'),
                      {delivered'[i], q} \cap unanswered = {}
               PROVE  delivered'[i] < q
    BY DEF HandedUpBefore, Buffered
  <2>1. PICK x : x = delivered'[i] /\ x \in ToSet(delivered')
    <3>1. delivered' \in Seq(Packets)
      <4>1. accepted \in Nat /\ RecipientInv /\ hs \in Seq(Entries) /\ HandUp(hs)
        BY <1>14, <1>16, <1>21
      <4> QED BY <4>1, HandUpSound
    <3> QED BY <3>1, Elements
  <2>2. CASE x \in ToSet(delivered)
    <3>1. q \in PacketsOf(es)
      BY <1>25
    <3>2. PICK j \in 1 .. Len(delivered) : x = delivered[j]
      BY <2>2, Elements DEF RecipientInv
    <3>3. HandedUpBefore(PacketsOf(es))
      OBVIOUS
    <3> QED BY <2>1, <3>1, <3>2, <3>3 DEF HandedUpBefore
  <2>3. CASE x \in ps
    <3>1. PICK j \in 1 .. k + n : x = es[j].packet
      BY <1>17, <2>3
    <3>2. PICK l \in k + n + 1 .. L : q = es[l].packet
      BY <1>13
    <3>3. j \in 1 .. L /\ l \in 1 .. L /\ j < l
      BY <1>7
    <3> QED BY <1>15, <2>1, <3>1, <3>2, <3>3
  <2> QED BY <1>23, <2>1, <2>2, <2>3
<1>30. InOrder(rBuffer)'
  BY <1>13 DEF InOrder
<1>31. s <= rStart' /\ rStart' \in 0 .. First + MaxPackets
  BY <1>4, <1>6, <1>7, <1>9
<1> QED BY <1>22, <1>23, <1>28, <1>29, <1>30, <1>31

-----------------------------------------------------------------------------
(* The session: what the two sides know of each other *)

(* Steps that change only counters, timers and what is queued, or lose a frame. *)
LEMMA SessionKept ==
  ASSUME SessionInv, UNCHANGED <<taken, buffer, retries, bars, start, current, agreement>>,
         UNCHANGED <<agreed, rBuffer>>, accepted' <= MaxPackets, response' => response,
         air' = air \/ air' = Silence
  PROVE  SessionInv'
<1>1. UNCHANGED <<FirstDue, BarPending>>
  BY DEF FirstDue, BarPending
<1>2. AgreementInv'
  BY <1>1 DEF SessionInv, AgreementInv, Seq4096
<1>3. RequestInv'
  BY DEF SessionInv, RequestInv
<1>4. FrameInv'
  <2>1. CASE air' = air
    BY <2>1 DEF SessionInv, FrameInv
  <2>2. CASE air' = Silence
    BY <2>2 DEF FrameInv, Silence
  <2> QED BY <2>1, <2>2
<1> QED BY <1>2, <1>3, <1>4 DEF SessionInv

(* The frame kept goes on the air. *)
LEMMA FrameSent ==
  ASSUME NEW c, NEW answer, Transmit(c, answer), c.kind = "data" => ~c.block,
         c.kind # "blockack"
  PROVE  FrameInv'
<1>1. current' = c /\ air' = c
  BY DEF Transmit
<1> QED BY <1>1 DEF FrameInv

(* Nothing or an ACK is on the air. *)
LEMMA FrameGone ==
  ASSUME air' = Silence \/ air' = Ack
  PROVE  FrameInv'
BY DEF FrameInv, Silence, Ack

(* A BlockAckReq has the start of the agreement it was scheduled in. *)
LEMMA SessionSendBlockAckRequest ==
  ASSUME IInv, SessionInv, SendBlockAckRequest,
         UNCHANGED <<acked, failed, wide, Channel, Recipient>>
  PROVE  SessionInv'
<1>1. /\ bars # << >> /\ bars' = Tail(bars) /\ bars \in Seq(SequenceNumbers) /\ Len(bars) <= 1
      /\ Transmit(Bar(Head(bars)), "blockack") /\ current = None
      /\ UNCHANGED <<accepted, taken, buffer, retries, start, agreement, agreed, rBuffer, response>>
  BY DEF SendBlockAckRequest, Queued, Channel, Recipient, IInv, CurrentInv
<1>2. current' = Bar(bars[1]) /\ bars' = << >>
  <2>1. Head(bars) = bars[1] /\ Tail(bars) = << >>
    BY <1>1
  <2> QED BY <1>1, <2>1 DEF Transmit
<1>3. FrameInv'
  <2>1. Bar(Head(bars)).kind = "bar"
    BY DEF Bar
  <2> QED BY <1>1, <2>1, FrameSent
<1>4. AgreementInv'
  <2>1. FirstDue' = FirstDue /\ BarPending
    BY <1>1 DEF FirstDue, BarPending
  <2> QED BY <1>1, <2>1 DEF SessionInv, AgreementInv, Seq4096
<1>5. RequestInv'
  BY <1>1, <1>2 DEF SessionInv, RequestInv, Bar
<1> QED BY <1>3, <1>4, <1>5 DEF SessionInv

(* An agreement is asked for while nothing is buffered, from the next packet on. *)
LEMMA SessionSendAddBaRequest ==
  ASSUME IInv, SessionInv, SendAddBaRequest, UNCHANGED <<acked, failed, wide, Channel, Recipient>>
  PROVE  SessionInv'
<1>1. /\ agreement = "none" /\ agreement' = "PENDING" /\ start' = Seq4096(taken + 1)
      /\ Transmit(AddBaRequest(Seq4096(taken + 1)), "ack") /\ bars = << >>
      /\ UNCHANGED <<accepted, taken, buffer, retries, bars, agreed, rBuffer, response>>
  BY DEF SendAddBaRequest, SetupNeeded, Idle, Queued, Channel, Recipient
<1>2. buffer = << >>
  BY <1>1 DEF IInv, ManagerInv
<1>3. current' = AddBaRequest(Seq4096(taken + 1)) /\ current'.kind = "addba"
  BY <1>1 DEF Transmit, AddBaRequest
<1>4. FrameInv'
  <2>1. AddBaRequest(Seq4096(taken + 1)).kind = "addba"
    BY DEF AddBaRequest
  <2> QED BY <1>1, <2>1, FrameSent
<1>5. AgreementInv'
  <2>1. start' = Seq4096(FirstDue)'
    BY <1>1, <1>2 DEF FirstDue, Seq4096
  <2>2. ~BarPending'
    BY <1>1, <1>3 DEF BarPending
  <2> QED BY <1>1, <2>1, <2>2 DEF SessionInv, AgreementInv
<1>6. RequestInv'
  BY <1>1, <1>2, <1>3 DEF RequestInv, AddBaRequest
<1> QED BY <1>4, <1>5, <1>6 DEF SessionInv

(* The frame kept is sent again as it is. *)
LEMMA SessionRepeat ==
  ASSUME IInv, SessionInv, Repeat, UNCHANGED <<acked, failed, wide, Channel, Recipient>>
  PROVE  SessionInv'
<1>1. /\ Transmit(current, IF current.kind = "bar" THEN "blockack" ELSE "ack") /\ current' = current
      /\ UNCHANGED <<accepted, taken, buffer, retries, bars, start, agreement>>
      /\ UNCHANGED <<agreed, rBuffer, response>>
  BY DEF Repeat, Transmit, Queued, Manager, Channel, Recipient
<1>2. FrameInv'
  <2>1. current.kind # "blockack" /\ (current.kind = "data" => ~current.block)
    <3>1. /\ current.kind \in {"none", "data", "addba", "bar"}
          /\ current.kind = "data" =>
               current \in [kind : {"data"}, packet : Packets, retry : BOOLEAN, block : {FALSE}]
      BY FrameKept DEF IInv
    <3> QED BY <3>1
  <2> QED BY <1>1, <2>1, FrameSent
<1>3. AgreementInv'
  <2>1. UNCHANGED <<FirstDue, BarPending>>
    BY <1>1 DEF FirstDue, BarPending
  <2> QED BY <1>1, <2>1 DEF SessionInv, AgreementInv, Seq4096
<1>4. RequestInv'
  BY <1>1 DEF SessionInv, RequestInv
<1> QED BY <1>2, <1>3, <1>4 DEF SessionInv

(* An exchange ends, and the manager keeps what it has. *)
LEMMA SessionGotAck ==
  ASSUME IInv, SessionInv, GotAck \/ MissedAck
  PROVE  SessionInv'
<1>1. /\ air' = Silence
      /\ UNCHANGED <<accepted, taken, buffer, retries, bars, start, agreement>>
      /\ UNCHANGED <<agreed, rBuffer, response>>
      /\ waiting = "ack"
      /\ current' = None \/ current' = [current EXCEPT !.retry = TRUE]
  BY DEF GotAck, MissedAck, Queued, Manager, Channel, Recipient
<1>2. /\ current.kind \in {"data", "addba"}
      /\ current.kind = "data" =>
           current \in [kind : {"data"}, packet : Packets, retry : BOOLEAN, block : {FALSE}]
      /\ current.kind = "addba" =>
           current \in [kind : {"addba"}, start : SequenceNumbers, retry : BOOLEAN]
  BY <1>1, FrameKept DEF IInv, CurrentInv
<1>3. \/ current'.kind = "none"
      \/ current'.kind = "data" /\ current.kind = "data"
      \/ current'.kind = "addba" /\ current.kind = "addba" /\ current'.start = current.start
  <2>1. CASE current' = None
    BY <2>1 DEF None
  <2>2. CASE current' = [current EXCEPT !.retry = TRUE]
    BY <1>2, <2>2
  <2> QED BY <1>1, <2>1, <2>2
<1>4. FrameInv'
  BY <1>1, FrameGone
<1>5. AgreementInv'
  <2>1. FirstDue' = FirstDue /\ (BarPending' => BarPending)
    BY <1>1, <1>3 DEF FirstDue, BarPending
  <2> QED BY <1>1, <2>1 DEF SessionInv, AgreementInv, Seq4096
<1>6. RequestInv'
  BY <1>1, <1>3 DEF SessionInv, RequestInv
<1> QED BY <1>4, <1>5, <1>6 DEF SessionInv

(* A response is only sent once the recipient has agreed. *)
LEMMA SessionGotAddBaResponse ==
  ASSUME SessionInv, GotAddBaResponse
  PROVE  SessionInv'
<1>1. /\ air' = Silence /\ response /\ response' = FALSE
      /\ agreement' = IF agreement = "PENDING" THEN "ESTABLISHED" ELSE agreement
      /\ UNCHANGED <<accepted, taken, buffer, retries, bars, start, current>>
      /\ UNCHANGED <<agreed, rBuffer>>
  BY DEF GotAddBaResponse, Queued, Recipient
<1>2. FrameInv'
  BY <1>1, FrameGone
<1>3. AgreementInv'
  <2>1. UNCHANGED <<FirstDue, BarPending>>
    BY <1>1 DEF FirstDue, BarPending
  <2> QED BY <1>1, <2>1 DEF SessionInv, AgreementInv, Seq4096
<1>4. RequestInv'
  BY <1>1 DEF SessionInv, RequestInv
<1> QED BY <1>2, <1>3, <1>4 DEF SessionInv

-----------------------------------------------------------------------------
(* The two ways an MPDU is sent *)

(* p is sent under the agreement, which starts at the first packet not settled, *)
BlockSend(p, again) ==
    /\ Free /\ air = Silence /\ CompleteTx(p, again) /\ Handed(p, again) /\ again \in BOOLEAN
    /\ agreement \in {"ESTABLISHED", "INACTIVE"} /\ agreement' = "ESTABLISHED"
    /\ start' = Seq4096(FirstDue)
    /\ accepted' = accepted /\ UNCHANGED acked /\ UNCHANGED <<Channel, Recipient>>

(* or on its own: the first packet buffered, or one just taken while there is none. *)
OwnSend(p, again) ==
    /\ Free /\ air = Silence /\ Transmit(Data(p, again), "ack")
    /\ agreement \in {"none", "INACTIVE"} /\ UNCHANGED <<agreement, bars>>
    /\ \/ /\ buffer # << >> /\ p = buffer[1] /\ buffer' = Tail(buffer)
          /\ retries # << >> /\ p = Head(retries) /\ retries' = Tail(retries) /\ taken' = taken
       \/ /\ buffer = << >> /\ buffer' = << >> /\ retries = << >> /\ retries' = << >>
          /\ p = taken + 1 /\ taken' = taken + 1 /\ taken < accepted
    /\ accepted' = accepted /\ UNCHANGED acked /\ UNCHANGED <<Channel, Recipient>>

(* Without an agreement everything buffered is to be sent again. *)
LEMMA NoneSent ==
  ASSUME IInv, Free, agreement # "ESTABLISHED"
  PROVE  /\ Sent = 0 /\ Len(buffer) = Len(retries)
         /\ \A n \in 1 .. Len(retries) : retries[n] = buffer[n]
<1>1. Sent = 0
  BY DEF IInv, ManagerInv
<1>2. /\ Len(buffer) = 0 + Len(retries)
      /\ \A n \in 1 .. Len(retries) : retries[n] = buffer[0 + n]
  BY <1>1, NotPending
<1>3. PICK L \in Nat : L = Len(retries)
  <2>1. retries \in Seq(1 .. taken)
    BY DEF IInv, OriginatorInv
  <2> QED BY <2>1, LenProperties
<1> QED BY <1>1, <1>2, <1>3

(* A packet buffered makes it an agreement that was established. *)
LEMMA AgreementMade ==
  ASSUME IInv, buffer # << >>
  PROVE  agreement \in {"ESTABLISHED", "INACTIVE"}
BY DEF IInv, OriginatorInv, ManagerInv

(* A retransmission is one of the two, *)
LEMMA RetransmitSends ==
  ASSUME IInv, Retransmit, UNCHANGED <<acked, failed, wide, Channel, Recipient>>
  PROVE  \E p, again : BlockSend(p, again) \/ OwnSend(p, again)
<1>1. PICK p :
        /\ Free /\ air = Silence /\ retries # << >>
        /\ p = Head(retries) /\ retries' = Tail(retries)
        /\ UNCHANGED <<accepted, taken, acked>> /\ UNCHANGED <<Channel, Recipient>>
        /\ \/ /\ agreement = "ESTABLISHED" /\ agreement' = agreement
              /\ start' = Seq4096(Head(buffer)) /\ CompleteTx(p, TRUE)
           \/ /\ agreement # "ESTABLISHED" /\ agreement' = "ESTABLISHED"
              /\ start' = Seq4096(p) /\ CompleteTx(p, TRUE)
           \/ /\ agreement # "ESTABLISHED"
              /\ buffer' = ErasedFrom(buffer, p) /\ Transmit(Data(p, TRUE), "ack")
              /\ UNCHANGED <<agreement, bars>>
  BY DEF Retransmit, Free, Granted, Queued
<1>2. /\ buffer \in Seq(1 .. taken) /\ retries \in Seq(1 .. taken) /\ taken \in Nat
      /\ p = buffer[Sent + 1] /\ buffer # << >>
      /\ agreement \in {"ESTABLISHED", "INACTIVE"}
  BY <1>1, RetriesBuffered, AgreementMade DEF IInv, OriginatorInv
<1>3. Head(buffer) = buffer[1] /\ FirstDue = buffer[1]
  BY <1>2 DEF FirstDue
<1>4. agreement # "ESTABLISHED" => p = buffer[1]
  BY <1>1, <1>2, NoneSent
<1>5. Handed(p, TRUE)
  BY <1>1 DEF Handed
<1>6. CASE CompleteTx(p, TRUE) /\ agreement' = "ESTABLISHED" /\ start' = Seq4096(buffer[1])
  BY <1>1, <1>2, <1>3, <1>5, <1>6 DEF BlockSend
<1>7. CASE /\ agreement # "ESTABLISHED" /\ buffer' = ErasedFrom(buffer, p)
           /\ Transmit(Data(p, TRUE), "ack") /\ UNCHANGED <<agreement, bars>>
  <2>1. buffer' = Tail(buffer)
    <3>1. PICK b : b = buffer /\ b \in Seq(Nat) /\ Ordered(b) /\ b # << >> /\ p = b[1]
      BY <1>2, <1>4, <1>7 DEF IInv, ManagerInv
    <3>2. ErasedFrom(b, b[1]) = Tail(b)
      BY <3>1, ErasedFirst
    <3> QED BY <1>7, <3>1, <3>2
  <2>2. agreement \in {"none", "INACTIVE"}
    BY <1>2, <1>7
  <2>3. OwnSend(p, TRUE)
    BY <1>1, <1>2, <1>4, <1>7, <2>1, <2>2 DEF OwnSend
  <2> QED BY <2>3
<1> QED BY <1>1, <1>3, <1>4, <1>6, <1>7

(* and so is the first transmission of a packet. *)
LEMMA DequeueSends ==
  ASSUME IInv, SessionInv, Dequeue, UNCHANGED <<acked, failed, wide, Channel, Recipient>>
  PROVE  \E p, again : BlockSend(p, again) \/ OwnSend(p, again)
<1>1. PICK p :
        /\ Free /\ air = Silence /\ retries = << >> /\ InQueue > 0
        /\ p = taken + 1 /\ taken' = taken + 1 /\ retries' = retries
        /\ UNCHANGED <<accepted, acked>> /\ UNCHANGED <<Channel, Recipient>>
        /\ agreement # "PENDING"
        /\ \/ agreement = "INACTIVE" /\ agreement' = "ESTABLISHED" /\ start' = Seq4096(p)
           \/ agreement' = agreement /\ start' = start
        /\ IF agreement' = "ESTABLISHED" THEN CompleteTx(p, FALSE)
           ELSE Transmit(Data(p, FALSE), "ack") /\ UNCHANGED <<sentMpdus, buffer, bars>>
  BY DEF Dequeue, Free, Idle, Granted
<1>2. accepted \in Nat /\ taken \in Nat /\ taken < accepted
  <2>1. accepted \in Nat /\ taken \in Nat /\ accepted - taken > 0
    BY <1>1 DEF InQueue, IInv, OriginatorInv
  <2> QED BY <2>1
<1>3. agreement # "ESTABLISHED" => buffer = << >>
  <2> SUFFICES ASSUME agreement # "ESTABLISHED" PROVE buffer = << >>
    OBVIOUS
  <2>1. Len(buffer) = 0
    BY <1>1, NoneSent
  <2>2. buffer \in Seq(1 .. taken)
    BY DEF IInv, OriginatorInv
  <2> QED BY <2>1, <2>2
<1>4. CASE agreement' = "ESTABLISHED"
  <2>1. Handed(p, FALSE)
    BY <1>1, <1>2 DEF Handed
  <2>2. start' = Seq4096(FirstDue)
    <3>1. CASE agreement = "INACTIVE" /\ start' = Seq4096(p)
      BY <1>1, <1>3, <3>1 DEF FirstDue
    <3>2. CASE agreement' = agreement /\ start' = start
      BY <1>4, <3>2 DEF SessionInv, AgreementInv
    <3> QED BY <1>1, <3>1, <3>2
  <2>3. BlockSend(p, FALSE)
    BY <1>1, <1>4, <2>1, <2>2 DEF BlockSend
  <2> QED BY <2>3
<1>5. CASE agreement' # "ESTABLISHED"
  <2>1. agreement \in {"none", "INACTIVE"} /\ agreement # "ESTABLISHED" /\ agreement' = agreement
    <3>1. agreement' = agreement
      BY <1>1, <1>5
    <3> QED BY <1>1, <1>5, <3>1 DEF IInv, OriginatorInv
  <2>2. OwnSend(p, FALSE)
    BY <1>1, <1>2, <1>3, <1>5, <2>1 DEF OwnSend
  <2> QED BY <2>2
<1> QED BY <1>4, <1>5

(* The first packet not settled is the first buffered, or the next to be taken. *)
LEMMA FirstDueBounds ==
  ASSUME IInv
  PROVE  /\ taken \in Nat /\ FirstDue \in 1 .. taken + 1
         /\ \A p \in ToSet(buffer) : p \in FirstDue .. taken
         /\ buffer # << >> => FirstDue = buffer[1] /\ FirstDue \in ToSet(buffer)
<1>1. taken \in Nat /\ buffer \in Seq(1 .. taken) /\ Ordered(buffer)
  BY DEF IInv, OriginatorInv, ManagerInv
<1>2. PICK b, L : b = buffer /\ b \in Seq(1 .. taken) /\ L = Len(b) /\ L \in Nat
  BY <1>1, LenProperties
<1>3. CASE b = << >>
  BY <1>1, <1>2, <1>3 DEF FirstDue, ToSet
<1>4. CASE b # << >>
  <2>1. 1 \in 1 .. L /\ \A i \in 1 .. L : b[i] \in 1 .. taken
    <3>1. Len(b) \in Nat \ {0}
      BY <1>2, <1>4, TailSound, Zenon
    <3>2. \A i \in 1 .. Len(b) : b[i] \in 1 .. taken
      BY <1>2, ElementOfSeq, Zenon
    <3> QED BY <1>2, <3>1, <3>2
  <2>2. FirstDue = b[1]
    BY <1>2, <1>4 DEF FirstDue
  <2>3. \A i \in 1 .. L : b[1] <= b[i]
    <3> SUFFICES ASSUME NEW i \in 1 .. L PROVE b[1] <= b[i]
      OBVIOUS
    <3>1. CASE i = 1
      BY <1>1, <2>1, <3>1
    <3>2. CASE 1 < i
      BY <1>1, <1>2, <2>1, <3>2 DEF Ordered
    <3> QED BY <3>1, <3>2
  <2>4. \A p \in ToSet(b) : p \in b[1] .. taken
    <3> SUFFICES ASSUME NEW p \in ToSet(b) PROVE p \in b[1] .. taken
      OBVIOUS
    <3>1. PICK i \in 1 .. L : p = b[i]
      BY <1>2, Elements
    <3> QED BY <1>1, <2>1, <2>3, <3>1
  <2>5. b[1] \in ToSet(b)
    BY <1>2, <2>1, Elements
  <2> QED BY <1>1, <1>2, <2>1, <2>2, <2>4, <2>5
<1> QED BY <1>3, <1>4

(* A list after its first element is taken, and its elements. *)
LEMMA TailElements ==
  ASSUME NEW S, NEW s \in Seq(S), s # << >>
  PROVE  /\ ToSet(Tail(s)) \subseteq ToSet(s) /\ s[1] \in ToSet(s)
         /\ ToSet(s) \subseteq {s[1]} \cup ToSet(Tail(s))
         /\ \A x \in ToSet(Tail(s)) : \E n \in 1 .. Len(s) - 1 : x = s[n + 1]
<1>1. /\ Tail(s) \in Seq(S) /\ Len(Tail(s)) = Len(s) - 1 /\ Len(s) \in Nat \ {0}
      /\ \A n \in 1 .. Len(s) - 1 : Tail(s)[n] = s[n + 1]
  BY TailSound
<1>2. PICK t, L : t = Tail(s) /\ L = Len(s) /\ L \in Nat \ {0} /\ Len(t) = L - 1 /\ t \in Seq(S)
  BY <1>1
<1>3. \A n \in 1 .. L - 1 : t[n] = s[n + 1] /\ n + 1 \in 1 .. L
  BY <1>1, <1>2
<1>4. \A x \in ToSet(t) : \E n \in 1 .. L - 1 : x = s[n + 1]
  <2> SUFFICES ASSUME NEW x \in ToSet(t) PROVE \E n \in 1 .. L - 1 : x = s[n + 1]
    OBVIOUS
  <2>1. PICK n \in 1 .. L - 1 : x = t[n]
    BY <1>2, Elements
  <2> QED BY <1>3, <2>1
<1>5. \A n \in 1 .. L : s[n] \in ToSet(s)
  BY <1>2, Elements
<1>6. ToSet(t) \subseteq ToSet(s)
  BY <1>3, <1>4, <1>5
<1>7. ToSet(s) \subseteq {s[1]} \cup ToSet(t)
  <2> SUFFICES ASSUME NEW x \in ToSet(s), x # s[1] PROVE x \in ToSet(t)
    OBVIOUS
  <2>1. PICK n \in 1 .. L : x = s[n]
    BY <1>2, Elements
  <2>2. PICK m : m = n - 1 /\ m \in 1 .. L - 1 /\ n = m + 1
    BY <1>2, <2>1
  <2>3. x = t[m] /\ m \in 1 .. Len(t)
    BY <1>2, <1>3, <2>1, <2>2
  <2> QED BY <1>2, <2>3, Elements
<1>8. s[1] \in ToSet(s)
  BY <1>2, <1>5
<1> QED BY <1>2, <1>4, <1>6, <1>7, <1>8

(* p is sent under the agreement: it is buffered, and not to be sent again. *)
LEMMA BlockSendEffect ==
  ASSUME IInv, NEW p, NEW again, BlockSend(p, again)
  PROVE  /\ buffer' # << >> /\ FirstDue' = FirstDue
         /\ ToSet(buffer') = ToSet(buffer) \cup {p}
         /\ p \notin ToSet(retries') /\ ToSet(retries') \subseteq ToSet(retries)
         /\ \/ p \in ToSet(buffer) /\ p \in ToSet(retries) /\ taken' = taken
            \/ p = taken + 1 /\ taken' = taken + 1 /\ taken < accepted
         /\ current' = None /\ air' = BlockData(p, again)
         /\ bars' = << >> \/ bars' = <<start'>>
<1>1. /\ current' = None /\ air' = BlockData(p, again) /\ bars = << >>
      /\ bars' = bars \/ bars' = Append(bars, start')
      /\ buffer' = IF again THEN buffer ELSE Append(buffer, p)
      /\ again \in BOOLEAN
  BY DEF BlockSend, CompleteTx, Free
<1>2. bars' = << >> \/ bars' = <<start'>>
  BY <1>1
<1>3. PICK b, r, T : b = buffer /\ r = retries /\ T = taken
  OBVIOUS
<1>4. /\ b \in Seq(1 .. T) /\ r \in Seq(1 .. T) /\ T \in Nat /\ Sent \in Nat
      /\ Ordered(b)
      /\ Len(b) = Sent + Len(r)
      /\ \A n \in 1 .. Len(r) : r[n] = b[Sent + n]
  BY <1>3, NotPending DEF BlockSend, IInv, OriginatorInv, ManagerInv
<1>5. CASE again
  <2>1. r # << >> /\ p = Head(r) /\ retries' = Tail(r) /\ taken' = taken
    BY <1>1, <1>3, <1>5 DEF BlockSend, Handed
  <2>2. p \in ToSet(b) /\ b # << >>
    BY <1>3, <2>1, RetriesBuffered DEF BlockSend
  <2>3. buffer' = buffer /\ FirstDue' = FirstDue
    BY <1>1, <1>5, <2>1 DEF FirstDue
  <2>4. Len(r) \in Nat \ {0} /\ p = r[1]
    BY <1>4, <2>1, TailSound
  <2>5. /\ ToSet(Tail(r)) \subseteq ToSet(r) /\ r[1] \in ToSet(r)
        /\ \A x \in ToSet(Tail(r)) : \E n \in 1 .. Len(r) - 1 : x = r[n + 1]
    BY <1>4, <2>1, TailElements
  <2>6. p \notin ToSet(Tail(r))
    <3> SUFFICES ASSUME p \in ToSet(Tail(r)) PROVE FALSE
      OBVIOUS
    <3>1. PICK L \in Nat : L = Len(r) /\ L # 0
      BY <2>4
    <3>2. PICK n \in 1 .. L - 1 : p = r[n + 1]
      BY <2>5, <3>1
    <3>3. n + 1 \in 1 .. L /\ 1 \in 1 .. L
      BY <3>1, <3>2
    <3>4. p = b[Sent + 1] /\ p = b[Sent + (n + 1)]
      BY <1>4, <2>4, <3>1, <3>2, <3>3
    <3>5. /\ Sent + 1 \in 1 .. Len(b) /\ Sent + (n + 1) \in 1 .. Len(b)
          /\ Sent + 1 < Sent + (n + 1)
      BY <1>4, <3>1, <3>3
    <3>6. b[Sent + 1] < b[Sent + (n + 1)]
      BY <1>4, <3>5 DEF Ordered
    <3>7. b[Sent + 1] \in Nat
      BY <1>4, <3>5
    <3> QED BY <3>4, <3>6, <3>7
  <2> QED BY <1>1, <1>2, <1>3, <2>1, <2>2, <2>3, <2>4, <2>5, <2>6
<1>6. CASE ~again
  <2>1. r = << >> /\ retries' = << >> /\ p = T + 1 /\ taken' = T + 1 /\ taken < accepted
    BY <1>1, <1>3, <1>6 DEF BlockSend, Handed
  <2>2. buffer' = Append(b, p)
    BY <1>1, <1>3, <1>6
  <2>3. PICK c, L : c = Append(b, p) /\ L = Len(b) /\ L \in Nat
    BY <1>4, LenProperties
  <2>4. /\ c \in Seq(1 .. T + 1) /\ Len(c) = L + 1 /\ c[L + 1] = p
        /\ \A i \in 1 .. L : c[i] = b[i]
    <3>1. b \in Seq(1 .. T + 1) /\ p \in 1 .. T + 1
      <4>1. 1 .. T \subseteq 1 .. T + 1
        BY <1>4
      <4> QED BY <1>4, <2>1, <4>1
    <3> QED BY <2>3, <3>1
  <2>5. c # << >>
    BY <2>3, <2>4
  <2>6. ToSet(c) = ToSet(b) \cup {p}
    <3>1. ASSUME NEW x \in ToSet(c) PROVE x \in ToSet(b) \cup {p}
      <4>1. PICK i \in 1 .. L + 1 : x = c[i]
        BY <2>4, <3>1, Elements
      <4>2. CASE i = L + 1
        BY <2>4, <4>1, <4>2
      <4>3. CASE i # L + 1
        <5>1. i \in 1 .. L
          BY <2>3, <4>1, <4>3
        <5>2. x = b[i]
          BY <2>4, <4>1, <5>1
        <5> QED BY <1>4, <2>3, <5>1, <5>2, Elements
      <4> QED BY <4>2, <4>3
    <3>2. ASSUME NEW x \in ToSet(b) PROVE x \in ToSet(c)
      <4>1. PICK i \in 1 .. L : x = b[i]
        BY <1>4, <2>3, <3>2, Elements
      <4>2. i \in 1 .. Len(c) /\ x = c[i]
        BY <2>3, <2>4, <4>1
      <4> QED BY <2>4, <4>2, Elements
    <3>3. p \in ToSet(c)
      <4>1. L + 1 \in 1 .. Len(c)
        BY <2>3, <2>4
      <4> QED BY <2>4, <4>1, Elements
    <3> QED BY <3>1, <3>2, <3>3
  <2>7. FirstDue' = FirstDue
    <3>1. FirstDue' = c[1]
      BY <2>2, <2>3, <2>5 DEF FirstDue
    <3>2. CASE b = << >>
      <4>1. L = 0
        BY <2>3, <3>2
      <4> QED BY <1>3, <2>1, <2>4, <3>1, <3>2, <4>1 DEF FirstDue
    <3>3. CASE b # << >>
      <4>1. Len(b) \in Nat \ {0}
        BY <1>4, <3>3, TailSound, Zenon
      <4>2. 1 \in 1 .. L
        BY <2>3, <4>1
      <4> QED BY <1>3, <2>4, <3>1, <3>3, <4>2 DEF FirstDue
    <3> QED BY <3>2, <3>3
  <2>8. ToSet(retries') = {}
    BY <2>1 DEF ToSet
  <2> QED BY <1>1, <1>2, <1>3, <2>1, <2>2, <2>3, <2>5, <2>6, <2>7, <2>8
<1> QED BY <1>1, <1>5, <1>6

(* p is sent on its own: it leaves the lists, of which it was the first. *)
LEMMA OwnSendEffect ==
  ASSUME IInv, NEW p, NEW again, OwnSend(p, again)
  PROVE  /\ ToSet(buffer') \subseteq ToSet(buffer) /\ ToSet(retries') \subseteq ToSet(retries)
         /\ FirstDue' \in Nat /\ FirstDue <= FirstDue'
         /\ \A q \in ToSet(buffer) : FirstDue' <= q => q \in ToSet(buffer')
         /\ \/ p \in ToSet(buffer) /\ p \in ToSet(retries) /\ taken' = taken
            \/ p = taken + 1 /\ taken' = taken + 1 /\ taken < accepted /\ FirstDue' = taken' + 1
         /\ current' = Data(p, again) /\ air' = Data(p, again)
         /\ bars = << >> /\ bars' = << >>
<1>1. current' = Data(p, again) /\ air' = Data(p, again) /\ bars = << >> /\ bars' = << >>
  BY DEF OwnSend, Transmit, Free
<1>2. PICK b, r, T : b = buffer /\ r = retries /\ T = taken
  OBVIOUS
<1>3. b \in Seq(1 .. T) /\ r \in Seq(1 .. T) /\ T \in Nat /\ Ordered(b)
  BY <1>2 DEF IInv, OriginatorInv, ManagerInv
<1>4. CASE buffer = << >> /\ taken' = taken + 1
  <2>1. /\ buffer' = << >> /\ retries = << >> /\ retries' = << >>
        /\ p = taken + 1 /\ taken' = taken + 1 /\ taken < accepted
    BY <1>4 DEF OwnSend
  <2>2. FirstDue = T + 1 /\ FirstDue' = T + 1 + 1
    BY <1>2, <1>4, <2>1 DEF FirstDue
  <2>3. ToSet(buffer) = {} /\ ToSet(buffer') = {} /\ ToSet(retries') = {}
    BY <1>4, <2>1 DEF ToSet
  <2> QED BY <1>1, <1>2, <1>3, <2>1, <2>2, <2>3
<1>5. CASE buffer # << >>
  <2>1. /\ p = b[1] /\ buffer' = Tail(b) /\ b # << >>
        /\ r # << >> /\ p = Head(r) /\ retries' = Tail(r) /\ taken' = taken
    BY <1>2, <1>5 DEF OwnSend
  <2>2. /\ ToSet(Tail(b)) \subseteq ToSet(b) /\ b[1] \in ToSet(b)
        /\ ToSet(b) \subseteq {b[1]} \cup ToSet(Tail(b))
    BY <1>3, <2>1, TailElements
  <2>3. ToSet(Tail(r)) \subseteq ToSet(r) /\ r[1] \in ToSet(r) /\ Head(r) = r[1]
    BY <1>3, <2>1, TailElements
  <2>4. FirstDue = p /\ p \in 1 .. T
    BY <1>2, <1>5, <2>1, FirstDueBounds DEF FirstDue
  <2>5. FirstDue' \in Nat /\ FirstDue < FirstDue'
    <3>1. /\ Tail(b) \in Seq(1 .. T) /\ Len(Tail(b)) = Len(b) - 1 /\ Len(b) \in Nat \ {0}
          /\ \A n \in 1 .. Len(b) - 1 : Tail(b)[n] = b[n + 1]
      BY <1>3, <2>1, TailSound, Zenon
    <3>2. CASE Tail(b) = << >>
      <4>1. FirstDue' = T + 1
        BY <1>2, <2>1, <3>2 DEF FirstDue
      <4> QED BY <1>3, <2>4, <4>1
    <3>3. CASE Tail(b) # << >>
      <4>1. PICK L \in Nat : L = Len(b) /\ L # 0
        BY <3>1
      <4>2. Len(Tail(b)) \in Nat \ {0}
        BY <3>1, <3>3, TailSound, Zenon
      <4>3. 1 \in 1 .. L - 1 /\ 1 \in 1 .. L /\ 1 + 1 \in 1 .. L /\ 1 < 1 + 1
        BY <3>1, <4>1, <4>2
      <4>4. FirstDue' = b[1 + 1]
        <5>1. FirstDue' = Tail(b)[1]
          BY <2>1, <3>3 DEF FirstDue
        <5> QED BY <3>1, <4>1, <4>3, <5>1
      <4>5. b[1] < b[1 + 1] /\ b[1 + 1] \in 1 .. T
        <5>1. \A i \in 1 .. Len(b) : b[i] \in 1 .. T
          BY <1>3, ElementOfSeq, Zenon
        <5>2. b[1] < b[1 + 1]
          BY <1>3, <4>1, <4>3 DEF Ordered
        <5> QED BY <4>1, <4>3, <5>1, <5>2
      <4> QED BY <1>3, <2>1, <2>4, <4>4, <4>5
    <3> QED BY <3>2, <3>3
  <2>6. \A q \in ToSet(b) : FirstDue' <= q => q \in ToSet(Tail(b))
    BY <1>3, <2>1, <2>2, <2>4, <2>5
  <2>7. FirstDue \in Nat
    BY <1>3, <2>4
  <2>8. FirstDue <= FirstDue'
    BY <2>5, <2>7
  <2> QED BY <1>1, <1>2, <2>1, <2>2, <2>3, <2>5, <2>6, <2>8
<1>6. buffer # << >> \/ (buffer = << >> /\ taken' = taken + 1)
  BY DEF OwnSend
<1> QED BY <1>4, <1>5, <1>6

(* An MPDU sent under the agreement leaves no frame to wait for. *)
LEMMA SessionBlockSend ==
  ASSUME SessionInv, IInv, NEW p, NEW again, BlockSend(p, again)
  PROVE  SessionInv'
<1>1. /\ buffer' # << >> /\ FirstDue' = FirstDue /\ p \in ToSet(buffer') /\ p \notin ToSet(retries')
      /\ current' = None /\ air' = BlockData(p, again) /\ (bars' = << >> \/ bars' = <<start'>>)
  BY BlockSendEffect
<1>2. /\ agreement \in {"ESTABLISHED", "INACTIVE"} /\ agreement' = "ESTABLISHED"
      /\ start' = Seq4096(FirstDue) /\ accepted' = accepted
      /\ UNCHANGED <<response, agreed, rBuffer>>
  BY DEF BlockSend, Channel, Recipient
<1>3. AgreementInv'
  <2>1. start' = Seq4096(FirstDue)'
    BY <1>1, <1>2 DEF Seq4096
  <2> QED BY <1>1, <1>2, <2>1 DEF SessionInv, AgreementInv
<1>4. RequestInv'
  BY <1>1 DEF RequestInv, None
<1>5. FrameInv'
  BY <1>1, <1>2 DEF FrameInv, BlockData
<1> QED BY <1>3, <1>4, <1>5 DEF SessionInv

(* An MPDU sent on its own is kept, while no agreement is in force. *)
LEMMA SessionOwnSend ==
  ASSUME SessionInv, IInv, NEW p, NEW again, OwnSend(p, again)
  PROVE  SessionInv'
<1>1. current' = Data(p, again) /\ bars' = << >>
  BY OwnSendEffect
<1>2. /\ agreement \in {"none", "INACTIVE"} /\ agreement' = agreement /\ accepted' = accepted
      /\ UNCHANGED <<response, agreed, rBuffer>> /\ Transmit(Data(p, again), "ack")
  BY DEF OwnSend, Channel, Recipient
<1>3. AgreementInv'
  <2>1. ~BarPending'
    BY <1>1 DEF BarPending, Data
  <2> QED BY <1>2, <2>1 DEF SessionInv, AgreementInv
<1>4. RequestInv'
  BY <1>1, <1>2 DEF RequestInv, Data
<1>5. FrameInv'
  <2>1. Data(p, again).kind = "data" /\ ~Data(p, again).block
    BY DEF Data
  <2> QED BY <1>2, <2>1, FrameSent
<1> QED BY <1>3, <1>4, <1>5 DEF SessionInv

(* A block ack leaves what it does not report in both lists of the manager. *)
LEMMA GotBlockAckEffect ==
  ASSUME IInv, GotBlockAck
  PROVE  /\ air.kind = "blockack" /\ current.kind = "bar" /\ agreement = "ESTABLISHED"
         /\ retries = << >> /\ bars' = << >> /\ current' = None /\ air' = Silence
         /\ buffer' \in Seq(1 .. taken) /\ retries' = buffer'
         /\ ToSet(buffer') = {p \in ToSet(buffer) : ~IsPacketReceived(air, p)}
         /\ acked' = acked \cup (ToSet(buffer) \ ToSet(buffer'))
         /\ wide' = (wide \/ WideAnswer)
         /\ agreement' \in {"ESTABLISHED", "INACTIVE"}
         /\ agreement' = "ESTABLISHED" => start' = Seq4096(FirstDue)'
         /\ UNCHANGED <<accepted, taken>> /\ UNCHANGED <<Channel, Recipient>>
<1>1. PICK I, lost :
        /\ I = {n \in DOMAIN buffer : ~IsPacketReceived(air, buffer[n])}
        /\ lost = Kept(buffer, I) /\ buffer' = lost /\ retries' = retries \o lost
        /\ acked' = acked \cup (ToSet(buffer) \ ToSet(lost))
        /\ start' = IF lost # << >> THEN Seq4096(Head(lost))
                    ELSE IF EnoughFor(InQueue, lost) THEN Seq4096(taken + 1) ELSE start
        /\ agreement' = IF EnoughFor(InQueue, lost) THEN "ESTABLISHED" ELSE "INACTIVE"
        /\ air.kind = "blockack" /\ waiting = "blockack" /\ current' = None /\ air' = Silence
        /\ bars' = bars /\ UNCHANGED <<accepted, taken>> /\ UNCHANGED <<Channel, Recipient>>
        /\ wide' = (wide \/ WideAnswer)
  BY DEF GotBlockAck, Queued, WideAnswer
<1>2. current.kind = "bar" /\ current # None
  BY <1>1 DEF IInv, CurrentInv, None
<1>3. bars' = << >>
  BY <1>1, <1>2 DEF IInv, CurrentInv
<1>4. retries = << >> /\ agreement = "ESTABLISHED"
  BY <1>2 DEF IInv, ManagerInv, BarPending
<1>5. buffer \in Seq(1 .. taken)
  BY DEF IInv, OriginatorInv
<1>6. lost \in Seq(1 .. taken) /\ LeftOf(lost, buffer, I)
  BY <1>1, <1>5, KeptExact
<1>7. retries' = lost
  BY <1>1, <1>4, <1>6
<1>8. ToSet(lost) = {p \in ToSet(buffer) : ~IsPacketReceived(air, p)}
  <2>1. DOMAIN buffer = 1 .. Len(buffer)
    BY <1>5
  <2>2. ASSUME NEW x \in ToSet(lost) PROVE x \in ToSet(buffer) /\ ~IsPacketReceived(air, x)
    <3>1. PICK k \in 1 .. Len(lost) : x = lost[k]
      BY <1>6, <2>2, Elements
    <3>2. PICK m \in 1 .. Len(buffer) : m \in I /\ x = buffer[m]
      BY <1>6, <3>1 DEF LeftOf
    <3> QED BY <1>1, <1>5, <3>2, Elements
  <2>3. ASSUME NEW x \in ToSet(buffer), ~IsPacketReceived(air, x) PROVE x \in ToSet(lost)
    <3>1. PICK m \in 1 .. Len(buffer) : x = buffer[m]
      BY <1>5, <2>3, Elements
    <3>2. m \in I
      BY <1>1, <2>1, <2>3, <3>1
    <3>3. PICK k \in 1 .. Len(lost) : lost[k] = x
      BY <1>6, <3>1, <3>2 DEF LeftOf
    <3> QED BY <1>6, <3>3, Elements
  <2> QED BY <2>2, <2>3
<1>9. agreement' = "ESTABLISHED" => start' = Seq4096(FirstDue)'
  <2> SUFFICES ASSUME agreement' = "ESTABLISHED" PROVE start' = Seq4096(FirstDue)'
    OBVIOUS
  <2>1. CASE lost = << >>
    <3>1. start' = Seq4096(taken + 1)
      BY <1>1, <2>1
    <3>2. FirstDue' = taken + 1
      BY <1>1, <2>1 DEF FirstDue
    <3> QED BY <3>1, <3>2 DEF Seq4096
  <2>2. CASE lost # << >>
    <3>1. start' = Seq4096(lost[1])
      BY <1>1, <1>6, <2>2
    <3>2. FirstDue' = lost[1]
      BY <1>1, <2>2 DEF FirstDue
    <3> QED BY <3>1, <3>2 DEF Seq4096
  <2> QED BY <2>1, <2>2
<1> QED BY <1>1, <1>2, <1>3, <1>4, <1>6, <1>7, <1>8, <1>9

(* A block ack ends the exchange, and the agreement starts where it says. *)
LEMMA SessionGotBlockAck ==
  ASSUME IInv, SessionInv, GotBlockAck
  PROVE  SessionInv'
<1>1. /\ agreement = "ESTABLISHED" /\ bars' = << >> /\ current' = None /\ air' = Silence
      /\ agreement' \in {"ESTABLISHED", "INACTIVE"}
      /\ agreement' = "ESTABLISHED" => start' = Seq4096(FirstDue)'
      /\ accepted' = accepted /\ UNCHANGED <<response, agreed, rBuffer>>
  BY GotBlockAckEffect DEF Channel, Recipient
<1>2. FrameInv'
  BY <1>1, FrameGone
<1>3. RequestInv'
  BY <1>1 DEF RequestInv, None
<1>4. AgreementInv'
  <2>1. ~BarPending'
    BY <1>1 DEF BarPending, None
  <2> QED BY <1>1, <2>1 DEF SessionInv, AgreementInv
<1> QED BY <1>2, <1>3, <1>4 DEF SessionInv

(* A step of the recipient leaves the originator's part. *)
LEMMA SessionReceive ==
  ASSUME SessionInv, UNCHANGED Originator, response' => agreed', agreed => agreed',
         agreed' \/ rBuffer' = rBuffer, FrameInv'
  PROVE  SessionInv'
<1>1. UNCHANGED <<accepted, taken, buffer, bars, start, current, agreement>>
  BY DEF Originator, Queued, Manager
<1>2. AgreementInv'
  <2>1. UNCHANGED <<FirstDue, BarPending>>
    BY <1>1 DEF FirstDue, BarPending
  <2>2. Seq4096(FirstDue)' = Seq4096(FirstDue)
    BY <2>1 DEF Seq4096
  <2> QED BY <1>1, <2>1, <2>2 DEF SessionInv, AgreementInv
<1>3. RequestInv'
  BY <1>1 DEF SessionInv, RequestInv
<1> QED BY <1>2, <1>3 DEF SessionInv

(* An MPDU is buffered only under an agreement, and answered at most with an ACK. *)
LEMMA SessionReceiveData ==
  ASSUME SessionInv, ReceiveData
  PROVE  SessionInv'
<1>1. /\ UNCHANGED Originator /\ UNCHANGED <<response, agreed>> /\ (air' = Silence \/ air' = Ack)
      /\ agreed \/ rBuffer' = rBuffer
  BY DEF ReceiveData, Channel
<1>2. FrameInv'
  BY <1>1, FrameGone
<1>3. response => agreed
  BY DEF SessionInv, AgreementInv
<1> QED BY <1>1, <1>2, <1>3, SessionReceive

(* A request for an agreement makes the recipient agree. *)
LEMMA SessionReceiveAddBaRequest ==
  ASSUME SessionInv, ReceiveAddBaRequest
  PROVE  SessionInv'
<1>1. /\ UNCHANGED Originator /\ agreed' = TRUE /\ air' = Ack
  BY DEF ReceiveAddBaRequest
<1>2. FrameInv'
  BY <1>1, FrameGone
<1> QED BY <1>1, <1>2, SessionReceive

(* A BlockAckReq on the air is of the agreement, and has its start. *)
LEMMA RequestOnAir ==
  ASSUME IInv, SessionInv, air.kind = "bar"
  PROVE  /\ current.kind = "bar" /\ air.start = start /\ agreement = "ESTABLISHED" /\ agreed
         /\ retries = << >> /\ buffer # << >> /\ start = Seq4096(FirstDue)
<1>1. current.kind = "bar" /\ air.start = start
  BY DEF SessionInv, FrameInv, RequestInv
<1>2. BarPending
  BY <1>1 DEF BarPending
<1>3. agreement = "ESTABLISHED" /\ retries = << >>
  BY <1>2 DEF IInv, ManagerInv
<1> QED BY <1>1, <1>2, <1>3 DEF SessionInv, AgreementInv

(* A block ack has the start of the request it answers. *)
LEMMA SessionSendBlockAck ==
  ASSUME IInv, SessionInv, SendBlockAckAfterBlockAckRequest
  PROVE  SessionInv'
<1>1. PICK bitmap :
        /\ UNCHANGED Originator /\ UNCHANGED Channel /\ agreed' = agreed /\ air.kind = "bar"
        /\ air' = [kind |-> "blockack", start |-> air.start, bitmap |-> bitmap]
  BY DEF SendBlockAckAfterBlockAckRequest
<1>2. current.kind = "bar" /\ air.start = start /\ agreed
  BY <1>1, RequestOnAir
<1>3. UNCHANGED <<current, start>> /\ response' = response
  BY <1>1 DEF Originator, Manager, Channel
<1>4. FrameInv'
  BY <1>1, <1>2, <1>3 DEF FrameInv
<1> QED BY <1>1, <1>2, <1>3, <1>4, SessionReceive

(* Initially there is no agreement, and nothing was sent. *)
LEMMA InitSession == Init => SessionInv
<1> SUFFICES ASSUME Init PROVE SessionInv
  OBVIOUS
<1>1. /\ accepted = 0 /\ agreement = "none" /\ buffer = << >> /\ bars = << >> /\ rBuffer = << >>
      /\ current = None /\ air = Silence /\ response = FALSE
  BY DEF Init
<1>2. ~BarPending /\ 0 <= MaxPackets
  BY <1>1, BlockAckAssumption DEF BarPending, None
<1>3. AgreementInv
  BY <1>1, <1>2 DEF AgreementInv
<1>4. RequestInv
  BY <1>1 DEF RequestInv, None
<1>5. FrameInv
  BY <1>1 DEF FrameInv, Silence
<1> QED BY <1>3, <1>4, <1>5 DEF SessionInv

(* Every step keeps what the two sides know of each other. *)
LEMMA NextSession ==
  ASSUME IInv, SessionInv, [Next]_vars
  PROVE  SessionInv'
<1>1. accepted <= MaxPackets
  BY DEF SessionInv, AgreementInv
<1>2. CASE Queue
  <2>1. /\ UNCHANGED <<taken, buffer, retries, bars, start, current, agreement>>
        /\ UNCHANGED <<agreed, rBuffer>> /\ response' = response /\ air' = air
        /\ accepted' = accepted + 1 /\ accepted < MaxPackets
    BY <1>2 DEF Queue, Manager, Channel, Recipient
  <2>2. accepted' <= MaxPackets
    BY <2>1, BlockAckAssumption DEF IInv, OriginatorInv
  <2> QED BY <2>1, <2>2, SessionKept
<1>3. CASE NotifyAccessGranted
  <2>1. UNCHANGED <<acked, failed, wide, Channel, Recipient>>
    BY <1>3 DEF NotifyAccessGranted
  <2>2. CASE SendBlockAckRequest
    BY <2>1, <2>2, SessionSendBlockAckRequest
  <2>3. CASE Retransmit
    <3>1. \E p, again : BlockSend(p, again) \/ OwnSend(p, again)
      BY <2>1, <2>3, RetransmitSends
    <3> QED BY <3>1, SessionBlockSend, SessionOwnSend
  <2>4. CASE SendAddBaRequest
    BY <2>1, <2>4, SessionSendAddBaRequest
  <2>5. CASE Dequeue
    <3>1. \E p, again : BlockSend(p, again) \/ OwnSend(p, again)
      BY <2>1, <2>5, DequeueSends
    <3> QED BY <3>1, SessionBlockSend, SessionOwnSend
  <2>6. CASE NothingAvailable
    <3>1. /\ UNCHANGED <<taken, buffer, retries, bars, start, current, agreement>>
          /\ UNCHANGED <<agreed, rBuffer>> /\ response' = response /\ air' = air
          /\ accepted' = accepted
      BY <2>1, <2>6 DEF NothingAvailable, Queued, Manager, Channel, Recipient
    <3> QED BY <1>1, <3>1, SessionKept
  <2>7. CASE Repeat
    BY <2>1, <2>7, SessionRepeat
  <2> QED BY <1>3, <2>2, <2>3, <2>4, <2>5, <2>6, <2>7 DEF NotifyAccessGranted
<1>4. CASE GotAck \/ MissedAck
  BY <1>4, SessionGotAck
<1>5. CASE GotBlockAck
  BY <1>5, SessionGotBlockAck
<1>6. CASE MissedBlockAck
  <2>1. /\ UNCHANGED <<taken, buffer, retries, bars, start, current, agreement>>
        /\ UNCHANGED <<agreed, rBuffer>> /\ response' = response /\ air' = air
        /\ accepted' = accepted
    BY <1>6 DEF MissedBlockAck, Queued, Manager, Channel, Recipient
  <2> QED BY <1>1, <2>1, SessionKept
<1>7. CASE GotAddBaResponse
  BY <1>7, SessionGotAddBaResponse
<1>8. CASE Receive
  BY <1>8, SessionReceiveData, SessionReceiveAddBaRequest, SessionSendBlockAck DEF Receive
<1>9. CASE Lose \/ ResponseLost
  <2>1. /\ UNCHANGED <<taken, buffer, retries, bars, start, current, agreement>>
        /\ UNCHANGED <<agreed, rBuffer>> /\ (response' => response)
        /\ air' = air \/ air' = Silence
        /\ accepted' = accepted
    BY <1>9 DEF Lose, ResponseLost, Originator, Queued, Manager, Recipient
  <2> QED BY <1>1, <2>1, SessionKept
<1>10. CASE UNCHANGED vars
  <2>1. /\ UNCHANGED <<taken, buffer, retries, bars, start, current, agreement>>
        /\ UNCHANGED <<agreed, rBuffer>> /\ response' = response /\ air' = air
        /\ accepted' = accepted
    BY <1>10 DEF vars, Originator, Queued, Manager, Channel, Recipient
  <2> QED BY <1>1, <2>1, SessionKept
<1> QED BY <1>2, <1>3, <1>4, <1>5, <1>6, <1>7, <1>8, <1>9, <1>10 DEF Next, Answered

-----------------------------------------------------------------------------
(* What a block ack reports *)

(* The index of a packet in the bitmap counts from the start, modulo 256. *)
LEMMA IndexExact ==
  ASSUME HalfSpace, NEW f \in 1 .. MaxPackets, NEW q \in 1 .. MaxPackets, f <= q
  PROVE  IndexInBitmap(Seq4096(f), Seq4096(q)) = ((q - f) % 256)
<1>1. MaxPackets \in Nat /\ First \in Nat /\ First + MaxPackets <= 2048
  BY BlockAckAssumption DEF HalfSpace
<1>2. f \in 1 .. MaxPackets + 1 /\ q \in 1 .. MaxPackets + 1
  BY <1>1
<1>3. Seq4096(f) = First + f - 1 /\ Seq4096(q) = First + q - 1
  BY <1>2, HalfNumber
<1>4. PICK d : d = q - f
  OBVIOUS
<1>5. d \in Nat /\ d <= 4095 /\ Seq4096(q) - Seq4096(f) = d
  BY <1>1, <1>3, <1>4
<1>6. d % 4096 = d
  BY <1>5, SmallModulo
<1> QED BY <1>4, <1>5, <1>6 DEF IndexInBitmap

(* A number of less than eight bits is its own remainder. *)
LEMMA SmallIndex ==
  ASSUME NEW n \in Nat, n < 256
  PROVE  (n % 256) = n
OBVIOUS

(* If the last of the packets buffered is less than Word behind the start, the *)
(* bitmap has a bit for every packet up to the last one taken. *)
LEMMA NotWide ==
  ASSUME HalfSpace, IInv, WindowInv, accepted <= MaxPackets, buffer # << >>,
         \A p \in ToSet(buffer) : ~(IndexInBitmap(Seq4096(FirstDue), Seq4096(p)) >= Word)
  PROVE  /\ FirstDue \in 1 .. taken /\ taken \in 0 .. MaxPackets
         /\ \A q \in FirstDue .. taken :
              /\ q - FirstDue \in 0 .. Word - 1
              /\ IndexInBitmap(Seq4096(FirstDue), Seq4096(q)) = q - FirstDue
<1>1. PICK f, t, W : f = FirstDue /\ t = taken /\ W = Word
  OBVIOUS
<1>2. W \in Nat \ {0} /\ W < 256 /\ MaxPackets \in Nat
  BY <1>1, BlockAckAssumption DEF HalfSpace
<1>3. t \in 0 .. MaxPackets
  BY <1>1, <1>2 DEF IInv, OriginatorInv
<1>4. f \in 1 .. t
  <2>1. FirstDue \in ToSet(buffer) /\ \A p \in ToSet(buffer) : p \in FirstDue .. taken
    BY FirstDueBounds
  <2>2. FirstDue \in 1 .. taken + 1
    BY FirstDueBounds
  <2> QED BY <1>1, <1>3, <2>1, <2>2
<1>5. \A q \in f .. t : q < f + W
  <2> SUFFICES ASSUME NEW q \in f .. t, ~(q < f + W) PROVE FALSE
    OBVIOUS
  <2>1. PICK m : m = f + W
    OBVIOUS
  <2>2. m \in f .. t /\ m \in Nat /\ f <= m /\ m - f = W /\ m \in 1 .. MaxPackets
    BY <1>2, <1>3, <1>4, <2>1
  <2>3. m \in ToSet(buffer)
    <3>1. m \in ToSet(buffer) \/ m < FirstDue + Word
      BY <1>1, <2>2 DEF WindowInv
    <3> QED BY <1>1, <2>1, <2>2, <3>1
  <2>4. f \in 1 .. MaxPackets
    BY <1>2, <1>3, <1>4
  <2>5. IndexInBitmap(Seq4096(f), Seq4096(m)) = ((m - f) % 256)
    BY <2>2, <2>4, IndexExact
  <2>6. (W % 256) = W
    BY <1>2, SmallIndex
  <2>7. IndexInBitmap(Seq4096(f), Seq4096(m)) = W
    BY <2>2, <2>5, <2>6
  <2>8. ~(W >= W)
    BY <1>1, <2>3, <2>7
  <2> QED BY <1>2, <2>8
<1>6. \A q \in f .. t : IndexInBitmap(Seq4096(f), Seq4096(q)) = q - f
  <2> SUFFICES ASSUME NEW q \in f .. t
               PROVE  IndexInBitmap(Seq4096(f), Seq4096(q)) = q - f
    OBVIOUS
  <2>1. f \in 1 .. MaxPackets /\ q \in 1 .. MaxPackets /\ f <= q
    BY <1>2, <1>3, <1>4
  <2>2. IndexInBitmap(Seq4096(f), Seq4096(q)) = ((q - f) % 256)
    BY <2>1, IndexExact
  <2>3. PICK d : d = q - f
    OBVIOUS
  <2>4. d \in Nat /\ d < 256
    BY <1>2, <1>4, <1>5, <2>1, <2>3
  <2>5. (d % 256) = d
    BY <2>4, SmallIndex
  <2> QED BY <2>2, <2>3, <2>5
<1>7. \A q \in f .. t : q - f \in 0 .. W - 1
  BY <1>2, <1>4, <1>5
<1> QED BY <1>1, <1>3, <1>4, <1>6, <1>7

-----------------------------------------------------------------------------
(* The window of the agreement *)

(* A step that changes neither what is taken nor what is buffered. *)
LEMMA WindowKept ==
  ASSUME WindowInv, UNCHANGED <<taken, buffer>>
  PROVE  WindowInv'
<1>1. FirstDue' = FirstDue
  BY DEF FirstDue
<1> QED BY <1>1 DEF WindowInv

(* A packet sent under the agreement is buffered. *)
LEMMA WindowBlockSend ==
  ASSUME IInv, WindowInv, NEW p, NEW again, BlockSend(p, again)
  PROVE  WindowInv'
<1>1. /\ FirstDue' = FirstDue /\ ToSet(buffer') = ToSet(buffer) \cup {p}
      /\ \/ taken' = taken
         \/ p = taken + 1 /\ taken' = taken + 1
  BY BlockSendEffect
<1>2. taken \in Nat /\ FirstDue \in Nat
  BY FirstDueBounds
<1>3. ASSUME NEW q \in FirstDue' .. taken'
      PROVE  q \in ToSet(buffer') \/ q < FirstDue' + Word
  <2>1. q \in FirstDue .. taken \/ q = p
    BY <1>1, <1>2
  <2>2. q \in FirstDue .. taken => q \in ToSet(buffer) \/ q < FirstDue + Word
    BY DEF WindowInv
  <2> QED BY <1>1, <2>1, <2>2
<1> QED BY <1>3 DEF WindowInv

(* What is within a window is within a later one. *)
LEMMA BoundMoves ==
  ASSUME NEW a \in Nat, NEW b \in Nat, a <= b, NEW n \in Nat, NEW q \in Nat, q < a + n
  PROVE  q < b + n
OBVIOUS

(* The first packet due moves up, and with it the window. *)
LEMMA WindowMoves ==
  ASSUME WindowInv, UNCHANGED taken, FirstDue \in Nat, FirstDue' \in Nat, taken \in Nat,
         FirstDue <= FirstDue',
         \A q \in FirstDue' .. taken :
           q \in ToSet(buffer) => q \in ToSet(buffer') \/ q < FirstDue + Word
  PROVE  WindowInv'
<1>1. Word \in Nat
  BY BlockAckAssumption
<1>2. ASSUME NEW q \in FirstDue' .. taken
      PROVE  q \in ToSet(buffer') \/ q < FirstDue' + Word
  <2>1. q \in FirstDue .. taken
    OBVIOUS
  <2>2. q \in ToSet(buffer) \/ q < FirstDue + Word
    BY <2>1 DEF WindowInv
  <2>3. q \in ToSet(buffer') \/ q < FirstDue + Word
    BY <2>2
  <2>4. PICK a \in Nat, b \in Nat : a = FirstDue /\ b = FirstDue' /\ a <= b
    OBVIOUS
  <2>5. q \in Nat
    OBVIOUS
  <2>6. PICK W \in Nat : W = Word
    BY <1>1
  <2>7. q < a + W => q < b + W
    BY <2>4, <2>5, <2>6, BoundMoves
  <2> QED BY <2>3, <2>4, <2>6, <2>7
<1> QED BY <1>2 DEF WindowInv

(* A packet sent on its own was the first due. *)
LEMMA WindowOwnSend ==
  ASSUME IInv, WindowInv, NEW p, NEW again, OwnSend(p, again)
  PROVE  WindowInv'
<1>1. /\ FirstDue' \in Nat /\ FirstDue <= FirstDue'
      /\ \A q \in ToSet(buffer) : FirstDue' <= q => q \in ToSet(buffer')
      /\ \/ taken' = taken
         \/ taken' = taken + 1 /\ FirstDue' = taken' + 1
  BY OwnSendEffect
<1>2. taken \in Nat /\ FirstDue \in Nat
  BY FirstDueBounds
<1>3. CASE taken' = taken
  <2>1. \A q \in FirstDue' .. taken : q \in ToSet(buffer) => q \in ToSet(buffer')
    BY <1>1
  <2> QED BY <1>1, <1>2, <1>3, <2>1, WindowMoves
<1>4. CASE taken' = taken + 1 /\ FirstDue' = taken' + 1
  <2>1. \A q : q \notin FirstDue' .. taken'
    BY <1>2, <1>4
  <2> QED BY <2>1 DEF WindowInv
<1> QED BY <1>1, <1>3, <1>4

(* A block ack answers the request that is kept. *)
LEMMA AnswerExpected ==
  ASSUME IInv, SessionInv, air.kind = "blockack"
  PROVE  /\ current.kind = "bar" /\ retries = << >> /\ buffer # << >> /\ agreed
         /\ air.start = Seq4096(FirstDue) /\ accepted <= MaxPackets
<1>1. current.kind = "bar" /\ air.start = start
  BY DEF SessionInv, FrameInv
<1>2. BarPending
  BY <1>1 DEF BarPending
<1>3. agreement = "ESTABLISHED" /\ retries = << >>
  BY <1>2 DEF IInv, ManagerInv
<1> QED BY <1>1, <1>2, <1>3 DEF SessionInv, AgreementInv

(* What a block ack settles is within Word packets of the first it leaves. *)
LEMMA WindowGotBlockAck ==
  ASSUME HalfSpace, IInv, SessionInv, WindowInv, GotBlockAck, ~wide'
  PROVE  WindowInv'
<1>1. /\ air.kind = "blockack" /\ buffer' \in Seq(1 .. taken) /\ taken' = taken
      /\ ToSet(buffer') = {p \in ToSet(buffer) : ~IsPacketReceived(air, p)}
      /\ ~WideAnswer
  BY GotBlockAckEffect
<1>2. buffer # << >> /\ air.start = Seq4096(FirstDue) /\ accepted <= MaxPackets
  BY <1>1, AnswerExpected
<1>3. \A p \in ToSet(buffer) : ~(IndexInBitmap(Seq4096(FirstDue), Seq4096(p)) >= Word)
  BY <1>1, <1>2 DEF WideAnswer
<1>4. /\ taken \in Nat /\ FirstDue \in 1 .. taken + 1
      /\ \A p \in ToSet(buffer) : p \in FirstDue .. taken
  BY FirstDueBounds
<1>5. \A q \in FirstDue .. taken : q - FirstDue \in 0 .. Word - 1
  BY <1>2, <1>3, NotWide
<1>6. FirstDue' \in Nat /\ FirstDue <= FirstDue'
  <2>1. CASE buffer' = << >>
    <3>1. FirstDue' = taken + 1
      BY <1>1, <2>1 DEF FirstDue
    <3> QED BY <1>4, <3>1
  <2>2. CASE buffer' # << >>
    <3>1. FirstDue' = buffer'[1]
      BY <2>2 DEF FirstDue
    <3>2. buffer'[1] \in ToSet(buffer')
      BY <1>1, <2>2, TailElements
    <3>3. FirstDue' \in FirstDue .. taken
      BY <1>1, <1>4, <3>1, <3>2
    <3> QED BY <1>4, <3>3
  <2> QED BY <2>1, <2>2
<1>7. Word \in Nat
  BY BlockAckAssumption
<1>8. ASSUME NEW q \in FirstDue' .. taken
      PROVE  q < FirstDue + Word
  <2>1. q \in FirstDue .. taken
    BY <1>4, <1>6
  <2>2. q - FirstDue \in 0 .. Word - 1
    BY <1>5, <2>1
  <2> QED BY <1>4, <1>7, <2>1, <2>2
<1> QED BY <1>1, <1>4, <1>6, <1>8, WindowMoves

-----------------------------------------------------------------------------
(* What is owed, what comes, and what was handed up *)

(* No more is owed, comes or is claimed, but for packets whose answer is lost. *)
LEMMA DeliveryKept ==
  ASSUME DeliveryInv, UNCHANGED <<rBuffer, last, delivered>>,
         taken \in Nat, taken' \in Nat, taken <= taken', unanswered \subseteq unanswered',
         Owed' \ unanswered' \subseteq Owed, Coming' \ unanswered' \subseteq Coming,
         Claimed' \subseteq Claimed,
         rStart' <= First + MaxPackets,
         agreed' => \A p \in Owed' \ unanswered' : rStart' <= Seq4096(p)
  PROVE  DeliveryInv'
<1>1. UNCHANGED <<Buffered, Arrived>>
  BY DEF Buffered, Arrived, PacketsOf
<1>2. Ascending'
  BY DEF DeliveryInv, Ascending
<1>3. InOrder(rBuffer)'
  BY DEF DeliveryInv, InOrder
<1>4. HandedUpBefore(Buffered)'
  BY <1>1 DEF DeliveryInv, HandedUpBefore
<1>5. HandedUpBefore(Owed)'
  BY DEF DeliveryInv, HandedUpBefore
<1>6. agreed' => \A p \in Owed' \ unanswered' : rStart' <= Seq4096(p)'
  BY DEF Seq4096
<1>7. Coming' \cap Buffered' \subseteq unanswered'
  BY <1>1 DEF DeliveryInv
<1>8. Claimed' \subseteq Arrived'
  BY <1>1 DEF DeliveryInv
<1>9. Buffered' \subseteq 1 .. taken'
  BY <1>1 DEF DeliveryInv
<1>10. LastHanded'
  BY DEF DeliveryInv, LastHanded, Seq4096
<1> QED BY <1>2, <1>3, <1>4, <1>5, <1>6, <1>7, <1>8, <1>9, <1>10 DEF DeliveryInv

(* The recipient and its start stay. *)
LEMMA OwedKept ==
  ASSUME DeliveryInv, UNCHANGED <<rBuffer, last, delivered, rStart, agreed>>,
         taken \in Nat, taken' \in Nat, taken <= taken', unanswered \subseteq unanswered',
         Owed' \ unanswered' \subseteq Owed, Coming' \ unanswered' \subseteq Coming,
         Claimed' \subseteq Claimed
  PROVE  DeliveryInv'
<1>1. rStart' <= First + MaxPackets
  BY DEF DeliveryInv
<1>2. agreed' => \A p \in Owed' \ unanswered' : rStart' <= Seq4096(p)
  BY DEF DeliveryInv
<1> QED BY <1>1, <1>2, DeliveryKept

(* Steps that change only counters, timers and what is queued. *)
LEMMA DeliverySame ==
  ASSUME DeliveryInv, IInv, UNCHANGED <<rBuffer, last, delivered, rStart, agreed>>,
         UNCHANGED <<taken, buffer, retries, current, air, acked, unanswered>>
  PROVE  DeliveryInv'
<1>1. /\ UNCHANGED <<Future, Repeatable, WideAnswer, Answering>>
      /\ Packet(current') = Packet(current) /\ Packet(air') = Packet(air)
  BY DEF Future, Repeatable, WideAnswer, Answering, Packet, IndexInBitmap, Seq4096
<1>2. Unreported' = Unreported
  BY <1>1 DEF Unreported, IsPacketReceived, IndexInBitmap, Seq4096
<1>3. Owed' = Owed /\ Coming' = Coming
  BY <1>1, <1>2 DEF Owed, Coming
<1>4. Claimed' = Claimed
  BY <1>1, <1>2 DEF Claimed
<1>5. taken \in Nat /\ taken' \in Nat /\ taken <= taken'
  BY FirstDueBounds
<1> QED BY <1>3, <1>4, <1>5, OwedKept

(* No block ack is on the air: the originator sends what it owes, or has its answer. *)
LEMMA OriginatorDelivers ==
  ASSUME DeliveryInv, UNCHANGED <<rBuffer, last, delivered, rStart, agreed, unanswered>>,
         taken \in Nat, taken' \in Nat, taken <= taken',
         air.kind # "blockack", air'.kind # "blockack",
         acked' \cup (IF air' = Ack THEN Packet(current') ELSE {})
           \subseteq acked \cup (IF air = Ack THEN Packet(current) ELSE {}),
         Repeatable' \cup ToSet(buffer') \subseteq Future \cup Repeatable \cup ToSet(buffer),
         Packet(air') \cup ToSet(retries') \cup Repeatable'
           \subseteq Future \cup Repeatable \cup Packet(air) \cup ToSet(retries)
  PROVE  DeliveryInv'
<1>1. Future' \subseteq Future
  BY DEF Future
<1>2. ~Answering /\ ~Answering'
  BY DEF Answering
<1>3. Unreported = ToSet(buffer) /\ Unreported' = ToSet(buffer')
  BY <1>2 DEF Unreported
<1>4. Packet(air)' = Packet(air') /\ Packet(current)' = Packet(current')
  BY DEF Packet
<1>5. Owed' \subseteq Owed
  BY <1>1, <1>3 DEF Owed
<1>6. Coming' \subseteq Coming
  BY <1>1, <1>2, <1>4 DEF Coming
<1>7. Claimed' \subseteq Claimed
  BY <1>2, <1>4 DEF Claimed
<1> QED BY <1>5, <1>6, <1>7, OwedKept

(* With nothing on the air, the frame kept is what may be repeated. *)
LEMMA FreeAir ==
  ASSUME Free, air = Silence
  PROVE  current = None /\ Repeatable = {} /\ Packet(air) = {}
BY DEF Free, Repeatable, Packet, None, Silence, Ack

(* A packet sent under the agreement was owed, and stays so. *)
LEMMA DeliveryBlockSend ==
  ASSUME DeliveryInv, IInv, accepted <= MaxPackets, NEW p, NEW again, BlockSend(p, again)
  PROVE  DeliveryInv'
<1>1. /\ ToSet(buffer') = ToSet(buffer) \cup {p} /\ ToSet(retries') \subseteq ToSet(retries)
      /\ \/ p \in ToSet(buffer) /\ p \in ToSet(retries) /\ taken' = taken
         \/ p = taken + 1 /\ taken' = taken + 1 /\ taken < accepted
      /\ current' = None /\ air' = BlockData(p, again)
  BY BlockSendEffect
<1>2. /\ Free /\ air = Silence /\ UNCHANGED acked
      /\ UNCHANGED <<rBuffer, last, delivered, rStart, agreed, unanswered>>
  BY DEF BlockSend, Channel, Recipient
<1>3. current = None /\ air = Silence /\ Repeatable = {} /\ Packet(air) = {}
  BY <1>2, FreeAir
<1>4. accepted \in Nat /\ taken \in Nat /\ taken' \in Nat /\ taken <= taken'
  BY <1>1 DEF IInv, OriginatorInv
<1>5. p \in Future \/ (p \in ToSet(retries) /\ p \in ToSet(buffer))
  BY <1>1, <1>4, BlockAckAssumption DEF Future
<1>6. /\ Repeatable' = {} /\ Packet(air') = {p} /\ air'.kind = "data" /\ air' # Ack
      /\ air.kind # "blockack" /\ air # Ack
  BY <1>1, <1>3 DEF Repeatable, Packet, None, BlockData, Ack, Silence
<1> QED BY <1>1, <1>2, <1>3, <1>4, <1>5, <1>6, OriginatorDelivers

(* A packet sent on its own was owed, and stays so until it is acknowledged. *)
LEMMA DeliveryOwnSend ==
  ASSUME DeliveryInv, IInv, accepted <= MaxPackets, NEW p, NEW again, OwnSend(p, again)
  PROVE  DeliveryInv'
<1>1. /\ ToSet(buffer') \subseteq ToSet(buffer) /\ ToSet(retries') \subseteq ToSet(retries)
      /\ \/ p \in ToSet(buffer) /\ p \in ToSet(retries) /\ taken' = taken
         \/ p = taken + 1 /\ taken' = taken + 1 /\ taken < accepted
      /\ current' = Data(p, again) /\ air' = Data(p, again)
  BY OwnSendEffect
<1>2. /\ Free /\ air = Silence /\ UNCHANGED acked
      /\ UNCHANGED <<rBuffer, last, delivered, rStart, agreed, unanswered>>
  BY DEF OwnSend, Channel, Recipient
<1>3. current = None /\ air = Silence /\ Repeatable = {} /\ Packet(air) = {}
  BY <1>2, FreeAir
<1>4. accepted \in Nat /\ taken \in Nat /\ taken' \in Nat /\ taken <= taken'
  BY <1>1 DEF IInv, OriginatorInv
<1>5. p \in Future \/ (p \in ToSet(retries) /\ p \in ToSet(buffer))
  BY <1>1, <1>4, BlockAckAssumption DEF Future
<1>6. /\ Repeatable' = {p} /\ Packet(air') = {p} /\ air'.kind = "data" /\ air' # Ack
      /\ air.kind # "blockack" /\ air # Ack
  BY <1>1, <1>3 DEF Repeatable, Packet, None, Data, Ack, Silence
<1> QED BY <1>1, <1>2, <1>3, <1>4, <1>5, <1>6, OriginatorDelivers

(* Frames that hold no packet are sent. *)
LEMMA DeliveryRequestSent ==
  ASSUME DeliveryInv, IInv, Free, air = Silence, NEW c, NEW answer, Transmit(c, answer),
         c.kind \in {"addba", "bar"}, UNCHANGED <<taken, buffer, retries, acked>>,
         UNCHANGED Channel, UNCHANGED Recipient
  PROVE  DeliveryInv'
<1>1. current' = c /\ air' = c
  BY DEF Transmit
<1>2. UNCHANGED <<rBuffer, last, delivered, rStart, agreed, unanswered>>
  BY DEF Channel, Recipient
<1>3. current = None /\ air = Silence /\ Repeatable = {} /\ Packet(air) = {}
  BY FreeAir
<1>4. taken \in Nat /\ taken' \in Nat /\ taken <= taken'
  BY FirstDueBounds
<1>5. /\ Repeatable' = {} /\ Packet(air') = {} /\ air'.kind # "blockack" /\ air' # Ack
      /\ air.kind # "blockack" /\ air # Ack
  BY <1>1, <1>3 DEF Repeatable, Packet, Ack, Silence
<1> QED BY <1>1, <1>2, <1>3, <1>4, <1>5, OriginatorDelivers

(* The frame kept may come again. *)
LEMMA DeliveryRepeat ==
  ASSUME DeliveryInv, IInv, Repeat, UNCHANGED <<acked, failed, wide, Channel, Recipient>>
  PROVE  DeliveryInv'
<1>1. /\ air = Silence /\ current' = current /\ air' = current
      /\ UNCHANGED <<taken, buffer, retries, acked>>
      /\ UNCHANGED <<rBuffer, last, delivered, rStart, agreed, unanswered>>
  BY DEF Repeat, Granted, Transmit, Queued, Manager, Channel, Recipient
<1>2. current.kind \in {"none", "data", "addba", "bar"}
  BY FrameKept DEF IInv
<1>3. taken \in Nat /\ taken' \in Nat /\ taken <= taken'
  BY <1>1, FirstDueBounds
<1>4. /\ Repeatable' = Packet(current) /\ Repeatable = Packet(current)
      /\ Packet(air') = Packet(current)
      /\ air'.kind # "blockack" /\ air' # Ack /\ air.kind # "blockack" /\ air # Ack
  BY <1>1, <1>2 DEF Repeatable, Packet, Ack, Silence
<1> QED BY <1>1, <1>3, <1>4, OriginatorDelivers

(* An acknowledged packet is not sent again; one given up or kept was owed. *)
LEMMA DeliveryGotAck ==
  ASSUME DeliveryInv, IInv, GotAck \/ MissedAck
  PROVE  DeliveryInv'
<1>1. /\ UNCHANGED <<taken, buffer, retries>>
      /\ UNCHANGED <<rBuffer, last, delivered, rStart, agreed, unanswered>>
      /\ air' = Silence /\ waiting = "ack"
  BY DEF GotAck, MissedAck, Queued, Manager, Channel, Recipient
<1>2. taken \in Nat /\ taken' \in Nat /\ taken <= taken'
  BY <1>1, FirstDueBounds
<1>3. CASE GotAck
  <2>1. air = Ack /\ current' = None /\ acked' = acked \cup Packet(current)
    BY <1>3 DEF GotAck
  <2>2. /\ Repeatable' = {} /\ Packet(air') = {} /\ air.kind # "blockack" /\ air' # Ack
        /\ air'.kind # "blockack"
    BY <1>1, <2>1 DEF Repeatable, Packet, None, Ack, Silence
  <2> QED BY <1>1, <1>2, <2>1, <2>2, OriginatorDelivers
<1>4. CASE MissedAck
  <2>1. /\ air = Silence /\ acked' = acked
        /\ current' = None \/ current' = [current EXCEPT !.retry = TRUE]
    BY <1>4 DEF MissedAck
  <2>2. /\ current.kind \in {"data", "addba"}
        /\ current.kind = "data" =>
             current \in [kind : {"data"}, packet : Packets, retry : BOOLEAN, block : {FALSE}]
        /\ current.kind = "addba" =>
             current \in [kind : {"addba"}, start : SequenceNumbers, retry : BOOLEAN]
    BY <1>1, FrameKept DEF IInv, CurrentInv
  <2>3. Packet(current') \subseteq Packet(current)
    <3>1. CASE current' = None
      BY <3>1 DEF None, Packet
    <3>2. CASE current' = [current EXCEPT !.retry = TRUE]
      BY <2>2, <3>2 DEF Packet
    <3> QED BY <2>1, <3>1, <3>2
  <2>4. /\ Repeatable = Packet(current) /\ Repeatable' = Packet(current') /\ Packet(air') = {}
        /\ air.kind # "blockack" /\ air # Ack /\ air' # Ack /\ air'.kind # "blockack"
    BY <1>1, <2>1 DEF Repeatable, Packet, Ack, Silence
  <2> QED BY <1>1, <1>2, <2>1, <2>3, <2>4, OriginatorDelivers
<1> QED BY <1>3, <1>4

(* A block ack that is not wide settles what arrived, and the rest stays owed. *)
LEMMA DeliveryGotBlockAck ==
  ASSUME DeliveryInv, IInv, GotBlockAck, ~wide'
  PROVE  DeliveryInv'
<1>1. /\ air.kind = "blockack" /\ retries' = buffer' /\ current' = None /\ air' = Silence
      /\ ToSet(buffer') = {p \in ToSet(buffer) : ~IsPacketReceived(air, p)}
      /\ acked' = acked \cup (ToSet(buffer) \ ToSet(buffer'))
      /\ ~WideAnswer /\ taken' = taken
      /\ UNCHANGED <<rBuffer, last, delivered, rStart, agreed, unanswered>>
  BY GotBlockAckEffect DEF Channel, Recipient
<1>2. Answering /\ ~Answering'
  BY <1>1 DEF Answering, Silence
<1>3. Unreported = ToSet(buffer') /\ Unreported' = ToSet(buffer')
  BY <1>1, <1>2 DEF Unreported
<1>4. /\ Future' = Future /\ Repeatable' = {} /\ Packet(air)' = {} /\ Packet(current)' = {}
  BY <1>1 DEF Future, Repeatable, Packet, None, Silence
<1>5. Owed' \subseteq Owed
  BY <1>3, <1>4 DEF Owed
<1>6. Coming' \subseteq Coming
  BY <1>1, <1>2, <1>3, <1>4 DEF Coming
<1>7. Claimed' \subseteq Claimed
  BY <1>1, <1>2, <1>3, <1>4 DEF Claimed
<1>8. taken \in Nat /\ taken' \in Nat /\ taken <= taken'
  BY <1>1, FirstDueBounds
<1> QED BY <1>1, <1>5, <1>6, <1>7, <1>8, OwedKept

(* A frame lost: what it answered may be sent again. *)
LEMMA DeliveryLose ==
  ASSUME DeliveryInv, IInv, SessionInv, Lose
  PROVE  DeliveryInv'
<1>1. /\ air' = Silence /\ UNCHANGED <<taken, buffer, retries, current, acked>>
      /\ UNCHANGED <<rBuffer, last, delivered, rStart, agreed>>
      /\ unanswered' = unanswered \cup (IF air = Ack THEN Packet(current)
                                        ELSE IF air.kind = "blockack" THEN ToSet(buffer) ELSE {})
  BY DEF Lose, Originator, Queued, Manager, Recipient
<1>2. ~Answering' /\ Unreported' = ToSet(buffer)
  BY <1>1 DEF Answering, Unreported, Silence
<1>3. /\ Future' = Future /\ Repeatable' = Packet(current) /\ Packet(air)' = {}
      /\ Packet(current)' = Packet(current)
  BY <1>1 DEF Future, Repeatable, Packet, Ack, Silence
<1>4. taken \in Nat /\ taken' \in Nat /\ taken <= taken'
  BY <1>1, FirstDueBounds
<1>5. Claimed' = acked
  <2>1. air' # Ack
    BY <1>1 DEF Ack, Silence
  <2> QED BY <1>1, <1>2, <2>1 DEF Claimed
<1>6. Claimed' \subseteq Claimed
  BY <1>5 DEF Claimed
<1>7. CASE air.kind = "blockack"
  <2>1. current.kind = "bar" /\ retries = << >>
    BY <1>7, AnswerExpected
  <2>2. Packet(current) = {} /\ ToSet(retries) = {}
    BY <2>1 DEF Packet, ToSet
  <2>3. ToSet(buffer) \subseteq unanswered' /\ unanswered \subseteq unanswered'
    BY <1>1, <1>7 DEF Ack
  <2>4. Owed' \ unanswered' \subseteq Owed /\ Coming' \ unanswered' \subseteq Coming
    BY <1>1, <1>2, <1>3, <2>2, <2>3 DEF Owed, Coming
  <2> QED BY <1>1, <1>4, <1>6, <2>3, <2>4, OwedKept
<1>8. CASE air = Ack
  <2>1. ~Answering /\ Unreported = ToSet(buffer)
    BY <1>8 DEF Answering, Unreported, Ack
  <2>2. Packet(current) \subseteq unanswered' /\ unanswered \subseteq unanswered'
    BY <1>1, <1>8
  <2>3. Owed' \ unanswered' \subseteq Owed /\ Coming' \ unanswered' \subseteq Coming
    BY <1>1, <1>2, <1>3, <2>1, <2>2 DEF Owed, Coming
  <2> QED BY <1>1, <1>4, <1>6, <2>2, <2>3, OwedKept
<1>9. CASE air # Ack /\ air.kind # "blockack"
  <2>1. ~Answering /\ Unreported = ToSet(buffer) /\ Repeatable = Packet(current)
    BY <1>9 DEF Answering, Unreported, Repeatable
  <2>2. unanswered \subseteq unanswered'
    BY <1>1
  <2>3. Owed' \subseteq Owed /\ Coming' \subseteq Coming
    BY <1>1, <1>2, <1>3, <2>1 DEF Owed, Coming
  <2> QED BY <1>1, <1>4, <1>6, <2>2, <2>3, OwedKept
<1> QED BY <1>7, <1>8, <1>9

-----------------------------------------------------------------------------
(* The recipient *)

(* The start of the recipient's window. *)
LEMMA StartBounds ==
  ASSUME IInv, DeliveryInv, accepted <= MaxPackets
  PROVE  rStart \in 0 .. First + MaxPackets /\ accepted \in 0 .. MaxPackets
BY BlockAckAssumption DEF IInv, RecipientInv, OriginatorInv, DeliveryInv, SequenceNumbers

(* es holds what waits and what just came, s is the start: what is complete is *)
(* handed up, and what is owed still comes after it. *)
LEMMA CompleteDelivers ==
  ASSUME HalfSpace, IInv, DeliveryInv, accepted <= MaxPackets, UNCHANGED <<taken, unanswered>>,
         NEW es \in Seq(Entries), InOrder(es), HandedUpBefore(PacketsOf(es)),
         Buffered \subseteq PacketsOf(es), PacketsOf(es) \subseteq 1 .. taken,
         NEW s \in 0 .. First + MaxPackets, Complete(es, s, s),
         Owed' \subseteq Owed, Owed' \subseteq 1 .. MaxPackets,
         \A q \in (Owed' \cup Coming') \ unanswered : q \notin PacketsOf(es),
         \A q \in Owed' \ unanswered : s <= Seq4096(q),
         Claimed' \subseteq Claimed \cup PacketsOf(es)
  PROVE  DeliveryInv'
<1>1. rStart \in 0 .. First + MaxPackets /\ accepted \in 0 .. MaxPackets
  BY StartBounds
<1>2. RecipientInv /\ Ascending /\ LastHanded /\ HandedUpBefore(Owed) /\ Claimed \subseteq Arrived
  BY DEF IInv, DeliveryInv
<1>3. /\ Ascending' /\ LastHanded' /\ InOrder(rBuffer)' /\ HandedUpBefore(Buffered)'
      /\ s <= rStart' /\ rStart' \in 0 .. First + MaxPackets
      /\ \E ps : HandedUp(es, s, ps)
  BY <1>1, <1>2, CompleteOrdered
<1>4. PICK ps : HandedUp(es, s, ps)
  BY <1>3
<1>5. /\ ToSet(delivered') = ToSet(delivered) \cup ps
      /\ ps \cup Buffered' = PacketsOf(es)
      /\ \A p \in ps : Seq4096(p) < rStart'
      /\ \A p \in 1 .. MaxPackets : s <= Seq4096(p) /\ Seq4096(p) < rStart' => p \in ps
  BY <1>4 DEF HandedUp, Buffered, PacketsOf
<1>6. \A p \in PacketsOf(es) : p \in 1 .. MaxPackets + 1 /\ p \in 1 .. MaxPackets
  BY <1>1, BlockAckAssumption DEF IInv, OriginatorInv
<1>7. \A q \in 1 .. MaxPackets : q \in 1 .. MaxPackets + 1
  BY BlockAckAssumption
<1>8. ASSUME NEW q \in Owed' \ unanswered PROVE rStart' <= Seq4096(q)
  <2>1. q \in 1 .. MaxPackets /\ s <= Seq4096(q) /\ q \notin PacketsOf(es)
    BY <1>8
  <2>2. q \notin ps
    BY <1>5, <2>1
  <2>3. PICK x : x = Seq4096(q)
    OBVIOUS
  <2>4. x \in Nat
    BY <1>7, <2>1, <2>3, HalfNumber
  <2>5. ~(x < rStart')
    BY <1>5, <2>1, <2>2, <2>3
  <2>6. PICK r \in Nat : r = rStart'
    BY <1>3, BlockAckAssumption
  <2> QED BY <2>3, <2>4, <2>5, <2>6
<1>9. ASSUME NEW p \in ps, NEW q \in Owed' \ unanswered PROVE p < q
  <2>1. p \in 1 .. MaxPackets + 1 /\ q \in 1 .. MaxPackets + 1
    BY <1>5, <1>6, <1>7
  <2>2. Seq4096(p) < rStart' /\ rStart' <= Seq4096(q)
    BY <1>5, <1>8
  <2>3. Seq4096(p) \in Nat /\ Seq4096(q) \in Nat
    BY <2>1, HalfNumber
  <2>4. PICK r \in Nat : r = rStart'
    BY <1>3, BlockAckAssumption
  <2>5. Seq4096(p) < Seq4096(q)
    BY <2>2, <2>3, <2>4
  <2> QED BY <2>1, <2>5, HalfOrder
<1>10. delivered' \in Seq(Packets) /\ delivered \in Seq(Packets)
  <2>1. s \in SequenceNumbers
    BY BlockAckAssumption DEF HalfSpace, SequenceNumbers
  <2>2. accepted \in Nat
    BY <1>1, BlockAckAssumption
  <2> QED BY <1>2, <2>1, <2>2, CompleteSound DEF RecipientInv
<1>11. HandedUpBefore(Owed)'
  <2> SUFFICES ASSUME NEW i \in 1 .. Len(delivered'), NEW q \in Owed',
                      {delivered'[i], q} \cap unanswered = {}
               PROVE  delivered'[i] < q
    BY DEF HandedUpBefore
  <2>1. PICK x : x = delivered'[i]
    OBVIOUS
  <2>2. x \in ToSet(delivered')
    BY <1>10, <2>1, Elements
  <2>3. CASE x \in ToSet(delivered)
    <3>1. PICK j \in 1 .. Len(delivered) : x = delivered[j]
      BY <1>10, <2>3, Elements
    <3> QED BY <1>2, <2>1, <3>1 DEF HandedUpBefore
  <2>4. CASE x \in ps
    BY <1>9, <2>1, <2>4
  <2> QED BY <1>5, <2>2, <2>3, <2>4
<1>12. agreed' => \A q \in Owed' \ unanswered' : rStart' <= Seq4096(q)'
  BY <1>8 DEF Seq4096
<1>13. Coming' \cap Buffered' \subseteq unanswered'
  BY <1>5
<1>14. Claimed' \subseteq Arrived'
  BY <1>2, <1>5 DEF Arrived
<1>15. Buffered' \subseteq 1 .. taken'
  BY <1>5
<1>16. rStart' <= First + MaxPackets
  BY <1>3, BlockAckAssumption
<1> QED BY <1>3, <1>11, <1>12, <1>13, <1>14, <1>15, <1>16 DEF DeliveryInv

(* An MPDU on the air is owed or waits for a block ack, and may come. *)
LEMMA DataOnAir ==
  ASSUME IInv, SessionInv, DeliveryInv, air.kind = "data", NEW e, e = Entry(air)
  PROVE  /\ e \in Entries /\ Packet(air) = {e.packet}
         /\ e.packet \in 1 .. taken /\ e.packet \in Owed /\ e.packet \in Coming
         /\ ~Answering /\ Unreported = ToSet(buffer)
         /\ e.packet \notin ToSet(retries)
         /\ IF air.block THEN /\ current = None /\ agreement = "ESTABLISHED"
                              /\ e.packet \in ToSet(buffer)
                         ELSE /\ current = air /\ agreement \in {"none", "INACTIVE"}
                              /\ e.packet \notin ToSet(buffer)
                              /\ ToSet(retries) = ToSet(buffer)
<1>1. air \in [kind : {"data"}, packet : Packets, retry : BOOLEAN, block : BOOLEAN]
  BY DEF IInv, AirInv
<1>2. e \in Entries /\ e.packet = air.packet /\ Packet(air) = {e.packet}
  BY <1>1 DEF Entry, Entries, Packet
<1>3. ~Answering /\ Unreported = ToSet(buffer)
  BY DEF Answering, Unreported
<1>4. e.packet \in Coming
  BY <1>2 DEF Coming
<1>5. CASE air.block
  <2>1. current = None /\ agreement = "ESTABLISHED" /\ e.packet \in ToSet(buffer) \ ToSet(retries)
    BY <1>2, <1>5 DEF SessionInv, FrameInv
  <2>2. e.packet \in 1 .. taken
    <3>1. buffer \in Seq(1 .. taken)
      BY DEF IInv, OriginatorInv
    <3> QED BY <2>1, <3>1, Elements
  <2>3. e.packet \in Owed
    BY <1>3, <2>1 DEF Owed
  <2> QED BY <1>2, <1>3, <1>4, <1>5, <2>1, <2>2, <2>3
<1>6. CASE ~air.block
  <2>1. air = current /\ agreement \in {"none", "INACTIVE"}
    BY <1>6 DEF SessionInv, FrameInv, RequestInv
  <2>2. Packet(current) = {e.packet}
    BY <1>2, <2>1
  <2>3. e.packet \in 1 .. taken /\ e.packet \notin ToSet(buffer)
    BY <2>2 DEF IInv, OriginatorInv, ManagerInv
  <2>4. e.packet \in Owed
    <3>1. air # Ack
      BY DEF Ack
    <3> QED BY <2>2, <3>1 DEF Owed, Repeatable
  <2>5. ToSet(retries) = ToSet(buffer)
    <3>1. /\ Sent = 0 /\ Len(buffer) = 0 + Len(retries)
          /\ \A n \in 1 .. Len(retries) : retries[n] = buffer[0 + n]
      BY <2>1, RetriesLast DEF IInv, ManagerInv
    <3>2. buffer \in Seq(1 .. taken) /\ retries \in Seq(1 .. taken)
      BY DEF IInv, OriginatorInv
    <3>3. PICK L \in Nat : L = Len(retries)
      BY <3>2, LenProperties
    <3>4. Len(buffer) = L /\ \A n \in 1 .. L : retries[n] = buffer[n]
      BY <3>1, <3>3
    <3>5. ToSet(retries) \subseteq ToSet(buffer)
      <4> SUFFICES ASSUME NEW x \in ToSet(retries) PROVE x \in ToSet(buffer)
        OBVIOUS
      <4>1. PICK n \in 1 .. L : x = retries[n]
        BY <3>2, <3>3, Elements
      <4> QED BY <3>2, <3>4, <4>1, Elements
    <3>6. ToSet(buffer) \subseteq ToSet(retries)
      <4> SUFFICES ASSUME NEW x \in ToSet(buffer) PROVE x \in ToSet(retries)
        OBVIOUS
      <4>1. PICK n \in 1 .. L : x = buffer[n]
        BY <3>2, <3>4, Elements
      <4> QED BY <3>2, <3>3, <3>4, <4>1, Elements
    <3> QED BY <3>5, <3>6
  <2> QED BY <1>2, <1>3, <1>4, <1>6, <2>1, <2>3, <2>4, <2>5
<1> QED BY <1>5, <1>6

(* The packet on the air has arrived: it no longer comes, and sent on its own *)
(* it is no longer owed, but acknowledged. *)
LEMMA DataTaken ==
  ASSUME IInv, SessionInv, DeliveryInv, ReceiveData, NEW e, e = Entry(air)
  PROVE  /\ UNCHANGED <<taken, unanswered, accepted, agreed>> /\ air.kind = "data"
         /\ Owed' = Future \cup ToSet(buffer) /\ Coming' = Future \cup ToSet(retries)
         /\ Owed' \subseteq Owed /\ Coming' \subseteq Coming /\ Owed' \subseteq 1 .. MaxPackets
         /\ e.packet \notin Coming'
         /\ IF air.block THEN Claimed' = Claimed
                         ELSE Claimed' = Claimed \cup {e.packet} /\ Owed' = Coming'
<1>1. /\ UNCHANGED <<accepted, taken, buffer, retries, current, acked, unanswered, agreed>>
      /\ air.kind = "data" /\ air' = IF air.block THEN Silence ELSE Ack
  BY DEF ReceiveData, Originator, Queued, Manager, Channel
<1>2. /\ e.packet \in 1 .. taken /\ ~Answering /\ Unreported = ToSet(buffer)
      /\ Packet(air) = {e.packet} /\ e.packet \notin ToSet(retries)
      /\ IF air.block THEN current = None
                      ELSE current = air /\ ToSet(retries) = ToSet(buffer)
  BY <1>1, DataOnAir
<1>3. ~Answering' /\ Packet(air)' = {}
  BY <1>1 DEF Answering, Silence, Ack, Packet
<1>4. Unreported' = ToSet(buffer)
  BY <1>1, <1>3 DEF Unreported
<1>5. Repeatable' = {} /\ Future' = Future
  BY <1>1, <1>2 DEF Repeatable, Future, Packet, None
<1>6. Owed' = Future \cup ToSet(buffer) /\ Coming' = Future \cup ToSet(retries)
  BY <1>1, <1>3, <1>4, <1>5 DEF Owed, Coming
<1>7. Owed' \subseteq Owed /\ Coming' \subseteq Coming
  BY <1>2, <1>6 DEF Owed, Coming
<1>8. accepted \in Nat /\ accepted <= MaxPackets /\ taken \in 0 .. accepted
  BY DEF SessionInv, AgreementInv, IInv, OriginatorInv
<1>9. Owed' \subseteq 1 .. MaxPackets
  <2>1. buffer \in Seq(1 .. taken)
    BY DEF IInv, OriginatorInv
  <2>2. ToSet(buffer) \subseteq 1 .. taken
    BY <2>1, Elements
  <2>3. 1 .. taken \subseteq 1 .. MaxPackets
    BY <1>8, BlockAckAssumption
  <2>4. Future \subseteq 1 .. MaxPackets
    BY DEF Future
  <2> QED BY <1>6, <2>2, <2>3, <2>4
<1>10. e.packet \notin Coming'
  <2>1. e.packet \notin Future
    BY <1>2, <1>8 DEF Future
  <2> QED BY <1>2, <1>6, <2>1
<1>11. CASE air.block
  <2>1. air' = Silence /\ air # Ack /\ air' # Ack
    BY <1>1, <1>11 DEF Silence, Ack
  <2>2. Claimed' = Claimed
    BY <1>1, <1>2, <1>3, <2>1 DEF Claimed
  <2> QED BY <1>1, <1>6, <1>7, <1>9, <1>10, <1>11, <2>2
<1>12. CASE ~air.block
  <2>1. air' = Ack /\ air # Ack
    BY <1>1, <1>12 DEF Ack
  <2>2. Packet(current') = {e.packet}
    BY <1>1, <1>2, <1>12
  <2>3. Claimed' = acked \cup {e.packet} /\ Claimed = acked
    BY <1>1, <1>2, <1>3, <2>1, <2>2 DEF Claimed, Packet
  <2>4. Owed' = Coming'
    BY <1>2, <1>6, <1>12
  <2> QED BY <1>1, <1>6, <1>7, <1>9, <1>10, <1>12, <2>3, <2>4
<1> QED BY <1>11, <1>12

(* What waits, and the packet on the air with it, is in order. *)
LEMMA StoreDelivers ==
  ASSUME HalfSpace, IInv, SessionInv, DeliveryInv, air.kind = "data", NEW e, e = Entry(air)
  PROVE  /\ Store(e) \in Seq(Entries) /\ InOrder(Store(e))
         /\ PacketsOf(Store(e)) = Buffered \cup {e.packet}
         /\ HandedUpBefore(PacketsOf(Store(e)))
         /\ PacketsOf(Store(e)) \subseteq 1 .. taken
<1>1. e \in Entries /\ e.packet \in 1 .. taken /\ e.packet \in Owed /\ e.packet \in Coming
  BY DataOnAir
<1>2. accepted <= MaxPackets
  BY DEF SessionInv, AgreementInv
<1>3. rStart \in 0 .. First + MaxPackets /\ accepted \in 0 .. MaxPackets
  BY <1>2, StartBounds
<1>4. /\ InOrder(rBuffer) /\ HandedUpBefore(Buffered) /\ HandedUpBefore(Owed)
      /\ Coming \cap Buffered \subseteq unanswered /\ Buffered \subseteq 1 .. taken
  BY DEF DeliveryInv
<1>5. e.packet \in Buffered => e.packet \in unanswered
  BY <1>1, <1>4
<1>6. rBuffer \in Seq(Entries)
  BY DEF IInv, RecipientInv
<1>7. /\ Store(e) \in Seq(Entries) /\ InOrder(Store(e))
      /\ PacketsOf(Store(e)) = Buffered \cup {e.packet}
  BY <1>1, <1>3, <1>4, <1>5, <1>6, StoreOrdered
<1>8. HandedUpBefore(PacketsOf(Store(e)))
  BY <1>1, <1>4, <1>7 DEF HandedUpBefore
<1> QED BY <1>1, <1>4, <1>7, <1>8

(* An MPDU is handed up, or stored and handed up when what precedes it is complete. *)
LEMMA DeliveryReceiveData ==
  ASSUME HalfSpace, IInv, SessionInv, DeliveryInv, ReceiveData
  PROVE  DeliveryInv'
<1>1. PICK e : e = Entry(air)
  OBVIOUS
<1>2. /\ UNCHANGED <<taken, unanswered, accepted, agreed>> /\ air.kind = "data"
      /\ Owed' = Future \cup ToSet(buffer) /\ Coming' = Future \cup ToSet(retries)
      /\ Owed' \subseteq Owed /\ Coming' \subseteq Coming /\ Owed' \subseteq 1 .. MaxPackets
      /\ e.packet \notin Coming'
      /\ IF air.block THEN Claimed' = Claimed
                      ELSE Claimed' = Claimed \cup {e.packet} /\ Owed' = Coming'
  BY <1>1, DataTaken
<1>3. /\ e \in Entries /\ e.packet \in 1 .. taken /\ e.packet \in Owed
      /\ IF air.block THEN agreement = "ESTABLISHED" ELSE agreement \in {"none", "INACTIVE"}
  BY <1>1, <1>2, DataOnAir
<1>4. /\ Store(e) \in Seq(Entries) /\ InOrder(Store(e))
      /\ PacketsOf(Store(e)) = Buffered \cup {e.packet}
      /\ HandedUpBefore(PacketsOf(Store(e)))
      /\ PacketsOf(Store(e)) \subseteq 1 .. taken
  BY <1>1, <1>2, StoreDelivers
<1>5. /\ accepted <= MaxPackets /\ (~agreed => rBuffer = << >>)
      /\ agreement \in {"ESTABLISHED", "INACTIVE"} => agreed
  BY DEF SessionInv, AgreementInv
<1>6. rStart \in 0 .. First + MaxPackets /\ accepted \in 0 .. MaxPackets /\ accepted \in Nat
  BY <1>5, StartBounds, BlockAckAssumption
<1>7. /\ Ascending /\ LastHanded /\ HandedUpBefore(Owed) /\ RecipientInv
      /\ Claimed \subseteq Arrived /\ rStart <= First + MaxPackets
      /\ Coming \cap Buffered \subseteq unanswered
      /\ agreed => \A q \in Owed \ unanswered : rStart <= Seq4096(q)
  BY DEF DeliveryInv, IInv
<1>8. CASE ~agreed /\ HandUp(<<e>>) /\ UNCHANGED <<rStart, rBuffer>>
  <2>1. PICK es : es = <<e>>
    OBVIOUS
  <2>2. /\ es \in Seq(Entries) /\ InOrder(es) /\ PacketsOf(es) = {e.packet} /\ HandUp(es)
    <3>1. es \in Seq(Entries) /\ Len(es) = 1 /\ DOMAIN es = {1} /\ es[1] = e
      BY <1>3, <2>1
    <3>2. \A i, j \in 1 .. Len(es) : ~(i < j)
      BY <3>1
    <3> QED BY <1>8, <2>1, <3>1, <3>2 DEF InOrder, PacketsOf
  <2>3. HandedUpBefore(PacketsOf(es))
    BY <1>3, <1>7, <2>2 DEF HandedUpBefore
  <2>4. Ascending'
    BY <1>2, <1>6, <1>7, <2>2, <2>3, HandUpOrdered
  <2>5. ToSet(delivered') = ToSet(delivered) \cup {e.packet} /\ LastHanded'
    <3>1. ToSet(delivered') = ToSet(delivered) \cup PacketsOf(es) /\ LastHanded'
      BY <1>6, <1>7, <2>2, HandUpAll
    <3> QED BY <2>2, <3>1
  <2>6. ~air.block /\ buffer = << >>
    BY <1>3, <1>5, <1>8 DEF IInv, OriginatorInv, ManagerInv
  <2>7. Owed' = Future
    <3>1. ToSet(buffer) = {}
      BY <2>6 DEF ToSet
    <3> QED BY <1>2, <3>1
  <2>8. rBuffer' = << >>
    BY <1>5, <1>8
  <2>9. Buffered' = {} /\ InOrder(rBuffer)'
    BY <2>8 DEF Buffered, PacketsOf, InOrder
  <2>10. HandedUpBefore(Buffered)'
    BY <2>9 DEF HandedUpBefore
  <2>11. delivered' \in Seq(Packets) /\ delivered \in Seq(Packets)
    BY <1>6, <1>7, <2>2, HandUpSound DEF RecipientInv
  <2>12. HandedUpBefore(Owed)'
    <3> SUFFICES ASSUME NEW i \in 1 .. Len(delivered'), NEW q \in Owed',
                        {delivered'[i], q} \cap unanswered = {}
                 PROVE  delivered'[i] < q
      BY <1>2 DEF HandedUpBefore
    <3>1. PICK x : x = delivered'[i]
      OBVIOUS
    <3>2. x \in ToSet(delivered')
      BY <2>11, <3>1, Elements
    <3>3. CASE x \in ToSet(delivered)
      <4>1. PICK j \in 1 .. Len(delivered) : x = delivered[j]
        BY <2>11, <3>3, Elements
      <4> QED BY <1>2, <1>7, <3>1, <4>1 DEF HandedUpBefore
    <3>4. CASE x = e.packet
      <4>1. taken \in Nat
        BY FirstDueBounds
      <4> QED BY <1>3, <2>7, <3>1, <3>4, <4>1 DEF Future
    <3> QED BY <2>5, <3>2, <3>3, <3>4
  <2>13. Claimed' \subseteq Arrived'
    <3>1. Buffered = {}
      BY <1>5, <1>8 DEF Buffered, PacketsOf
    <3> QED BY <1>2, <1>7, <2>5, <2>6, <3>1 DEF Arrived
  <2>14. rStart' <= First + MaxPackets /\ ~agreed'
    BY <1>2, <1>7, <1>8
  <2> QED BY <2>4, <2>5, <2>9, <2>10, <2>12, <2>13, <2>14 DEF DeliveryInv
<1>9. CASE agreed /\ ~air.block /\ Complete(Store(e), rStart, rStart)
  <2>1. PICK es : es = Store(e)
    OBVIOUS
  <2>2. /\ es \in Seq(Entries) /\ InOrder(es) /\ HandedUpBefore(PacketsOf(es))
        /\ PacketsOf(es) = Buffered \cup {e.packet} /\ PacketsOf(es) \subseteq 1 .. taken
        /\ Complete(es, rStart, rStart)
    BY <1>4, <1>9, <2>1
  <2>3. \A q \in (Owed' \cup Coming') \ unanswered : q \notin PacketsOf(es)
    BY <1>2, <1>7, <1>9, <2>2
  <2>4. \A q \in Owed' \ unanswered : rStart <= Seq4096(q)
    BY <1>2, <1>7, <1>9
  <2>5. Claimed' \subseteq Claimed \cup PacketsOf(es)
    BY <1>2, <1>9, <2>2
  <2>6. Buffered \subseteq PacketsOf(es)
    BY <2>2
  <2> QED BY <1>2, <1>5, <1>6, <2>2, <2>3, <2>4, <2>5, <2>6, CompleteDelivers
<1>10. CASE air.block /\ rBuffer' = Store(e) /\ UNCHANGED <<rStart, last, delivered>>
  <2>1. Buffered' = Buffered \cup {e.packet} /\ PacketsOf(Store(e)) = Buffered'
    BY <1>4, <1>10 DEF Buffered, PacketsOf
  <2>2. Ascending' /\ LastHanded'
    BY <1>2, <1>7, <1>10 DEF Ascending, LastHanded, Seq4096
  <2>3. InOrder(rBuffer)'
    BY <1>2, <1>4, <1>10 DEF InOrder
  <2>4. HandedUpBefore(Buffered)'
    BY <1>2, <1>4, <1>10, <2>1 DEF HandedUpBefore
  <2>5. HandedUpBefore(Owed)'
    BY <1>2, <1>7, <1>10 DEF HandedUpBefore
  <2>6. agreed' => \A q \in Owed' \ unanswered' : rStart' <= Seq4096(q)'
    BY <1>2, <1>7, <1>10 DEF Seq4096
  <2>7. Coming' \cap Buffered' \subseteq unanswered'
    BY <1>2, <1>7, <2>1
  <2>8. Claimed' \subseteq Arrived'
    BY <1>2, <1>7, <1>10, <2>1 DEF Arrived
  <2>9. Buffered' \subseteq 1 .. taken'
    BY <1>2, <1>4, <2>1
  <2>10. rStart' <= First + MaxPackets
    BY <1>7, <1>10
  <2> QED BY <2>2, <2>3, <2>4, <2>5, <2>6, <2>7, <2>8, <2>9, <2>10 DEF DeliveryInv
<1> QED BY <1>1, <1>8, <1>9, <1>10 DEF ReceiveData

(* A new agreement starts at the first packet still to come. *)
LEMMA DeliveryReceiveAddBaRequest ==
  ASSUME HalfSpace, IInv, SessionInv, DeliveryInv, ReceiveAddBaRequest
  PROVE  DeliveryInv'
<1>1. /\ UNCHANGED <<accepted, taken, buffer, retries, current, acked, unanswered>>
      /\ UNCHANGED <<rBuffer, last, delivered>>
      /\ air.kind = "addba" /\ air' = Ack /\ rStart' = IF agreed THEN rStart ELSE air.start
  BY DEF ReceiveAddBaRequest, Originator, Queued, Manager
<1>2. /\ current.kind = "addba" /\ air = current /\ buffer = << >>
      /\ agreement \in {"PENDING", "ESTABLISHED"} /\ air.start = start
      /\ start = Seq4096(FirstDue) /\ accepted <= MaxPackets
  BY <1>1 DEF SessionInv, FrameInv, RequestInv, AgreementInv
<1>3. FirstDue = taken + 1 /\ ToSet(buffer) = {} /\ Packet(current) = {} /\ Packet(air) = {}
  BY <1>2 DEF FirstDue, ToSet, Packet
<1>4. /\ ~Answering /\ ~Answering' /\ Packet(air)' = {} /\ Packet(current)' = {}
      /\ air # Ack
  BY <1>1, <1>2 DEF Answering, Packet, Ack
<1>5. Unreported' = {} /\ Future' = Future /\ Repeatable' = {}
  BY <1>1, <1>3, <1>4 DEF Unreported, Future, Repeatable
<1>6. Owed' = Future /\ Coming' = Future \cup ToSet(retries)
  BY <1>1, <1>4, <1>5 DEF Owed, Coming
<1>7. Owed' \subseteq Owed /\ Coming' \subseteq Coming
  BY <1>4, <1>6 DEF Owed, Coming
<1>8. Claimed' \subseteq Claimed
  BY <1>1, <1>4 DEF Claimed
<1>9. accepted \in Nat /\ taken \in 0 .. accepted /\ taken \in Nat
  BY DEF IInv, OriginatorInv
<1>10. taken + 1 \in 1 .. MaxPackets + 1
  BY <1>2, <1>9, BlockAckAssumption
<1>11. rStart' <= First + MaxPackets
  <2>1. CASE agreed
    BY <1>1, <2>1 DEF DeliveryInv
  <2>2. CASE ~agreed
    <3>1. rStart' = Seq4096(taken + 1)
      BY <1>1, <1>2, <1>3, <2>2
    <3>2. Seq4096(taken + 1) = First + (taken + 1) - 1
      BY <1>10, HalfNumber
    <3> QED BY <1>2, <1>9, <3>1, <3>2, BlockAckAssumption
  <2> QED BY <2>1, <2>2
<1>12. \A q \in Owed' \ unanswered' : rStart' <= Seq4096(q)
  <2>1. CASE agreed
    BY <1>1, <1>7, <2>1 DEF DeliveryInv
  <2>2. CASE ~agreed
    <3>1. rStart' = Seq4096(taken + 1)
      BY <1>1, <1>2, <1>3, <2>2
    <3> SUFFICES ASSUME NEW q \in Future PROVE Seq4096(taken + 1) <= Seq4096(q)
      BY <1>6, <3>1
    <3>2. q \in 1 .. MaxPackets + 1 /\ taken + 1 <= q
      BY <1>9, BlockAckAssumption DEF Future
    <3> QED BY <1>10, <3>2, HalfOrder
  <2> QED BY <2>1, <2>2
<1> QED BY <1>1, <1>7, <1>8, <1>9, <1>11, <1>12, DeliveryKept

(* A number less than another is its remainder. *)
LEMMA OwnRemainder ==
  ASSUME NEW n \in Nat, NEW m \in Nat, n < m
  PROVE  (n % m) = n
OBVIOUS

(* Within Word packets of the start, each has a bit of its own. *)
LEMMA OwnBit ==
  ASSUME NEW a \in 0 .. Word - 1, NEW b \in 0 .. Word - 1
  PROVE  (a % (2 * Word)) \in SetReceivedPacket(b) <=> a = b
<1>1. PICK W : W = Word /\ W \in Nat \ {0}
  BY BlockAckAssumption
<1>2. (b % W) = b
  <2>1. b \in Nat /\ b < W
    BY <1>1
  <2> QED BY <1>1, <2>1, OwnRemainder
<1>3. (a % (2 * W)) = a
  <2>1. PICK d : d = 2 * W
    OBVIOUS
  <2>2. a \in Nat /\ d \in Nat /\ a < d
    BY <1>1, <2>1
  <2>3. (a % d) = a
    BY <2>2, OwnRemainder
  <2> QED BY <2>1, <2>3
<1>4. SetReceivedPacket(b) = IF b = W - 1 THEN b .. 2 * W - 1 ELSE {b}
  BY <1>1, <1>2 DEF SetReceivedPacket
<1>5. a \in SetReceivedPacket(b) <=> a = b
  BY <1>1, <1>4
<1> QED BY <1>1, <1>3, <1>5

(* The block ack that answers a request reports exactly what waits. *)
LEMMA Reported ==
  ASSUME HalfSpace, IInv, SessionInv, WindowInv, DeliveryInv,
         SendBlockAckAfterBlockAckRequest, ~WideAnswer'
  PROVE  \A p \in ToSet(buffer) : IsPacketReceived(air', p) <=> p \in Buffered
<1>1. PICK s, held, bitmap :
        /\ air.kind = "bar" /\ s = air.start /\ held = Rest(rBuffer, Smaller(rBuffer, s))
        /\ bitmap = UNION {SetReceivedPacket(IndexInBitmap(s, Seq4096(e.packet))) :
                           e \in ToSet(held)}
        /\ air' = [kind |-> "blockack", start |-> s, bitmap |-> bitmap]
        /\ buffer' = buffer
  BY DEF SendBlockAckAfterBlockAckRequest, Originator, Manager
<1>2. buffer # << >> /\ s = Seq4096(FirstDue) /\ accepted <= MaxPackets
  BY <1>1, RequestOnAir DEF SessionInv, AgreementInv
<1>3. \A p \in ToSet(buffer) : ~(IndexInBitmap(Seq4096(FirstDue), Seq4096(p)) >= Word)
  <2>1. air'.start = s
    BY <1>1
  <2> QED BY <1>1, <1>2, <2>1 DEF WideAnswer, IndexInBitmap, Seq4096
<1>4. PICK f, t : f = FirstDue /\ t = taken
  OBVIOUS
<1>5. /\ f \in 1 .. t /\ t \in 0 .. MaxPackets
      /\ \A q \in f .. t : q - f \in 0 .. Word - 1 /\ IndexInBitmap(s, Seq4096(q)) = q - f
  BY <1>2, <1>3, <1>4, NotWide
<1>6. \A p \in ToSet(buffer) : p \in f .. t
  BY <1>4, FirstDueBounds
<1>7. \A q \in f .. t : q \in 1 .. MaxPackets + 1 /\ f \in 1 .. MaxPackets + 1
  BY <1>5, BlockAckAssumption
<1>8. PICK es, k, L : es = rBuffer /\ k = Smaller(rBuffer, s) /\ L = Len(es)
  OBVIOUS
<1>9. es \in Seq(Entries) /\ L \in Nat /\ InOrder(es)
  BY <1>8, LenProperties DEF IInv, RecipientInv, DeliveryInv
<1>10. s \in 0 .. First + MaxPackets
  <2>1. f \in 1 .. MaxPackets + 1 /\ f <= MaxPackets /\ f \in Nat
    BY <1>5, BlockAckAssumption
  <2>2. s = First + f - 1
    BY <1>2, <1>4, <2>1, HalfNumber
  <2> QED BY <2>1, <2>2, BlockAckAssumption
<1>11. /\ k \in 0 .. L /\ \A i \in 1 .. k : Seq4096(es[i].packet) < s
       /\ \A i \in k + 1 .. L : s <= Seq4096(es[i].packet)
  <2>1. rStart \in 0 .. First + MaxPackets /\ accepted \in 0 .. MaxPackets
    BY <1>2, StartBounds
  <2> QED BY <1>8, <1>9, <1>10, <2>1, SmallerSplit
<1>12. held \in Seq(Entries) /\ PacketsOf(held) = {es[i].packet : i \in k + 1 .. L}
  <2>1. k \in Nat /\ k <= L /\ L <= Len(es)
    BY <1>8, <1>9, <1>11
  <2>2. held = SubSeq(es, k + 1, L)
    BY <1>1, <1>8 DEF Rest
  <2> QED BY <1>9, <2>1, <2>2, PartOrdered
<1>13. \A i \in 1 .. L : es[i].packet \in Buffered /\ es[i].packet \in 1 .. t
  <2>1. \A i \in 1 .. L : es[i].packet \in PacketsOf(es)
    BY <1>8, <1>9, PacketIn
  <2> QED BY <1>4, <1>8, <2>1 DEF Buffered, DeliveryInv
<1>14. \A q \in PacketsOf(held) : q \in f .. t /\ q \in Buffered
  <2> SUFFICES ASSUME NEW i \in k + 1 .. L
               PROVE  es[i].packet \in f .. t /\ es[i].packet \in Buffered
    BY <1>12
  <2>1. i \in 1 .. L /\ s <= Seq4096(es[i].packet)
    BY <1>9, <1>11
  <2>2. PICK q : q = es[i].packet /\ q \in 1 .. t /\ q \in Buffered
    BY <1>13, <2>1
  <2>3. q \in 1 .. MaxPackets + 1 /\ f \in 1 .. MaxPackets + 1
    BY <1>5, <2>2, BlockAckAssumption
  <2>4. f <= q
    BY <1>2, <1>4, <2>1, <2>2, <2>3, HalfOrder
  <2> QED BY <1>5, <2>2, <2>4
<1>15. \A p \in f .. t : p \in Buffered => p \in PacketsOf(held)
  <2> SUFFICES ASSUME NEW p \in f .. t, p \in Buffered PROVE p \in PacketsOf(held)
    OBVIOUS
  <2>1. PICK i \in 1 .. L : es[i].packet = p
    BY <1>8, <1>9, PacketIn DEF Buffered
  <2>2. p \in 1 .. MaxPackets + 1 /\ f \in 1 .. MaxPackets + 1 /\ f <= p
    BY <1>5, <1>7
  <2>3. s <= Seq4096(p) /\ s \in Nat /\ Seq4096(p) \in Nat
    BY <1>2, <1>4, <2>2, HalfOrder, HalfNumber
  <2>4. ~(Seq4096(p) < s)
    BY <2>3
  <2>5. i \notin 1 .. k
    BY <1>11, <2>1, <2>4
  <2>6. i \in k + 1 .. L
    BY <1>9, <1>11, <2>5
  <2> QED BY <1>12, <2>1, <2>6
<1>16. \A e \in ToSet(held) : e.packet \in PacketsOf(held)
  <2> SUFFICES ASSUME NEW e \in ToSet(held) PROVE e.packet \in PacketsOf(held)
    OBVIOUS
  <2>1. PICK n \in 1 .. Len(held) : e = held[n]
    BY <1>12, Elements
  <2> QED BY <1>12, <2>1, PacketIn
<1>17. \A q \in PacketsOf(held) : \E e \in ToSet(held) : e.packet = q
  <2> SUFFICES ASSUME NEW q \in PacketsOf(held) PROVE \E e \in ToSet(held) : e.packet = q
    OBVIOUS
  <2>1. PICK n \in 1 .. Len(held) : held[n].packet = q
    BY <1>12, PacketIn
  <2>2. held[n] \in ToSet(held)
    BY <1>12, <2>1, Elements
  <2> QED BY <2>1, <2>2
<1> SUFFICES ASSUME NEW p \in ToSet(buffer) PROVE IsPacketReceived(air', p) <=> p \in Buffered
  OBVIOUS
<1>18. p \in f .. t /\ p - f \in 0 .. Word - 1 /\ IndexInBitmap(s, Seq4096(p)) = p - f
  BY <1>5, <1>6
<1>19. IsPacketReceived(air', p) <=> ((p - f) % (2 * Word)) \in bitmap
  <2>1. air'.start = s /\ air'.bitmap = bitmap
    BY <1>1
  <2>2. IsPacketReceived(air', p)
          <=> (IndexInBitmap(air'.start, Seq4096(p)) % (2 * Word)) \in air'.bitmap
    BY DEF IsPacketReceived
  <2> QED BY <1>18, <2>1, <2>2
<1>20. \A q \in PacketsOf(held) :
         ((p - f) % (2 * Word)) \in SetReceivedPacket(IndexInBitmap(s, Seq4096(q))) <=> p = q
  <2> SUFFICES ASSUME NEW q \in PacketsOf(held)
               PROVE  ((p - f) % (2 * Word)) \in SetReceivedPacket(IndexInBitmap(s, Seq4096(q)))
                        <=> p = q
    OBVIOUS
  <2>1. q \in f .. t /\ q - f \in 0 .. Word - 1 /\ IndexInBitmap(s, Seq4096(q)) = q - f
    BY <1>5, <1>14
  <2>2. PICK a, b : a = p - f /\ b = q - f
    OBVIOUS
  <2>3. (a % (2 * Word)) \in SetReceivedPacket(b) <=> a = b
    BY <1>18, <2>1, <2>2, OwnBit
  <2>4. a = b <=> p = q
    BY <1>5, <1>18, <2>1, <2>2
  <2> QED BY <2>1, <2>2, <2>3, <2>4
<1>21. IsPacketReceived(air', p) => p \in Buffered
  <2> SUFFICES ASSUME IsPacketReceived(air', p) PROVE p \in Buffered
    OBVIOUS
  <2>1. PICK e \in ToSet(held) :
          ((p - f) % (2 * Word)) \in SetReceivedPacket(IndexInBitmap(s, Seq4096(e.packet)))
    BY <1>1, <1>19
  <2> QED BY <1>14, <1>16, <1>20, <2>1
<1>22. p \in Buffered => IsPacketReceived(air', p)
  <2> SUFFICES ASSUME p \in Buffered PROVE IsPacketReceived(air', p)
    OBVIOUS
  <2>1. p \in PacketsOf(held)
    BY <1>15, <1>18
  <2>2. PICK e \in ToSet(held) : e.packet = p
    BY <1>17, <2>1
  <2>3. ((p - f) % (2 * Word)) \in SetReceivedPacket(IndexInBitmap(s, Seq4096(e.packet)))
    BY <1>20, <2>1, <2>2
  <2> QED BY <1>1, <1>19, <2>2, <2>3
<1> QED BY <1>21, <1>22

(* Before a block ack is sent, what is complete is handed up. *)
LEMMA DeliverySendBlockAck ==
  ASSUME HalfSpace, IInv, SessionInv, WindowInv, DeliveryInv, SendBlockAckAfterBlockAckRequest
  PROVE  DeliveryInv'
<1>1. PICK s, bitmap :
        /\ UNCHANGED <<accepted, taken, buffer, retries, current, acked, unanswered, agreed>>
        /\ air.kind = "bar" /\ s = air.start /\ Complete(rBuffer, s, s)
        /\ air' = [kind |-> "blockack", start |-> s, bitmap |-> bitmap]
  BY DEF SendBlockAckAfterBlockAckRequest, Originator, Queued, Manager, Channel
<1>2. /\ current.kind = "bar" /\ s = Seq4096(FirstDue) /\ retries = << >> /\ buffer # << >>
      /\ accepted <= MaxPackets
  BY <1>1, RequestOnAir DEF SessionInv, AgreementInv
<1>3. PICK f, t : f = FirstDue /\ t = taken
  OBVIOUS
<1>4. /\ t \in 0 .. MaxPackets /\ t \in Nat /\ f \in 1 .. t
      /\ \A p \in ToSet(buffer) : p \in f .. t
  <2>1. /\ taken \in Nat /\ FirstDue \in ToSet(buffer)
        /\ \A p \in ToSet(buffer) : p \in FirstDue .. taken
    BY <1>2, FirstDueBounds
  <2>2. taken \in 0 .. accepted /\ accepted \in Nat /\ FirstDue \in 1 .. taken + 1
    BY FirstDueBounds DEF IInv, OriginatorInv
  <2> QED BY <1>2, <1>3, <2>1, <2>2, BlockAckAssumption
<1>5. s \in 0 .. First + MaxPackets
  <2>1. f \in 1 .. MaxPackets + 1 /\ f <= MaxPackets /\ f \in Nat
    BY <1>4, BlockAckAssumption
  <2>2. s = First + f - 1
    BY <1>2, <1>3, <2>1, HalfNumber
  <2> QED BY <2>1, <2>2, BlockAckAssumption
<1>6. PICK es : es = rBuffer
  OBVIOUS
<1>7. /\ es \in Seq(Entries) /\ InOrder(es) /\ HandedUpBefore(PacketsOf(es))
      /\ PacketsOf(es) = Buffered /\ PacketsOf(es) \subseteq 1 .. taken /\ Complete(es, s, s)
  BY <1>1, <1>6 DEF IInv, RecipientInv, DeliveryInv, Buffered
<1>8. ~Answering /\ Answering' /\ Unreported = ToSet(buffer)
  BY <1>1 DEF Answering, Unreported
<1>9. /\ Packet(current) = {} /\ Packet(current)' = {} /\ Packet(air)' = {}
      /\ Future' = Future /\ Repeatable' = {}
  BY <1>1, <1>2 DEF Packet, Future, Repeatable
<1>10. Unreported' = {p \in ToSet(buffer) : ~WideAnswer' /\ ~IsPacketReceived(air', p)}
  BY <1>1, <1>8 DEF Unreported, IsPacketReceived, IndexInBitmap, Seq4096
<1>11. \A p \in ToSet(buffer) : ~WideAnswer' => (p \in Unreported' <=> p \notin Buffered)
  <2>1. ~WideAnswer' => \A p \in ToSet(buffer) : IsPacketReceived(air', p) <=> p \in Buffered
    BY Reported
  <2> QED BY <1>10, <2>1
<1>12. \A p \in Unreported' : p \in ToSet(buffer) /\ p \notin Buffered
  BY <1>10, <1>11
<1>13. Owed' = Future \cup Unreported' /\ Coming' = Future \cup Unreported'
  BY <1>8, <1>9 DEF Owed, Coming
<1>14. Owed' \subseteq Owed
  BY <1>8, <1>12, <1>13 DEF Owed
<1>15. \A p \in Future : p \in 1 .. MaxPackets /\ ~(p <= t)
  BY <1>3, <1>4 DEF Future
<1>16. \A p \in ToSet(buffer) : p \in 1 .. MaxPackets
  BY <1>4, BlockAckAssumption
<1>17. Owed' \subseteq 1 .. MaxPackets
  BY <1>12, <1>13, <1>15, <1>16
<1>18. \A q \in (Owed' \cup Coming') \ unanswered : q \notin PacketsOf(es)
  <2>1. \A q \in Future : q \notin PacketsOf(es)
    <3>1. \A q \in 1 .. t : q <= t
      BY <1>4
    <3> QED BY <1>3, <1>7, <1>15, <3>1
  <2> QED BY <1>7, <1>12, <1>13, <2>1
<1>19. \A q \in Owed' \ unanswered : s <= Seq4096(q)
  <2> SUFFICES ASSUME NEW q \in Owed' PROVE s <= Seq4096(q)
    OBVIOUS
  <2>1. q \in 1 .. MaxPackets /\ f <= q
    <3>1. CASE q \in Future
      BY <1>4, <1>15, <3>1
    <3>2. CASE q \in Unreported'
      BY <1>4, <1>12, <1>16, <3>2
    <3> QED BY <1>13, <3>1, <3>2
  <2>2. q \in 1 .. MaxPackets + 1 /\ f \in 1 .. MaxPackets + 1
    BY <1>4, <2>1, BlockAckAssumption
  <2> QED BY <1>2, <1>3, <2>1, <2>2, HalfOrder
<1>20. Claimed' \subseteq Claimed \cup PacketsOf(es)
  <2>1. Claimed' \subseteq acked \cup {p \in ToSet(buffer) : ~WideAnswer' /\ p \notin Unreported'}
    <3>1. air' # Ack
      BY <1>1 DEF Ack
    <3> QED BY <1>1, <1>8, <3>1 DEF Claimed
  <2>2. \A p \in ToSet(buffer) : ~WideAnswer' /\ p \notin Unreported' => p \in Buffered
    BY <1>11
  <2>3. acked \subseteq Claimed
    BY DEF Claimed
  <2> QED BY <1>7, <2>1, <2>2, <2>3
<1>21. Buffered \subseteq PacketsOf(es) /\ UNCHANGED <<taken, unanswered>>
  BY <1>1, <1>7
<1> QED BY <1>2, <1>5, <1>7, <1>14, <1>17, <1>18, <1>19, <1>20, <1>21, CompleteDelivers

-----------------------------------------------------------------------------
(* Initially nothing was handed up, and everything is to come. *)
LEMMA InitDelivery ==
  ASSUME HalfSpace, Init
  PROVE  WindowInv /\ DeliveryInv
<1>1. /\ taken = 0 /\ current = None /\ buffer = << >> /\ retries = << >>
      /\ air = Silence /\ agreed = FALSE /\ rBuffer = << >> /\ rStart = 0
      /\ last = (First + 4095) % 4096 /\ delivered = << >> /\ acked = {}
  BY DEF Init
<1>2. FirstDue = 1
  BY <1>1 DEF FirstDue
<1>3. WindowInv
  <2>1. \A q : q \notin 1 .. 0
    OBVIOUS
  <2> QED BY <1>1, <1>2, <2>1 DEF WindowInv
<1>4. Buffered = {} /\ InOrder(rBuffer)
  BY <1>1 DEF Buffered, PacketsOf, InOrder
<1>5. Ascending /\ HandedUpBefore(Buffered) /\ HandedUpBefore(Owed)
  BY <1>1 DEF Ascending, HandedUpBefore
<1>6. Claimed = {}
  <2>1. ~Answering /\ air # Ack
    BY <1>1 DEF Answering, Ack, Silence
  <2> QED BY <1>1, <2>1 DEF Claimed
<1>7. LastHanded
  <2> SUFFICES ASSUME NEW p \in 1 .. MaxPackets, last = Seq4096(p) PROVE FALSE
    BY DEF LastHanded
  <2>1. p \in 1 .. MaxPackets + 1
    BY BlockAckAssumption
  <2>2. last = First + p - 1
    BY <2>1, HalfNumber
  <2>3. First \in Nat /\ p \in Nat \ {0} /\ First + p - 1 <= 2048
    BY BlockAckAssumption DEF HalfSpace
  <2>4. CASE First = 0
    <3>1. 4095 % 4096 = 4095
      BY SmallModulo
    <3>2. last = 4095
      BY <1>1, <2>4, <3>1
    <3> QED BY <2>2, <2>3, <3>2
  <2>5. CASE First # 0
    <3>1. PICK n : n = First - 1
      OBVIOUS
    <3>2. n \in Nat /\ n <= 4095 /\ First + 4095 = n + 4096
      BY <2>3, <2>5, <3>1, BlockAckAssumption
    <3>3. (n + 4096) % 4096 = n
      BY <3>2
    <3>4. last = n
      BY <1>1, <3>2, <3>3
    <3> QED BY <2>2, <2>3, <3>1, <3>4
  <2> QED BY <2>4, <2>5
<1>8. rStart <= First + MaxPackets
  BY <1>1, BlockAckAssumption
<1>9. DeliveryInv
  BY <1>1, <1>4, <1>5, <1>6, <1>7, <1>8 DEF DeliveryInv
<1> QED BY <1>3, <1>9

(* Every step keeps what the recipient hands up in order. *)
LEMMA NextDelivery ==
  ASSUME HalfSpace, IInv, SessionInv, WindowInv, DeliveryInv, [Next]_vars, ~wide'
  PROVE  WindowInv' /\ DeliveryInv'
<1>1. accepted <= MaxPackets
  BY DEF SessionInv, AgreementInv
<1>2. CASE Queue
  <2>1. UNCHANGED <<rBuffer, last, delivered, rStart, agreed, unanswered>>
    BY <1>2 DEF Queue, Channel, Recipient
  <2>2. UNCHANGED <<taken, buffer, retries, current, air, acked>>
    BY <1>2 DEF Queue, Manager
  <2> QED BY <2>1, <2>2, WindowKept, DeliverySame
<1>3. CASE NotifyAccessGranted
  <2>1. UNCHANGED <<acked, failed, wide, Channel, Recipient>>
    BY <1>3 DEF NotifyAccessGranted
  <2>2. UNCHANGED <<rBuffer, last, delivered, rStart, agreed, unanswered, acked>>
    BY <2>1 DEF Channel, Recipient
  <2>3. CASE SendBlockAckRequest
    <3>1. /\ current = None /\ air = Silence /\ Transmit(Bar(Head(bars)), "blockack")
          /\ UNCHANGED <<taken, buffer, retries>>
      BY <2>3 DEF SendBlockAckRequest, Granted, Queued
    <3>2. /\ Packet(current') = {} /\ Packet(air') = {} /\ Repeatable' = {} /\ Repeatable = {}
          /\ air.kind # "blockack" /\ air'.kind # "blockack" /\ air' # Ack
      BY <3>1 DEF Transmit, Bar, Packet, Repeatable, None, Silence, Ack
    <3>3. taken \in Nat /\ taken' \in Nat /\ taken <= taken'
      BY <3>1, FirstDueBounds
    <3> QED BY <2>2, <3>1, <3>2, <3>3, WindowKept, OriginatorDelivers
  <2>4. CASE Retransmit \/ Dequeue
    <3>1. PICK p, again : BlockSend(p, again) \/ OwnSend(p, again)
      BY <2>1, <2>4, RetransmitSends, DequeueSends
    <3> QED BY <1>1, <3>1, WindowBlockSend, WindowOwnSend, DeliveryBlockSend, DeliveryOwnSend
  <2>5. CASE SendAddBaRequest
    <3>1. /\ current = None /\ air = Silence
          /\ Transmit(AddBaRequest(Seq4096(taken + 1)), "ack")
          /\ UNCHANGED <<taken, buffer, retries>>
      BY <2>5 DEF SendAddBaRequest, Granted, Idle, Queued
    <3>2. /\ Packet(current') = {} /\ Packet(air') = {} /\ Repeatable' = {} /\ Repeatable = {}
          /\ air.kind # "blockack" /\ air'.kind # "blockack" /\ air' # Ack
      BY <3>1 DEF Transmit, AddBaRequest, Packet, Repeatable, None, Silence, Ack
    <3>3. taken \in Nat /\ taken' \in Nat /\ taken <= taken'
      BY <3>1, FirstDueBounds
    <3> QED BY <2>2, <3>1, <3>2, <3>3, WindowKept, OriginatorDelivers
  <2>6. CASE NothingAvailable
    <3>1. UNCHANGED <<taken, buffer, retries, current, air>>
      BY <2>6 DEF NothingAvailable, Queued, Manager
    <3> QED BY <2>2, <3>1, WindowKept, DeliverySame
  <2>7. CASE Repeat
    <3>1. UNCHANGED <<taken, buffer>>
      BY <2>7 DEF Repeat, Queued, Manager
    <3> QED BY <2>1, <2>7, <3>1, WindowKept, DeliveryRepeat
  <2> QED BY <1>3, <2>3, <2>4, <2>5, <2>6, <2>7 DEF NotifyAccessGranted
<1>4. CASE GotAck \/ MissedAck
  <2>1. UNCHANGED <<taken, buffer>>
    BY <1>4 DEF GotAck, MissedAck, Queued, Manager
  <2> QED BY <1>4, <2>1, WindowKept, DeliveryGotAck
<1>5. CASE GotBlockAck
  BY <1>5, WindowGotBlockAck, DeliveryGotBlockAck
<1>6. CASE MissedBlockAck
  <2>1. UNCHANGED <<rBuffer, last, delivered, rStart, agreed, unanswered>>
    BY <1>6 DEF MissedBlockAck, Channel, Recipient
  <2>2. UNCHANGED <<taken, buffer, retries, current, air, acked>>
    BY <1>6 DEF MissedBlockAck, Queued, Manager
  <2> QED BY <2>1, <2>2, WindowKept, DeliverySame
<1>7. CASE GotAddBaResponse
  <2>1. UNCHANGED <<rBuffer, last, delivered, rStart, agreed, unanswered>>
    BY <1>7 DEF GotAddBaResponse, Recipient
  <2>2. UNCHANGED <<taken, buffer, retries, current, air, acked>>
    BY <1>7 DEF GotAddBaResponse, Queued
  <2> QED BY <2>1, <2>2, WindowKept, DeliverySame
<1>8. CASE Receive
  <2>1. UNCHANGED <<taken, buffer>>
    BY <1>8 DEF Receive, ReceiveData, ReceiveAddBaRequest, SendBlockAckAfterBlockAckRequest,
                Originator, Queued, Manager
  <2>2. DeliveryInv'
    BY <1>8, DeliveryReceiveData, DeliveryReceiveAddBaRequest, DeliverySendBlockAck DEF Receive
  <2> QED BY <2>1, <2>2, WindowKept
<1>9. CASE Lose
  <2>1. UNCHANGED <<taken, buffer>>
    BY <1>9 DEF Lose, Originator, Queued, Manager
  <2> QED BY <1>9, <2>1, WindowKept, DeliveryLose
<1>10. CASE ResponseLost \/ UNCHANGED vars
  <2>1. UNCHANGED <<rBuffer, last, delivered, rStart, agreed, unanswered>>
    BY <1>10 DEF ResponseLost, vars, Channel, Recipient
  <2>2. UNCHANGED <<taken, buffer, retries, current, air, acked>>
    BY <1>10 DEF ResponseLost, vars, Originator, Queued, Manager
  <2> QED BY <2>1, <2>2, WindowKept, DeliverySame
<1> QED BY <1>2, <1>3, <1>4, <1>5, <1>6, <1>7, <1>8, <1>9, <1>10 DEF Next, Answered

(* A block ack that was too wide stays known. *)
LEMMA WideStays ==
  ASSUME [Next]_vars
  PROVE  ~wide' => ~wide
<1>1. CASE GotBlockAck
  <2>1. wide' = (wide \/ WideAnswer)
    BY <1>1 DEF GotBlockAck, WideAnswer
  <2> QED BY <2>1, Zenon
<1>2. CASE Queue \/ NotifyAccessGranted \/ GotAck \/ MissedAck \/ MissedBlockAck \/ GotAddBaResponse
  <2>1. wide' = wide
    BY <1>2 DEF Queue, NotifyAccessGranted, GotAck, MissedAck, MissedBlockAck, GotAddBaResponse
  <2> QED BY <2>1, Zenon
<1>3. CASE Receive \/ Lose \/ ResponseLost \/ UNCHANGED vars
  <2>1. wide' = wide
    BY <1>3 DEF Receive, ReceiveData, ReceiveAddBaRequest, SendBlockAckAfterBlockAckRequest,
                Lose, ResponseLost, vars, Originator
  <2> QED BY <2>1, Zenon
<1> QED BY <1>1, <1>2, <1>3 DEF Next, Answered

(* While the sequence numbers stay in the lower half of their space, the     *)
(* session, its window and its deliveries stay as OnceInv says.              *)
THEOREM OnceInvariance ==
  ASSUME HalfSpace
  PROVE  Spec => []OnceInv
<1>1. Init => OnceInv
  <2> SUFFICES ASSUME Init PROVE OnceInv
    OBVIOUS
  <2>1. SessionInv /\ WindowInv /\ DeliveryInv
    BY InitSession, InitDelivery
  <2> QED BY <2>1 DEF OnceInv
<1>2. IInv /\ OnceInv /\ [Next]_vars => OnceInv'
  <2> SUFFICES ASSUME IInv, OnceInv, [Next]_vars PROVE OnceInv'
    OBVIOUS
  <2>1. SessionInv'
    BY NextSession DEF OnceInv
  <2>2. ~wide' => WindowInv' /\ DeliveryInv'
    <3> SUFFICES ASSUME ~wide' PROVE WindowInv' /\ DeliveryInv'
      OBVIOUS
    <3>1. ~wide
      BY WideStays
    <3>2. SessionInv /\ WindowInv /\ DeliveryInv
      BY <3>1 DEF OnceInv
    <3> QED BY <3>2, NextDelivery
  <2> QED BY <2>1, <2>2 DEF OnceInv
<1> QED BY <1>1, <1>2, Invariance, PTL DEF Spec

(* Unless a block ack spans more packets than an int has bits, the recipient *)
(* hands up every packet once and in order, but for those whose answer was   *)
(* lost, and what the originator counts as acknowledged has arrived:         *)
(* StoreMpduIfNeeded, RxCompleteBufferedPackets..., SendBlockAck... and      *)
(* NotifyGotBlockAck, while the numbers stay in the lower half of their space. *)
THEOREM DeliveredOnce ==
  ASSUME HalfSpace
  PROVE  Spec => []HandedUpOnce
<1>1. OnceInv => HandedUpOnce
  BY DEF OnceInv, DeliveryInv, Claimed, HandedUpOnce
<1> QED BY <1>1, OnceInvariance, PTL
=============================================================================
