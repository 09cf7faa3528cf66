------------------------ MODULE StaticRoutingProofs -------------------------
(***************************************************************************)
(* Proofs about StaticRouting, for any interfaces, addresses, routes and   *)
(* splits.  The loops of the code are recursive functions of the model;    *)
(* what they compute is proved by induction, which is stated for sets of   *)
(* numbers and rests on every such set having a least element.             *)
(***************************************************************************)
EXTENDS StaticRouting, FiniteSetTheorems, SequenceTheorems, WellFoundedInduction, TLAPS

-----------------------------------------------------------------------------
(* Induction and recursion *)

(* A set of natural numbers has a least element. *)
LEMMA LeastElement ==
  ASSUME NEW T, T \subseteq Nat, T # {}
  PROVE  \E n \in T : \A m \in T : n <= m
<1>1. PICK R : R = OpToRel(<, Nat)
  OBVIOUS
<1>2. IsWellFoundedOn(R, Nat)
  BY <1>1, NatLessThanWellFounded
<1>3. PICK n \in T : \A m \in T : ~(<<m, n>> \in R)
  BY <1>2, WFMin
<1>4. R = {ss \in Nat \X Nat : ss[1] < ss[2]}
  BY <1>1, Zenon DEF OpToRel
<1>5. ASSUME NEW m \in T PROVE n <= m
  <2>1. <<m, n>> \in Nat \X Nat /\ <<m, n>> \notin {ss \in Nat \X Nat : ss[1] < ss[2]}
    BY <1>3, <1>4
  <2>2. ~(m < n)
    BY <2>1
  <2> QED BY <2>2
<1> QED BY <1>5

(* A set that holds 0 and, with every number below N, the next, holds all. *)
LEMMA Induction ==
  ASSUME NEW N \in Nat, NEW P, 0 \in P, \A n \in 1 .. N : n - 1 \in P => n \in P
  PROVE  \A n \in 0 .. N : n \in P
<1>1. PICK T : T = (0 .. N) \ P
  OBVIOUS
<1>2. SUFFICES ASSUME T # {} PROVE FALSE
  BY <1>1
<1>3. T \subseteq Nat
  BY <1>1
<1>4. PICK n \in T : \A m \in T : n <= m
  BY <1>2, <1>3, LeastElement
<1>5. n \in 0 .. N /\ n # 0
  BY <1>1
<1>6. n - 1 \in 0 .. N /\ n - 1 \notin T
  BY <1>3, <1>4, <1>5
<1>7. n - 1 \in P
  BY <1>1, <1>6
<1> QED BY <1>1, <1>5, <1>7

(* The function f of a loop starts with c, and its round n makes step[n][x] of x. *)
Steps(N, D) == [1 .. N -> [D -> D]]
IsLoop(f, c, N, step) == f[0] = c /\ \A n \in 1 .. N : f[n] = step[n][f[n - 1]]

(* There is such a function, for any number of rounds. *)
LEMMA Recursion ==
  ASSUME NEW D, NEW c \in D, NEW N \in Nat, NEW step \in Steps(N, D)
  PROVE  \E f \in [0 .. N -> D] : IsLoop(f, c, N, step)
<1> USE DEF Steps, IsLoop
<1> DEFINE Upto(m, f) == IsLoop(f, c, m, step)
           P == {m \in 0 .. N : \E f \in [0 .. m -> D] : Upto(m, f)}
<1>1. 0 \in P
  <2>1. PICK f : f = [n \in 0 .. 0 |-> c]
    OBVIOUS
  <2>2. f \in [0 .. 0 -> D] /\ f[0] = c
    BY <2>1
  <2>3. Upto(0, f)
    BY <2>2
  <2>4. \E g \in [0 .. 0 -> D] : Upto(0, g)
    BY <2>2, <2>3
  <2> QED BY <2>4
<1>2. ASSUME NEW m \in 1 .. N, m - 1 \in P PROVE m \in P
  <2>1. PICK f \in [0 .. m - 1 -> D] : Upto(m - 1, f)
    BY <1>2
  <2>2. PICK g : g = [n \in 0 .. m |-> IF n = m THEN step[m][f[m - 1]] ELSE f[n]]
    OBVIOUS
  <2>3. f[m - 1] \in D
    OBVIOUS
  <2>4. step[m][f[m - 1]] \in D
    BY <2>3
  <2>5. g \in [0 .. m -> D]
    BY <2>2, <2>4
  <2>6. \A n \in 0 .. m - 1 : g[n] = f[n]
    BY <2>2
  <2>7. g[m] = step[m][g[m - 1]] /\ g[0] = c
    BY <2>1, <2>2, <2>6
  <2>8. \A n \in 1 .. m - 1 : g[n] = step[n][g[n - 1]]
    BY <2>1, <2>6
  <2>9. Upto(m, g)
    BY <2>7, <2>8
  <2> QED BY <2>5, <2>9
<1>3. PICK Q : Q = P
  OBVIOUS
<1> HIDE DEF P
<1>4. 0 \in Q
  BY <1>1, <1>3
<1>5. \A n \in 1 .. N : n - 1 \in Q => n \in Q
  BY <1>2, <1>3
<1>6. \A n \in 0 .. N : n \in Q
  BY <1>4, <1>5, Induction
<1>7. N \in Q
  BY <1>6
<1>8. \E f \in [0 .. N -> D] : Upto(N, f)
  BY <1>3, <1>7 DEF P
<1> QED BY <1>8

-----------------------------------------------------------------------------
(* Kept *)

(* Kept is the loop it is written as. *)
LEMMA KeptDefined ==
  ASSUME NEW S, NEW s \in Seq(S), NEW I
  PROVE  \E f : /\ f[0] = << >>
                /\ \A n \in 1 .. Len(s) :
                      f[n] = IF n \in I THEN Append(f[n - 1], s[n]) ELSE f[n - 1]
                /\ Kept(s, I) = f[Len(s)]
<1> DEFINE Round(f, n) == IF n = 0 THEN << >>
                          ELSE IF n \in I THEN Append(f[n - 1], s[n]) ELSE f[n - 1]
           Loop(f) == f = [n \in 0 .. Len(s) |-> Round(f, n)]
<1>1. Len(s) \in Nat /\ \A n \in 1 .. Len(s) : s[n] \in S
  OBVIOUS
<1>2. PICK step : step = [n \in 1 .. Len(s) |->
                            [t \in Seq(S) |-> IF n \in I THEN Append(t, s[n]) ELSE t]]
  OBVIOUS
<1>3. step \in [1 .. Len(s) -> [Seq(S) -> Seq(S)]]
  <2>1. ASSUME NEW n \in 1 .. Len(s), NEW t \in Seq(S)
        PROVE  (IF n \in I THEN Append(t, s[n]) ELSE t) \in Seq(S)
    BY <1>1
  <2> QED BY <1>2, <2>1
<1>4. << >> \in Seq(S)
  OBVIOUS
<1>5. PICK f \in [0 .. Len(s) -> Seq(S)] :
        f[0] = << >> /\ \A n \in 1 .. Len(s) : f[n] = step[n][f[n - 1]]
  <2>1. PICK D, c, N : D = Seq(S) /\ c = << >> /\ N = Len(s)
    OBVIOUS
  <2>2. c \in D /\ N \in Nat /\ step \in Steps(N, D)
    BY <1>1, <1>3, <1>4, <2>1 DEF Steps
  <2>3. \E f \in [0 .. N -> D] : IsLoop(f, c, N, step)
    BY <2>2, Recursion
  <2> QED BY <2>1, <2>3 DEF IsLoop
<1>6. \A n \in 1 .. Len(s) : f[n] = IF n \in I THEN Append(f[n - 1], s[n]) ELSE f[n - 1]
  <2> TAKE n \in 1 .. Len(s)
  <2>1. f[n - 1] \in Seq(S)
    BY <1>1
  <2> QED BY <1>2, <1>5, <2>1
<1>7. Loop(f)
  <2>1. f = [n \in 0 .. Len(s) |-> f[n]]
    OBVIOUS
  <2>2. \A n \in 0 .. Len(s) : f[n] = Round(f, n)
    <3> TAKE n \in 0 .. Len(s)
    <3>1. CASE n = 0
      BY <1>5, <3>1
    <3>2. CASE n # 0
      <4>1. n \in 1 .. Len(s)
        BY <1>1, <3>2
      <4> QED BY <1>6, <3>2, <4>1
    <3> QED BY <3>1, <3>2
  <2> HIDE DEF Round
  <2> QED BY <2>1, <2>2
<1> HIDE DEF Loop
<1>8. PICK g : g = CHOOSE h : Loop(h)
  OBVIOUS
<1>9. Loop(g)
  BY <1>7, <1>8
<1>10. \A n \in 0 .. Len(s) : g[n] = Round(g, n)
  BY <1>9 DEF Loop
<1>11. Kept(s, I) = g[Len(s)]
  BY <1>8 DEF Kept, Loop
<1> QED BY <1>1, <1>10, <1>11

(* What is kept comes from the positions that were to be kept. *)
LEMMA KeptSound ==
  ASSUME NEW S, NEW s \in Seq(S), NEW I
  PROVE  /\ Kept(s, I) \in Seq(S)
         /\ \A k \in DOMAIN Kept(s, I) : \E n \in DOMAIN s : n \in I /\ Kept(s, I)[k] = s[n]
<1>1. PICK f : /\ f[0] = << >>
               /\ \A n \in 1 .. Len(s) :
                     f[n] = IF n \in I THEN Append(f[n - 1], s[n]) ELSE f[n - 1]
               /\ Kept(s, I) = f[Len(s)]
  BY KeptDefined
<1> DEFINE From(t) == \A k \in DOMAIN t : \E n \in DOMAIN s : n \in I /\ t[k] = s[n]
<1>2. PICK P : P = {n \in 0 .. Len(s) : f[n] \in Seq(S) /\ From(f[n])}
  OBVIOUS
<1>3. Len(s) \in Nat /\ DOMAIN s = 1 .. Len(s) /\ \A n \in 1 .. Len(s) : s[n] \in S
  OBVIOUS
<1>4. 0 \in P
  <2>1. PICK t : t = << >> /\ f[0] = t
    BY <1>1
  <2>2. t \in Seq(S) /\ From(t)
    BY <2>1
  <2>3. 0 \in 0 .. Len(s) /\ f[0] \in Seq(S) /\ From(f[0])
    BY <1>3, <2>1, <2>2
  <2> QED BY <1>2, <2>3
<1>5. ASSUME NEW n \in 1 .. Len(s), n - 1 \in P PROVE n \in P
  <2>1. n - 1 \in 0 .. Len(s) /\ n \in 0 .. Len(s) /\ f[n - 1] \in Seq(S) /\ From(f[n - 1])
    BY <1>2, <1>3, <1>5
  <2>2. PICK t \in Seq(S) : t = f[n - 1] /\ From(t)
    BY <2>1
  <2>3. f[n] = IF n \in I THEN Append(t, s[n]) ELSE t
    BY <1>1, <2>2
  <2>4. CASE n \in I
    <3>1. PICK u : u = Append(t, s[n]) /\ f[n] = u
      BY <2>3, <2>4
    <3>2. /\ u \in Seq(S) /\ DOMAIN u = 1 .. Len(t) + 1 /\ u[Len(t) + 1] = s[n]
          /\ \A k \in 1 .. Len(t) : u[k] = t[k]
      BY <1>3, <3>1
    <3>3. ASSUME NEW k \in DOMAIN u PROVE \E i \in DOMAIN s : i \in I /\ u[k] = s[i]
      <4>1. Len(t) \in Nat /\ DOMAIN t = 1 .. Len(t)
        OBVIOUS
      <4>2. CASE k = Len(t) + 1
        BY <1>3, <2>4, <3>2, <4>2
      <4>3. CASE k \in 1 .. Len(t)
        BY <2>2, <3>2, <4>1, <4>3
      <4> QED BY <3>2, <4>1, <4>2, <4>3
    <3> QED BY <1>2, <2>1, <3>1, <3>2, <3>3
  <2>5. CASE n \notin I
    BY <1>2, <2>1, <2>2, <2>3, <2>5
  <2> QED BY <2>4, <2>5
<1>6. \A n \in 0 .. Len(s) : n \in P
  <2>1. \A N : N \in Nat /\ 0 \in P /\ (\A n \in 1 .. N : n - 1 \in P => n \in P)
           => \A n \in 0 .. N : n \in P
    BY Induction
  <2>2. \A n \in 1 .. Len(s) : n - 1 \in P => n \in P
    BY <1>5
  <2> QED BY <1>3, <1>4, <2>1, <2>2
<1>7. Len(s) \in P
  BY <1>3, <1>6
<1> QED BY <1>1, <1>2, <1>7

-----------------------------------------------------------------------------
(* The draws of a fractional route *)

(* The constructors' running sums: numbers that never decrease. *)
LEMMA SumsDefined ==
  ASSUME NEW share \in Seq(Nat), share # << >>
  PROVE  /\ RunningSums(share) \in [1 .. Len(share) -> Nat]
         /\ RunningSums(share)[1] = share[1]
         /\ \A i \in 2 .. Len(share) :
               RunningSums(share)[i] = RunningSums(share)[i - 1] + share[i]
<1> DEFINE Round(f, i) == IF i = 1 THEN share[1] ELSE f[i - 1] + share[i]
           Loop(f) == f = [i \in DOMAIN share |-> Round(f, i)]
<1>1. PICK N \in Nat \ {0} : N = Len(share) /\ DOMAIN share = 1 .. N
  OBVIOUS
<1>2. \A i \in 1 .. N : share[i] \in Nat
  BY <1>1
<1>3. PICK step : step = [i \in 1 .. N |-> [x \in Nat |-> x + share[i]]]
  OBVIOUS
<1>4. PICK g \in [0 .. N -> Nat] : g[0] = 0 /\ \A i \in 1 .. N : g[i] = step[i][g[i - 1]]
  <2>1. ASSUME NEW i \in 1 .. N PROVE step[i] \in [Nat -> Nat]
    <3>1. PICK k \in Nat : k = share[i]
      BY <1>2
    <3>2. step[i] = [x \in Nat |-> x + k]
      BY <1>3, <3>1
    <3>3. \A x \in Nat : x + k \in Nat
      OBVIOUS
    <3> QED BY <3>2, <3>3
  <2>2. step = [i \in 1 .. N |-> step[i]]
    BY <1>3
  <2>3. step \in [1 .. N -> [Nat -> Nat]]
    BY <2>1, <2>2
  <2>4. PICK D, c, M : D = Nat /\ c = 0 /\ M = N
    OBVIOUS
  <2>5. c \in D /\ M \in Nat /\ step \in Steps(M, D)
    BY <2>3, <2>4 DEF Steps
  <2>6. \E f \in [0 .. M -> D] : IsLoop(f, c, M, step)
    BY <2>5, Recursion
  <2> QED BY <2>4, <2>6 DEF IsLoop
<1>5. \A i \in 1 .. N : g[i] = g[i - 1] + share[i]
  <2> TAKE i \in 1 .. N
  <2>1. PICK x \in Nat : x = g[i - 1]
    OBVIOUS
  <2>2. step[i][x] = x + share[i]
    BY <1>3
  <2> QED BY <1>4, <2>1, <2>2
<1>6. PICK f : f = [i \in 1 .. N |-> g[i]]
  OBVIOUS
<1>7. Loop(f)
  <2>1. ASSUME NEW i \in 1 .. N PROVE g[i] = Round(f, i)
    <3>1. CASE i = 1
      BY <1>2, <1>4, <1>5, <3>1
    <3>2. CASE i # 1
      <4>1. i - 1 \in 1 .. N
        BY <3>2
      <4> QED BY <1>5, <1>6, <3>2, <4>1
    <3> QED BY <3>1, <3>2
  <2> HIDE DEF Round
  <2> QED BY <1>1, <1>6, <2>1
<1> HIDE DEF Loop
<1>8. PICK sum : sum = CHOOSE h : Loop(h)
  OBVIOUS
<1>9. Loop(sum)
  BY <1>7, <1>8
<1>10. RunningSums(share) = sum
  BY <1>8 DEF RunningSums, Loop
<1>11. DOMAIN sum = 1 .. N /\ \A i \in 1 .. N : sum[i] = Round(sum, i)
  BY <1>1, <1>9 DEF Loop
<1>12. sum = [i \in 1 .. N |-> sum[i]]
  BY <1>1, <1>9 DEF Loop
<1>13. PICK P : P = {n \in 0 .. N : n = 0 \/ sum[n] \in Nat}
  OBVIOUS
<1>14. ASSUME NEW n \in 1 .. N, n - 1 \in P PROVE n \in P
  <2>1. CASE n = 1
    BY <1>2, <1>11, <1>13, <2>1
  <2>2. CASE n # 1
    <3>1. n - 1 \in 1 .. N /\ sum[n - 1] \in Nat
      BY <1>13, <1>14, <2>2
    <3>2. PICK a \in Nat, b \in Nat : a = sum[n - 1] /\ b = share[n]
      BY <1>2, <3>1
    <3>3. sum[n] = a + b
      BY <1>11, <2>2, <3>2
    <3>4. sum[n] \in Nat
      BY <3>3
    <3> QED BY <1>13, <3>4
  <2> QED BY <2>1, <2>2
<1>15. \A n \in 0 .. N : n \in P
  <2>1. 0 \in P
    BY <1>13
  <2>2. \A n \in 1 .. N : n - 1 \in P => n \in P
    BY <1>14
  <2> QED BY <2>1, <2>2, Induction
<1>16. \A n \in 1 .. N : sum[n] \in Nat
  BY <1>13, <1>15
<1>17. sum \in [1 .. N -> Nat]
  BY <1>12, <1>16
<1>18. sum[1] = share[1] /\ \A i \in 2 .. N : sum[i] = sum[i - 1] + share[i]
  BY <1>11
<1> QED BY <1>1, <1>10, <1>17, <1>18

(* No sum is less than an earlier one. *)
LEMMA SumsIncrease ==
  ASSUME NEW share \in Seq(Nat), share # << >>,
         NEW i \in 1 .. Len(share), NEW j \in 1 .. Len(share), i <= j
  PROVE  RunningSums(share)[i] <= RunningSums(share)[j]
<1>1. PICK N \in Nat \ {0} : N = Len(share)
  OBVIOUS
<1>2. PICK sum \in [1 .. N -> Nat] :
        /\ sum = RunningSums(share)
        /\ \A n \in 2 .. N : sum[n] = sum[n - 1] + share[n]
  BY <1>1, SumsDefined
<1>3. PICK P : P = {n \in 0 .. N : i <= n => sum[i] <= sum[n]}
  OBVIOUS
<1>4. ASSUME NEW n \in 1 .. N, n - 1 \in P PROVE n \in P
  <2>1. CASE n < i
    BY <1>1, <1>3, <2>1
  <2>2. CASE n = i
    <3>1. sum[n] \in Nat /\ sum[i] <= sum[n]
      BY <1>1, <1>2, <2>2
    <3> QED BY <1>3, <3>1
  <2>3. CASE n > i
    <3>1. n \in 2 .. N /\ n - 1 \in 1 .. N /\ sum[i] <= sum[n - 1]
      BY <1>1, <1>3, <1>4, <2>3
    <3>2. sum[n] = sum[n - 1] + share[n] /\ share[n] \in Nat
      BY <1>1, <1>2, <3>1
    <3>3. PICK a \in Nat, b \in Nat, c \in Nat : a = sum[i] /\ b = sum[n - 1] /\ c = share[n]
      BY <1>1, <1>2, <3>1, <3>2
    <3>4. sum[i] <= sum[n]
      <4>1. a <= b /\ sum[n] = b + c
        BY <3>1, <3>2, <3>3
      <4>2. a <= b + c
        BY <4>1
      <4> QED BY <3>3, <4>1, <4>2
    <3> QED BY <1>3, <3>4
  <2> QED BY <1>1, <2>1, <2>2, <2>3
<1>5. \A n \in 0 .. N : n \in P
  <2>1. 0 \in P
    BY <1>1, <1>3
  <2>2. \A n \in 1 .. N : n - 1 \in P => n \in P
    BY <1>4
  <2> QED BY <2>1, <2>2, Induction
<1>6. j \in P
  BY <1>1, <1>5
<1> QED BY <1>2, <1>3, <1>6

(* What an entry of the fractional list consists of. *)
LEMMA FractionalParts ==
  ASSUME NEW f \in FractionalRoutes
  PROVE  /\ f.share \in Splits /\ f.share \in Seq(Nat) /\ f.share # << >>
         /\ f.sum = RunningSums(f.share) /\ f.sum[Len(f.share)] = Total
         /\ f.interfaces \in [1 .. Len(f.share) -> Interfaces] /\ f.dest \in Hosts
<1>1. PICK s, d, hops :
        /\ s \in Splits /\ d \in Hosts
        /\ hops \in [DOMAIN s -> Interfaces] /\ RunningSums(s)[Len(s)] = Total
        /\ f = [dest |-> d, share |-> s, interfaces |-> hops, sum |-> RunningSums(s)]
  BY DEF FractionalRoutes
<1>2. s \in Seq(0 .. Total) /\ s # << >>
  BY <1>1, SplitAssumption
<1>3. s \in Seq(Nat) /\ DOMAIN s = 1 .. Len(s)
  <2>1. 0 .. Total \subseteq Nat
    BY SplitAssumption
  <2>2. s \in Seq(Nat)
    BY <1>2, <2>1, SeqMonotonic
  <2> QED BY <2>2
<1> QED BY <1>1, <1>2, <1>3

(* GetIndex returns the hop between whose sums the draw falls. *)
LEMMA IndexSound ==
  ASSUME NEW f \in FractionalRoutes, NEW k \in 0 .. Total - 1
  PROVE  /\ GetIndex(f, 2 * k + 1) \in 1 .. Len(f.share)
         /\ \A i \in 1 .. Len(f.share) :
               GetIndex(f, 2 * k + 1) = i
                 <=> k < f.sum[i] /\ (i = 1 \/ f.sum[i - 1] <= k)
<1>1. PICK share, sum, N :
        /\ share = f.share /\ sum = f.sum /\ N = Len(share)
        /\ share \in Seq(Nat) /\ share # << >>
        /\ sum = RunningSums(share) /\ sum[N] = Total
  BY FractionalParts
<1>2. N \in Nat \ {0}
  BY <1>1
<1>3. sum \in [1 .. N -> Nat]
  BY <1>1, SumsDefined
<1>4. \A i, j \in 1 .. N : i <= j => sum[i] <= sum[j]
  BY <1>1, SumsIncrease
<1>5. PICK W : W = {i \in 1 .. N : k < sum[i]}
  OBVIOUS
<1>6. {i \in DOMAIN f.sum : 2 * k + 1 <= 2 * f.sum[i]} = W
  <2>1. \A a \in Nat : 2 * k + 1 <= 2 * a <=> k < a
    OBVIOUS
  <2>2. DOMAIN f.sum = 1 .. N
    BY <1>1, <1>3
  <2>3. \A i \in 1 .. N : 2 * k + 1 <= 2 * f.sum[i] <=> k < sum[i]
    BY <1>1, <1>3, <2>1
  <2> QED BY <1>5, <2>2, <2>3
<1>7. N \in W
  BY <1>1, <1>2, <1>5, SplitAssumption
<1>8. W \subseteq Nat /\ W \subseteq 1 .. N
  BY <1>2, <1>5
<1>9. PICK m \in W : \A j \in W : m <= j
  BY <1>7, <1>8, LeastElement
<1>10. GetIndex(f, 2 * k + 1) = m
  <2>1. GetIndex(f, 2 * k + 1) = Min(W)
    BY <1>6, <1>7 DEF GetIndex
  <2>2. PICK x : x = Min(W)
    OBVIOUS
  <2>3. x \in W /\ \A j \in W : x <= j
    BY <1>9, <2>2 DEF Min
  <2>4. x = m
    BY <1>8, <1>9, <2>3
  <2> QED BY <2>1, <2>2, <2>4
<1>11. ASSUME NEW i \in 1 .. N
       PROVE  m = i <=> k < sum[i] /\ (i = 1 \/ sum[i - 1] <= k)
  <2>1. ASSUME m = i, i # 1 PROVE sum[i - 1] <= k
    <3>1. i - 1 \in 1 .. N /\ i - 1 \notin W
      BY <1>2, <1>8, <1>9, <2>1
    <3>2. ~(k < sum[i - 1])
      BY <1>5, <3>1
    <3> QED BY <1>3, <3>1, <3>2
  <2>2. ASSUME m = i PROVE k < sum[i]
    BY <1>5, <1>9, <2>2
  <2>3. ASSUME k < sum[i], i = 1 \/ sum[i - 1] <= k PROVE m = i
    <3>1. m \in 1 .. N /\ m <= i
      BY <1>5, <1>8, <1>9, <2>3
    <3>2. CASE m < i
      <4>1. i # 1 /\ i - 1 \in 1 .. N /\ m <= i - 1
        BY <1>2, <3>1, <3>2
      <4>2. sum[m] <= sum[i - 1] /\ sum[i - 1] <= k
        BY <1>4, <2>3, <3>1, <4>1
      <4>3. sum[m] \in Nat /\ sum[i - 1] \in Nat /\ k < sum[m]
        BY <1>3, <1>5, <1>9, <3>1, <4>1
      <4> QED BY <4>2, <4>3
    <3> QED BY <3>1, <3>2
  <2> QED BY <2>1, <2>2, <2>3
<1> QED BY <1>1, <1>8, <1>10, <1>11

(* A hop gets as many of the draws as its share says. *)
LEMMA ShareDrawn ==
  ASSUME NEW f \in FractionalRoutes, NEW i \in 1 .. Len(f.share)
  PROVE  Cardinality({val \in Draws : GetIndex(f, val) = i}) = f.share[i]
<1>1. PICK share, sum, N :
        /\ share = f.share /\ sum = f.sum /\ N = Len(share)
        /\ share \in Seq(Nat) /\ share # << >>
        /\ sum = RunningSums(share) /\ sum[N] = Total
  BY FractionalParts
<1>2. N \in Nat \ {0} /\ i \in 1 .. N
  BY <1>1
<1>3. /\ sum \in [1 .. N -> Nat] /\ sum[1] = share[1]
      /\ \A n \in 2 .. N : sum[n] = sum[n - 1] + share[n]
  BY <1>1, SumsDefined
<1>4. sum[i] <= Total
  BY <1>1, <1>2, SumsIncrease
<1>5. PICK low \in Nat : /\ i = 1 => low = 0
                         /\ i # 1 => low = sum[i - 1]
  <2>1. i # 1 => sum[i - 1] \in Nat
    BY <1>2, <1>3
  <2> QED BY <2>1
<1>6. sum[i] \in Nat /\ share[i] \in Nat /\ sum[i] = low + share[i]
  <2>1. CASE i = 1
    BY <1>1, <1>2, <1>3, <1>5, <2>1
  <2>2. CASE i # 1
    BY <1>1, <1>2, <1>3, <1>5, <2>2
  <2> QED BY <2>1, <2>2
<1>7. PICK high \in Int, width \in Nat : /\ high = sum[i] - 1 /\ width = share[i]
                                         /\ high + 1 = low + width /\ high + 1 <= Total
  BY <1>4, <1>6, SplitAssumption
<1>8. \A k \in 0 .. Total - 1 : GetIndex(f, 2 * k + 1) = i <=> k \in low .. high
  <2> TAKE k \in 0 .. Total - 1
  <2>1. GetIndex(f, 2 * k + 1) = i <=> k < sum[i] /\ (i = 1 \/ sum[i - 1] <= k)
    BY <1>1, <1>2, IndexSound
  <2>2. k \in Int /\ (k < sum[i] <=> k <= high)
    BY <1>6, <1>7, SplitAssumption
  <2>3. (i = 1 \/ sum[i - 1] <= k) <=> low <= k
    BY <1>5, <2>2
  <2> QED BY <1>7, <2>1, <2>2, <2>3
<1>9. PICK S, T : S = low .. high /\ T = {val \in Draws : GetIndex(f, val) = i}
  OBVIOUS
<1>10. \A k \in S : k \in 0 .. Total - 1
  BY <1>7, <1>9, SplitAssumption
<1>11. PICK g : g = [k \in S |-> 2 * k + 1]
  OBVIOUS
<1>12. \A k \in S : g[k] = 2 * k + 1 /\ g[k] \in T
  BY <1>8, <1>9, <1>10, <1>11 DEF Draws
<1>13. \A k, l \in S : g[k] = g[l] => k = l
  BY <1>9, <1>11
<1>14. \A val \in T : \E k \in S : g[k] = val
  <2> TAKE val \in T
  <2>1. PICK k \in 0 .. Total - 1 : val = 2 * k + 1
    BY <1>9 DEF Draws
  <2>2. k \in S
    BY <1>8, <1>9, <2>1
  <2> QED BY <1>12, <2>1, <2>2
<1>15. g \in Bijection(S, T)
  <2>1. g \in [S -> T]
    BY <1>11, <1>12
  <2> QED BY <1>13, <1>14, <2>1 DEF Bijection, Injection, Surjection, IsInjective
<1>16. IsFiniteSet(S) /\ Cardinality(S) = width
  <2>1. /\ IsFiniteSet(low .. high)
        /\ Cardinality(low .. high) = IF low > high THEN 0 ELSE high - low + 1
    BY FS_Interval
  <2>2. (IF low > high THEN 0 ELSE high - low + 1) = width
    BY <1>7
  <2> QED BY <1>9, <2>1, <2>2
<1>17. Cardinality(T) = Cardinality(S)
  BY <1>15, <1>16, FS_Bijection DEF ExistsBijection
<1> QED BY <1>1, <1>7, <1>9, <1>16, <1>17

-----------------------------------------------------------------------------
(* The lookup among the network routes *)

(* the routes that match, among the first n of the list *)
Matching(dest, oif, n) ==
    {k \in 1 .. n : /\ IsMatch(routes[k].mask, dest, routes[k].dest)
                    /\ oif \in {AnyDevice, routes[k].interface}}

(* route k is no better than route n: shorter, or of a greater metric, or older *)
Worse(k, n) ==
    \/ routes[k].mask < routes[n].mask
    \/ /\ routes[k].mask = routes[n].mask
       /\ \/ routes[k].metric > routes[n].metric
          \/ routes[k].metric = routes[n].metric /\ k <= n

(* what the loop has kept after n routes *)
BestOf(b, dest, oif, n) ==
    LET fit == Matching(dest, oif, n)
    IN  /\ fit = {} => b = [route |-> NoRoute, longest |-> 0, shortest |-> MaxMetric]
        /\ fit # {} => \E m \in fit : /\ \A k \in fit : Worse(k, m)
                                      /\ b = [route |-> routes[m], longest |-> routes[m].mask,
                                              shortest |-> routes[m].metric]

Found == [route : NetworkRoutes \cup {NoRoute}, longest : Masks, shortest : 0 .. MaxMetric]

(* The numbers the loop compares. *)
LEMMA RouteNumbers ==
  ASSUME routes \in Seq(NetworkRoutes), NEW n \in 1 .. Len(routes)
  PROVE  /\ routes[n] \in NetworkRoutes /\ routes[n].mask \in Masks /\ routes[n].mask \in Nat
         /\ routes[n].metric \in 0 .. MaxMetric
<1>1. routes[n] \in NetworkRoutes
  OBVIOUS
<1>2. routes[n].mask \in 0 .. Bits /\ routes[n].metric \in Metrics \cup {0}
  BY <1>1 DEF NetworkRoutes, Masks
<1>3. routes[n].mask \in Nat
  <2>1. Bits \in Nat
    BY AddressAssumption, Zenon
  <2> QED BY <1>2, <2>1
<1>4. routes[n].metric \in 0 .. MaxMetric
  <2>1. routes[n].metric \in Metrics \/ routes[n].metric = 0
    BY <1>2
  <2>2. MaxMetric \in Nat /\ 0 \in 0 .. MaxMetric
    BY MetricAssumption
  <2> QED BY <2>1, <2>2, MetricAssumption, Zenon
<1> QED BY <1>1, <1>2, <1>3, <1>4 DEF Masks

(* One more round keeps the best of one more route. *)
LEMMA BetterKeepsBest ==
  ASSUME routes \in Seq(NetworkRoutes), NEW dest, NEW oif, NEW n \in 1 .. Len(routes),
         NEW b, BestOf(b, dest, oif, n - 1)
  PROVE  BestOf(Better(b, routes[n], dest, oif), dest, oif, n)
<1> DEFINE hit == /\ IsMatch(routes[n].mask, dest, routes[n].dest)
                  /\ oif \in {AnyDevice, routes[n].interface}
<1>1. PICK F, G : F = Matching(dest, oif, n - 1) /\ G = Matching(dest, oif, n)
  OBVIOUS
<1>2. n \in Nat /\ F \subseteq 1 .. n - 1 /\ n \notin F
  BY <1>1 DEF Matching
<1>3. G = IF hit THEN F \cup {n} ELSE F
  BY <1>1, <1>2 DEF Matching
<1>4. \A k \in 1 .. n : routes[k].mask \in Nat /\ routes[k].metric \in 0 .. MaxMetric
  BY RouteNumbers
<1>5. PICK new : new = [route |-> routes[n], longest |-> routes[n].mask,
                        shortest |-> routes[n].metric]
  OBVIOUS
<1>6. CASE ~hit
  <2>1. Better(b, routes[n], dest, oif) = b
    BY <1>6 DEF Better
  <2> QED BY <1>1, <1>3, <1>6, <2>1 DEF BestOf
<1>7. CASE hit /\ F = {}
  <2>1. b = [route |-> NoRoute, longest |-> 0, shortest |-> MaxMetric]
    BY <1>1, <1>7 DEF BestOf
  <2>2. b.longest = 0 /\ b.shortest = MaxMetric
    BY <2>1
  <2>3. Better(b, routes[n], dest, oif) = new
    BY <1>2, <1>4, <1>5, <1>7, <2>2, MetricAssumption DEF Better
  <2>4. G = {n} /\ Worse(n, n)
    BY <1>2, <1>3, <1>4, <1>7 DEF Worse
  <2> QED BY <1>1, <1>5, <2>3, <2>4 DEF BestOf
<1>8. CASE hit /\ F # {}
  <2>1. PICK m \in F : /\ \A k \in F : Worse(k, m)
                       /\ b = [route |-> routes[m], longest |-> routes[m].mask,
                               shortest |-> routes[m].metric]
    BY <1>1, <1>8 DEF BestOf
  <2>2. b.longest = routes[m].mask /\ b.shortest = routes[m].metric
    BY <2>1
  <2>3. m \in 1 .. n /\ m < n /\ n \in 1 .. n /\ \A k \in F : k \in 1 .. n /\ k < n
    BY <1>2
  <2>4. CASE Worse(m, n)
    <3>1. Better(b, routes[n], dest, oif) = new
      BY <1>4, <1>5, <1>8, <2>2, <2>3, <2>4, MetricAssumption DEF Better, Worse
    <3>2. \A k \in G : Worse(k, n)
      BY <1>3, <1>4, <1>8, <2>1, <2>3, <2>4 DEF Worse
    <3>3. n \in G
      BY <1>3, <1>8
    <3> QED BY <1>1, <1>5, <3>1, <3>2, <3>3 DEF BestOf
  <2>5. CASE ~Worse(m, n)
    <3>1. Worse(n, m)
      BY <1>4, <2>3, <2>5 DEF Worse
    <3>2. Better(b, routes[n], dest, oif) = b
      <4>1. CASE routes[n].mask < routes[m].mask
        BY <1>8, <2>2, <4>1 DEF Better
      <4>2. CASE ~(routes[n].mask < routes[m].mask)
        <5>1. routes[n].mask = routes[m].mask /\ routes[n].metric > routes[m].metric
          BY <1>4, <2>3, <2>5, <4>2 DEF Worse
        <5>2. /\ ~(routes[n].mask > b.longest) /\ ~(routes[n].mask < b.longest)
              /\ routes[n].metric > b.shortest
          BY <1>4, <2>2, <2>3, <5>1
        <5>3. Better(b, routes[n], dest, oif)
                = [b EXCEPT !.longest = routes[n].mask, !.shortest = b.shortest]
          <6>1. (IF routes[n].mask > b.longest THEN MaxMetric ELSE b.shortest) = b.shortest
            BY <5>2, Zenon
          <6> QED BY <1>8, <5>2, <6>1, Zenon DEF Better
        <5>4. [b EXCEPT !.longest = routes[n].mask, !.shortest = b.shortest] = b
          <6>1. PICK r, l, s : r = routes[m] /\ l = routes[m].mask /\ s = routes[m].metric
            OBVIOUS
          <6>2. b = [route |-> r, longest |-> l, shortest |-> s]
            BY <2>1, <6>1
          <6>3. routes[n].mask = l /\ b.shortest = s
            BY <2>2, <5>1, <6>1
          <6>4. [b EXCEPT !.longest = l, !.shortest = s] = b
            <7>1. PICK c : c = [b EXCEPT !.longest = l, !.shortest = s]
              OBVIOUS
            <7>2. c.route = r /\ c.longest = l /\ c.shortest = s
              BY <6>2, <7>1
            <7>3. c = [route |-> c.route, longest |-> c.longest, shortest |-> c.shortest]
              BY <6>2, <7>1
            <7> QED BY <6>2, <7>1, <7>2, <7>3
          <6> QED BY <6>3, <6>4
        <5> QED BY <5>3, <5>4
      <4> QED BY <4>1, <4>2
    <3>3. \A k \in G : Worse(k, m)
      BY <1>3, <1>8, <2>1, <3>1
    <3>4. m \in G
      BY <1>3, <1>8
    <3> QED BY <1>1, <2>1, <3>2, <3>3, <3>4 DEF BestOf
  <2> QED BY <2>4, <2>5
<1> QED BY <1>6, <1>7, <1>8

(* One more round yields a route found, the longest match and the least metric. *)
LEMMA BetterFound ==
  ASSUME NEW r \in NetworkRoutes, NEW b \in Found, NEW dest, NEW oif
  PROVE  Better(b, r, dest, oif) \in Found
<1>1. MaxMetric \in Nat /\ MaxMetric \in 0 .. MaxMetric /\ 0 \in 0 .. MaxMetric
  BY MetricAssumption
<1>2. PICK R, M, S : R = NetworkRoutes \cup {NoRoute} /\ M = Masks /\ S = 0 .. MaxMetric
  OBVIOUS
<1>3. b \in [route : R, longest : M, shortest : S] /\ r \in R /\ MaxMetric \in S
  BY <1>1, <1>2 DEF Found
<1>4. r.mask \in M /\ r.metric \in S
  <2>1. r.mask \in Masks /\ r.metric \in Metrics \cup {0}
    BY DEF NetworkRoutes
  <2> QED BY <1>1, <1>2, <2>1, MetricAssumption, Zenon
<1>5. \A x \in R, l \in M, s \in S :
        [route |-> x, longest |-> l, shortest |-> s] \in [route : R, longest : M, shortest : S]
  OBVIOUS
<1>6. \A l \in M, s \in S :
        [b EXCEPT !.longest = l, !.shortest = s] \in [route : R, longest : M, shortest : S]
  BY <1>3
<1>7. (IF r.mask > b.longest THEN MaxMetric ELSE b.shortest) \in S
  BY <1>3
<1>8. PICK c : c = Better(b, r, dest, oif)
  OBVIOUS
<1>9. \/ c = b
      \/ \E s \in S : c = [b EXCEPT !.longest = r.mask, !.shortest = s]
      \/ c = [route |-> r, longest |-> r.mask, shortest |-> r.metric]
  BY <1>7, <1>8, Zenon DEF Better
<1>10. c \in [route : R, longest : M, shortest : S]
  BY <1>3, <1>4, <1>5, <1>6, <1>9, Zenon
<1> QED BY <1>2, <1>8, <1>10 DEF Found

(* The whole pass finds the best of the routes. *)
LEMMA LookupFinds ==
  ASSUME routes \in Seq(NetworkRoutes), NEW dest, NEW oif
  PROVE  \E b : BestOf(b, dest, oif, Len(routes)) /\ LookupNetwork(dest, oif) = b.route
<1> DEFINE first == [route |-> NoRoute, longest |-> 0, shortest |-> MaxMetric]
           Round(f, n) == IF n = 0 THEN first ELSE Better(f[n - 1], routes[n], dest, oif)
           Loop(f) == f = [n \in 0 .. Len(routes) |-> Round(f, n)]
<1>1. PICK N \in Nat : N = Len(routes) /\ \A n \in 1 .. N : routes[n] \in NetworkRoutes
  OBVIOUS
<1>2. PICK D : D = Found
  OBVIOUS
<1>3. PICK step : step = [n \in 1 .. N |-> [b \in D |-> Better(b, routes[n], dest, oif)]]
  OBVIOUS
<1>4. PICK c : c = first
  OBVIOUS
<1>5. c \in D
  <2>1. 0 \in Masks /\ MaxMetric \in 0 .. MaxMetric
    <3>1. Bits \in Nat /\ MaxMetric \in Nat
      BY AddressAssumption, MetricAssumption, Zenon
    <3> QED BY <3>1 DEF Masks
  <2> QED BY <1>2, <1>4, <2>1 DEF Found
<1>6. step \in Steps(N, D)
  <2>1. \A n \in 1 .. N, b \in D : Better(b, routes[n], dest, oif) \in D
    BY <1>1, <1>2, BetterFound
  <2> QED BY <1>3, <2>1 DEF Steps
<1>7. PICK f \in [0 .. N -> D] : f[0] = c /\ \A n \in 1 .. N : f[n] = step[n][f[n - 1]]
  <2>1. \E f \in [0 .. N -> D] : IsLoop(f, c, N, step)
    BY <1>5, <1>6, Recursion
  <2> QED BY <2>1 DEF IsLoop
<1>8. \A n \in 1 .. N : f[n] = Better(f[n - 1], routes[n], dest, oif)
  <2> TAKE n \in 1 .. N
  <2>1. f[n - 1] \in D
    OBVIOUS
  <2>2. step[n][f[n - 1]] = Better(f[n - 1], routes[n], dest, oif)
    BY <1>3, <2>1
  <2> QED BY <1>7, <2>2
<1>9. Loop(f)
  <2>1. f = [n \in 0 .. N |-> f[n]]
    OBVIOUS
  <2>2. \A n \in 0 .. N : f[n] = Round(f, n)
    <3> TAKE n \in 0 .. N
    <3>1. CASE n = 0
      BY <1>4, <1>7, <3>1
    <3>2. CASE n # 0
      <4>1. n \in 1 .. N
        BY <3>2
      <4> QED BY <1>8, <3>2, <4>1
    <3> QED BY <3>1, <3>2
  <2> HIDE DEF Round
  <2> QED BY <1>1, <2>1, <2>2
<1> HIDE DEF Loop
<1>10. PICK best : best = CHOOSE h : Loop(h)
  OBVIOUS
<1>11. Loop(best)
  BY <1>9, <1>10
<1>12. \A n \in 0 .. N : best[n] = Round(best, n)
  BY <1>1, <1>11 DEF Loop
<1>13. LookupNetwork(dest, oif) = best[N].route
  BY <1>1, <1>10 DEF LookupNetwork, Loop
<1>14. PICK P : P = {n \in 0 .. N : BestOf(best[n], dest, oif, n)}
  OBVIOUS
<1>15. 0 \in P
  <2>1. best[0] = first
    BY <1>12
  <2>2. Matching(dest, oif, 0) = {}
    BY DEF Matching
  <2>3. BestOf(best[0], dest, oif, 0)
    BY <2>1, <2>2 DEF BestOf
  <2> QED BY <1>14, <2>3
<1>16. ASSUME NEW n \in 1 .. N, n - 1 \in P PROVE n \in P
  <2>1. best[n] = Better(best[n - 1], routes[n], dest, oif)
    BY <1>12
  <2>2. BestOf(best[n - 1], dest, oif, n - 1)
    BY <1>14, <1>16
  <2>3. BestOf(best[n], dest, oif, n)
    BY <1>1, <2>1, <2>2, BetterKeepsBest
  <2> QED BY <1>14, <2>3
<1>17. \A n \in 0 .. N : n \in P
  <2>1. \A n \in 1 .. N : n - 1 \in P => n \in P
    BY <1>16
  <2> QED BY <1>15, <2>1, Induction
<1>18. BestOf(best[N], dest, oif, N)
  BY <1>14, <1>17
<1> QED BY <1>1, <1>13, <1>18

(* The lists hold what they should: then the lookup is what it is meant to be. *)
LEMMA BestLookup ==
  IInv => LookupBest
<1> SUFFICES ASSUME IInv, NEW dest \in Addresses, NEW oif \in Interfaces \cup {AnyDevice}
             PROVE  /\ Matching(dest, oif, Len(routes)) = {} => LookupNetwork(dest, oif) = NoRoute
                    /\ Matching(dest, oif, Len(routes)) # {} =>
                         \E n \in Matching(dest, oif, Len(routes)) :
                            /\ \A k \in Matching(dest, oif, Len(routes)) : Worse(k, n)
                            /\ LookupNetwork(dest, oif) = routes[n]
  <2>1. routes \in Seq(NetworkRoutes) => DOMAIN routes = 1 .. Len(routes)
    OBVIOUS
  <2> QED BY <2>1 DEF LookupBest, IInv, Matching, Worse
<1>1. routes \in Seq(NetworkRoutes)
  BY DEF IInv
<1>2. PICK b : BestOf(b, dest, oif, Len(routes)) /\ LookupNetwork(dest, oif) = b.route
  BY <1>1, LookupFinds
<1> QED BY <1>2 DEF BestOf

(* The lists hold what they should: then every hop gets its share. *)
LEMMA EvenShares ==
  IInv => SharesExact
<1> SUFFICES ASSUME IInv PROVE SharesExact
  OBVIOUS
<1>1. \A n \in DOMAIN fractional : fractional[n] \in FractionalRoutes
  <2>1. fractional \in Seq(FractionalRoutes)
    BY DEF IInv
  <2> QED BY <2>1
<1>2. TypeOK
  <2>1. ASSUME NEW n \in DOMAIN fractional, NEW val \in Draws
        PROVE  GetIndex(fractional[n], val) \in DOMAIN fractional[n].interfaces
    <3>1. PICK k \in 0 .. Total - 1 : val = 2 * k + 1
      BY DEF Draws
    <3>2. PICK f \in FractionalRoutes : f = fractional[n]
      BY <1>1
    <3>3. GetIndex(f, 2 * k + 1) \in 1 .. Len(f.share)
      BY IndexSound
    <3>4. DOMAIN f.interfaces = 1 .. Len(f.share)
      BY FractionalParts
    <3> QED BY <3>1, <3>2, <3>3, <3>4
  <2> QED BY <2>1 DEF TypeOK, IInv
<1>3. ASSUME NEW n \in DOMAIN fractional, NEW i \in DOMAIN fractional[n].share
      PROVE  Cardinality({val \in Draws : GetIndex(fractional[n], val) = i})
               = fractional[n].share[i]
  <2>1. PICK f \in FractionalRoutes : f = fractional[n]
    BY <1>1
  <2>2. i \in 1 .. Len(f.share)
    <3>1. f.share \in Seq(Nat)
      BY FractionalParts
    <3> QED BY <2>1, <3>1
  <2> QED BY <2>1, <2>2, ShareDrawn
<1> QED BY <1>2, <1>3 DEF SharesExact

(* The routes a lookup may return: that of the network routes, or one over a hop that is up. *)
LEMMA StaticFinds ==
  ASSUME fractional \in Seq(FractionalRoutes), NEW dest, NEW oif
  PROVE  LookupStatic(dest, oif)
           \subseteq {LookupNetwork(dest, oif)} \cup {Route(dest, Ones, i, 0) : i \in up}
<1> DEFINE Hop(n, val) == fractional[n].interfaces[GetIndex(fractional[n], val)]
           Pass(A, n) ==
             IF fractional[n].dest # dest THEN A
             ELSE UNION {IF Hop(n, val) \in up THEN {Route(dest, Ones, Hop(n, val), 0)} ELSE A :
                         val \in Draws}
           Round(f, n) == IF n > Len(fractional) THEN {LookupNetwork(dest, oif)}
                          ELSE Pass(f[n + 1], n)
           Loop(f) == f = [n \in 1 .. Len(fractional) + 1 |-> Round(f, n)]
<1>1. PICK N \in Nat : N = Len(fractional)
  OBVIOUS
<1>2. PICK X : X = {LookupNetwork(dest, oif)} \cup {Route(dest, Ones, i, 0) : i \in up}
  OBVIOUS
<1>3. PICK c : c = {LookupNetwork(dest, oif)}
  OBVIOUS
<1>4. PICK D : D = SUBSET X
  OBVIOUS
<1>5. \A n, A : A \in D => Pass(A, n) \in D
  <2> SUFFICES ASSUME NEW n, NEW A, A \in D PROVE Pass(A, n) \in D
    OBVIOUS
  <2>1. ASSUME NEW val \in Draws
        PROVE (IF Hop(n, val) \in up THEN {Route(dest, Ones, Hop(n, val), 0)} ELSE A) \subseteq X
    BY <1>2, <1>4
  <2> HIDE DEF Hop
  <2>2. CASE fractional[n].dest # dest
    BY <2>2
  <2>3. CASE fractional[n].dest = dest
    BY <1>4, <2>1, <2>3
  <2> QED BY <2>2, <2>3
<1> HIDE DEF Pass
<1>6. PICK step : step = [k \in 1 .. N |-> [A \in D |-> Pass(A, N + 1 - k)]]
  OBVIOUS
<1>7. c \in D /\ step \in Steps(N, D)
  BY <1>2, <1>3, <1>4, <1>5, <1>6 DEF Steps
<1>8. PICK g \in [0 .. N -> D] : g[0] = c /\ \A k \in 1 .. N : g[k] = step[k][g[k - 1]]
  <2>1. \E g \in [0 .. N -> D] : IsLoop(g, c, N, step)
    BY <1>7, Recursion
  <2> QED BY <2>1 DEF IsLoop
<1>9. \A k \in 1 .. N : g[k] = Pass(g[k - 1], N + 1 - k)
  <2> TAKE k \in 1 .. N
  <2>1. g[k - 1] \in D
    OBVIOUS
  <2> QED BY <1>6, <1>8, <2>1
<1>10. PICK f : f = [n \in 1 .. N + 1 |-> g[N + 1 - n]]
  OBVIOUS
<1>11. Loop(f)
  <2>1. \A n \in 1 .. N + 1 : g[N + 1 - n] = Round(f, n)
    <3> TAKE n \in 1 .. N + 1
    <3>1. CASE n = N + 1
      BY <1>1, <1>3, <1>8, <3>1
    <3>2. CASE n # N + 1
      <4>1. PICK k \in 1 .. N : k = N + 1 - n /\ n = N + 1 - k /\ k - 1 = N + 1 - (n + 1)
        BY <3>2
      <4>2. n + 1 \in 1 .. N + 1 /\ ~(n > N)
        BY <3>2
      <4>3. f[n + 1] = g[k - 1]
        BY <1>10, <4>1, <4>2
      <4>4. g[k] = Pass(f[n + 1], n)
        BY <1>9, <4>1, <4>3
      <4> QED BY <1>1, <4>1, <4>2, <4>4
    <3> QED BY <3>1, <3>2
  <2> HIDE DEF Round
  <2> QED BY <1>1, <1>10, <2>1
<1> HIDE DEF Loop
<1>12. PICK from : from = CHOOSE h : Loop(h)
  OBVIOUS
<1>13. Loop(from)
  BY <1>11, <1>12
<1>14. LookupStatic(dest, oif) = from[1]
  BY <1>12, Zenon DEF LookupStatic, Loop, Round, Pass, Hop
<1>15. \A n \in 1 .. N + 1 : from[n] = Round(from, n)
  BY <1>1, <1>13 DEF Loop
<1>16. PICK P : P = {k \in 0 .. N : from[N + 1 - k] \in D}
  OBVIOUS
<1>17. 0 \in P
  <2>1. N + 1 - 0 = N + 1 /\ N + 1 \in 1 .. N + 1 /\ N + 1 > N
    OBVIOUS
  <2>2. from[N + 1] = c
    BY <1>1, <1>3, <1>15, <2>1
  <2> QED BY <1>7, <1>16, <2>1, <2>2
<1>18. ASSUME NEW k \in 1 .. N, k - 1 \in P PROVE k \in P
  <2>1. PICK n \in 1 .. N : n = N + 1 - k /\ n + 1 = N + 1 - (k - 1) /\ ~(n > N)
    OBVIOUS
  <2>2. from[n + 1] \in D
    BY <1>16, <1>18, <2>1
  <2>3. from[n] = Pass(from[n + 1], n)
    BY <1>1, <1>15, <2>1
  <2>4. from[n] \in D
    BY <1>5, <2>2, <2>3
  <2> QED BY <1>16, <2>1, <2>4
<1>19. \A k \in 0 .. N : k \in P
  <2>1. \A k \in 1 .. N : k - 1 \in P => k \in P
    BY <1>18
  <2> QED BY <1>17, <2>1, Induction
<1>20. N \in P /\ N + 1 - N = 1
  BY <1>19
<1>21. from[1] \in D
  BY <1>16, <1>20
<1> QED BY <1>2, <1>4, <1>14, <1>21

(* The lists hold what they should: then no lookup returns a route that lost its interface. *)
LEMMA UsableLookup ==
  IInv => LookupUsable
<1> SUFFICES ASSUME IInv, NEW dest \in Addresses, NEW oif \in Interfaces \cup {AnyDevice},
                    NEW r \in LookupStatic(dest, oif)
             PROVE  r = NoRoute \/ r.interface \in up \/ ~r.live
  BY DEF LookupUsable
<1>1. r = LookupNetwork(dest, oif) \/ \E i \in up : r = Route(dest, Ones, i, 0)
  BY StaticFinds DEF IInv
<1>2. CASE r = LookupNetwork(dest, oif)
  <2>1. r = NoRoute \/ \E n \in DOMAIN routes : r = routes[n]
    BY <1>2, BestLookup DEF LookupBest
  <2> QED BY <2>1 DEF IInv
<1>3. CASE \E i \in up : r = Route(dest, Ones, i, 0)
  BY <1>3 DEF Route
<1> QED BY <1>1, <1>2, <1>3

-----------------------------------------------------------------------------
(* The lists and the interfaces *)

(* a list whose elements are all of s *)
Among(t, s) == \A k \in DOMAIN t : \E n \in DOMAIN s : t[k] = s[n]

(* Erasing one element leaves a list of the others. *)
LEMMA RemoveAtSound ==
  ASSUME NEW S, NEW s \in Seq(S), NEW n \in DOMAIN s
  PROVE  RemoveAt(s, n) \in Seq(S) /\ Among(RemoveAt(s, n), s)
<1>1. PICK a, b : a = SubSeq(s, 1, n - 1) /\ b = SubSeq(s, n + 1, Len(s))
  OBVIOUS
<1>2. n \in 1 .. Len(s) /\ Len(s) \in Nat /\ \A k \in 1 .. Len(s) : s[k] \in S
  OBVIOUS
<1>3. /\ a \in Seq(S) /\ Len(a) = n - 1
      /\ \A k \in 1 .. n - 1 : a[k] = s[k]
  BY <1>1, <1>2
<1>4. /\ b \in Seq(S) /\ Len(b) = Len(s) - n
      /\ \A k \in 1 .. Len(s) - n : b[k] = s[n + k]
  BY <1>1, <1>2
<1>5. RemoveAt(s, n) = a \o b
  BY <1>1 DEF RemoveAt
<1>6. PICK t : t = a \o b
  OBVIOUS
<1>7. /\ t \in Seq(S) /\ DOMAIN t = 1 .. Len(a) + Len(b)
      /\ \A k \in 1 .. Len(a) + Len(b) :
            t[k] = IF k <= Len(a) THEN a[k] ELSE b[k - Len(a)]
  BY <1>3, <1>4, <1>6
<1>8. DOMAIN s = 1 .. Len(s) /\ Len(a) + Len(b) = Len(s) - 1
  BY <1>2, <1>3, <1>4
<1>9. ASSUME NEW k \in DOMAIN t PROVE \E m \in DOMAIN s : t[k] = s[m]
  <2>1. k \in 1 .. Len(s) - 1
    BY <1>7, <1>8
  <2>2. CASE k <= n - 1
    <3>1. k \in 1 .. n - 1 /\ k \in DOMAIN s /\ k <= Len(a)
      BY <1>2, <1>3, <1>8, <2>1, <2>2
    <3>2. t[k] = s[k]
      BY <1>3, <1>7, <1>8, <2>1, <3>1
    <3> QED BY <3>1, <3>2
  <2>3. CASE ~(k <= n - 1)
    <3>1. PICK j \in Int : j = k - (n - 1) /\ n + j = k + 1
      BY <1>2, <2>1
    <3>2. j \in 1 .. Len(s) - n /\ n + j \in 1 .. Len(s)
      BY <1>2, <2>1, <2>3, <3>1
    <3>3. t[k] = b[j]
      BY <1>3, <1>7, <1>8, <2>1, <2>3, <3>1
    <3>4. t[k] = s[n + j]
      BY <1>4, <3>2, <3>3
    <3> QED BY <1>8, <3>2, <3>4
  <2> QED BY <2>2, <2>3
<1> QED BY <1>5, <1>6, <1>7, <1>9 DEF Among

(* Masking an address gives an address. *)
LEMMA CombineMaskType ==
  ASSUME NEW a \in Addresses, NEW m \in Masks
  PROVE  CombineMask(a, m) \in Addresses
<1>1. PICK A \in Nat : A = 2 ^ Bits
  <2>1. Bits \in 0 .. Bits
    <3>1. Bits \in Nat
      BY AddressAssumption, Zenon
    <3> QED BY <3>1
  <2> QED BY <2>1, PowersAssumption
<1>2. PICK k \in Nat \ {0} : k = 2 ^ (Bits - m)
  <2>1. Bits - m \in 0 .. Bits
    <3>1. Bits \in Nat
      BY AddressAssumption, Zenon
    <3> QED BY <3>1 DEF Masks
  <2> QED BY <2>1, PowersAssumption
<1>3. a \in 0 .. A - 1
  BY <1>1 DEF Addresses
<1>4. a % k \in 0 .. k - 1 /\ a % k <= a
  BY <1>2, <1>3
<1>5. a - (a % k) \in 0 .. A - 1
  BY <1>3, <1>4
<1> QED BY <1>1, <1>2, <1>5 DEF CombineMask, Addresses

(* The network of an address is a route that is live. *)
LEMMA NetworkOfType ==
  ASSUME NEW i \in Interfaces, NEW a \in Locals
  PROVE  NetworkOf(i, a) \in NetworkRoutes /\ NetworkOf(i, a).interface = i
<1>1. a \in [local : Addresses, mask : Masks]
  BY AddressAssumption, Zenon DEF Addresses, Masks
<1>2. a.local \in Addresses /\ a.mask \in Masks
  BY <1>1
<1>3. CombineMask(a.local, a.mask) \in Addresses
  BY <1>2, CombineMaskType
<1> QED BY <1>2, <1>3 DEF NetworkOf, NetworkRoutes

(* the clauses about the routes *)
RoutesSound(rs, is) ==
    /\ rs \in Seq(NetworkRoutes)
    /\ \A n \in DOMAIN rs : rs[n].live => rs[n].interface \in is

(* Adding a route over an interface that is up, or that is not live, keeps them sound. *)
LEMMA AppendSound ==
  ASSUME NEW rs, NEW is, RoutesSound(rs, is), NEW r \in NetworkRoutes,
         r.live => r.interface \in is
  PROVE  RoutesSound(Append(rs, r), is)
<1>1. rs \in Seq(NetworkRoutes)
  BY DEF RoutesSound
<1>2. /\ Append(rs, r) \in Seq(NetworkRoutes)
      /\ Len(Append(rs, r)) = Len(rs) + 1
      /\ DOMAIN rs = 1 .. Len(rs) /\ Len(rs) \in Nat
      /\ DOMAIN Append(rs, r) = 1 .. Len(rs) + 1
      /\ Append(rs, r)[Len(rs) + 1] = r
      /\ \A n \in 1 .. Len(rs) : Append(rs, r)[n] = rs[n]
  BY <1>1
<1>3. ASSUME NEW n \in 1 .. Len(rs) + 1, Append(rs, r)[n].live
      PROVE  Append(rs, r)[n].interface \in is
  <2>1. CASE n = Len(rs) + 1
    BY <1>2, <1>3, <2>1
  <2>2. CASE n \in 1 .. Len(rs)
    BY <1>2, <1>3, <2>2 DEF RoutesSound
  <2> QED BY <1>2, <2>1, <2>2
<1> QED BY <1>2, <1>3 DEF RoutesSound

(* Erasing routes keeps them sound. *)
LEMMA AmongSound ==
  ASSUME NEW rs, NEW is, RoutesSound(rs, is), NEW t \in Seq(NetworkRoutes), Among(t, rs)
  PROVE  RoutesSound(t, is)
BY DEF RoutesSound, Among

-----------------------------------------------------------------------------
(* The inductive invariant *)

(* The lists are empty at first, as they should be. *)
LEMMA InitInv ==
  Init => IInv
<1> SUFFICES ASSUME Init PROVE IInv
  OBVIOUS
<1>1. \A S : << >> \in Seq(S)
  OBVIOUS
<1>2. DOMAIN << >> = {}
  OBVIOUS
<1> QED BY <1>1, <1>2 DEF Init, IInv

(* Every action leaves the lists as they should be: an interface that goes down takes   *)
(* its routes with it, and what erasing leaves was there before.                       *)
LEMMA NextInv ==
  IInv /\ [Next]_vars => IInv'
<1> SUFFICES ASSUME IInv, [Next]_vars PROVE IInv'
  OBVIOUS
<1>1. /\ up \subseteq Interfaces /\ addresses \in [Interfaces -> Seq(Locals)]
      /\ fractional \in Seq(FractionalRoutes) /\ RoutesSound(routes, up)
      /\ routes \in Seq(NetworkRoutes)
  BY DEF IInv, RoutesSound
<1>2. SUFFICES /\ (up \subseteq Interfaces)' /\ (addresses \in [Interfaces -> Seq(Locals)])'
               /\ (fractional \in Seq(FractionalRoutes))' /\ RoutesSound(routes', up')
  BY DEF IInv, RoutesSound, FractionalRoutes
<1>3. ASSUME NEW i \in Interfaces PROVE addresses[i] \in Seq(Locals)
  BY <1>1
<1>4. CASE AddRoute
  <2>1. PICK net \in Networks, i \in Interfaces, metric \in Metrics :
          AddNetworkRouteTo(net.dest, net.mask, i, metric)
    BY <1>4 DEF AddRoute
  <2>2. Route(net.dest, net.mask, i, metric) \in NetworkRoutes
    <3>1. net \in [dest : Addresses, mask : Masks]
      BY AddressAssumption, Zenon DEF Addresses, Masks
    <3>2. net.dest \in Addresses /\ net.mask \in Masks
      BY <3>1
    <3> QED BY <3>2 DEF Route, NetworkRoutes
  <2>3. Route(net.dest, net.mask, i, metric).live
          => Route(net.dest, net.mask, i, metric).interface \in up
    BY DEF Route
  <2>4. RoutesSound(Append(routes, Route(net.dest, net.mask, i, metric)), up)
    BY <1>1, <2>2, <2>3, AppendSound
  <2> QED BY <1>1, <2>1, <2>4 DEF AddNetworkRouteTo
<1>5. CASE AddFractional
  <2>1. PICK d \in Hosts, share \in Splits :
          \E hops \in [DOMAIN share -> Interfaces] : AddFractionalHostRouteTo(d, share, hops)
    BY <1>5 DEF AddFractional
  <2>2. PICK hops \in [DOMAIN share -> Interfaces] : AddFractionalHostRouteTo(d, share, hops)
    BY <2>1
  <2>3. PICK f : f = [dest |-> d, share |-> share, interfaces |-> hops,
                      sum |-> RunningSums(share)]
    OBVIOUS
  <2>4. f \in FractionalRoutes
    BY <2>2, <2>3 DEF AddFractionalHostRouteTo, FractionalRoutes
  <2>5. fractional' = Append(fractional, f)
    BY <2>2, <2>3 DEF AddFractionalHostRouteTo, Assigned
  <2>6. Append(fractional, f) \in Seq(FractionalRoutes)
    BY <1>1, <2>4
  <2>7. FractionalRoutes' = FractionalRoutes
    BY DEF FractionalRoutes
  <2> QED BY <1>1, <2>2, <2>5, <2>6, <2>7 DEF AddFractionalHostRouteTo
<1>6. CASE \E n \in DOMAIN routes : RemoveRoute(n)
  <2>1. PICK n \in DOMAIN routes : RemoveRoute(n)
    BY <1>6
  <2>2. RemoveAt(routes, n) \in Seq(NetworkRoutes) /\ Among(RemoveAt(routes, n), routes)
    BY <1>1, RemoveAtSound
  <2>3. RoutesSound(RemoveAt(routes, n), up)
    BY <1>1, <2>2, AmongSound
  <2> QED BY <1>1, <2>1, <2>3 DEF RemoveRoute
<1>7. CASE \E d \in Hosts : RemoveFractionalHostRouteTo(d)
  <2>1. PICK d \in Hosts : RemoveFractionalHostRouteTo(d)
    BY <1>7
  <2> DEFINE First(n) == /\ fractional[n].dest = d
                         /\ \A k \in 1 .. n - 1 : fractional[k].dest # d
  <2>2. \E n \in DOMAIN fractional : First(n)
    <3>1. PICK T : T = {n \in DOMAIN fractional : fractional[n].dest = d}
      OBVIOUS
    <3>2. T # {}
      BY <2>1, <3>1 DEF RemoveFractionalHostRouteTo
    <3>3. DOMAIN fractional = 1 .. Len(fractional) /\ Len(fractional) \in Nat
      BY <1>1
    <3>4. T \subseteq Nat
      BY <3>1, <3>3
    <3>5. PICK n \in T : \A m \in T : n <= m
      BY <3>2, <3>4, LeastElement
    <3>6. ASSUME NEW k \in 1 .. n - 1 PROVE fractional[k].dest # d
      <4>1. k \in DOMAIN fractional /\ ~(n <= k)
        BY <3>1, <3>3, <3>4
      <4> QED BY <3>1, <3>5, <4>1
    <3> QED BY <3>1, <3>6
  <2>3. PICK n \in DOMAIN fractional : n = CHOOSE m \in DOMAIN fractional : First(m)
    BY <2>2
  <2>4. fractional' = RemoveAt(fractional, n)
    BY <2>1, <2>3 DEF RemoveFractionalHostRouteTo
  <2>5. RemoveAt(fractional, n) \in Seq(FractionalRoutes)
    BY <1>1, RemoveAtSound
  <2>6. FractionalRoutes' = FractionalRoutes
    BY DEF FractionalRoutes
  <2> QED BY <1>1, <2>1, <2>4, <2>5, <2>6 DEF RemoveFractionalHostRouteTo
<1>8. CASE \E i \in Interfaces : SetUp(i)
  <2>1. PICK i \in Interfaces : SetUp(i)
    BY <1>8
  <2>2. PICK s \in Seq(Locals) : s = addresses[i]
    BY <1>3
  <2>3. PICK wanted \in Seq(Locals) :
          wanted = Kept(s, {n \in DOMAIN s : s[n].mask # Ones})
    BY KeptSound
  <2>4. PICK more : more = InterfaceRoutes(i)
    OBVIOUS
  <2>5. more = [n \in 1 .. Len(wanted) |-> NetworkOf(i, wanted[n])]
    <3>1. DOMAIN wanted = 1 .. Len(wanted)
      OBVIOUS
    <3> QED BY <2>2, <2>3, <2>4, <3>1 DEF InterfaceRoutes
  <2>6. \A n \in 1 .. Len(wanted) :
          NetworkOf(i, wanted[n]) \in NetworkRoutes /\ NetworkOf(i, wanted[n]).interface = i
    <3>1. \A n \in 1 .. Len(wanted) : wanted[n] \in Locals
      OBVIOUS
    <3> QED BY <3>1, NetworkOfType
  <2>7. /\ more \in Seq(NetworkRoutes) /\ Len(more) = Len(wanted)
        /\ \A n \in 1 .. Len(more) : more[n].interface = i
    <3>1. Len(wanted) \in Nat
      OBVIOUS
    <3>2. more \in [1 .. Len(wanted) -> NetworkRoutes]
      BY <2>5, <2>6
    <3>3. more \in Seq(NetworkRoutes) /\ Len(more) = Len(wanted)
      BY <3>1, <3>2
    <3>4. \A n \in 1 .. Len(more) : more[n] = NetworkOf(i, wanted[n])
      BY <2>5, <3>3
    <3> QED BY <2>6, <3>3, <3>4
  <2>8. PICK rs : rs = routes \o more
    OBVIOUS
  <2>9. /\ rs \in Seq(NetworkRoutes) /\ DOMAIN rs = 1 .. Len(routes) + Len(more)
        /\ \A n \in 1 .. Len(routes) : rs[n] = routes[n]
        /\ \A n \in 1 .. Len(more) : rs[Len(routes) + n] = more[n]
    <3>1. PICK p, q \in Nat : p = Len(routes) /\ q = Len(more)
      BY <1>1, <2>7
    <3>2. /\ rs \in Seq(NetworkRoutes) /\ DOMAIN rs = 1 .. p + q
          /\ \A n \in 1 .. p + q : rs[n] = IF n <= p THEN routes[n] ELSE more[n - p]
      <4>1. /\ routes \o more \in Seq(NetworkRoutes)
            /\ Len(routes \o more) = Len(routes) + Len(more)
            /\ \A n \in 1 .. Len(routes) + Len(more) :
                  (routes \o more)[n] = IF n <= Len(routes) THEN routes[n]
                                        ELSE more[n - Len(routes)]
        <5>1. routes \in Seq(NetworkRoutes) /\ more \in Seq(NetworkRoutes)
          BY <1>1, <2>7
        <5> HIDE <1>1, <2>7
        <5> QED BY <5>1, ConcatProperties
      <4>2. /\ rs \in Seq(NetworkRoutes) /\ Len(rs) = p + q
            /\ \A n \in 1 .. p + q : rs[n] = IF n <= p THEN routes[n] ELSE more[n - p]
        BY <2>8, <3>1, <4>1, Zenon
      <4>3. DOMAIN rs = 1 .. Len(rs)
        BY <4>2, LenProperties, Zenon
      <4> QED BY <4>2, <4>3, Zenon
    <3>3. \A n \in 1 .. p : rs[n] = routes[n]
      BY <3>2
    <3>4. \A n \in 1 .. q : rs[p + n] = more[n]
      <4> TAKE n \in 1 .. q
      <4>1. p + n \in 1 .. p + q /\ ~(p + n <= p) /\ (p + n) - p = n
        OBVIOUS
      <4> QED BY <3>2, <4>1
    <3> QED BY <3>1, <3>2, <3>3, <3>4
  <2>10. \A n \in DOMAIN rs : rs[n].live => rs[n].interface \in up \cup {i}
    <3> TAKE n \in DOMAIN rs
    <3>1. Len(routes) \in Nat /\ Len(more) \in Nat /\ DOMAIN routes = 1 .. Len(routes)
      BY <1>1, <2>7
    <3>2. CASE n <= Len(routes)
      <4>1. n \in 1 .. Len(routes)
        BY <2>9, <3>1, <3>2
      <4> QED BY <1>1, <2>9, <3>1, <4>1 DEF RoutesSound
    <3>3. CASE ~(n <= Len(routes))
      <4>1. PICK k \in 1 .. Len(more) : n = Len(routes) + k
        <5>1. n - Len(routes) \in 1 .. Len(more) /\ n = Len(routes) + (n - Len(routes))
          BY <2>9, <3>1, <3>3
        <5> QED BY <5>1
      <4> QED BY <2>7, <2>9, <4>1
    <3> QED BY <3>2, <3>3
  <2>11. RoutesSound(rs, up \cup {i})
    BY <2>9, <2>10 DEF RoutesSound
  <2> QED BY <1>1, <2>1, <2>4, <2>8, <2>11 DEF SetUp, FractionalRoutes
<1>9. CASE \E i \in Interfaces : SetDown(i)
  <2>1. PICK i \in Interfaces : SetDown(i)
    BY <1>9
  <2>2. PICK I : I = {n \in DOMAIN routes : routes[n].interface # i}
    OBVIOUS
  <2>3. PICK rs : rs = Kept(routes, I)
    OBVIOUS
  <2>4. /\ rs \in Seq(NetworkRoutes)
        /\ \A k \in DOMAIN rs : \E n \in DOMAIN routes : n \in I /\ rs[k] = routes[n]
    BY <1>1, <2>3, KeptSound
  <2>5. ASSUME NEW k \in DOMAIN rs, rs[k].live PROVE rs[k].interface \in up \ {i}
    <3>1. PICK n \in DOMAIN routes : routes[n].interface # i /\ rs[k] = routes[n]
      BY <2>2, <2>4
    <3> QED BY <1>1, <2>5, <3>1 DEF RoutesSound
  <2>6. RoutesSound(rs, up \ {i})
    BY <2>4, <2>5 DEF RoutesSound
  <2>7. routes' = rs
    BY <2>1, <2>2, <2>3 DEF SetDown, RoutesElsewhere
  <2> QED BY <1>1, <2>1, <2>6, <2>7 DEF SetDown, FractionalRoutes
<1>10. CASE \E i \in Interfaces, a \in Locals : AddAddress(i, a)
  <2>1. PICK i \in Interfaces, a \in Locals : AddAddress(i, a)
    BY <1>10
  <2>2. Append(addresses[i], a) \in Seq(Locals)
    BY <1>3
  <2>3. addresses' \in [Interfaces -> Seq(Locals)]
    BY <1>1, <2>1, <2>2 DEF AddAddress
  <2>4. RoutesSound(routes', up)
    <3>1. CASE i \in up
      <4>1. NetworkOf(i, a) \in NetworkRoutes /\ NetworkOf(i, a).interface \in up
        BY <3>1, NetworkOfType
      <4>2. RoutesSound(Append(routes, NetworkOf(i, a)), up)
        BY <1>1, <4>1, AppendSound
      <4> QED BY <2>1, <3>1, <4>2 DEF AddAddress
    <3>2. CASE i \notin up
      BY <1>1, <2>1, <3>2 DEF AddAddress
    <3> QED BY <3>1, <3>2
  <2> QED BY <1>1, <2>1, <2>3, <2>4 DEF AddAddress, FractionalRoutes
<1>11. CASE \E i \in Interfaces, n \in 1 .. MaxAddresses : RemoveAddress(i, n)
  <2>1. PICK i \in Interfaces, n \in 1 .. MaxAddresses : RemoveAddress(i, n)
    BY <1>11
  <2>2. addresses' \in [Interfaces -> Seq(Locals)]
    <3>1. PICK s \in Seq(Locals) : s = addresses[i]
      BY <1>3
    <3>2. s # << >>
      BY <2>1, <3>1 DEF RemoveAddress
    <3>3. Tail(s) \in Seq(Locals)
      BY <3>2
    <3> QED BY <1>1, <2>1, <3>1, <3>3 DEF RemoveAddress
  <2>3. PICK a : a = Head(addresses[i])
    OBVIOUS
  <2>4. PICK I : WithoutNetwork(i, a) = Kept(routes, I)
    BY DEF WithoutNetwork
  <2>5. PICK rs : rs = Kept(routes, I)
    OBVIOUS
  <2>6. rs \in Seq(NetworkRoutes) /\ Among(rs, routes)
    BY <1>1, <2>5, KeptSound DEF Among
  <2>7. RoutesSound(rs, up)
    BY <1>1, <2>6, AmongSound
  <2>8. RoutesSound(routes', up)
    <3>1. routes' = rs \/ routes' = routes
      BY <2>1, <2>3, <2>4, <2>5 DEF RemoveAddress
    <3> QED BY <1>1, <2>7, <3>1
  <2> QED BY <1>1, <2>1, <2>2, <2>8 DEF RemoveAddress, FractionalRoutes
<1>12. CASE UNCHANGED vars
  BY <1>1, <1>12 DEF vars, FractionalRoutes
<1> QED
  BY <1>4, <1>5, <1>6, <1>7, <1>8, <1>9, <1>10, <1>11, <1>12 DEF Next

(* The lists hold what was put in them and, of the routes added while their interface  *)
(* was up, only those of interfaces that still are.                                    *)
THEOREM Invariance == Spec => []IInv
<1>1. Init => IInv
  BY InitInv
<1>2. IInv /\ [Next]_vars => IInv'
  BY NextInv
<1> QED BY <1>1, <1>2, PTL DEF Spec

(* LookupStatic's single pass over the network routes finds the longest match, of the  *)
(* least metric among those, and the last added among the equals.                      *)
THEOREM LookupFindsBest == Spec => []LookupBest
<1>1. IInv => LookupBest
  BY BestLookup
<1> QED BY <1>1, Invariance, PTL

(* Every hop of a fractional route is drawn as often as the share it was given says,   *)
(* and GetIndex never draws a hop there is not.                                        *)
THEOREM SharesDrawn == Spec => []SharesExact
<1>1. IInv => SharesExact
  BY EvenShares
<1> QED BY <1>1, Invariance, PTL

(* LookupStatic never returns a route that was added while its interface was up and    *)
(* has lost it since.                                                                  *)
THEOREM RoutesUsable == Spec => []LookupUsable
<1>1. IInv => LookupUsable
  BY UsableLookup
<1> QED BY <1>1, Invariance, PTL
=============================================================================
