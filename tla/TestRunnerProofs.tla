-------------------------- MODULE TestRunnerProofs --------------------------
(***************************************************************************)
(* test.py for every set of suites and examples, any number of workers and *)
(* any schedule of the threads, with interrupts and workers that die.  The *)
(* invariant keeps every test in one place on its way from the list to the *)
(* tally and ties what a job carries to what running its test gave, so     *)
(* that the counts in the tally, and the verdict made of them, are counts  *)
(* of tests.                                                               *)
(***************************************************************************)
EXTENDS TestRunner, FiniteSetTheorems, SequenceTheorems, TLAPS

(* How many elements of a queue are in a set *)

LEMMA CountType ==
  ASSUME NEW T, NEW q \in Seq(T), NEW S
  PROVE  /\ IsFiniteSet({i \in DOMAIN q : q[i] \in S})
         /\ Count(q, S) \in Nat
<1>1. DOMAIN q = 1 .. Len(q) /\ Len(q) \in Nat
  BY LenProperties
<1>2. IsFiniteSet(1 .. Len(q))
  BY <1>1, FS_Interval
<1>3. {i \in DOMAIN q : q[i] \in S} \in SUBSET (1 .. Len(q))
  BY <1>1
<1>4. IsFiniteSet({i \in DOMAIN q : q[i] \in S})
  BY <1>2, <1>3, FS_Subset
<1> QED BY <1>4, FS_CardinalityType DEF Count

LEMMA CountZero ==
  ASSUME NEW T, NEW q \in Seq(T), NEW S, Count(q, S) = 0
  PROVE  \A i \in DOMAIN q : q[i] \notin S
<1>1. {i \in DOMAIN q : q[i] \in S} = {}
  <2>1. IsFiniteSet({i \in DOMAIN q : q[i] \in S})
    BY CountType, Zenon
  <2>2. Cardinality({i \in DOMAIN q : q[i] \in S}) = 0
    BY DEF Count
  <2> QED BY <2>1, <2>2, FS_EmptySet, Zenon
<1> QED BY <1>1

LEMMA CountAppend ==
  ASSUME NEW T, NEW q \in Seq(T), NEW e \in T, NEW S
  PROVE  /\ e \in S => Count(Append(q, e), S) = Count(q, S) + 1
         /\ e \notin S => Count(Append(q, e), S) = Count(q, S)
<1> DEFINE I == {i \in DOMAIN q : q[i] \in S}
           J == {i \in DOMAIN Append(q, e) : Append(q, e)[i] \in S}
           n == Len(q) + 1
<1>1. DOMAIN q = 1 .. Len(q) /\ Len(q) \in Nat
  BY LenProperties
<1>2. /\ DOMAIN Append(q, e) = 1 .. n /\ Append(q, e)[n] = e
      /\ \A i \in 1 .. Len(q) : Append(q, e)[i] = q[i]
  BY AppendProperties, LenProperties
<1>3. J = IF e \in S THEN I \cup {n} ELSE I
  <2>1. ASSUME NEW i \in J PROVE i \in I \/ (i = n /\ e \in S)
    BY <1>1, <1>2
  <2>2. ASSUME NEW i \in I PROVE i \in J
    BY <1>1, <1>2
  <2>3. e \in S => n \in J
    BY <1>1, <1>2
  <2>4. n \in J => e \in S
    BY <1>1, <1>2
  <2> HIDE DEF I, J, n
  <2> QED BY <2>1, <2>2, <2>3, <2>4
<1>4. n \notin I /\ IsFiniteSet(I)
  <2>1. n \notin I
    BY <1>1
  <2>2. IsFiniteSet(I)
    BY CountType
  <2> QED BY <2>1, <2>2
<1>5. Count(q, S) = Cardinality(I) /\ Count(Append(q, e), S) = Cardinality(J)
  BY DEF Count
<1> HIDE DEF I, J, n
<1> QED BY <1>3, <1>4, <1>5, FS_AddElement

LEMMA CountTail ==
  ASSUME NEW T, NEW q \in Seq(T), q # << >>, NEW S
  PROVE  /\ Head(q) \in S => Count(q, S) = Count(Tail(q), S) + 1
         /\ Head(q) \notin S => Count(q, S) = Count(Tail(q), S)
<1> DEFINE I == {i \in DOMAIN q : q[i] \in S}
           J == {i \in DOMAIN Tail(q) : Tail(q)[i] \in S}
<1>1. DOMAIN q = 1 .. Len(q) /\ Len(q) \in Nat \ {0} /\ Head(q) = q[1]
  BY LenProperties, EmptySeq
<1>2. /\ Tail(q) \in Seq(T) /\ Len(Tail(q)) = Len(q) - 1
      /\ \A i \in 1 .. Len(Tail(q)) : Tail(q)[i] = q[i + 1]
  BY HeadTailProperties
<1>3. DOMAIN Tail(q) = 1 .. (Len(q) - 1)
  BY <1>2, LenProperties
<1>4. IsFiniteSet(I) /\ IsFiniteSet(J)
  BY <1>2, CountType
<1>5. \A i \in J : i \in Nat /\ i + 1 \in I \ {1}
  BY <1>1, <1>2, <1>3
<1>6. \A k \in I \ {1} : k - 1 \in J /\ k = (k - 1) + 1
  BY <1>1, <1>2, <1>3
<1>7. Count(q, S) = Cardinality(I) /\ Count(Tail(q), S) = Cardinality(J)
  BY DEF Count
<1>8. 1 \in I <=> Head(q) \in S
  BY <1>1
<1> HIDE DEF I, J
<1>9. Cardinality(I \ {1}) = Cardinality(J)
  <2> DEFINE f == [i \in J |-> i + 1]
  <2>1. f \in Bijection(J, I \ {1})
    <3>1. f \in [J -> I \ {1}]
      BY <1>5
    <3>2. ASSUME NEW a \in J, NEW b \in J, f[a] = f[b] PROVE a = b
      BY <1>5, <3>2
    <3>3. ASSUME NEW k \in I \ {1} PROVE \E i \in J : f[i] = k
      BY <1>6
    <3> HIDE DEF f
    <3> QED BY <3>1, <3>2, <3>3 DEF Bijection, Injection, Surjection, IsInjective
  <2> QED BY <2>1, <1>4, FS_Bijection DEF ExistsBijection
<1>10. Cardinality(I) \in Nat
  BY <1>4, FS_CardinalityType
<1>11. Cardinality(I \ {1}) = IF 1 \in I THEN Cardinality(I) - 1 ELSE Cardinality(I)
  BY <1>4, FS_RemoveElement
<1> QED BY <1>7, <1>8, <1>9, <1>10, <1>11

LEMMA CountConcat ==
  ASSUME NEW T, NEW q \in Seq(T), NEW r \in Seq(T), NEW S, \A i \in DOMAIN r : r[i] \notin S
  PROVE  Count(q \o r, S) = Count(q, S)
<1>1. /\ DOMAIN q = 1 .. Len(q) /\ Len(q) \in Nat
      /\ DOMAIN r = 1 .. Len(r) /\ Len(r) \in Nat
  BY LenProperties
<1>2. /\ DOMAIN (q \o r) = 1 .. (Len(q) + Len(r))
      /\ \A i \in 1 .. Len(q) + Len(r) : (q \o r)[i] = IF i <= Len(q) THEN q[i] ELSE r[i - Len(q)]
  BY ConcatProperties, LenProperties
<1>3. \A i \in 1 .. Len(q) + Len(r) : i > Len(q) => i - Len(q) \in DOMAIN r
  BY <1>1
<1>4. {i \in DOMAIN (q \o r) : (q \o r)[i] \in S} = {i \in DOMAIN q : q[i] \in S}
  BY <1>1, <1>2, <1>3
<1> QED BY <1>4 DEF Count

-----------------------------------------------------------------------------
(* The places a test can be in, as the queues and threads move it *)

LEMMA Types ==
  ASSUME TypeOK
  PROVE  /\ input_queue \in Seq(Jobs \cup {BreakJob}) /\ output_queue \in Seq(Jobs)
         /\ xml \in Seq([test: Tests, result: Statuses])
         /\ \A w \in Workers : worker[w] \in [pc: {"off", "get", "check", "run", "exited", "dead"},
                                              job: Jobs \cup {NoJob}]
         /\ worker \in [Workers -> [pc: {"off", "get", "check", "run", "exited", "dead"},
                                    job: Jobs \cup {NoJob}]]
         /\ jobs \in Nat /\ got \in Nat /\ got <= jobs /\ jobs <= Cardinality(Tests)
         /\ Cardinality(Tests) \in Nat
         /\ tally \in [Statuses -> 0 .. jobs]
         /\ \A s \in Statuses : tally[s] \in Nat /\ tally[s] <= jobs
<1>1. Cardinality(Tests) \in Nat
  BY FiniteAssumption, FS_CardinalityType
<1>2. jobs \in Nat /\ got \in Nat /\ got <= jobs /\ jobs <= Cardinality(Tests)
  BY <1>1 DEF TypeOK
<1>3. tally \in [Statuses -> 0 .. jobs]
  BY DEF TypeOK
<1>4. \A s \in Statuses : tally[s] \in Nat /\ tally[s] <= jobs
  BY <1>2, <1>3
<1> QED BY <1>1, <1>2, <1>3, <1>4 DEF TypeOK

LEMMA JobsBack ==
  ASSUME TypeOK, NEW i \in DOMAIN output_queue
  PROVE  output_queue[i] \in Jobs /\ output_queue[i].test \in Tests
<1>1. output_queue \in Seq(Jobs)
  BY Types
<1>2. output_queue[i] \in Jobs
  BY <1>1, LenProperties
<1> QED BY <1>2 DEF Jobs

LEMMA BackAppend ==
  ASSUME TypeOK, NEW j \in Jobs, output_queue' = Append(output_queue, j),
         Distinct(output_queue), j.test \notin Back
  PROVE  /\ output_queue' \in Seq(Jobs) /\ Len(output_queue') = Len(output_queue) + 1
         /\ Len(output_queue) \in Nat
         /\ Back' = Back \cup {j.test} /\ Distinct(output_queue)'
         /\ DOMAIN output_queue' = DOMAIN output_queue \cup {Len(output_queue')}
         /\ \A i \in DOMAIN output_queue : output_queue'[i] = output_queue[i]
         /\ output_queue'[Len(output_queue')] = j
<1>1. /\ output_queue \in Seq(Jobs) /\ Len(output_queue) \in Nat
      /\ DOMAIN output_queue = 1 .. Len(output_queue)
  BY Types, LenProperties
<1>2. /\ output_queue' \in Seq(Jobs) /\ Len(output_queue') = Len(output_queue) + 1
      /\ DOMAIN output_queue' = 1 .. (Len(output_queue) + 1)
      /\ \A i \in 1 .. Len(output_queue) : output_queue'[i] = output_queue[i]
      /\ output_queue'[Len(output_queue) + 1] = j
  BY <1>1, AppendProperties, LenProperties
<1>3. DOMAIN output_queue' = DOMAIN output_queue \cup {Len(output_queue')}
  BY <1>1, <1>2
<1>4. /\ \A i \in DOMAIN output_queue : output_queue'[i] = output_queue[i]
      /\ output_queue'[Len(output_queue')] = j
  BY <1>1, <1>2
<1>5. Back' = Back \cup {j.test}
  BY <1>3, <1>4 DEF Back
<1>6. \A i \in DOMAIN output_queue : output_queue[i].test # j.test
  BY DEF Back
<1>7. Distinct(output_queue)'
  BY <1>3, <1>4, <1>6 DEF Distinct
<1> QED BY <1>1, <1>2, <1>3, <1>4, <1>5, <1>7

LEMMA BackTail ==
  ASSUME TypeOK, output_queue # << >>, output_queue' = Tail(output_queue), Distinct(output_queue)
  PROVE  /\ output_queue' \in Seq(Jobs) /\ Len(output_queue') = Len(output_queue) - 1
         /\ Len(output_queue) \in Nat \ {0}
         /\ Head(output_queue) \in Jobs /\ Head(output_queue).test \in Back
         /\ Head(output_queue) = output_queue[1] /\ 1 \in DOMAIN output_queue
         /\ Back' = Back \ {Head(output_queue).test} /\ Distinct(output_queue)'
         /\ \A i \in DOMAIN output_queue' :
               i + 1 \in DOMAIN output_queue /\ output_queue'[i] = output_queue[i + 1]
<1>1. /\ output_queue \in Seq(Jobs) /\ Len(output_queue) \in Nat \ {0}
      /\ DOMAIN output_queue = 1 .. Len(output_queue)
      /\ Head(output_queue) = output_queue[1] /\ 1 \in DOMAIN output_queue
  BY Types, LenProperties, EmptySeq
<1>2. /\ output_queue' \in Seq(Jobs) /\ Len(output_queue') = Len(output_queue) - 1
      /\ DOMAIN output_queue' = 1 .. (Len(output_queue) - 1)
      /\ \A i \in 1 .. (Len(output_queue) - 1) : output_queue'[i] = output_queue[i + 1]
      /\ Head(output_queue) \in Jobs
  BY <1>1, HeadTailProperties, LenProperties
<1>3. \A i \in DOMAIN output_queue' :
         /\ i + 1 \in DOMAIN output_queue /\ output_queue'[i] = output_queue[i + 1]
         /\ i \in Nat /\ i + 1 # 1
  BY <1>1, <1>2
<1>4. \A i \in DOMAIN output_queue : i # 1 => i - 1 \in DOMAIN output_queue' /\ i = (i - 1) + 1
  BY <1>1, <1>2
<1>5. Head(output_queue).test \in Back
  BY <1>1 DEF Back
<1>6. ASSUME NEW t \in Back' PROVE t \in Back \ {Head(output_queue).test}
  <2>1. PICK i \in DOMAIN output_queue' : t = output_queue'[i].test
    BY DEF Back
  <2> QED BY <2>1, <1>1, <1>3 DEF Back, Distinct
<1>7. ASSUME NEW t \in Back \ {Head(output_queue).test} PROVE t \in Back'
  <2>1. PICK i \in DOMAIN output_queue : t = output_queue[i].test
    BY DEF Back
  <2>2. i # 1
    BY <2>1, <1>1
  <2>3. i - 1 \in DOMAIN output_queue' /\ output_queue'[i - 1] = output_queue[i]
    BY <2>2, <1>3, <1>4
  <2> QED BY <2>1, <2>3 DEF Back
<1>8. Back' = Back \ {Head(output_queue).test}
  BY <1>6, <1>7
<1>9. Distinct(output_queue)'
  BY <1>3 DEF Distinct
<1> QED BY <1>1, <1>2, <1>3, <1>5, <1>8, <1>9

Unbroken == {j \in Jobs \cup {BreakJob} : ~j.broken}

LEMMA UnbrokenCount ==
  ASSUME NEW q \in Seq(Jobs \cup {BreakJob})
  PROVE  Cardinality({i \in DOMAIN q : ~q[i].broken}) = Count(q, Unbroken)
<1>1. \A i \in DOMAIN q : q[i] \in Jobs \cup {BreakJob}
  BY LenProperties
<1>2. {i \in DOMAIN q : ~q[i].broken} = {i \in DOMAIN q : q[i] \in Unbroken}
  BY <1>1 DEF Unbroken
<1> QED BY <1>2 DEF Count

LEMMA NewJob ==
  ASSUME NEW t \in Tests
  PROVE  Job(t) \in Jobs /\ Job(t).test = t /\ ~Job(t).broken /\ Job(t).file = "none"
<1>1. 0 \in -1 .. 3 /\ "none" \in Files
  BY DEF Files
<1> QED BY <1>1 DEF Job, Jobs

LEMMA BreakFacts == BreakJob.broken = TRUE /\ BreakJob.file = "none" /\ BreakJob.test = None
BY DEF BreakJob

LEMMA QueuedAppend ==
  ASSUME TypeOK, NEW j \in Jobs, ~j.broken, input_queue' = Append(input_queue, j),
         OnceQueued, j.test \notin Queued
  PROVE  /\ input_queue' \in Seq(Jobs \cup {BreakJob})
         /\ Queued' = Queued \cup {j.test} /\ OnceQueued'
         /\ Count(input_queue', Unbroken) = Count(input_queue, Unbroken) + 1
         /\ \A i \in DOMAIN input_queue' :
               input_queue'[i] = j \/ \E k \in DOMAIN input_queue : input_queue'[i] = input_queue[k]
<1> DEFINE n == Len(input_queue) + 1
<1>1. /\ input_queue \in Seq(Jobs \cup {BreakJob}) /\ Len(input_queue) \in Nat
      /\ DOMAIN input_queue = 1 .. Len(input_queue)
  BY Types, LenProperties
<1>2. /\ input_queue' \in Seq(Jobs \cup {BreakJob}) /\ DOMAIN input_queue' = 1 .. n
      /\ \A i \in 1 .. Len(input_queue) : input_queue'[i] = input_queue[i]
      /\ input_queue'[n] = j
  BY <1>1, AppendProperties, LenProperties
<1>3. DOMAIN input_queue' = DOMAIN input_queue \cup {n} /\ n \notin DOMAIN input_queue
  BY <1>1, <1>2
<1>4. \A i \in DOMAIN input_queue : input_queue'[i] = input_queue[i]
  BY <1>1, <1>2
<1> HIDE DEF n
<1>5. Queued' = Queued \cup {j.test}
  <2>1. ASSUME NEW t \in Queued' PROVE t \in Queued \cup {j.test}
    BY <1>2, <1>3, <1>4 DEF Queued
  <2>2. ASSUME NEW t \in Queued PROVE t \in Queued'
    BY <1>3, <1>4 DEF Queued
  <2>3. j.test \in Queued'
    BY <1>2, <1>3 DEF Queued
  <2> QED BY <2>1, <2>2, <2>3
<1>6. \A i \in DOMAIN input_queue : ~input_queue[i].broken => input_queue[i].test # j.test
  BY DEF Queued
<1>7. OnceQueued'
  BY <1>2, <1>3, <1>4, <1>6 DEF OnceQueued
<1>8. j \in Unbroken
  BY DEF Unbroken
<1>9. Count(input_queue', Unbroken) = Count(input_queue, Unbroken) + 1
  BY <1>1, <1>8, CountAppend
<1> QED BY <1>2, <1>3, <1>4, <1>5, <1>7, <1>9

LEMMA QueuedTail ==
  ASSUME TypeOK, input_queue # << >>, input_queue' = Tail(input_queue), OnceQueued
  PROVE  /\ input_queue' \in Seq(Jobs \cup {BreakJob}) /\ OnceQueued'
         /\ Head(input_queue) \in Jobs \cup {BreakJob}
         /\ Head(input_queue) = input_queue[1] /\ 1 \in DOMAIN input_queue
         /\ Head(input_queue).broken =>
               Queued' = Queued /\ Count(input_queue', Unbroken) = Count(input_queue, Unbroken)
         /\ ~Head(input_queue).broken =>
               /\ Head(input_queue).test \in Queued
               /\ Queued' = Queued \ {Head(input_queue).test}
               /\ Count(input_queue, Unbroken) = Count(input_queue', Unbroken) + 1
         /\ \A i \in DOMAIN input_queue' :
               i + 1 \in DOMAIN input_queue /\ input_queue'[i] = input_queue[i + 1]
<1>1. /\ input_queue \in Seq(Jobs \cup {BreakJob}) /\ Len(input_queue) \in Nat \ {0}
      /\ DOMAIN input_queue = 1 .. Len(input_queue)
      /\ Head(input_queue) = input_queue[1] /\ 1 \in DOMAIN input_queue
  BY Types, LenProperties, EmptySeq
<1>2. /\ input_queue' \in Seq(Jobs \cup {BreakJob})
      /\ DOMAIN input_queue' = 1 .. (Len(input_queue) - 1)
      /\ \A i \in 1 .. (Len(input_queue) - 1) : input_queue'[i] = input_queue[i + 1]
      /\ Head(input_queue) \in Jobs \cup {BreakJob}
  BY <1>1, HeadTailProperties, LenProperties
<1>3. \A i \in DOMAIN input_queue' :
         /\ i + 1 \in DOMAIN input_queue /\ input_queue'[i] = input_queue[i + 1]
         /\ i \in Nat /\ i + 1 # 1
  BY <1>1, <1>2
<1>4. \A i \in DOMAIN input_queue : i # 1 => i - 1 \in DOMAIN input_queue' /\ i = (i - 1) + 1
  BY <1>1, <1>2
<1>5. OnceQueued'
  <2> SUFFICES ASSUME NEW i \in DOMAIN input_queue', NEW k \in DOMAIN input_queue',
                      ~input_queue'[i].broken, ~input_queue'[k].broken,
                      input_queue'[i].test = input_queue'[k].test
               PROVE  i = k
    BY DEF OnceQueued
  <2>1. i + 1 = k + 1
    BY <1>3 DEF OnceQueued
  <2> QED BY <2>1, <1>3
<1>6. ASSUME NEW t \in Queued' PROVE t \in Queued /\ (~Head(input_queue).broken => t # Head(input_queue).test)
  <2>1. PICK i \in DOMAIN input_queue' : ~input_queue'[i].broken /\ t = input_queue'[i].test
    BY DEF Queued
  <2>2. i + 1 \in DOMAIN input_queue /\ input_queue'[i] = input_queue[i + 1] /\ i + 1 # 1
    BY <1>3
  <2>3. t \in Queued
    BY <2>1, <2>2 DEF Queued
  <2>4. ~input_queue[1].broken => t # input_queue[1].test
    BY <2>1, <2>2, <1>1 DEF OnceQueued
  <2> QED BY <2>3, <2>4, <1>1
<1>7. ASSUME NEW t \in Queued PROVE t \in Queued' \/ (~Head(input_queue).broken /\ t = Head(input_queue).test)
  <2>1. PICK i \in DOMAIN input_queue : ~input_queue[i].broken /\ t = input_queue[i].test
    BY DEF Queued
  <2>2. CASE i = 1
    BY <2>1, <2>2, <1>1
  <2>3. CASE i # 1
    <3>1. i - 1 \in DOMAIN input_queue' /\ input_queue'[i - 1] = input_queue[i]
      BY <2>3, <1>3, <1>4
    <3> QED BY <2>1, <3>1 DEF Queued
  <2> QED BY <2>2, <2>3
<1>8. CASE Head(input_queue).broken
  <2>1. Head(input_queue) \notin Unbroken
    BY <1>8 DEF Unbroken
  <2>2. Count(input_queue', Unbroken) = Count(input_queue, Unbroken)
    BY <2>1, <1>1, CountTail
  <2>3. Queued' = Queued
    BY <1>6, <1>7, <1>8
  <2> QED BY <2>2, <2>3, <1>1, <1>2, <1>3, <1>5, <1>8
<1>9. CASE ~Head(input_queue).broken
  <2>1. Head(input_queue) \in Unbroken
    BY <1>2, <1>9 DEF Unbroken
  <2>2. Count(input_queue, Unbroken) = Count(input_queue', Unbroken) + 1
    BY <2>1, <1>1, CountTail
  <2>3. Head(input_queue).test \in Queued
    BY <1>1, <1>9 DEF Queued
  <2>4. Queued' = Queued \ {Head(input_queue).test}
    BY <1>6, <1>7, <1>9
  <2> QED BY <2>2, <2>3, <2>4, <1>1, <1>2, <1>3, <1>5, <1>9
<1> QED BY <1>8, <1>9

LEMMA QueuedBreaks ==
  ASSUME TypeOK, input_queue' = input_queue \o BreakJobs, OnceQueued
  PROVE  /\ input_queue' \in Seq(Jobs \cup {BreakJob}) /\ OnceQueued' /\ Queued' = Queued
         /\ Count(input_queue', Unbroken) = Count(input_queue, Unbroken)
         /\ \A i \in DOMAIN input_queue' :
               \/ input_queue'[i] = BreakJob
               \/ \E k \in DOMAIN input_queue : input_queue'[i] = input_queue[k]
<1>1. /\ input_queue \in Seq(Jobs \cup {BreakJob}) /\ Len(input_queue) \in Nat
      /\ DOMAIN input_queue = 1 .. Len(input_queue)
  BY Types, LenProperties
<1>2. PICK n \in Nat : n = Cardinality(Workers)
  BY FiniteAssumption, FS_CardinalityType
<1>3. BreakJobs = [i \in 1 .. n |-> BreakJob]
  BY <1>2 DEF BreakJobs, Breaks
<1>4. /\ BreakJobs \in Seq(Jobs \cup {BreakJob}) /\ Len(BreakJobs) = n
      /\ DOMAIN BreakJobs = 1 .. n /\ \A i \in 1 .. n : BreakJobs[i] = BreakJob
  BY <1>3
<1>5. /\ input_queue' \in Seq(Jobs \cup {BreakJob})
      /\ DOMAIN input_queue' = 1 .. (Len(input_queue) + n)
      /\ \A i \in 1 .. Len(input_queue) + n :
            input_queue'[i] = IF i <= Len(input_queue) THEN input_queue[i]
                              ELSE BreakJobs[i - Len(input_queue)]
  <2>1. /\ input_queue' \in Seq(Jobs \cup {BreakJob})
        /\ Len(input_queue') = Len(input_queue) + n
    BY <1>1, <1>4, ConcatProperties
  <2>2. DOMAIN input_queue' = 1 .. (Len(input_queue) + n)
    BY <2>1, LenProperties
  <2> QED BY <2>1, <2>2, <1>1, <1>4, ConcatProperties
<1>6. \A i \in DOMAIN input_queue : i \in DOMAIN input_queue' /\ input_queue'[i] = input_queue[i]
  BY <1>1, <1>2, <1>5
<1>7. \A i \in DOMAIN input_queue' : i \notin DOMAIN input_queue => input_queue'[i] = BreakJob
  BY <1>1, <1>2, <1>4, <1>5
<1>8. BreakJob.broken
  BY BreakFacts
<1>9. OnceQueued'
  BY <1>6, <1>7, <1>8 DEF OnceQueued
<1>10. Queued' = Queued
  <2>1. ASSUME NEW t \in Queued' PROVE t \in Queued
    BY <1>6, <1>7, <1>8 DEF Queued
  <2>2. ASSUME NEW t \in Queued PROVE t \in Queued'
    BY <1>6 DEF Queued
  <2> QED BY <2>1, <2>2
<1>11. \A i \in DOMAIN BreakJobs : BreakJobs[i] \notin Unbroken
  BY <1>4, <1>8 DEF Unbroken
<1>12. Count(input_queue', Unbroken) = Count(input_queue, Unbroken)
  BY <1>1, <1>4, <1>11, CountConcat
<1> QED BY <1>5, <1>6, <1>7, <1>9, <1>10, <1>12

Occupied == {w \in Workers : worker[w].pc \in {"check", "run", "dead"}}
WorkerStates == [pc: {"off", "get", "check", "run", "exited", "dead"}, job: Jobs \cup {NoJob}]

LEMMA OccupiedType == IsFiniteSet(Occupied) /\ Cardinality(Occupied) \in Nat
<1>1. Occupied \in SUBSET Workers
  BY DEF Occupied
<1> QED BY <1>1, FiniteAssumption, FS_Subset, FS_CardinalityType

(* a worker takes a job *)
LEMMA WorkerTakes ==
  ASSUME TypeOK, OnceHeld, NEW w \in Workers, worker[w].pc = "get", NEW j \in Jobs,
         j.test \notin Held, worker' = [worker EXCEPT ![w] = [pc |-> "check", job |-> j]]
  PROVE  /\ worker' \in [Workers -> WorkerStates] /\ Busy' = Busy \cup {w} /\ w \notin Busy
         /\ worker'[w] = [pc |-> "check", job |-> j]
         /\ \A v \in Workers : v # w => worker'[v] = worker[v]
         /\ Held' = Held \cup {j.test} /\ OnceHeld'
         /\ Cardinality(Occupied') = Cardinality(Occupied) + 1
<1>1. worker \in [Workers -> WorkerStates]
  BY Types DEF WorkerStates
<1>2. [pc |-> "check", job |-> j] \in WorkerStates
  BY DEF WorkerStates
<1>3. worker' \in [Workers -> WorkerStates]
  BY <1>1, <1>2
<1>4. /\ worker'[w] = [pc |-> "check", job |-> j]
      /\ worker'[w].pc = "check" /\ worker'[w].job = j
      /\ \A v \in Workers : v # w => worker'[v] = worker[v]
  BY <1>1
<1>5. w \notin Busy /\ w \notin Occupied
  BY DEF Busy, Occupied
<1>6. Busy' = Busy \cup {w}
  BY <1>4 DEF Busy
<1>7. Occupied' = Occupied \cup {w}
  BY <1>4 DEF Occupied
<1>8. Held' = Held \cup {j.test}
  <2>1. \A v \in Busy : worker'[v] = worker[v]
    BY <1>4, <1>5 DEF Busy
  <2> QED BY <2>1, <1>4, <1>6 DEF Held
<1>9. OnceHeld'
  <2>1. \A v \in Busy : worker'[v] = worker[v] /\ worker[v].job.test # j.test
    BY <1>4, <1>5 DEF Busy, Held
  <2> QED BY <2>1, <1>4, <1>6 DEF OnceHeld
<1>10. Cardinality(Occupied') = Cardinality(Occupied) + 1
  BY <1>5, <1>7, OccupiedType, FS_AddElement
<1> QED BY <1>3, <1>4, <1>5, <1>6, <1>8, <1>9, <1>10

(* a worker is rid of its job: sent back, or lost with the thread *)
LEMMA WorkerLeaves ==
  ASSUME TypeOK, OnceHeld, NEW w \in Busy, NEW pc \in {"get", "dead"},
         worker' = [worker EXCEPT ![w] = [pc |-> pc, job |-> NoJob]]
  PROVE  /\ worker' \in [Workers -> WorkerStates] /\ Busy' = Busy \ {w} /\ w \in Workers
         /\ worker'[w] = [pc |-> pc, job |-> NoJob]
         /\ \A v \in Workers : v # w => worker'[v] = worker[v]
         /\ worker[w].job.test \in Held
         /\ Held' = Held \ {worker[w].job.test} /\ OnceHeld'
         /\ Cardinality(Occupied') = IF pc = "get" THEN Cardinality(Occupied) - 1
                                     ELSE Cardinality(Occupied)
<1>1. worker \in [Workers -> WorkerStates] /\ w \in Workers
  BY Types DEF WorkerStates, Busy
<1>2. [pc |-> pc, job |-> NoJob] \in WorkerStates
  BY DEF WorkerStates
<1>3. worker' \in [Workers -> WorkerStates]
  BY <1>1, <1>2
<1>4. /\ worker'[w] = [pc |-> pc, job |-> NoJob] /\ worker'[w].pc = pc
      /\ \A v \in Workers : v # w => worker'[v] = worker[v]
  BY <1>1
<1>5. w \in Occupied
  BY DEF Busy, Occupied
<1>6. Busy' = Busy \ {w}
  BY <1>4 DEF Busy
<1>7. Occupied' = IF pc = "get" THEN Occupied \ {w} ELSE Occupied
  BY <1>4, <1>5 DEF Occupied
<1>8. worker[w].job.test \in Held
  BY DEF Held
<1>9. Busy \subseteq Workers
  BY DEF Busy
<1>10. Held' = Held \ {worker[w].job.test}
  <2>1. ASSUME NEW t \in Held' PROVE t \in Held \ {worker[w].job.test}
    BY <1>4, <1>6, <1>9 DEF Held, OnceHeld
  <2>2. ASSUME NEW t \in Held \ {worker[w].job.test} PROVE t \in Held'
    BY <1>4, <1>6, <1>9 DEF Held
  <2> QED BY <2>1, <2>2
<1>11. OnceHeld'
  BY <1>4, <1>6, <1>9 DEF OnceHeld
<1>12. Cardinality(Occupied') = IF pc = "get" THEN Cardinality(Occupied) - 1
                               ELSE Cardinality(Occupied)
  BY <1>5, <1>7, OccupiedType, FS_RemoveElement
<1> QED BY <1>1, <1>3, <1>4, <1>6, <1>8, <1>10, <1>11, <1>12

(* a worker starts its job, or ends at a break job *)
LEMMA WorkerSteps ==
  ASSUME TypeOK, OnceHeld, NEW w \in Workers, NEW r \in WorkerStates,
         worker' = [worker EXCEPT ![w] = r],
         \/ worker[w].pc = "check" /\ r.pc = "run" /\ r.job = worker[w].job
         \/ worker[w].pc = "get" /\ r.pc = "exited"
  PROVE  /\ worker' \in [Workers -> WorkerStates] /\ Busy' = Busy /\ Held' = Held /\ OnceHeld'
         /\ worker'[w] = r
         /\ \A v \in Workers : v # w => worker'[v] = worker[v]
         /\ \A v \in Busy : worker'[v].job = worker[v].job
         /\ Cardinality(Occupied') = Cardinality(Occupied)
<1>1. worker \in [Workers -> WorkerStates]
  BY Types DEF WorkerStates
<1>2. worker' \in [Workers -> WorkerStates]
  BY <1>1
<1>3. worker'[w] = r /\ \A v \in Workers : v # w => worker'[v] = worker[v]
  BY <1>1
<1>4. Busy' = Busy
  BY <1>3 DEF Busy
<1>5. Occupied' = Occupied
  BY <1>3 DEF Occupied
<1>6. \A v \in Busy : worker'[v].job = worker[v].job
  BY <1>3 DEF Busy
<1>7. Held' = Held /\ OnceHeld'
  BY <1>4, <1>6 DEF Held, OnceHeld
<1> QED BY <1>2, <1>3, <1>4, <1>5, <1>6, <1>7

-----------------------------------------------------------------------------
(* The options decide what is skipped, run and named, and do not change *)

LEMMA Stable ==
  ASSUME options' = options
  PROVE  /\ \A t \in Tests : IsSkip(t)' <=> IsSkip(t)
         /\ \A t \in Tests : Programs(t)' = Programs(t)
         /\ Named' = Named
         /\ \A j \in Jobs : StatusOf(j)' = StatusOf(j)
         /\ Passing' = Passing
<1>1. Unselected' <=> Unselected
  BY DEF Unselected
<1>2. \A t \in Tests : IsSkip(t)' <=> IsSkip(t)
  BY <1>1 DEF IsSkip
<1>3. \A t \in Tests : Programs(t)' = Programs(t)
  BY DEF Programs
<1>4. Named' = Named
  BY <1>1 DEF Named, ExampleList, PyExampleList
<1>5. \A j \in Jobs : StatusOf(j)' = StatusOf(j)
  BY <1>2 DEF StatusOf, Jobs
<1>6. Passing' = Passing
  BY <1>5 DEF Passing
<1> QED BY <1>2, <1>3, <1>4, <1>5, <1>6

(* the equation of NoneLost, with the counts the lemmas above are about *)
Accounted == jobs = Count(input_queue, Unbroken) + Cardinality(Occupied) + Len(output_queue) + got

LEMMA NoneLostForm == TypeOK => (NoneLost <=> Accounted)
<1> SUFFICES ASSUME TypeOK PROVE NoneLost <=> Accounted
  OBVIOUS
<1>1. Cardinality({i \in DOMAIN input_queue : ~input_queue[i].broken}) = Count(input_queue, Unbroken)
  BY Types, UnbrokenCount
<1> QED BY <1>1 DEF NoneLost, Accounted, Occupied

LEMMA NoneLostNext == TypeOK' /\ Accounted' => NoneLost'
<1> SUFFICES ASSUME TypeOK', Accounted' PROVE NoneLost'
  OBVIOUS
<1>1. Cardinality({i \in DOMAIN input_queue' : ~input_queue'[i].broken}) = Count(input_queue', Unbroken)
  BY UnbrokenCount DEF TypeOK
<1> QED BY <1>1 DEF NoneLost, Accounted, Occupied

LEMMA Parts ==
  ASSUME IInv
  PROVE  /\ TypeOK /\ Accounted /\ PhaseInv /\ PlaceInv /\ JobInv /\ TallyInv /\ NamedInv
         /\ ReportInv /\ VerdictHonest /\ ReportComplete
BY NoneLostForm DEF IInv, NoneLost

(* a step that brings back nothing and counts nothing *)
LEMMA ResultsKept ==
  ASSUME IInv, UNCHANGED <<options, output_queue, got, tally, xml, outcome>>,
         thread_exit => thread_exit', main' = "raised" \/ main # "raised"
  PROVE  /\ Back' = Back /\ Reported' = Reported /\ (\A t : Ran(t)' <=> Ran(t))
         /\ Distinct(output_queue)' /\ Distinct(xml)'
         /\ ResultInv' /\ TallyInv' /\ ReportInv'
<1>1. TypeOK /\ PlaceInv /\ ResultInv /\ TallyInv /\ ReportInv
  BY Parts DEF JobInv
<1>2. Back' = Back /\ Reported' = Reported
  BY DEF Back, Reported
<1>3. Distinct(output_queue)' /\ Distinct(xml)'
  BY <1>1 DEF PlaceInv, Distinct
<1>4. \A t : (Ran(t)' <=> Ran(t)) /\ (Clean(t)' <=> Clean(t))
  BY DEF Ran, Clean
<1>5. ResultInv'
  <2>1. ASSUME NEW i \in DOMAIN output_queue PROVE Truthful(output_queue[i])'
    <3>1. output_queue[i].test \in Tests
      BY <1>1, JobsBack
    <3>2. Truthful(output_queue[i])
      BY <1>1 DEF ResultInv
    <3> QED BY <3>1, <3>2, Stable DEF Truthful, Ran
  <2>2. \A t \in Tests : Ran(t) => outcome[t] \in Programs(t)' /\ ~IsSkip(t)'
    BY <1>1, Stable DEF ResultInv
  <2> QED BY <2>1, <2>2 DEF ResultInv, Ran
<1>6. TallyInv'
  <2>1. Count(output_queue, Passing)' = Count(output_queue, Passing)
    BY Stable DEF Count
  <2>2. {t \in Tests : Clean(t)}' = {t \in Tests : Clean(t)}
    BY DEF Clean
  <2> QED BY <2>1, <2>2, <1>1, <1>2, <1>4 DEF TallyInv, Failures
<1>7. ReportInv'
  BY <1>1 DEF ReportInv, Failures, Count, Empty
<1> QED BY <1>2, <1>3, <1>4, <1>5, <1>6, <1>7

LEMMA HeldKept ==
  ASSUME HeldInv, options' = options, worker' = worker
  PROVE  HeldInv'
<1>1. Busy' = Busy
  BY DEF Busy
<1> SUFFICES ASSUME NEW w \in Busy
             PROVE  /\ worker[w].job.test \in Tests /\ ~worker[w].job.broken
                    /\ worker[w].job.file = "none"
                    /\ worker[w].pc = "run" => ~IsSkip(worker[w].job.test)'
  BY <1>1 DEF HeldInv
<1>2. /\ worker[w].job.test \in Tests /\ ~worker[w].job.broken
      /\ worker[w].job.file = "none"
      /\ worker[w].pc = "run" => ~IsSkip(worker[w].job.test)
  BY DEF HeldInv
<1>3. IsSkip(worker[w].job.test)' <=> IsSkip(worker[w].job.test)
  BY DEF IsSkip, Unselected
<1> QED BY <1>2, <1>3

(* a step that moves no job and no result *)
LEMMA QuietStep ==
  ASSUME IInv,
         UNCHANGED <<options, todo, input_queue, output_queue, worker, jobs, got, tally, xml, outcome>>,
         sigint' \in {"none", "pending", "handled"}, thread_exit => thread_exit',
         main' \in {"build", "list", "dispatch", "collect", "done", "raised"},
         main' = "raised" \/ main # "raised",
         exit' \in {None, 0, 1}
  PROVE  /\ NoneLost' /\ PlaceInv' /\ JobInv' /\ TallyInv' /\ ReportInv'
<1>1. TypeOK /\ Accounted /\ PlaceInv /\ HeldInv /\ QueuedInv
  BY Parts DEF JobInv
<1>2. TypeOK'
  BY <1>1 DEF TypeOK
<1>3. Queued' = Queued /\ Held' = Held /\ Back' = Back /\ Reported' = Reported /\ Busy' = Busy
  BY DEF Queued, Held, Back, Reported, Busy
<1>4. Accounted'
  BY <1>1 DEF Accounted, Occupied, Count
<1>5. PlaceInv'
  BY <1>1, <1>3 DEF PlaceInv, OnceQueued, OnceHeld, Distinct, Ran
<1>6. HeldInv'
  BY <1>1, HeldKept
<1>7. QueuedInv'
  BY <1>1 DEF QueuedInv
<1> QED BY <1>2, <1>4, <1>5, <1>6, <1>7, ResultsKept, NoneLostNext DEF JobInv

LEMMA BuildKeeps ==
  ASSUME IInv, Build
  PROVE  IInv'
<1>1. PhaseInv /\ ReportComplete /\ TypeOK
  BY Parts
<1>2. NoneLost' /\ PlaceInv' /\ JobInv' /\ TallyInv' /\ ReportInv'
  BY <1>1, QuietStep DEF Build, Queues, Results, thread_exit, TypeOK
<1>3. /\ main = "build" /\ main' \in {"list", "done"} /\ (main' = "done" => exit' = 1)
      /\ UNCHANGED <<options, todo, input_queue, output_queue, worker, sigint, jobs, got, tally,
                     xml, outcome>>
  BY DEF Build, Queues, Results
<1>4. PhaseInv'
  BY <1>1, <1>3 DEF PhaseInv, Ran
<1>5. NamedInv' /\ VerdictHonest'
  BY <1>3 DEF NamedInv, VerdictHonest
<1>6. ReportComplete'
  <2>1. xml' = << >> /\ jobs' = 0 /\ Len(xml') = 0 /\ DOMAIN xml' = {}
    BY <1>1, <1>3 DEF PhaseInv
  <2>2. {t \in Tests : outcome'[t].file = "empty"} = {}
    BY <1>1, <1>3 DEF PhaseInv, Ran, NotRun
  <2> QED BY <2>1, <2>2, FS_EmptySet DEF ReportComplete
<1> QED BY <1>2, <1>4, <1>5, <1>6 DEF IInv

LEMMA PrintOnlyKeeps ==
  ASSUME IInv, PrintOnly
  PROVE  IInv'
<1>1. PhaseInv /\ ReportComplete /\ TypeOK
  BY Parts
<1>2. NoneLost' /\ PlaceInv' /\ JobInv' /\ TallyInv' /\ ReportInv'
  BY <1>1, QuietStep DEF PrintOnly, Queues, Results, thread_exit, TypeOK
<1>3. /\ main = "list" /\ main' = "done" /\ options.list
      /\ UNCHANGED <<options, todo, input_queue, output_queue, worker, sigint, jobs, got, tally,
                     xml, outcome>>
  BY DEF PrintOnly, Queues, Results
<1>4. PhaseInv'
  BY <1>1, <1>3 DEF PhaseInv, Ran
<1>5. NamedInv' /\ VerdictHonest'
  BY <1>3 DEF NamedInv, VerdictHonest
<1>6. ReportComplete'
  <2>1. xml' = << >> /\ jobs' = 0 /\ Len(xml') = 0 /\ DOMAIN xml' = {}
    BY <1>1, <1>3 DEF PhaseInv
  <2>2. {t \in Tests : outcome'[t].file = "empty"} = {}
    BY <1>1, <1>3 DEF PhaseInv, Ran, NotRun
  <2> QED BY <2>1, <2>2, FS_EmptySet DEF ReportComplete
<1> QED BY <1>2, <1>4, <1>5, <1>6 DEF IInv

(* an interrupt arrives or is handled; or nothing happens *)
LEMMA SignalKeeps ==
  ASSUME IInv, UNCHANGED <<options, main, todo, input_queue, output_queue, worker, jobs, got, tally,
                           xml, exit, outcome>>,
         \/ sigint' = sigint
         \/ sigint' \in {"pending", "handled"} /\ ~thread_exit /\ main # "done"
  PROVE  IInv'
<1>1. PhaseInv /\ NamedInv /\ VerdictHonest /\ ReportComplete /\ TypeOK
  BY Parts
<1>2. /\ sigint' \in {"none", "pending", "handled"} /\ (thread_exit => thread_exit')
      /\ main' \in {"build", "list", "dispatch", "collect", "done", "raised"}
      /\ exit' \in {None, 0, 1}
  BY <1>1 DEF TypeOK, thread_exit
<1>3. NoneLost' /\ PlaceInv' /\ JobInv' /\ TallyInv' /\ ReportInv'
  BY <1>2, QuietStep
<1>4. PhaseInv'
  BY <1>1 DEF PhaseInv, Ran
<1>5. NamedInv'
  <2>1. Queued' = Queued /\ Held' = Held /\ Back' = Back
    BY DEF Queued, Held, Back, Busy
  <2>2. Named' = Named
    BY Stable
  <2>3. \A t : Ran(t)' <=> Ran(t)
    BY DEF Ran
  <2>4. \A t : IsSkip(t)' <=> IsSkip(t)
    BY DEF IsSkip, Unselected
  <2> QED BY <2>1, <2>2, <2>3, <2>4, <1>1 DEF NamedInv, Failures
<1>6. VerdictHonest'
  BY <1>1 DEF VerdictHonest, Named, ExampleList, PyExampleList, IsSkip, Unselected, Clean
<1>7. ReportComplete'
  BY <1>1 DEF ReportComplete, thread_exit
<1> QED BY <1>3, <1>4, <1>5, <1>6, <1>7 DEF IInv

LEMMA FinishKeeps ==
  ASSUME IInv, Finish
  PROVE  IInv'
<1>1. TypeOK /\ Accounted /\ PhaseInv /\ TallyInv /\ NamedInv /\ ReportInv /\ ReportComplete
  BY Parts
<1>2. /\ main = "collect" /\ main' = "done" /\ got = jobs /\ exit' = Verdict
      /\ \A w \in Workers : worker[w].pc \in {"exited", "dead"}
      /\ UNCHANGED <<options, todo, input_queue, output_queue, worker, sigint, jobs, got, tally,
                     xml, outcome>>
  BY DEF Finish, Queues, Results
<1>3. exit' \in {0, 1} /\ (exit' = 0 => tally["PASS"] + tally["SKIP"] = jobs)
  BY <1>2 DEF Verdict
<1>4. NoneLost' /\ PlaceInv' /\ JobInv' /\ TallyInv' /\ ReportInv'
  BY <1>1, <1>2, <1>3, QuietStep DEF thread_exit, TypeOK
<1>5. PhaseInv'
  BY <1>1, <1>2 DEF PhaseInv, Ran
<1>6. NamedInv'
  BY <1>2 DEF NamedInv
<1>7. /\ Count(input_queue, Unbroken) = 0 /\ Cardinality(Occupied) = 0
      /\ Len(output_queue) = 0 /\ got \in Nat
  <2>1. /\ Count(input_queue, Unbroken) \in Nat /\ Cardinality(Occupied) \in Nat
        /\ Len(output_queue) \in Nat /\ got \in Nat
    BY <1>1, Types, CountType, OccupiedType, LenProperties
  <2> QED BY <2>1, <1>1, <1>2 DEF Accounted
<1>8. output_queue = << >> /\ Back = {} /\ DOMAIN output_queue = {}
  <2>1. output_queue = << >>
    BY <1>1, <1>7, Types, EmptySeq
  <2> QED BY <2>1 DEF Back
<1>9. Occupied = {} /\ Held = {}
  <2>1. Occupied = {}
    BY <1>7, OccupiedType, FS_EmptySet
  <2> QED BY <2>1 DEF Occupied, Held, Busy
<1>10. Queued = {}
  <2>1. input_queue \in Seq(Jobs \cup {BreakJob})
    BY <1>1, Types
  <2>2. \A i \in DOMAIN input_queue : input_queue[i] \in Jobs \cup {BreakJob}
    BY <2>1, LenProperties
  <2>3. \A i \in DOMAIN input_queue : input_queue[i] \notin Unbroken
    BY <2>1, <1>7, CountZero
  <2>4. \A i \in DOMAIN input_queue : input_queue[i].broken
    BY <2>2, <2>3 DEF Unbroken
  <2> QED BY <2>4 DEF Queued
<1>11. /\ tally["PASS"] \in Nat /\ tally["SKIP"] \in Nat /\ tally["FAIL"] \in Nat
       /\ tally["VALGR"] \in Nat /\ tally["CRASH"] \in Nat
  BY <1>1, Types DEF Statuses
<1>12. exit' = 0 => Failures = 0 /\ Failures + tally["PASS"] + tally["SKIP"] = got
  BY <1>1, <1>2, <1>3, <1>7, <1>11 DEF TallyInv, Failures
<1>13. \A S : Count(output_queue, S) = 0
  BY <1>8, FS_EmptySet DEF Count
<1>14. ASSUME exit' = 0
       PROVE  /\ \A t \in Tests : t \in Named \/ Ran(t) => Clean(t) \/ IsSkip(t)
              /\ jobs = Cardinality({t \in Tests : Clean(t)}) + tally["SKIP"]
  <2>1. \A t \in Tests : Ran(t) => Clean(t)
    BY <1>1, <1>8, <1>12, <1>14 DEF TallyInv
  <2>2. \A t \in Named : Ran(t) \/ IsSkip(t)
    <3>1. todo = {} /\ ~ \E w \in Workers : worker[w].pc = "dead"
      BY <1>1, <1>2, <1>9 DEF PhaseInv, Occupied
    <3>2. ~ (Failures + tally["PASS"] + tally["SKIP"] < got)
      BY <1>7, <1>12, <1>14
    <3> QED BY <3>1, <3>2, <1>1, <1>2, <1>8, <1>9, <1>10 DEF NamedInv
  <2>3. Cardinality({t \in Tests : Clean(t)}) = tally["PASS"]
    BY <1>1, <1>11, <1>13 DEF TallyInv
  <2> QED BY <2>1, <2>2, <2>3, <1>3, <1>14
<1>15. VerdictHonest'
  <2> SUFFICES ASSUME exit' = 0
               PROVE  /\ \A t \in Tests : t \in Named' \/ outcome'[t] # NotRun => Clean(t)' \/ IsSkip(t)'
                      /\ jobs' = Cardinality({t \in Tests : Clean(t)})' + tally'["SKIP"]
    BY DEF VerdictHonest
  <2>1. \A t \in Tests : (IsSkip(t)' <=> IsSkip(t)) /\ (Clean(t)' <=> Clean(t))
    BY <1>2, Stable DEF Clean
  <2>2. Named' = Named /\ {t \in Tests : Clean(t)}' = {t \in Tests : Clean(t)}
    BY <1>2, Stable DEF Clean
  <2> QED BY <2>1, <2>2, <1>2, <1>14 DEF Ran
<1>16. ReportComplete'
  <2>1. ~thread_exit => Len(xml) + Cardinality({t \in Tests : outcome[t].file = "empty"}) = jobs
    BY <1>1, <1>2, <1>7, <1>13 DEF ReportInv
  <2>2. exit' = 0 => \A i \in DOMAIN xml : xml[i].result \in {"PASS", "SKIP"}
    BY <1>1, <1>12 DEF ReportInv
  <2>3. \A i, j \in DOMAIN xml : xml[i].test = xml[j].test => i = j
    BY <1>1 DEF ReportComplete
  <2> QED BY <2>1, <2>2, <2>3, <1>2 DEF ReportComplete, thread_exit
<1> QED BY <1>4, <1>5, <1>6, <1>15, <1>16 DEF IInv

LEMMA NotDone ==
  ASSUME main' # "done", Distinct(xml)'
  PROVE  VerdictHonest' /\ ReportComplete'
BY DEF VerdictHonest, ReportComplete, Distinct

-----------------------------------------------------------------------------
(* The main thread fills the input queue *)

LEMMA PrepareKeeps ==
  ASSUME IInv, Prepare
  PROVE  IInv'
<1>1. TypeOK /\ Accounted /\ PhaseInv /\ JobInv
  BY Parts
<1>2. /\ main = "list" /\ main' = "dispatch" /\ exit' = exit
      /\ worker' = [w \in Workers |-> [pc |-> "get", job |-> NoJob]]
      /\ UNCHANGED <<options, input_queue, output_queue, sigint, jobs, got, tally, xml, outcome>>
  BY DEF Prepare, Queues, Results
<1>3. /\ input_queue = << >> /\ output_queue = << >> /\ xml = << >> /\ jobs = 0 /\ got = 0
      /\ \A t \in Tests : ~Ran(t)
      /\ \A w \in Workers : worker[w].pc = "off"
  BY <1>1, <1>2 DEF PhaseInv
<1>4. PICK suites \in SuiteLists : todo' = suites \cup ExampleList \cup PyExampleList
  BY DEF Prepare
<1>5. /\ options.suite \in Suites \cup {None} /\ options.example \in Examples \cup {None}
      /\ options.pyexample \in PyExamples \cup {None}
  BY <1>1 DEF TypeOK, Options
<1>6. ExampleList \subseteq Tests /\ PyExampleList \subseteq Tests
  BY <1>5 DEF ExampleList, PyExampleList, Tests
<1>7. suites \subseteq Suites /\ {options.suite} \ {None} \subseteq suites
  <2>1. CASE options.suite # None
    BY <2>1, <1>5 DEF SuiteLists
  <2>2. CASE options.suite = None
    BY <2>2, <1>4 DEF SuiteLists, Listed
  <2> QED BY <2>1, <2>2
<1>8. todo' \subseteq Tests /\ Named \subseteq todo'
  BY <1>4, <1>6, <1>7 DEF Tests, Named
<1>9. thread_exit => thread_exit'
  BY <1>2 DEF thread_exit
<1>10. /\ Back' = Back /\ Reported' = Reported /\ (\A t : Ran(t)' <=> Ran(t))
       /\ Distinct(output_queue)' /\ Distinct(xml)'
       /\ ResultInv' /\ TallyInv' /\ ReportInv'
  BY <1>2, <1>9, ResultsKept
<1>11. \A w \in Workers : worker'[w].pc = "get"
  BY <1>2
<1>12. Busy' = {} /\ Held' = {} /\ Occupied' = {}
  BY <1>11 DEF Busy, Held, Occupied
<1>13. Queued' = {} /\ Back' = {} /\ Reported' = {}
  BY <1>2, <1>3 DEF Queued, Back, Reported
<1>14. TypeOK'
  <2>1. worker' \in [Workers -> [pc: {"off", "get", "check", "run", "exited", "dead"},
                                job: Jobs \cup {NoJob}]]
    BY <1>2
  <2> QED BY <2>1, <1>1, <1>2, <1>8 DEF TypeOK
<1>15. Accounted'
  <2>1. Occupied = {}
    BY <1>3 DEF Occupied
  <2> QED BY <2>1, <1>1, <1>2, <1>12 DEF Accounted, Count
<1>16. PhaseInv'
  <2>1. Cardinality(todo') <= Cardinality(Tests) /\ Cardinality(todo') \in Nat
    BY <1>8, FiniteAssumption, FS_Subset, FS_CardinalityType
  <2> QED BY <2>1, <1>2, <1>3 DEF PhaseInv
<1>17. PlaceInv'
  <2>1. OnceQueued' /\ OnceHeld'
    BY <1>2, <1>3, <1>12 DEF OnceQueued, OnceHeld
  <2>2. \A t \in todo' : ~Ran(t)'
    BY <1>3, <1>8, <1>10
  <2> QED BY <2>1, <2>2, <1>10, <1>12, <1>13 DEF PlaceInv
<1>18. JobInv'
  BY <1>2, <1>3, <1>10, <1>12 DEF JobInv, HeldInv, QueuedInv
<1>19. NamedInv'
  <2>1. Named' = Named
    BY <1>2, Stable
  <2> QED BY <2>1, <1>8 DEF NamedInv
<1> QED BY <1>2, <1>10, <1>14, <1>15, <1>16, <1>17, <1>18, <1>19, NoneLostNext, NotDone DEF IInv

LEMMA DispatchKeeps ==
  ASSUME IInv, Dispatch
  PROVE  IInv'
<1>1. TypeOK /\ Accounted /\ PhaseInv /\ PlaceInv /\ JobInv /\ NamedInv
  BY Parts
<1>2. PICK t \in todo : input_queue' = Append(input_queue, Job(t)) /\ todo' = todo \ {t}
  BY DEF Dispatch
<1>3. /\ main = "dispatch" /\ main' = main /\ jobs' = jobs + 1 /\ exit' = exit
      /\ UNCHANGED <<options, output_queue, worker, sigint, got, tally, xml, outcome>>
  BY DEF Dispatch, Results
<1>4. t \in Tests /\ todo \subseteq Tests
  BY <1>1 DEF TypeOK
<1>5. Job(t) \in Jobs /\ Job(t).test = t /\ ~Job(t).broken /\ Job(t).file = "none"
  BY <1>4, NewJob
<1>6. t \notin Queued /\ t \notin Held /\ t \notin Back /\ t \notin Reported /\ OnceQueued
  BY <1>1 DEF PlaceInv
<1>7. /\ input_queue' \in Seq(Jobs \cup {BreakJob})
      /\ Queued' = Queued \cup {t} /\ OnceQueued'
      /\ Count(input_queue', Unbroken) = Count(input_queue, Unbroken) + 1
      /\ \A i \in DOMAIN input_queue' :
            input_queue'[i] = Job(t) \/ \E k \in DOMAIN input_queue : input_queue'[i] = input_queue[k]
  BY <1>1, <1>2, <1>5, <1>6, QueuedAppend
<1>8. thread_exit => thread_exit'
  BY <1>3 DEF thread_exit
<1>9. /\ Back' = Back /\ Reported' = Reported /\ (\A u : Ran(u)' <=> Ran(u))
      /\ Distinct(output_queue)' /\ Distinct(xml)'
      /\ ResultInv' /\ TallyInv' /\ ReportInv'
  BY <1>3, <1>8, ResultsKept
<1>10. Busy' = Busy /\ Held' = Held /\ Occupied' = Occupied /\ OnceHeld'
  BY <1>1, <1>3 DEF Busy, Held, Occupied, PlaceInv, OnceHeld
<1>11. /\ IsFiniteSet(todo) /\ Cardinality(todo) \in Nat \ {0}
       /\ Cardinality(todo') = Cardinality(todo) - 1
  <2>1. IsFiniteSet(todo) /\ Cardinality(todo) \in Nat
    BY <1>4, FiniteAssumption, FS_Subset, FS_CardinalityType
  <2>2. Cardinality(todo) # 0
    BY <2>1, FS_EmptySet
  <2> QED BY <2>1, <2>2, <1>2, FS_RemoveElement
<1>12. jobs \in Nat /\ got \in Nat /\ got <= jobs /\ Cardinality(Tests) \in Nat
       /\ jobs + Cardinality(todo) <= Cardinality(Tests)
  BY <1>1, Types DEF PhaseInv
<1>13. TypeOK'
  <2>1. jobs' \in 0 .. Cardinality(Tests) /\ got' \in 0 .. jobs'
    BY <1>3, <1>11, <1>12
  <2>2. tally' \in [Statuses -> 0 .. jobs']
    BY <1>1, <1>3, <1>12, Types
  <2> QED BY <2>1, <2>2, <1>1, <1>2, <1>3, <1>7 DEF TypeOK
<1>14. Accounted'
  <2>1. /\ Count(input_queue, Unbroken) \in Nat /\ Cardinality(Occupied) \in Nat
        /\ Len(output_queue) \in Nat
    BY <1>1, Types, CountType, OccupiedType, LenProperties
  <2> QED BY <2>1, <1>1, <1>3, <1>7, <1>10, <1>12 DEF Accounted
<1>15. PhaseInv'
  BY <1>1, <1>3, <1>11, <1>12 DEF PhaseInv
<1>16. PlaceInv'
  BY <1>1, <1>2, <1>6, <1>7, <1>9, <1>10 DEF PlaceInv
<1>17. HeldInv'
  BY <1>1, <1>3, HeldKept DEF JobInv
<1>18. QueuedInv'
  BY <1>1, <1>5, <1>7 DEF JobInv, QueuedInv
<1>19. NamedInv'
  <2>1. Named' = Named
    BY <1>3, Stable
  <2>2. \A u : IsSkip(u)' <=> IsSkip(u)
    BY <1>3 DEF IsSkip, Unselected
  <2>3. todo' \cup Queued' = todo \cup Queued
    BY <1>2, <1>7
  <2> QED BY <2>1, <2>2, <2>3, <1>1, <1>3, <1>9, <1>10 DEF NamedInv, Failures
<1> QED BY <1>3, <1>9, <1>13, <1>14, <1>15, <1>16, <1>17, <1>18, <1>19, NoneLostNext, NotDone
        DEF IInv, JobInv

LEMMA QueueBreaksKeeps ==
  ASSUME IInv, QueueBreaks
  PROVE  IInv'
<1>1. TypeOK /\ Accounted /\ PhaseInv /\ PlaceInv /\ JobInv /\ NamedInv
  BY Parts
<1>2. /\ main = "dispatch" /\ main' = "collect" /\ todo = {} /\ exit' = exit
      /\ input_queue' = input_queue \o BreakJobs
      /\ UNCHANGED <<options, todo, output_queue, worker, sigint, jobs, got, tally, xml, outcome>>
  BY DEF QueueBreaks, Results
<1>3. /\ input_queue' \in Seq(Jobs \cup {BreakJob}) /\ OnceQueued' /\ Queued' = Queued
      /\ Count(input_queue', Unbroken) = Count(input_queue, Unbroken)
      /\ \A i \in DOMAIN input_queue' :
            \/ input_queue'[i] = BreakJob
            \/ \E k \in DOMAIN input_queue : input_queue'[i] = input_queue[k]
  BY <1>1, <1>2, QueuedBreaks DEF PlaceInv
<1>4. thread_exit => thread_exit'
  BY <1>2 DEF thread_exit
<1>5. /\ Back' = Back /\ Reported' = Reported /\ (\A u : Ran(u)' <=> Ran(u))
      /\ Distinct(output_queue)' /\ Distinct(xml)'
      /\ ResultInv' /\ TallyInv' /\ ReportInv'
  BY <1>2, <1>4, ResultsKept
<1>6. Busy' = Busy /\ Held' = Held /\ Occupied' = Occupied /\ OnceHeld'
  BY <1>1, <1>2 DEF Busy, Held, Occupied, PlaceInv, OnceHeld
<1>7. TypeOK'
  BY <1>1, <1>2, <1>3 DEF TypeOK
<1>8. Accounted'
  BY <1>1, <1>2, <1>3, <1>6 DEF Accounted
<1>9. PhaseInv'
  BY <1>1, <1>2 DEF PhaseInv
<1>10. PlaceInv'
  BY <1>1, <1>2, <1>3, <1>5, <1>6 DEF PlaceInv
<1>11. HeldInv'
  BY <1>1, <1>2, HeldKept DEF JobInv
<1>12. QueuedInv'
  BY <1>1, <1>3, BreakFacts DEF JobInv, QueuedInv
<1>13. NamedInv'
  <2>1. Named' = Named
    BY <1>2, Stable
  <2>2. \A u : IsSkip(u)' <=> IsSkip(u)
    BY <1>2 DEF IsSkip, Unselected
  <2> QED BY <2>1, <2>2, <1>1, <1>2, <1>3, <1>5, <1>6 DEF NamedInv, Failures
<1> QED BY <1>2, <1>5, <1>7, <1>8, <1>9, <1>10, <1>11, <1>12, <1>13, NoneLostNext, NotDone
        DEF IInv, JobInv

-----------------------------------------------------------------------------
(* The worker threads *)

LEMMA WorkerPhase ==
  ASSUME IInv, NEW w \in Workers, worker[w].pc \in {"get", "check", "run"},
         UNCHANGED <<main, todo, jobs>>
  PROVE  PhaseInv' /\ main' # "done"
<1>1. PhaseInv
  BY Parts
<1> QED BY <1>1 DEF PhaseInv

(* what a worker holds is known to be a test that has not run *)
LEMMA HeldFacts ==
  ASSUME IInv, NEW w \in Busy
  PROVE  /\ w \in Workers /\ worker[w].pc \in {"check", "run"}
         /\ worker[w].job \in Jobs /\ worker[w].job.test \in Tests /\ ~worker[w].job.broken
         /\ worker[w].job.file = "none" /\ worker[w].job.test \in Held
         /\ outcome[worker[w].job.test] = NotRun
         /\ worker[w].pc = "run" => ~IsSkip(worker[w].job.test)
         /\ worker[w].job.test \notin todo \cup Queued \cup Back \cup Reported
<1>1. TypeOK /\ HeldInv /\ PlaceInv
  BY Parts DEF JobInv
<1>2. w \in Workers /\ worker[w].pc \in {"check", "run"} /\ worker[w].job.test \in Held
  BY DEF Busy, Held
<1>3. /\ worker[w].job.test \in Tests /\ ~worker[w].job.broken
      /\ worker[w].job.file = "none"
      /\ worker[w].pc = "run" => ~IsSkip(worker[w].job.test)
  BY <1>1 DEF HeldInv
<1>4. worker[w].job \in Jobs \cup {NoJob}
  BY <1>1, <1>2, Types
<1>5. worker[w].job # NoJob
  BY <1>3, TestsAssumption DEF NoJob, Job
<1>6. outcome[worker[w].job.test] = NotRun
  BY <1>1, <1>2 DEF PlaceInv, Ran
<1>7. worker[w].job.test \notin todo \cup Queued \cup Back \cup Reported
  BY <1>1, <1>2 DEF PlaceInv
<1> QED BY <1>2, <1>3, <1>4, <1>5, <1>6, <1>7

(* the workers that keep what they hold *)
LEMMA HeldRest ==
  ASSUME HeldInv, options' = options, Busy' \subseteq Busy,
         \A v \in Busy' : worker'[v] = worker[v]
  PROVE  HeldInv'
<1> SUFFICES ASSUME NEW v \in Busy'
             PROVE  /\ worker'[v].job.test \in Tests /\ ~worker'[v].job.broken
                    /\ worker'[v].job.file = "none"
                    /\ worker'[v].pc = "run" => ~IsSkip(worker[v].job.test)'
  BY DEF HeldInv
<1>1. /\ worker[v].job.test \in Tests /\ ~worker[v].job.broken
      /\ worker[v].job.file = "none"
      /\ worker[v].pc = "run" => ~IsSkip(worker[v].job.test)
  BY DEF HeldInv
<1>2. worker'[v] = worker[v]
  OBVIOUS
<1>3. IsSkip(worker[v].job.test)' <=> IsSkip(worker[v].job.test)
  BY <1>2 DEF IsSkip, Unselected
<1> QED BY <1>1, <1>2, <1>3

LEMMA QueuedTests ==
  ASSUME TypeOK
  PROVE  Queued \subseteq Tests
<1>1. input_queue \in Seq(Jobs \cup {BreakJob})
  BY Types
<1>2. \A i \in DOMAIN input_queue : input_queue[i] \in Jobs \cup {BreakJob}
  BY <1>1, LenProperties
<1>3. \A i \in DOMAIN input_queue : ~input_queue[i].broken => input_queue[i].test \in Tests
  BY <1>2, BreakFacts DEF Jobs
<1> QED BY <1>3 DEF Queued

LEMMA NamedTests ==
  ASSUME TypeOK
  PROVE  Named \subseteq Tests
<1>1. /\ options.suite \in Suites \cup {None} /\ options.example \in Examples \cup {None}
      /\ options.pyexample \in PyExamples \cup {None}
  BY DEF TypeOK, Options
<1> QED BY <1>1 DEF Named, ExampleList, PyExampleList, Tests

LEMMA AddedOne ==
  ASSUME NEW C, IsFiniteSet(C), NEW D, NEW t, t \notin C, D = C \cup {t}
  PROVE  Cardinality(D) = Cardinality(C) + 1 /\ Cardinality(C) \in Nat
BY FS_AddElement, FS_CardinalityType

(* a job goes back, run or not *)
LEMMA ReturnKeeps ==
  ASSUME IInv, NEW w \in Busy, NEW t, t = worker[w].job.test, NEW j \in Jobs, j.test = t,
         output_queue' = Append(output_queue, j), worker' = [worker EXCEPT ![w] = Idle],
         UNCHANGED <<options, main, todo, input_queue, sigint, jobs, got, tally, xml, exit>>,
         outcome' \in [Tests -> Outcomes \cup {NotRun}],
         \A u \in Tests : u # t => outcome'[u] = outcome[u],
         Truthful(j)', Ran(t)' => outcome'[t] \in Programs(t)' /\ ~IsSkip(t)',
         j \in Passing <=> Clean(t)', j \in Empty <=> outcome'[t].file = "empty"
  PROVE  IInv'
<1>1. /\ TypeOK /\ Accounted /\ PhaseInv /\ PlaceInv /\ HeldInv /\ QueuedInv /\ ResultInv
      /\ TallyInv /\ NamedInv /\ ReportInv
  BY Parts DEF JobInv
<1>2. /\ w \in Workers /\ t \in Tests /\ t \in Held /\ outcome[t] = NotRun
      /\ t \notin todo \cup Queued \cup Back \cup Reported
      /\ worker[w].pc \in {"get", "check", "run"}
  BY HeldFacts
<1>3. PhaseInv' /\ main' # "done"
  BY <1>2, WorkerPhase
<1>4. /\ output_queue' \in Seq(Jobs) /\ Len(output_queue') = Len(output_queue) + 1
      /\ Len(output_queue) \in Nat
      /\ Back' = Back \cup {t} /\ Distinct(output_queue)'
      /\ DOMAIN output_queue' = DOMAIN output_queue \cup {Len(output_queue')}
      /\ \A i \in DOMAIN output_queue : output_queue'[i] = output_queue[i]
      /\ output_queue'[Len(output_queue')] = j
  BY <1>1, <1>2, BackAppend DEF PlaceInv
<1>5. /\ worker' \in [Workers -> WorkerStates] /\ Busy' = Busy \ {w}
      /\ \A v \in Workers : v # w => worker'[v] = worker[v]
      /\ Held' = Held \ {t} /\ OnceHeld'
      /\ Cardinality(Occupied') = Cardinality(Occupied) - 1
      /\ worker'[w].pc = "get"
  <2>1. PICK pc \in {"get", "dead"} : pc = "get"
    OBVIOUS
  <2>2. worker' = [worker EXCEPT ![w] = [pc |-> pc, job |-> NoJob]] /\ OnceHeld
    BY <2>1, <1>1 DEF Idle, PlaceInv
  <2>3. /\ worker' \in [Workers -> WorkerStates] /\ Busy' = Busy \ {w}
        /\ worker'[w] = [pc |-> pc, job |-> NoJob]
        /\ \A v \in Workers : v # w => worker'[v] = worker[v]
        /\ Held' = Held \ {worker[w].job.test} /\ OnceHeld'
        /\ Cardinality(Occupied') = IF pc = "get" THEN Cardinality(Occupied) - 1
                                    ELSE Cardinality(Occupied)
    BY <2>2, <1>1, WorkerLeaves
  <2>4. worker'[w].pc = "get"
    BY <2>1, <2>3
  <2> QED BY <2>1, <2>3, <2>4
<1>6. Queued' = Queued /\ Reported' = Reported /\ OnceQueued' /\ Distinct(xml)'
  BY <1>1 DEF Queued, Reported, PlaceInv, OnceQueued, Distinct
<1>7. TypeOK'
  BY <1>1, <1>4, <1>5 DEF TypeOK, WorkerStates
<1>8. Accounted'
  <2>1. /\ Count(input_queue, Unbroken) \in Nat /\ Cardinality(Occupied) \in Nat /\ got \in Nat
    BY <1>1, Types, CountType, OccupiedType
  <2>2. Count(input_queue', Unbroken) = Count(input_queue, Unbroken)
    OBVIOUS
  <2> QED BY <2>1, <2>2, <1>1, <1>4, <1>5 DEF Accounted
<1>9. \A u \in Tests : u # t => (Ran(u)' <=> Ran(u)) /\ (Clean(u)' <=> Clean(u))
  BY DEF Ran, Clean
<1>10. PlaceInv'
  <2>1. todo' = todo /\ todo \subseteq Tests /\ Queued \subseteq Tests /\ Held \subseteq Tests
    <3>1. todo \subseteq Tests
      BY <1>1 DEF TypeOK
    <3>2. Held \subseteq Tests
      BY <1>1 DEF Held, HeldInv
    <3>3. Queued \subseteq Tests
      BY <1>1, QueuedTests
    <3> QED BY <3>1, <3>2, <3>3
  <2>2. \A u \in todo' \cup Queued' \cup Held' : ~Ran(u)'
    BY <2>1, <1>1, <1>2, <1>5, <1>6, <1>9 DEF PlaceInv
  <2> QED BY <2>1, <2>2, <1>1, <1>2, <1>4, <1>5, <1>6 DEF PlaceInv
<1>11. HeldInv'
  BY <1>1, <1>5, HeldRest
<1>12. QueuedInv'
  BY <1>1 DEF QueuedInv
<1>13. ResultInv'
  <2>1. ASSUME NEW i \in DOMAIN output_queue' PROVE Truthful(output_queue[i])'
    <3>1. CASE i \in DOMAIN output_queue
      <4>1. PICK k \in Jobs : k = output_queue[i] /\ k = output_queue'[i] /\ k.test \in Tests
        BY <3>1, <1>1, <1>4, JobsBack
      <4>2. k.test # t
        BY <4>1, <3>1, <1>2 DEF Back
      <4>3. Truthful(k)
        BY <4>1, <3>1, <1>1 DEF ResultInv
      <4>4. (IsSkip(k.test)' <=> IsSkip(k.test)) /\ outcome'[k.test] = outcome[k.test]
        BY <4>1, <4>2, Stable
      <4>5. Truthful(k)'
        BY <4>3, <4>4 DEF Truthful, Ran, thread_exit
      <4> QED BY <4>1, <4>5
    <3>2. CASE i = Len(output_queue')
      <4>1. output_queue'[i] = j
        BY <3>2, <1>4
      <4> QED BY <4>1
    <3> QED BY <3>1, <3>2, <1>4
  <2>2. ASSUME NEW u \in Tests, Ran(u)' PROVE outcome'[u] \in Programs(u)' /\ ~IsSkip(u)'
    <3>1. CASE u = t
      BY <3>1, <2>2
    <3>2. CASE u # t
      BY <3>2, <2>2, <1>1, <1>9, Stable DEF ResultInv
    <3> QED BY <3>1, <3>2
  <2> QED BY <2>1, <2>2 DEF ResultInv
<1>14. TallyInv'
  <2> DEFINE C == {u \in Tests : Clean(u)}
             D == {u \in Tests : Clean(u)'}
  <2>1. Failures' = Failures /\ tally' = tally /\ got' = got /\ (thread_exit' <=> thread_exit)
    BY DEF Failures, thread_exit
  <2>2. \A u \in Tests : Ran(u)' => u \in Back' \/ Clean(u)' \/ Failures' > 0
    BY <2>1, <1>1, <1>4, <1>9 DEF TallyInv
  <2>3. t \notin C /\ IsFiniteSet(C)
    <3>1. t \notin C
      BY <1>2 DEF Clean, NotRun
    <3>2. C \in SUBSET Tests
      OBVIOUS
    <3> QED BY <3>1, <3>2, FiniteAssumption, FS_Subset
  <2>4. D = IF j \in Passing THEN C \cup {t} ELSE C
    BY <2>3, <1>2, <1>9
  <2>5. Passing' = Passing
    BY Stable
  <2>6. output_queue \in Seq(Jobs)
    BY <1>1, Types
  <2>7. Count(output_queue', Passing) = Count(output_queue, Passing) + (IF j \in Passing THEN 1 ELSE 0)
    <3>1. Count(output_queue, Passing) \in Nat
      BY <2>6, CountType
    <3> QED BY <3>1, <2>6, CountAppend
  <2>8. Cardinality(D) = Cardinality(C) + (IF j \in Passing THEN 1 ELSE 0) /\ Cardinality(C) \in Nat
    <3> HIDE DEF C, D
    <3>1. Cardinality(C) \in Nat
      BY <2>3, FS_CardinalityType
    <3>2. CASE j \in Passing
      <4>1. D = C \cup {t}
        BY <3>2, <2>4
      <4>2. Cardinality(D) = Cardinality(C) + 1
        BY <4>1, <2>3, AddedOne
      <4> QED BY <3>1, <3>2, <4>2
    <3>3. CASE j \notin Passing
      BY <3>1, <3>3, <2>4
    <3> QED BY <3>2, <3>3
  <2>9. Cardinality(C) = tally["PASS"] + Count(output_queue, Passing)
    BY <1>1 DEF TallyInv
  <2>10. Count(output_queue, Passing) \in Nat /\ tally["PASS"] \in Nat
    BY <2>6, <1>1, CountType, Types DEF Statuses
  <2>11. Cardinality(D) = tally'["PASS"] + Count(output_queue', Passing')
    <3> HIDE DEF C, D
    <3> QED BY <2>1, <2>5, <2>7, <2>8, <2>9, <2>10
  <2> QED BY <2>1, <2>2, <2>11, <1>1 DEF TallyInv
<1>15. NamedInv'
  <2>1. Named' = Named /\ (\A u : IsSkip(u)' <=> IsSkip(u))
    BY Stable DEF IsSkip, Unselected
  <2>2. Named \subseteq Tests
    BY <1>1, NamedTests
  <2>3. (\E v \in Workers : worker[v].pc = "dead") => \E v \in Workers : worker'[v].pc = "dead"
    BY <1>2, <1>5
  <2>4. Failures' = Failures
    BY DEF Failures
  <2>5. ASSUME main' \in {"dispatch", "collect"}, NEW u \in Named
        PROVE  \/ u \in todo' \cup Queued' \cup Held' \cup Back' \/ Ran(u)' \/ IsSkip(u)'
               \/ Failures' + tally'["PASS"] + tally'["SKIP"] < got'
               \/ \E v \in Workers : worker'[v].pc = "dead"
    <3>1. CASE u = t
      BY <3>1, <1>4
    <3>2. CASE u # t
      <4>1. \/ u \in todo \cup Queued \cup Held \cup Back \/ Ran(u) \/ IsSkip(u)
            \/ Failures + tally["PASS"] + tally["SKIP"] < got
            \/ \E v \in Workers : worker[v].pc = "dead"
        BY <2>5, <1>1 DEF NamedInv
      <4>2. Ran(u)' <=> Ran(u)
        BY <3>2, <2>2, <1>9
      <4> QED BY <4>1, <4>2, <3>2, <2>1, <2>3, <2>4, <1>4, <1>5, <1>6
    <3> QED BY <3>1, <3>2
  <2> QED BY <2>1, <2>5 DEF NamedInv
<1>16. ReportInv'
  <2> DEFINE C == {u \in Tests : outcome[u].file = "empty"}
             D == {u \in Tests : outcome'[u].file = "empty"}
  <2>1. Failures' = Failures /\ (thread_exit' <=> thread_exit)
    BY DEF Failures, thread_exit
  <2>2. t \notin C /\ IsFiniteSet(C)
    <3>1. t \notin C
      BY <1>2 DEF NotRun
    <3>2. C \in SUBSET Tests
      OBVIOUS
    <3> QED BY <3>1, <3>2, FiniteAssumption, FS_Subset
  <2>3. D = IF j \in Empty THEN C \cup {t} ELSE C
    BY <2>2, <1>2
  <2>4. output_queue \in Seq(Jobs)
    BY <1>1, Types
  <2>5. Count(output_queue, Empty) \in Nat
    BY <2>4, CountType
  <2>6. Count(output_queue', Empty) = Count(output_queue, Empty) + (IF j \in Empty THEN 1 ELSE 0)
    BY <2>4, <2>5, CountAppend
  <2>7. Cardinality(D) = Cardinality(C) + (IF j \in Empty THEN 1 ELSE 0) /\ Cardinality(C) \in Nat
    <3> HIDE DEF C, D
    <3>1. Cardinality(C) \in Nat
      BY <2>2, FS_CardinalityType
    <3>2. CASE j \in Empty
      <4>1. D = C \cup {t}
        BY <3>2, <2>3
      <4>2. Cardinality(D) = Cardinality(C) + 1
        BY <4>1, <2>2, AddedOne
      <4> QED BY <3>1, <3>2, <4>2
    <3>3. CASE j \notin Empty
      BY <3>1, <3>3, <2>3
    <3> QED BY <3>2, <3>3
  <2>8. ~thread_exit /\ main # "raised" => Len(xml) + Cardinality(C) = got + Count(output_queue, Empty)
    BY <1>1 DEF ReportInv
  <2>9. Len(xml) \in Nat /\ got \in Nat
    BY <1>1, Types, LenProperties
  <2>10. ~thread_exit' /\ main' # "raised" => Len(xml') + Cardinality(D) = got' + Count(output_queue', Empty)
    <3> HIDE DEF C, D
    <3>1. UNCHANGED <<xml, got, main>>
      OBVIOUS
    <3>2. SUFFICES ASSUME ~thread_exit' /\ main' # "raised"
                   PROVE  Len(xml') + Cardinality(D) = got' + Count(output_queue', Empty)
      OBVIOUS
    <3>3. Len(xml) + Cardinality(C) = got + Count(output_queue, Empty)
      BY <3>1, <3>2, <2>1, <2>8
    <3>4. CASE j \in Empty
      <4>1. Cardinality(D) = Cardinality(C) + 1 /\ Cardinality(C) \in Nat
        BY <3>4, <2>7
      <4>2. Count(output_queue', Empty) = Count(output_queue, Empty) + 1
        BY <3>4, <2>6
      <4>3. Len(xml') = Len(xml) /\ got' = got
        BY <3>1
      <4>4. PICK x, c, g, q \in Nat : /\ x = Len(xml) /\ c = Cardinality(C) /\ g = got
                                      /\ q = Count(output_queue, Empty)
        BY <4>1, <2>5, <2>9
      <4>5. x + c = g + q
        BY <4>4, <3>3
      <4>6. x + (c + 1) = g + (q + 1)
        BY <4>5
      <4> QED BY <4>1, <4>2, <4>3, <4>4, <4>6
    <3>5. CASE j \notin Empty
      <4>1. Cardinality(D) = Cardinality(C) /\ Cardinality(C) \in Nat
        BY <3>5, <2>7
      <4>2. Count(output_queue', Empty) = Count(output_queue, Empty)
        BY <3>5, <2>5, <2>6
      <4> QED BY <4>1, <4>2, <3>1, <3>3
    <3> QED BY <3>4, <3>5
  <2>11. Empty' = Empty
    BY DEF Empty
  <2> QED BY <2>1, <2>10, <2>11, <1>1 DEF ReportInv
<1> QED BY <1>3, <1>6, <1>7, <1>8, <1>10, <1>11, <1>12, <1>13, <1>14, <1>15, <1>16,
           NoneLostNext, NotDone DEF IInv, JobInv

(* a worker moves on, and no result comes back *)
LEMMA MoveKeeps ==
  ASSUME IInv, NEW w \in Workers, worker[w].pc \in {"get", "check", "run"},
         UNCHANGED <<options, main, todo, output_queue, sigint, jobs, got, tally, xml, exit, outcome>>,
         input_queue' \in Seq(Jobs \cup {BreakJob}), worker' \in [Workers -> WorkerStates],
         OnceQueued', OnceHeld', QueuedInv', HeldInv',
         Queued' \cap Held' = {}, Queued' \cup Held' \subseteq Queued \cup Held,
         \/ Queued \cup Held \subseteq Queued' \cup Held'
         \/ worker'[w].pc = "dead",
         \A v \in Workers : v # w => worker'[v] = worker[v],
         Count(input_queue', Unbroken) + Cardinality(Occupied')
             = Count(input_queue, Unbroken) + Cardinality(Occupied)
  PROVE  IInv'
<1>1. TypeOK /\ Accounted /\ PhaseInv /\ PlaceInv /\ NamedInv
  BY Parts
<1>2. PhaseInv' /\ main' # "done"
  BY WorkerPhase
<1>3. thread_exit => thread_exit'
  BY DEF thread_exit
<1>4. /\ Back' = Back /\ Reported' = Reported /\ (\A t : Ran(t)' <=> Ran(t))
      /\ Distinct(output_queue)' /\ Distinct(xml)'
      /\ ResultInv' /\ TallyInv' /\ ReportInv'
  BY <1>3, ResultsKept
<1>5. TypeOK'
  BY <1>1 DEF TypeOK, WorkerStates
<1>6. Accounted'
  BY <1>1 DEF Accounted
<1>7. PlaceInv'
  BY <1>1, <1>4 DEF PlaceInv
<1>8. NamedInv'
  <2>1. Named' = Named /\ (\A u : IsSkip(u)' <=> IsSkip(u))
    BY Stable DEF IsSkip, Unselected
  <2>2. (\E v \in Workers : worker[v].pc = "dead") => \E v \in Workers : worker'[v].pc = "dead"
    OBVIOUS
  <2>3. Failures' = Failures
    BY DEF Failures
  <2> QED BY <2>1, <2>2, <2>3, <1>1, <1>4 DEF NamedInv
<1> QED BY <1>2, <1>4, <1>5, <1>6, <1>7, <1>8, NoneLostNext, NotDone DEF IInv, JobInv

LEMMA GetKeeps ==
  ASSUME IInv, NEW w \in Workers, Get(w)
  PROVE  IInv'
<1>1. /\ TypeOK /\ PlaceInv /\ HeldInv /\ QueuedInv /\ OnceQueued /\ OnceHeld
      /\ Queued \cap Held = {}
  BY Parts DEF JobInv, PlaceInv
<1>2. /\ worker[w].pc = "get" /\ input_queue # << >> /\ input_queue' = Tail(input_queue)
      /\ UNCHANGED <<options, main, todo, output_queue, sigint, jobs, got, tally, xml, exit, outcome>>
  BY DEF Get, Results
<1>3. PICK h : h = Head(input_queue)
  OBVIOUS
<1>4. /\ input_queue' \in Seq(Jobs \cup {BreakJob}) /\ OnceQueued'
      /\ h \in Jobs \cup {BreakJob} /\ h = input_queue[1] /\ 1 \in DOMAIN input_queue
      /\ h.broken =>
            Queued' = Queued /\ Count(input_queue', Unbroken) = Count(input_queue, Unbroken)
      /\ ~h.broken =>
            /\ h.test \in Queued /\ Queued' = Queued \ {h.test}
            /\ Count(input_queue, Unbroken) = Count(input_queue', Unbroken) + 1
      /\ \A i \in DOMAIN input_queue' :
            i + 1 \in DOMAIN input_queue /\ input_queue'[i] = input_queue[i + 1]
  BY <1>1, <1>2, <1>3, QueuedTail
<1>5. QueuedInv'
  BY <1>1, <1>4 DEF QueuedInv
<1>6. Count(input_queue', Unbroken) \in Nat /\ Cardinality(Occupied) \in Nat
  BY <1>4, CountType, OccupiedType
<1>7. CASE h.broken
  <2>1. PICK r \in WorkerStates : r = [pc |-> "exited", job |-> NoJob]
    BY DEF WorkerStates
  <2>2. worker' = [worker EXCEPT ![w] = r] /\ r.pc = "exited"
    BY <2>1, <1>3, <1>7 DEF Get
  <2>3. /\ worker' \in [Workers -> WorkerStates] /\ Busy' = Busy /\ Held' = Held /\ OnceHeld'
        /\ \A v \in Workers : v # w => worker'[v] = worker[v]
        /\ Cardinality(Occupied') = Cardinality(Occupied)
    BY <2>2, <1>1, <1>2, WorkerSteps
  <2>4. w \notin Busy /\ Busy \subseteq Workers
    BY <1>2 DEF Busy
  <2>5. HeldInv'
    BY <2>3, <2>4, <1>1, <1>2, HeldRest
  <2> QED BY <2>3, <2>5, <1>1, <1>2, <1>4, <1>5, <1>7, MoveKeeps
<1>8. CASE ~h.broken
  <2>1. h \in Jobs /\ h.file = "none" /\ h.test \in Tests
    <3>1. h \in Jobs
      BY <1>4, <1>8, BreakFacts
    <3>2. h.file = "none"
      BY <1>1, <1>4 DEF QueuedInv
    <3> QED BY <3>1, <3>2 DEF Jobs
  <2>2. h.test \notin Held
    BY <1>1, <1>4, <1>8
  <2>3. worker' = [worker EXCEPT ![w] = [pc |-> "check", job |-> h]]
    BY <1>3, <1>8 DEF Get
  <2>4. /\ worker' \in [Workers -> WorkerStates] /\ Busy' = Busy \cup {w} /\ w \notin Busy
        /\ worker'[w] = [pc |-> "check", job |-> h]
        /\ \A v \in Workers : v # w => worker'[v] = worker[v]
        /\ Held' = Held \cup {h.test} /\ OnceHeld'
        /\ Cardinality(Occupied') = Cardinality(Occupied) + 1
    BY <2>1, <2>2, <2>3, <1>1, <1>2, WorkerTakes
  <2>5. HeldInv'
    <3> SUFFICES ASSUME NEW v \in Busy'
                 PROVE  /\ worker'[v].job.test \in Tests /\ ~worker'[v].job.broken
                        /\ worker'[v].job.file = "none"
                        /\ worker'[v].pc = "run" => ~IsSkip(worker[v].job.test)'
      BY DEF HeldInv
    <3>1. CASE v = w
      <4>1. worker'[v].pc = "check" /\ worker'[v].job = h
        BY <3>1, <2>4
      <4> QED BY <4>1, <2>1, <1>8
    <3>2. CASE v # w
      <4>1. v \in Busy /\ worker'[v] = worker[v]
        BY <3>2, <2>4 DEF Busy
      <4>2. /\ worker[v].job.test \in Tests /\ ~worker[v].job.broken
            /\ worker[v].job.file = "none"
            /\ worker[v].pc = "run" => ~IsSkip(worker[v].job.test)
        BY <4>1, <1>1 DEF HeldInv
      <4>3. IsSkip(worker[v].job.test)' <=> IsSkip(worker[v].job.test)
        BY <4>1, <1>2 DEF IsSkip, Unselected
      <4> QED BY <4>1, <4>2, <4>3
    <3> QED BY <3>1, <3>2
  <2> QED BY <2>4, <2>5, <1>1, <1>2, <1>4, <1>5, <1>6, <1>8, MoveKeeps
<1> QED BY <1>7, <1>8

LEMMA LaunchKeeps ==
  ASSUME IInv, NEW w \in Workers, Launch(w)
  PROVE  IInv'
<1>1. TypeOK /\ PlaceInv /\ HeldInv /\ QueuedInv /\ OnceQueued /\ OnceHeld /\ Queued \cap Held = {}
  BY Parts DEF JobInv, PlaceInv
<1>2. /\ worker[w].pc = "check" /\ ~IsSkip(worker[w].job.test)
      /\ worker' = [worker EXCEPT ![w].pc = "run"]
      /\ UNCHANGED <<options, main, todo, input_queue, output_queue, sigint, jobs, got, tally, xml,
                     exit, outcome>>
  BY DEF Launch, Queues, Results
<1>3. worker[w] \in WorkerStates
  BY <1>1, Types DEF WorkerStates
<1>4. PICK r \in WorkerStates : r.pc = "run" /\ r.job = worker[w].job /\ r = [worker[w] EXCEPT !.pc = "run"]
  BY <1>3 DEF WorkerStates
<1>5. worker' = [worker EXCEPT ![w] = r]
  BY <1>2, <1>4
<1>6. /\ worker' \in [Workers -> WorkerStates] /\ Busy' = Busy /\ Held' = Held /\ OnceHeld'
      /\ worker'[w] = r
      /\ \A v \in Workers : v # w => worker'[v] = worker[v]
      /\ \A v \in Busy : worker'[v].job = worker[v].job
      /\ Cardinality(Occupied') = Cardinality(Occupied)
  BY <1>1, <1>2, <1>4, <1>5, WorkerSteps
<1>7. HeldInv'
  <2> SUFFICES ASSUME NEW v \in Busy'
               PROVE  /\ worker'[v].job.test \in Tests /\ ~worker'[v].job.broken
                      /\ worker'[v].job.file = "none"
                      /\ worker'[v].pc = "run" => ~IsSkip(worker[v].job.test)'
    BY DEF HeldInv
  <2>1. v \in Busy /\ v \in Workers /\ worker'[v].job = worker[v].job
    BY <1>6 DEF Busy
  <2>2. /\ worker[v].job.test \in Tests /\ ~worker[v].job.broken
        /\ worker[v].job.file = "none"
        /\ worker[v].pc = "run" => ~IsSkip(worker[v].job.test)
    BY <2>1, <1>1 DEF HeldInv
  <2>3. IsSkip(worker[v].job.test)' <=> IsSkip(worker[v].job.test)
    BY <2>1, <1>2 DEF IsSkip, Unselected
  <2> QED BY <2>1, <2>2, <2>3, <1>2, <1>6
<1>8. Queued' = Queued /\ OnceQueued' /\ QueuedInv' /\ input_queue' \in Seq(Jobs \cup {BreakJob})
  BY <1>1, <1>2, Types DEF Queued, OnceQueued, QueuedInv
<1>9. Count(input_queue', Unbroken) = Count(input_queue, Unbroken)
  BY <1>2
<1> QED BY <1>1, <1>2, <1>6, <1>7, <1>8, <1>9, MoveKeeps

LEMMA DieKeeps ==
  ASSUME IInv, NEW w \in Workers, Die(w)
  PROVE  IInv'
<1>1. TypeOK /\ PlaceInv /\ HeldInv /\ QueuedInv /\ OnceQueued /\ OnceHeld /\ Queued \cap Held = {}
  BY Parts DEF JobInv, PlaceInv
<1>2. /\ worker[w].pc = "run"
      /\ UNCHANGED <<options, main, todo, input_queue, output_queue, sigint, jobs, got, tally, xml,
                     exit, outcome>>
  BY DEF Die, Queues, Results
<1>3. PICK pc \in {"get", "dead"} : pc = "dead"
  OBVIOUS
<1>4. w \in Busy /\ worker' = [worker EXCEPT ![w] = [pc |-> pc, job |-> NoJob]]
  BY <1>2, <1>3 DEF Busy, Die
<1>5. /\ worker' \in [Workers -> WorkerStates] /\ Busy' = Busy \ {w}
      /\ worker'[w].pc = "dead"
      /\ \A v \in Workers : v # w => worker'[v] = worker[v]
      /\ Held' \subseteq Held /\ OnceHeld'
      /\ Cardinality(Occupied') = Cardinality(Occupied)
  BY <1>1, <1>3, <1>4, WorkerLeaves
<1>6. HeldInv'
  <2>1. \A v \in Busy' : worker'[v] = worker[v]
    BY <1>5 DEF Busy
  <2> QED BY <2>1, <1>1, <1>2, <1>5, HeldRest
<1>7. Queued' = Queued /\ OnceQueued' /\ QueuedInv' /\ input_queue' \in Seq(Jobs \cup {BreakJob})
  BY <1>1, <1>2, Types DEF Queued, OnceQueued, QueuedInv
<1>8. Count(input_queue', Unbroken) = Count(input_queue, Unbroken)
  BY <1>2
<1> QED BY <1>1, <1>2, <1>5, <1>6, <1>7, <1>8, MoveKeeps

LEMMA MarkedBroken ==
  ASSUME NEW k \in Jobs, NEW b \in BOOLEAN, b = TRUE, NEW j, j = [k EXCEPT !.broken = b]
  PROVE  j \in Jobs /\ j.test = k.test /\ j.broken /\ j.file = k.file
<1>1. j \in Jobs /\ j.test = k.test /\ j.file = k.file
  BY DEF Jobs
<1>2. j.broken = b
  BY DEF Jobs
<1> QED BY <1>1, <1>2

LEMMA InterruptedKeeps ==
  ASSUME IInv, NEW w \in Workers, Interrupted(w)
  PROVE  IInv'
<1>1. /\ worker[w].pc = "check" /\ thread_exit
      /\ output_queue' = Append(output_queue, [worker[w].job EXCEPT !.broken = TRUE])
      /\ worker' = [worker EXCEPT ![w] = Idle]
      /\ UNCHANGED <<options, main, todo, input_queue, sigint, jobs, got, tally, xml, exit, outcome>>
  BY DEF Interrupted, Results
<1>2. w \in Busy
  BY <1>1 DEF Busy
<1>3. PICK t : t = worker[w].job.test
  OBVIOUS
<1>4. worker[w].job \in Jobs /\ t \in Tests /\ worker[w].job.file = "none" /\ outcome[t] = NotRun
  BY <1>2, <1>3, HeldFacts
<1>5. PICK j \in Jobs : /\ j = [worker[w].job EXCEPT !.broken = TRUE]
                        /\ j.test = t /\ j.broken /\ j.file = "none"
  <2>1. PICK b \in BOOLEAN : b = TRUE
    OBVIOUS
  <2>2. PICK j : j = [worker[w].job EXCEPT !.broken = b]
    OBVIOUS
  <2>3. j \in Jobs /\ j.test = t /\ j.broken /\ j.file = "none"
    BY <2>1, <2>2, <1>3, <1>4, MarkedBroken
  <2> QED BY <2>1, <2>2, <2>3
<1>6. outcome' \in [Tests -> Outcomes \cup {NotRun}]
  BY <1>1, Parts DEF TypeOK
<1>7. outcome'[t] = NotRun /\ ~Ran(t)' /\ ~Clean(t)' /\ outcome'[t].file = "none"
  BY <1>1, <1>4 DEF Ran, Clean, NotRun
<1>8. Truthful(j)'
  BY <1>1, <1>5, <1>7 DEF Truthful, thread_exit
<1>9. j \notin Passing /\ j \notin Empty
  BY <1>5 DEF Passing, Empty
<1> QED BY <1>1, <1>2, <1>3, <1>5, <1>6, <1>7, <1>8, <1>9, ReturnKeeps

LEMMA SkipKeeps ==
  ASSUME IInv, NEW w \in Workers, Skip(w)
  PROVE  IInv'
<1>1. /\ worker[w].pc = "check" /\ IsSkip(worker[w].job.test)
      /\ output_queue' = Append(output_queue, worker[w].job)
      /\ worker' = [worker EXCEPT ![w] = Idle]
      /\ UNCHANGED <<options, main, todo, input_queue, sigint, jobs, got, tally, xml, exit, outcome>>
  BY DEF Skip, Results
<1>2. w \in Busy
  BY <1>1 DEF Busy
<1>3. PICK t : t = worker[w].job.test
  OBVIOUS
<1>4. PICK j \in Jobs : /\ j = worker[w].job /\ j.test = t /\ t \in Tests /\ ~j.broken
                        /\ j.file = "none" /\ outcome[t] = NotRun
  BY <1>2, <1>3, HeldFacts
<1>5. outcome' \in [Tests -> Outcomes \cup {NotRun}]
  BY <1>1, Parts DEF TypeOK
<1>6. outcome'[t] = NotRun /\ ~Ran(t)' /\ ~Clean(t)' /\ outcome'[t].file = "none"
  BY <1>1, <1>4 DEF Ran, Clean, NotRun
<1>7. IsSkip(t) /\ IsSkip(t)'
  BY <1>1, <1>3, <1>4, Stable
<1>8. Truthful(j)'
  BY <1>4, <1>7 DEF Truthful
<1>9. j \notin Passing /\ j \notin Empty
  BY <1>4, <1>7 DEF Passing, Empty, StatusOf
<1> QED BY <1>1, <1>2, <1>3, <1>4, <1>5, <1>6, <1>8, <1>9, ReturnKeeps

(* the code a job comes back with is 0 just when its program was clean *)
LEMMA ProgramFacts ==
  ASSUME options \in Options, NEW t, NEW o \in Programs(t), NEW rc,
         rc = Retval(options.valgrind, o.rc, o.leak)
  PROVE  /\ o \in Outcomes /\ o # NotRun /\ rc \in 0 .. 3 /\ o.file \in Files
         /\ rc = 0 <=> o.rc = 0 /\ ~o.leak
<1>1. /\ o \in Outcomes /\ o.rc \in 0 .. 3 /\ o.leak \in BOOLEAN /\ o.file \in Files
      /\ o.leak => options.valgrind
  BY DEF Programs, Outcomes
<1>2. o # NotRun
  BY <1>1 DEF NotRun
<1>3. options.valgrind \in BOOLEAN
  BY DEF Options
<1> QED BY <1>1, <1>2, <1>3 DEF Retval

LEMMA RunKeeps ==
  ASSUME IInv, NEW w \in Workers, Run(w)
  PROVE  IInv'
<1>1. /\ worker[w].pc = "run" /\ worker' = [worker EXCEPT ![w] = Idle]
      /\ UNCHANGED <<options, main, todo, input_queue, sigint, jobs, got, tally, xml, exit>>
  BY DEF Run, Results
<1>2. w \in Busy
  BY <1>1 DEF Busy
<1>3. PICK t : t = worker[w].job.test
  OBVIOUS
<1>4. /\ worker[w].job \in Jobs /\ t \in Tests /\ ~worker[w].job.broken /\ ~IsSkip(t)
  BY <1>1, <1>2, <1>3, HeldFacts
<1>5. PICK o \in Programs(t) :
        /\ output_queue' = Append(output_queue,
                              [worker[w].job EXCEPT !.rc = Retval(options.valgrind, o.rc, o.leak),
                                                    !.file = o.file])
        /\ outcome' = [outcome EXCEPT ![t] = o]
  BY <1>3 DEF Run
<1>6. PICK rc : rc = Retval(options.valgrind, o.rc, o.leak)
  OBVIOUS
<1>7. TypeOK /\ options \in Options
  BY Parts DEF TypeOK
<1>8. /\ o \in Outcomes /\ o # NotRun /\ rc \in 0 .. 3 /\ o.file \in Files
      /\ rc = 0 <=> o.rc = 0 /\ ~o.leak
  BY <1>6, <1>7, ProgramFacts
<1>9. PICK j \in Jobs : /\ j = [worker[w].job EXCEPT !.rc = rc, !.file = o.file]
                        /\ j.test = t /\ ~j.broken /\ j.rc = rc /\ j.file = o.file
  <2>1. rc \in -1 .. 3
    BY <1>8
  <2>2. PICK j : j = [worker[w].job EXCEPT !.rc = rc, !.file = o.file]
    OBVIOUS
  <2>3. j \in Jobs /\ j.test = t /\ ~j.broken /\ j.rc = rc /\ j.file = o.file
    <3>1. PICK k \in Jobs : k = worker[w].job
      BY <1>4
    <3>2. PICK file \in Files : file = o.file
      BY <1>8
    <3>3. j = [k EXCEPT !.rc = rc, !.file = file]
      BY <2>2, <3>1, <3>2
    <3>4. ~k.broken
      BY <3>1, <1>4
    <3>5. j \in Jobs /\ j.test = k.test /\ ~j.broken /\ j.rc = rc /\ j.file = file
      <4>1. j \in Jobs /\ j.test = k.test /\ j.rc = rc /\ j.file = file
        BY <2>1, <3>3 DEF Jobs
      <4>2. ~j.broken
        BY <3>3, <3>4 DEF Jobs
      <4> QED BY <4>1, <4>2
    <3> QED BY <3>1, <3>2, <3>5, <1>3, <1>4
  <2> QED BY <2>2, <2>3
<1>10. output_queue' = Append(output_queue, j)
  BY <1>5, <1>6, <1>9
<1>11. /\ outcome' \in [Tests -> Outcomes \cup {NotRun}] /\ outcome'[t] = o
       /\ \A u \in Tests : u # t => outcome'[u] = outcome[u]
  BY <1>4, <1>5, <1>7, <1>8 DEF TypeOK
<1>12. ~IsSkip(t)' /\ o \in Programs(t)'
  BY <1>1, <1>4, Stable
<1>13. Truthful(j)'
  <2>1. Ran(t)' /\ j.file = outcome'[t].file
    BY <1>8, <1>9, <1>11 DEF Ran
  <2>2. j.rc = Retval(options'.valgrind, o.rc, o.leak)
    BY <1>1, <1>6, <1>9
  <2> QED BY <2>1, <2>2, <1>9, <1>11, <1>12 DEF Truthful
<1>14. j \in Passing <=> Clean(t)'
  <2>1. StatusOf(j) = "PASS" <=> rc = 0
    BY <1>4, <1>8, <1>9 DEF StatusOf
  <2> QED BY <2>1, <1>8, <1>9, <1>11 DEF Passing, Clean
<1>15. j \in Empty <=> outcome'[t].file = "empty"
  BY <1>9, <1>11 DEF Empty
<1> QED BY <1>1, <1>2, <1>3, <1>9, <1>10, <1>11, <1>12, <1>13, <1>14, <1>15, ReturnKeeps

-----------------------------------------------------------------------------
(* The main thread takes the results *)

LEMMA SameSum ==
  ASSUME NEW n, NEW a \in Nat, NEW b \in Nat, NEW c \in Nat, NEW d \in Nat, NEW e \in Nat, NEW f \in Nat,
         c + d = e + f, n = a + b + e + f
  PROVE  n = a + b + c + d
OBVIOUS

LEMMA PopFacts ==
  ASSUME IInv, main = "collect", got < jobs, output_queue # << >>,
         output_queue' = Tail(output_queue), got' = got + 1,
         UNCHANGED <<options, todo, input_queue, worker, sigint, jobs, outcome>>,
         main' \in {"collect", "raised"}, NEW h, h = Head(output_queue), NEW t, t = h.test
  PROVE  /\ h \in Jobs /\ t \in Tests /\ t \in Back /\ t \notin Reported /\ Truthful(h)
         /\ output_queue' \in Seq(Jobs) /\ Back' = Back \ {t} /\ Distinct(output_queue)'
         /\ got \in Nat /\ got' \in 0 .. jobs' /\ jobs' = jobs
         /\ Accounted' /\ PhaseInv' /\ HeldInv' /\ QueuedInv' /\ ResultInv'
         /\ Queued' = Queued /\ Held' = Held /\ OnceQueued' /\ OnceHeld'
<1>1. /\ TypeOK /\ Accounted /\ PhaseInv /\ PlaceInv /\ HeldInv /\ QueuedInv /\ ResultInv
      /\ Distinct(output_queue)
  BY Parts DEF JobInv, PlaceInv
<1>2. /\ output_queue' \in Seq(Jobs) /\ Len(output_queue') = Len(output_queue) - 1
      /\ Len(output_queue) \in Nat \ {0} /\ h \in Jobs /\ t \in Back
      /\ h = output_queue[1] /\ 1 \in DOMAIN output_queue
      /\ Back' = Back \ {t} /\ Distinct(output_queue)'
      /\ \A i \in DOMAIN output_queue' :
            i + 1 \in DOMAIN output_queue /\ output_queue'[i] = output_queue[i + 1]
  BY <1>1, BackTail
<1>3. t \in Tests
  BY <1>2 DEF Jobs
<1>4. Truthful(h)
  BY <1>1, <1>2 DEF ResultInv
<1>5. t \notin Reported
  BY <1>1, <1>2 DEF PlaceInv
<1>6. got \in Nat /\ got' \in 0 .. jobs' /\ jobs' = jobs /\ jobs \in Nat
  <2>1. got \in Nat /\ jobs \in Nat
    BY <1>1, Types
  <2> QED BY <2>1
<1>7. Queued' = Queued /\ Held' = Held /\ Busy' = Busy /\ Occupied' = Occupied
  BY DEF Queued, Held, Busy, Occupied
<1>8. OnceQueued' /\ OnceHeld' /\ QueuedInv'
  BY <1>1, <1>7 DEF PlaceInv, OnceQueued, OnceHeld, QueuedInv
<1>9. Accounted'
  <2>1. Count(input_queue, Unbroken) \in Nat /\ Cardinality(Occupied) \in Nat
    BY <1>1, Types, CountType, OccupiedType
  <2>2. Count(input_queue', Unbroken) = Count(input_queue, Unbroken)
    OBVIOUS
  <2>3. jobs = Count(input_queue, Unbroken) + Cardinality(Occupied) + Len(output_queue) + got
    BY <1>1 DEF Accounted
  <2>4. Len(output_queue') + got' = Len(output_queue) + got /\ Len(output_queue') \in Nat
    BY <1>2, <1>6
  <2>5. Cardinality(Occupied') = Cardinality(Occupied) /\ got' \in Nat
    BY <1>6, <1>7
  <2>6. jobs' = Count(input_queue', Unbroken) + Cardinality(Occupied') + Len(output_queue') + got'
    <3>1. /\ jobs' = jobs /\ got \in Nat /\ Len(output_queue) \in Nat
          /\ Count(input_queue', Unbroken) \in Nat /\ Cardinality(Occupied') \in Nat
          /\ jobs' = Count(input_queue', Unbroken) + Cardinality(Occupied') + Len(output_queue) + got
      BY <2>1, <2>2, <2>3, <2>5, <1>2, <1>6
    <3> QED BY <3>1, <2>4, <2>5, SameSum
  <2> QED BY <2>6 DEF Accounted
<1>10. PhaseInv'
  BY <1>1 DEF PhaseInv
<1>11. HeldInv'
  BY <1>1, HeldKept
<1>12. ResultInv'
  <2>1. ASSUME NEW i \in DOMAIN output_queue' PROVE Truthful(output_queue[i])'
    <3>1. i + 1 \in DOMAIN output_queue /\ output_queue'[i] = output_queue[i + 1]
      BY <1>2
    <3>2. PICK k \in Jobs : k = output_queue[i + 1] /\ k = output_queue'[i] /\ k.test \in Tests
      BY <3>1, <1>1, JobsBack
    <3>3. Truthful(k)
      BY <3>1, <3>2, <1>1 DEF ResultInv
    <3>4. IsSkip(k.test)' <=> IsSkip(k.test)
      BY <3>2, Stable
    <3>5. Truthful(k)'
      BY <3>3, <3>4 DEF Truthful, Ran, thread_exit
    <3> QED BY <3>2, <3>5
  <2>2. ASSUME NEW u \in Tests, Ran(u)' PROVE outcome'[u] \in Programs(u)' /\ ~IsSkip(u)'
    BY <2>2, <1>1, Stable DEF ResultInv, Ran
  <2> QED BY <2>1, <2>2 DEF ResultInv
<1> QED BY <1>2, <1>3, <1>4, <1>5, <1>6, <1>8, <1>7, <1>9, <1>10, <1>11, <1>12

LEMMA CollectBrokenKeeps ==
  ASSUME IInv, CollectBroken
  PROVE  IInv'
<1>1. /\ main = "collect" /\ got < jobs /\ output_queue # << >> /\ Head(output_queue).broken
      /\ output_queue' = Tail(output_queue) /\ got' = got + 1
      /\ UNCHANGED <<options, main, todo, input_queue, worker, sigint, jobs, tally, xml, exit, outcome>>
  BY DEF CollectBroken
<1>2. PICK h : h = Head(output_queue)
  OBVIOUS
<1>3. PICK t : t = h.test
  OBVIOUS
<1>4. /\ h \in Jobs /\ t \in Tests /\ t \in Back /\ t \notin Reported /\ Truthful(h)
      /\ output_queue' \in Seq(Jobs) /\ Back' = Back \ {t} /\ Distinct(output_queue)'
      /\ got \in Nat /\ got' \in 0 .. jobs' /\ jobs' = jobs
      /\ Accounted' /\ PhaseInv' /\ HeldInv' /\ QueuedInv' /\ ResultInv'
      /\ Queued' = Queued /\ Held' = Held /\ OnceQueued' /\ OnceHeld'
  BY <1>1, <1>2, <1>3, PopFacts
<1>5. h.broken /\ thread_exit /\ ~Ran(t)
  BY <1>1, <1>2, <1>3, <1>4 DEF Truthful
<1>6. TypeOK /\ PlaceInv /\ TallyInv /\ NamedInv /\ ReportInv
  BY Parts
<1>7. TypeOK'
  BY <1>1, <1>4, <1>6 DEF TypeOK
<1>8. Reported' = Reported /\ Distinct(xml)' /\ (\A u : Ran(u)' <=> Ran(u))
  BY <1>1, <1>6 DEF Reported, PlaceInv, Distinct, Ran
<1>9. PlaceInv'
  BY <1>1, <1>4, <1>6, <1>8 DEF PlaceInv
<1>10. thread_exit' /\ Failures' = Failures /\ (\A u : Clean(u)' <=> Clean(u))
  BY <1>1, <1>5 DEF thread_exit, Failures, Clean
<1>11. /\ tally["PASS"] \in Nat /\ tally["SKIP"] \in Nat /\ tally["FAIL"] \in Nat
       /\ tally["VALGR"] \in Nat /\ tally["CRASH"] \in Nat /\ Failures \in Nat
       /\ Failures + tally["PASS"] + tally["SKIP"] < got'
  <2>1. /\ tally["PASS"] \in Nat /\ tally["SKIP"] \in Nat /\ tally["FAIL"] \in Nat
        /\ tally["VALGR"] \in Nat /\ tally["CRASH"] \in Nat
    BY <1>6, Types DEF Statuses
  <2>2. Failures \in Nat
    BY <2>1 DEF Failures
  <2> QED BY <2>1, <2>2, <1>1, <1>4, <1>6 DEF TallyInv
<1>12. TallyInv'
  <2>1. \A u \in Tests : Ran(u)' => u \in Back' \/ Clean(u)' \/ Failures' > 0
    BY <1>4, <1>5, <1>6, <1>8, <1>10 DEF TallyInv
  <2>2. Passing' = Passing /\ output_queue \in Seq(Jobs)
    BY <1>1, <1>6, Stable, Types
  <2>3. h \notin Passing
    BY <1>5 DEF Passing
  <2>4. Count(output_queue', Passing') = Count(output_queue, Passing)
    BY <2>2, <2>3, <1>1, <1>2, CountTail
  <2>5. {u \in Tests : Clean(u)}' = {u \in Tests : Clean(u)}
    BY <1>10
  <2>6. Cardinality({u \in Tests : Clean(u)})' = tally'["PASS"] + Count(output_queue', Passing')
    BY <2>4, <2>5, <1>1, <1>6 DEF TallyInv
  <2>7. Failures' + tally'["PASS"] + tally'["SKIP"] <= got'
    BY <1>1, <1>4, <1>10, <1>11
  <2> QED BY <2>1, <2>6, <2>7, <1>10 DEF TallyInv
<1>13. NamedInv'
  BY <1>1, <1>10, <1>11 DEF NamedInv
<1>14. ReportInv'
  BY <1>1, <1>6, <1>10 DEF ReportInv
<1>15. main' # "done"
  BY <1>1
<1> QED BY <1>4, <1>7, <1>8, <1>9, <1>12, <1>13, <1>14, <1>15, NoneLostNext, NotDone DEF IInv, JobInv

(* what the main thread makes of a job that was run or skipped *)
LEMMA StatusFacts ==
  ASSUME TypeOK, ResultInv, NEW h \in Jobs, ~h.broken, Truthful(h), NEW t, t = h.test
  PROVE  /\ StatusOf(h) \in Statuses
         /\ h \in Passing <=> StatusOf(h) = "PASS"
         /\ StatusOf(h) = "PASS" => Clean(t)
         /\ StatusOf(h) = "SKIP" => IsSkip(t) /\ ~Ran(t)
         /\ Ran(t) \/ IsSkip(t)
<1>1. t \in Tests
  BY DEF Jobs
<1>2. CASE IsSkip(t)
  <2>1. StatusOf(h) = "SKIP"
    BY <1>2 DEF StatusOf
  <2> QED BY <2>1, <1>1, <1>2 DEF Statuses, Passing, ResultInv
<1>3. CASE ~IsSkip(t)
  <2>1. Ran(t) /\ h.rc = Retval(options.valgrind, outcome[t].rc, outcome[t].leak)
    BY <1>3 DEF Truthful
  <2>2. options \in Options /\ outcome[t] \in Programs(t)
    BY <2>1, <1>1 DEF TypeOK, ResultInv
  <2>3. h.rc \in 0 .. 3 /\ (h.rc = 0 <=> outcome[t].rc = 0 /\ ~outcome[t].leak)
    BY <2>1, <2>2, ProgramFacts
  <2>4. h.rc = 0 <=> Clean(t)
    BY <2>3 DEF Clean
  <2>5. /\ StatusOf(h) \in Statuses \ {"SKIP"}
        /\ StatusOf(h) = "PASS" <=> h.rc = 0
    BY <1>3, <2>3 DEF StatusOf, Statuses
  <2> QED BY <2>1, <2>4, <2>5 DEF Passing
<1> QED BY <1>2, <1>3

LEMMA EntryFacts ==
  ASSUME TypeOK, ResultInv, NEW h \in Jobs, ~h.broken, Truthful(h), NEW t, t = h.test,
         ~(ReadsFile(h) /\ h.file = "none")
  PROVE  /\ h.file = "empty" => EntriesOf(h) = << >>
         /\ h.file # "empty" =>
               \E e \in [test: Tests, result: Statuses] :
                  /\ EntriesOf(h) = <<e>> /\ e.test = t
                  /\ e.result \in {"PASS", "SKIP"} \/ StatusOf(h) \in {"FAIL", "VALGR", "CRASH"}
<1>1. t \in Tests /\ StatusOf(h) \in Statuses
  BY StatusFacts DEF Jobs
<1>2. CASE IsSkip(t)
  <2>1. h.file = "none" /\ StatusOf(h) = "SKIP" /\ ~ReadsFile(h)
    BY <1>2 DEF Truthful, StatusOf, ReadsFile
  <2>2. EntriesOf(h) = << [test |-> t, result |-> "SKIP"] >>
    BY <2>1 DEF EntriesOf
  <2>3. [test |-> t, result |-> "SKIP"] \in [test: Tests, result: Statuses]
    BY <1>1 DEF Statuses
  <2> QED BY <2>1, <2>2, <2>3
<1>3. CASE ~IsSkip(t)
  <2>1. /\ Ran(t) /\ h.file = outcome[t].file
        /\ h.rc = Retval(options.valgrind, outcome[t].rc, outcome[t].leak)
    BY <1>3 DEF Truthful
  <2>2. options \in Options /\ outcome[t] \in Programs(t)
    BY <2>1, <1>1 DEF TypeOK, ResultInv
  <2>3. PICK o \in Programs(t) : o = outcome[t]
    BY <2>2
  <2>4. /\ o \in Outcomes /\ h.rc \in 0 .. 3 /\ o.file \in Files
        /\ h.rc = 0 <=> o.rc = 0 /\ ~o.leak
    BY <2>1, <2>2, <2>3, ProgramFacts
  <2>5. o.rc \in 0 .. 3 /\ (h.rc = o.rc \/ (h.rc = 2 /\ o.rc = 0))
    BY <2>1, <2>3, <2>4 DEF Retval, Outcomes
  <2>6. CASE ReadsFile(h)
    <3>1. t \in Suites /\ h.rc \in 0 .. 2
      BY <2>6 DEF ReadsFile
    <3>2. /\ o.rc = 0 => o.file \in {"PASS", "none"}
          /\ o.rc = 1 => o.file \in {"FAIL", "empty", "none"}
          /\ o.rc = 2 => o.file \in {"PASS", "FAIL", "none"}
      BY <3>1 DEF Programs
    <3>3. h.file \in {"PASS", "FAIL", "empty"} /\ (h.file = "FAIL" => h.rc \in {1, 2})
      BY <3>1, <3>2, <2>1, <2>3, <2>5, <2>6
    <3>4. h.rc \in {1, 2} => StatusOf(h) \in {"FAIL", "VALGR"}
      BY <1>3 DEF StatusOf
    <3>5. CASE h.file = "empty"
      BY <3>5, <2>6 DEF EntriesOf
    <3>6. CASE h.file # "empty"
      <4>1. PICK e : e = [test |-> t, result |-> h.file]
        OBVIOUS
      <4>2. e \in [test: Tests, result: Statuses] /\ e.test = t /\ e.result = h.file
        BY <4>1, <3>3, <3>6, <1>1 DEF Statuses
      <4>3. EntriesOf(h) = <<e>>
        BY <4>1, <3>6, <2>6 DEF EntriesOf
      <4> QED BY <4>2, <4>3, <3>3, <3>4, <3>6
    <3> QED BY <3>5, <3>6
  <2>7. CASE ~ReadsFile(h)
    <3>1. h.file # "empty"
      <4>1. CASE t \in Suites
        <5>1. o.rc = 3
          BY <4>1, <1>3, <2>4, <2>5, <2>7 DEF ReadsFile
        <5>2. o.file = "corrupt"
          BY <5>1, <4>1 DEF Programs
        <5> QED BY <5>2, <2>1, <2>3
      <4>2. CASE t \notin Suites
        <5>1. o.file = "none"
          BY <4>2 DEF Programs
        <5> QED BY <5>1, <2>1, <2>3
      <4> QED BY <4>1, <4>2
    <3>2. PICK e : e = [test |-> t, result |-> StatusOf(h)]
      OBVIOUS
    <3>3. e \in [test: Tests, result: Statuses] /\ e.test = t /\ e.result = StatusOf(h)
      BY <3>2, <1>1
    <3>4. EntriesOf(h) = <<e>>
      BY <3>2, <2>7 DEF EntriesOf
    <3> QED BY <3>1, <3>3, <3>4, <1>1 DEF Statuses
  <2> QED BY <2>6, <2>7
<1> QED BY <1>2, <1>3

(* one more result in the tally *)
LEMMA TallyStep ==
  ASSUME TypeOK, TallyInv, got < jobs, jobs' = jobs, NEW s \in Statuses,
         tally' = [tally EXCEPT ![s] = @ + 1]
  PROVE  /\ tally' \in [Statuses -> 0 .. jobs']
         /\ Failures \in Nat /\ tally["PASS"] \in Nat /\ tally["SKIP"] \in Nat
         /\ Failures' = Failures + (IF s \in {"PASS", "SKIP"} THEN 0 ELSE 1)
         /\ tally'["PASS"] = tally["PASS"] + (IF s = "PASS" THEN 1 ELSE 0)
         /\ tally'["SKIP"] = tally["SKIP"] + (IF s = "SKIP" THEN 1 ELSE 0)
         /\ Failures' + tally'["PASS"] + tally'["SKIP"] = Failures + tally["PASS"] + tally["SKIP"] + 1
<1>1. tally \in [Statuses -> 0 .. jobs] /\ jobs \in Nat /\ got \in Nat
  BY Types
<1>2. /\ tally["PASS"] \in Nat /\ tally["SKIP"] \in Nat /\ tally["FAIL"] \in Nat
      /\ tally["VALGR"] \in Nat /\ tally["CRASH"] \in Nat
  BY Types DEF Statuses
<1>3. Failures \in Nat
  BY <1>2 DEF Failures
<1>4. tally[s] + 1 <= jobs
  BY <1>1, <1>2 DEF TallyInv, Failures, Statuses
<1>5. tally' \in [Statuses -> 0 .. jobs']
  BY <1>1, <1>4
<1>6. /\ tally'["PASS"] = tally["PASS"] + (IF s = "PASS" THEN 1 ELSE 0)
      /\ tally'["SKIP"] = tally["SKIP"] + (IF s = "SKIP" THEN 1 ELSE 0)
      /\ tally'["FAIL"] = tally["FAIL"] + (IF s = "FAIL" THEN 1 ELSE 0)
      /\ tally'["VALGR"] = tally["VALGR"] + (IF s = "VALGR" THEN 1 ELSE 0)
      /\ tally'["CRASH"] = tally["CRASH"] + (IF s = "CRASH" THEN 1 ELSE 0)
  BY <1>1, <1>2 DEF Statuses
<1>7. Failures' = Failures + (IF s \in {"PASS", "SKIP"} THEN 0 ELSE 1)
  BY <1>2, <1>6 DEF Failures, Statuses
<1> QED BY <1>2, <1>3, <1>5, <1>6, <1>7 DEF Statuses

LEMMA XmlAppend ==
  ASSUME TypeOK, NEW e \in [test: Tests, result: Statuses], xml' = xml \o <<e>>,
         Distinct(xml), e.test \notin Reported
  PROVE  /\ xml' \in Seq([test: Tests, result: Statuses])
         /\ Len(xml) \in Nat /\ Len(xml') = Len(xml) + 1
         /\ Reported' = Reported \cup {e.test} /\ Distinct(xml)'
         /\ \A i \in DOMAIN xml' :
               xml'[i] = e \/ \E k \in DOMAIN xml : xml'[i] = xml[k]
<1> DEFINE n == Len(xml) + 1
<1>1. /\ xml \in Seq([test: Tests, result: Statuses]) /\ Len(xml) \in Nat
      /\ DOMAIN xml = 1 .. Len(xml)
  BY Types, LenProperties
<1>2. xml' = Append(xml, e)
  BY <1>1, AppendIsConcat
<1>3. /\ xml' \in Seq([test: Tests, result: Statuses]) /\ Len(xml') = n
      /\ DOMAIN xml' = 1 .. n /\ xml'[n] = e
      /\ \A i \in 1 .. Len(xml) : xml'[i] = xml[i]
  BY <1>1, <1>2, AppendProperties, LenProperties
<1>4. DOMAIN xml' = DOMAIN xml \cup {n} /\ \A i \in DOMAIN xml : xml'[i] = xml[i]
  BY <1>1, <1>3
<1> HIDE DEF n
<1>5. Reported' = Reported \cup {e.test}
  BY <1>3, <1>4 DEF Reported
<1>6. \A i \in DOMAIN xml : xml[i].test # e.test
  BY DEF Reported
<1>7. Distinct(xml)'
  BY <1>3, <1>4, <1>6 DEF Distinct
<1>8. \A i \in DOMAIN xml' : xml'[i] = e \/ \E k \in DOMAIN xml : xml'[i] = xml[k]
  BY <1>3, <1>4
<1> QED BY <1>1, <1>3, <1>5, <1>7, <1>8 DEF n

LEMMA CollectResultKeeps ==
  ASSUME IInv, CollectResult
  PROVE  IInv'
<1>1. PICK h : h = Head(output_queue)
  OBVIOUS
<1>2. /\ main = "collect" /\ got < jobs /\ output_queue # << >> /\ ~h.broken
      /\ output_queue' = Tail(output_queue) /\ got' = got + 1
      /\ tally' = [tally EXCEPT ![StatusOf(h)] = @ + 1]
      /\ \/ /\ ReadsFile(h) /\ h.file = "none"
            /\ main' = "raised" /\ exit' = 1 /\ xml' = xml
         \/ /\ ~(ReadsFile(h) /\ h.file = "none")
            /\ xml' = xml \o EntriesOf(h) /\ main' = main /\ exit' = exit
      /\ UNCHANGED <<options, todo, input_queue, worker, sigint, jobs, outcome>>
  BY <1>1 DEF CollectResult
<1>3. PICK t : t = h.test
  OBVIOUS
<1>4. PICK s : s = StatusOf(h)
  OBVIOUS
<1>5. /\ h \in Jobs /\ t \in Tests /\ t \in Back /\ t \notin Reported /\ Truthful(h)
      /\ output_queue' \in Seq(Jobs) /\ Back' = Back \ {t} /\ Distinct(output_queue)'
      /\ got \in Nat /\ got' \in 0 .. jobs' /\ jobs' = jobs
      /\ Accounted' /\ PhaseInv' /\ HeldInv' /\ QueuedInv' /\ ResultInv'
      /\ Queued' = Queued /\ Held' = Held /\ OnceQueued' /\ OnceHeld'
  BY <1>1, <1>2, <1>3, PopFacts
<1>6. TypeOK /\ PlaceInv /\ ResultInv /\ TallyInv /\ NamedInv /\ ReportInv /\ Distinct(xml)
  BY Parts DEF JobInv, PlaceInv
<1>7. /\ s \in Statuses /\ (h \in Passing <=> s = "PASS") /\ (s = "PASS" => Clean(t))
      /\ (s = "SKIP" => IsSkip(t) /\ ~Ran(t)) /\ (Ran(t) \/ IsSkip(t))
  BY <1>2, <1>3, <1>4, <1>5, <1>6, StatusFacts
<1>8. /\ tally' \in [Statuses -> 0 .. jobs']
      /\ Failures \in Nat /\ tally["PASS"] \in Nat /\ tally["SKIP"] \in Nat
      /\ Failures' = Failures + (IF s \in {"PASS", "SKIP"} THEN 0 ELSE 1)
      /\ tally'["PASS"] = tally["PASS"] + (IF s = "PASS" THEN 1 ELSE 0)
      /\ Failures' + tally'["PASS"] + tally'["SKIP"] = Failures + tally["PASS"] + tally["SKIP"] + 1
  BY <1>2, <1>4, <1>6, <1>7, TallyStep
<1>9. /\ (thread_exit' <=> thread_exit) /\ (\A u : Ran(u)' <=> Ran(u))
      /\ (\A u : Clean(u)' <=> Clean(u)) /\ (\A u : IsSkip(u)' <=> IsSkip(u)) /\ Named' = Named
  BY <1>2, Stable DEF thread_exit, Ran, Clean, IsSkip, Unselected
<1>10. /\ Failures' \in Nat /\ Failures' >= Failures
       /\ s \notin {"PASS", "SKIP"} => Failures' > 0
  BY <1>8
<1>11. /\ xml' \in Seq([test: Tests, result: Statuses]) /\ Len(xml) \in Nat
       /\ Reported' \subseteq Reported \cup {t} /\ Distinct(xml)'
       /\ \A i \in DOMAIN xml' : xml'[i].result \in {"PASS", "SKIP"} \/ Failures' > 0
       /\ main' # "raised" => Len(xml') = Len(xml) + (IF h \in Empty THEN 0 ELSE 1)
  <2>1. xml \in Seq([test: Tests, result: Statuses]) /\ Len(xml) \in Nat
    BY <1>6, Types, LenProperties
  <2>2. \A i \in DOMAIN xml : xml[i].result \in {"PASS", "SKIP"} \/ Failures' > 0
    BY <1>6, <1>8, <1>10 DEF ReportInv
  <2>3. h \in Empty <=> h.file = "empty"
    BY <1>5 DEF Empty
  <2>4. CASE xml' = xml /\ (main' # "raised" => h \in Empty)
    <3>1. Reported' = Reported /\ Distinct(xml)'
      BY <2>4, <1>6 DEF Reported, Distinct
    <3> QED BY <2>1, <2>2, <2>4, <3>1
  <2>5. CASE ~(ReadsFile(h) /\ h.file = "none")
    <3>1. xml' = xml \o EntriesOf(h)
      BY <2>5, <1>2
    <3>2. CASE h.file = "empty"
      <4>1. EntriesOf(h) = << >>
        BY <3>2, <2>5, <1>2, <1>3, <1>5, <1>6, EntryFacts
      <4>2. xml' = xml
        BY <4>1, <3>1, <2>1
      <4> QED BY <4>2, <3>2, <2>3, <2>4
    <3>3. CASE h.file # "empty"
      <4>1. PICK e \in [test: Tests, result: Statuses] :
               /\ EntriesOf(h) = <<e>> /\ e.test = t
               /\ e.result \in {"PASS", "SKIP"} \/ s \in {"FAIL", "VALGR", "CRASH"}
        BY <3>3, <2>5, <1>2, <1>3, <1>4, <1>5, <1>6, EntryFacts
      <4>2. /\ xml' \in Seq([test: Tests, result: Statuses]) /\ Len(xml') = Len(xml) + 1
            /\ Reported' = Reported \cup {t} /\ Distinct(xml)'
            /\ \A i \in DOMAIN xml' : xml'[i] = e \/ \E k \in DOMAIN xml : xml'[i] = xml[k]
        BY <4>1, <3>1, <1>5, <1>6, XmlAppend
      <4>3. e.result \in {"PASS", "SKIP"} \/ Failures' > 0
        BY <4>1, <1>10
      <4>4. \A i \in DOMAIN xml' : xml'[i].result \in {"PASS", "SKIP"} \/ Failures' > 0
        BY <4>2, <4>3, <2>2
      <4> QED BY <4>2, <4>4, <3>3, <2>1, <2>3
    <3> QED BY <3>2, <3>3
  <2>6. CASE ReadsFile(h) /\ h.file = "none"
    BY <2>6, <2>4, <1>2
  <2> QED BY <2>5, <2>6
<1>12. TypeOK'
  <2>1. exit' \in {None, 0, 1} /\ main' \in {"build", "list", "dispatch", "collect", "done", "raised"}
    BY <1>2, <1>6 DEF TypeOK
  <2>2. jobs' \in 0 .. Cardinality(Tests)
    BY <1>5, <1>6 DEF TypeOK
  <2> QED BY <2>1, <2>2, <1>2, <1>5, <1>6, <1>8, <1>11 DEF TypeOK
<1>13. PlaceInv'
  BY <1>2, <1>5, <1>6, <1>9, <1>11 DEF PlaceInv
<1>14. TallyInv'
  <2>1. \A u \in Tests : Ran(u)' => u \in Back' \/ Clean(u)' \/ Failures' > 0
    <3> SUFFICES ASSUME NEW u \in Tests, Ran(u) PROVE u \in Back' \/ Clean(u) \/ Failures' > 0
      BY <1>9
    <3>1. CASE u = t
      BY <3>1, <1>7, <1>10
    <3>2. CASE u # t
      <4>1. u \in Back \/ Clean(u) \/ Failures > 0
        BY <1>6 DEF TallyInv
      <4> QED BY <4>1, <3>2, <1>5, <1>8, <1>10
    <3> QED BY <3>1, <3>2
  <2>2. Passing' = Passing /\ output_queue \in Seq(Jobs)
    BY <1>2, <1>6, Stable, Types
  <2>3. Count(output_queue', Passing) \in Nat
    BY <1>5, CountType
  <2>4. Count(output_queue, Passing) = Count(output_queue', Passing) + (IF h \in Passing THEN 1 ELSE 0)
    <3>1. /\ h \in Passing => Count(output_queue, Passing) = Count(output_queue', Passing) + 1
          /\ h \notin Passing => Count(output_queue, Passing) = Count(output_queue', Passing)
      BY <2>2, <1>1, <1>2, CountTail
    <3> QED BY <3>1, <2>3
  <2>5. {u \in Tests : Clean(u)}' = {u \in Tests : Clean(u)}
    BY <1>9
  <2>6. Cardinality({u \in Tests : Clean(u)}) = tally["PASS"] + Count(output_queue, Passing)
    BY <1>6 DEF TallyInv
  <2>7. tally["PASS"] + Count(output_queue, Passing) = tally'["PASS"] + Count(output_queue', Passing)
    BY <2>3, <2>4, <1>7, <1>8
  <2>8. Cardinality({u \in Tests : Clean(u)})' = tally'["PASS"] + Count(output_queue', Passing')
    BY <2>2, <2>5, <2>6, <2>7
  <2>9. /\ Failures' + tally'["PASS"] + tally'["SKIP"] <= got'
        /\ ~thread_exit' => Failures' + tally'["PASS"] + tally'["SKIP"] = got'
    <3>1. /\ Failures + tally["PASS"] + tally["SKIP"] <= got
          /\ ~thread_exit => Failures + tally["PASS"] + tally["SKIP"] = got
      BY <1>6 DEF TallyInv
    <3>2. PICK a \in Nat, b \in Nat : /\ a = Failures + tally["PASS"] + tally["SKIP"]
                                     /\ b = Failures' + tally'["PASS"] + tally'["SKIP"]
                                     /\ b = a + 1
      BY <1>8
    <3>3. got' = got + 1
      BY <1>2
    <3> QED BY <3>1, <3>2, <3>3, <1>5, <1>9
  <2> QED BY <2>1, <2>8, <2>9 DEF TallyInv
<1>15. NamedInv'
  <2> SUFFICES ASSUME main' \in {"dispatch", "collect"}, NEW u \in Named
               PROVE  \/ u \in todo' \cup Queued' \cup Held' \cup Back'
                      \/ Ran(u)' \/ IsSkip(u)'
                      \/ Failures' + tally'["PASS"] + tally'["SKIP"] < got'
                      \/ \E w \in Workers : worker'[w].pc = "dead"
    BY <1>9 DEF NamedInv
  <2>1. \/ u \in todo \cup Queued \cup Held \cup Back
        \/ Ran(u) \/ IsSkip(u)
        \/ Failures + tally["PASS"] + tally["SKIP"] < got
        \/ \E w \in Workers : worker[w].pc = "dead"
    BY <1>2, <1>6 DEF NamedInv
  <2>2. Failures + tally["PASS"] + tally["SKIP"] < got
            => Failures' + tally'["PASS"] + tally'["SKIP"] < got'
    <3>1. PICK a \in Nat, b \in Nat : /\ a = Failures + tally["PASS"] + tally["SKIP"]
                                     /\ b = Failures' + tally'["PASS"] + tally'["SKIP"]
                                     /\ b = a + 1
      BY <1>8
    <3>2. got' = got + 1
      BY <1>2
    <3> QED BY <3>1, <3>2, <1>5
  <2>3. u = t => Ran(u) \/ IsSkip(u)
    BY <1>7
  <2> QED BY <2>1, <2>2, <2>3, <1>2, <1>5, <1>9
<1>16. ReportInv'
  <2>1. Empty' = Empty /\ output_queue \in Seq(Jobs)
    BY <1>6, Types DEF Empty
  <2>2. Count(output_queue', Empty) \in Nat
    BY <1>5, CountType
  <2>3. Count(output_queue, Empty) = Count(output_queue', Empty) + (IF h \in Empty THEN 1 ELSE 0)
    <3>1. /\ h \in Empty => Count(output_queue, Empty) = Count(output_queue', Empty) + 1
          /\ h \notin Empty => Count(output_queue, Empty) = Count(output_queue', Empty)
      BY <2>1, <1>1, <1>2, CountTail
    <3> QED BY <3>1, <2>2
  <2>4. PICK c : c = Cardinality({u \in Tests : outcome[u].file = "empty"})
    OBVIOUS
  <2>5. c \in Nat
    <3>1. {u \in Tests : outcome[u].file = "empty"} \in SUBSET Tests
      OBVIOUS
    <3> QED BY <3>1, <2>4, FiniteAssumption, FS_Subset, FS_CardinalityType
  <2>6. Cardinality({u \in Tests : outcome[u].file = "empty"})' = c
    BY <2>4, <1>2
  <2>7. ASSUME ~thread_exit', main' # "raised"
        PROVE  Len(xml') + c = got' + Count(output_queue', Empty)
    <3>1. Len(xml) + c = got + Count(output_queue, Empty)
      BY <2>4, <2>7, <1>2, <1>6, <1>9 DEF ReportInv
    <3>2. Len(xml') = Len(xml) + (IF h \in Empty THEN 0 ELSE 1)
      BY <2>7, <1>11
    <3>3. got' = got + 1 /\ got \in Nat /\ Len(xml) \in Nat
      BY <1>2, <1>5, <1>11
    <3> QED BY <3>1, <3>2, <3>3, <2>2, <2>3, <2>5
  <2> QED BY <2>1, <2>6, <2>7, <1>11 DEF ReportInv
<1>17. main' # "done"
  BY <1>2
<1> QED BY <1>5, <1>11, <1>12, <1>13, <1>14, <1>15, <1>16, <1>17, NoneLostNext, NotDone
        DEF IInv, JobInv

-----------------------------------------------------------------------------

LEMMA StartsSound == Init => IInv
<1> SUFFICES ASSUME Init PROVE IInv
  OBVIOUS
<1>1. /\ options \in Options /\ main = "build" /\ todo = {} /\ input_queue = << >>
      /\ output_queue = << >> /\ worker = [w \in Workers |-> [pc |-> "off", job |-> NoJob]]
      /\ sigint = "none" /\ jobs = 0 /\ got = 0 /\ tally = [s \in Statuses |-> 0]
      /\ xml = << >> /\ exit = None /\ outcome = [t \in Tests |-> NotRun]
  BY DEF Init
<1>2. Cardinality(Tests) \in Nat /\ Cardinality({}) = 0
  BY FiniteAssumption, FS_CardinalityType, FS_EmptySet
<1>3. TypeOK
  <2>1. worker \in [Workers -> [pc: {"off", "get", "check", "run", "exited", "dead"},
                                job: Jobs \cup {NoJob}]]
    BY <1>1
  <2>2. tally \in [Statuses -> 0 .. jobs] /\ jobs \in 0 .. Cardinality(Tests) /\ got \in 0 .. jobs
    BY <1>1, <1>2
  <2>3. outcome \in [Tests -> Outcomes \cup {NotRun}]
    BY <1>1
  <2>4. /\ input_queue \in Seq(Jobs \cup {BreakJob}) /\ output_queue \in Seq(Jobs)
        /\ xml \in Seq([test: Tests, result: Statuses])
    BY <1>1
  <2>5. /\ main \in {"build", "list", "dispatch", "collect", "done", "raised"}
        /\ todo \subseteq Tests /\ sigint \in {"none", "pending", "handled"}
        /\ exit \in {None, 0, 1} /\ options \in Options
    BY <1>1
  <2> QED BY <2>1, <2>2, <2>3, <2>4, <2>5 DEF TypeOK
<1>4. \A w \in Workers : worker[w].pc = "off"
  BY <1>1
<1>5. Occupied = {} /\ Busy = {} /\ Held = {} /\ Queued = {} /\ Back = {} /\ Reported = {}
  BY <1>1, <1>4 DEF Occupied, Busy, Held, Queued, Back, Reported
<1>6. \A S : Count(input_queue, S) = 0 /\ Count(output_queue, S) = 0
  <2>1. \A S : {i \in DOMAIN << >> : << >>[i] \in S} = {}
    OBVIOUS
  <2> QED BY <2>1, <1>1, <1>2 DEF Count
<1>7. \A t \in Tests : outcome[t] = NotRun /\ ~Ran(t) /\ ~Clean(t) /\ outcome[t].file = "none"
  BY <1>1 DEF Ran, Clean, NotRun
<1>8. /\ {t \in Tests : Clean(t)} = {} /\ {t \in Tests : outcome[t].file = "empty"} = {}
  BY <1>7
<1>9. NoneLost
  <2>1. Len(output_queue) = 0
    BY <1>1
  <2>2. Accounted
    BY <2>1, <1>1, <1>2, <1>5, <1>6 DEF Accounted
  <2> QED BY <2>2, <1>3, NoneLostForm
<1>10. PhaseInv
  BY <1>1, <1>2, <1>4, <1>7 DEF PhaseInv
<1>11. PlaceInv
  BY <1>1, <1>5 DEF PlaceInv, OnceQueued, OnceHeld, Distinct
<1>12. JobInv
  BY <1>1, <1>5, <1>7 DEF JobInv, HeldInv, QueuedInv, ResultInv
<1>13. TallyInv
  <2>1. \A s \in Statuses : tally[s] = 0
    BY <1>1
  <2>2. Failures = 0 /\ tally["PASS"] = 0 /\ tally["SKIP"] = 0
    BY <2>1 DEF Failures, Statuses
  <2>3. Failures + tally["PASS"] + tally["SKIP"] = 0 /\ got = 0
    BY <2>2, <1>1
  <2>4. Count(output_queue, Passing) = 0
    BY <1>6
  <2>5. Cardinality({t \in Tests : Clean(t)}) = tally["PASS"] + Count(output_queue, Passing)
    <3>1. Cardinality({t \in Tests : Clean(t)}) = 0
      BY <1>2, <1>8
    <3> QED BY <3>1, <2>2, <2>4
  <2>6. \A t \in Tests : ~Ran(t)
    BY <1>7
  <2> QED BY <2>3, <2>5, <2>6 DEF TallyInv
<1>14. ReportInv
  <2>1. Len(xml) = 0 /\ DOMAIN xml = {}
    BY <1>1
  <2> QED BY <2>1, <1>1, <1>2, <1>6, <1>8 DEF ReportInv
<1>15. NamedInv /\ VerdictHonest
  BY <1>1 DEF NamedInv, VerdictHonest
<1>16. ReportComplete
  BY <1>1 DEF ReportComplete
<1> QED BY <1>9, <1>10, <1>11, <1>12, <1>13, <1>14, <1>15, <1>16 DEF IInv

LEMMA StepsSound == IInv /\ [Next]_vars => IInv'
<1> SUFFICES ASSUME IInv, [Next]_vars PROVE IInv'
  OBVIOUS
<1>1. CASE MainThread
  BY <1>1, BuildKeeps, PrintOnlyKeeps, PrepareKeeps, DispatchKeeps, QueueBreaksKeeps,
     CollectBrokenKeeps, CollectResultKeeps, FinishKeeps DEF MainThread
<1>2. CASE SigInt
  BY <1>2, SignalKeeps DEF SigInt, Queues, Results, thread_exit
<1>3. CASE sigint_hook
  BY <1>3, SignalKeeps DEF sigint_hook, Blocked, Queues, Results, thread_exit
<1>4. ASSUME NEW w \in Workers, Worker(w) \/ Die(w) PROVE IInv'
  BY <1>4, GetKeeps, InterruptedKeeps, SkipKeeps, LaunchKeeps, RunKeeps, DieKeeps DEF Worker
<1>5. CASE UNCHANGED vars
  BY <1>5, SignalKeeps DEF vars
<1> QED BY <1>1, <1>2, <1>3, <1>4, <1>5 DEF Next

(* The invariant holds for every set of tests and any number of workers. *)
THEOREM Invariance == Spec => []IInv
<1> QED BY StartsSound, StepsSound, PTL DEF Spec

(* The types hold, and a job that test.py queued is in one of its queues,   *)
(* with a worker, lost with a worker that died, or counted: output_queue.get *)
(* is called just as often as there are results to come.                    *)
THEOREM JobsAccounted == Spec => []NoneLost
<1>1. IInv => NoneLost
  BY DEF IInv
<1> QED BY <1>1, Invariance, PTL

(* A run of test.py that ends with status 0 has run every test that was named *)
(* or listed, each one clean or among those the configuration skips, in spite *)
(* of interrupts and of workers that died.                                   *)
THEOREM VerdictSound == Spec => []VerdictHonest
<1>1. IInv => VerdictHonest
  BY DEF IInv
<1> QED BY <1>1, Invariance, PTL

(* results.xml has one entry a test and, without an interrupt, misses only the *)
(* suites that test-runner did not know; a successful run reports no failure. *)
THEOREM ReportSound == Spec => []ReportComplete
<1>1. IInv => ReportComplete
  BY DEF IInv
<1> QED BY <1>1, Invariance, PTL
====
