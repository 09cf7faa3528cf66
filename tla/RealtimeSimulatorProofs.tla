----------------------- MODULE RealtimeSimulatorProofs ------------------------
(***************************************************************************)
(* RealtimeSimulatorImpl for every set of contexts and delays, any number  *)
(* of events and Runs, any clock and any schedule of the two threads.  The *)
(* invariant IInv follows one wait of ProcessOneEvent from the first       *)
(* critical section to the second: the earliest event is never later than  *)
(* the target, and never earlier unless the condition is set.              *)
(***************************************************************************)
EXTENDS RealtimeSimulator, FiniteSetTheorems, TLAPS

(* TypeOK, one variable at a time *)
LEMMA Types ==
  ASSUME TypeOK
  PROVE  /\ m_events \subseteq Event
         /\ m_uid \in Nat /\ m_unscheduledEvents \in Nat
         /\ m_currentTs \in Nat /\ m_currentUid \in Nat
         /\ m_realtimeOriginNano \in Nat /\ wall \in Nat /\ target \in Nat /\ runs \in Nat
         /\ m_currentContext \in Contexts \cup {NoContext}
         /\ m_stop \in BOOLEAN /\ m_running \in BOOLEAN
         /\ m_condition \in BOOLEAN /\ reader \in BOOLEAN
         /\ pc \in {"outside", "origin", "loop", "pace", "sync", "refused", "take", "event", "done"}
         /\ \A e \in m_events : e.ts \in Nat /\ e.uid \in Nat
                                /\ e.context \in Contexts \cup {NoContext}
BY DEF TypeOK, Event

-----------------------------------------------------------------------------
(* The constructor establishes the invariant. *)
LEMMA InitInv == Init => IInv
<1> SUFFICES ASSUME Init PROVE IInv
  OBVIOUS
<1>1. TypeOK
  BY EpochAssumption DEF Init, TypeOK, FirstUid
<1>2. KeyInv
  BY DEF Init, KeyInv, FirstUid
<1>3. CountInv
  BY FS_EmptySet DEF Init, CountInv
<1>4. WaitInv /\ NoLostWakeup
  BY EpochAssumption DEF Init, WaitInv, NoLostWakeup
<1> QED BY <1>1, <1>2, <1>3, <1>4 DEF IInv

(* Every scheduling call inserts an event no earlier than the current one,  *)
(* under m_mutex, and signals: at any moment of the other thread.           *)
LEMMA InsertKeepsInv ==
  ASSUME IInv, NEW ts \in Nat, ts >= m_currentTs,
         NEW context \in Contexts \cup {NoContext}, Insert(ts, context)
  PROVE  IInv'
<1> DEFINE ev == [ts |-> ts, uid |-> m_uid, context |-> context]
<1> USE DEF Insert, clockVars, runVars
<1>1. TypeOK
  BY DEF IInv
<1>2. ev \in Event /\ m_events' = m_events \cup {ev}
  BY <1>1, Types DEF Event
<1>3. \A e \in m_events : e.uid # m_uid
  BY <1>1, Types DEF IInv, KeyInv
<1>4. TypeOK'
  <2>1. m_uid' \in Nat /\ m_unscheduledEvents' \in Nat
    BY <1>1, Types
  <2>2. m_events' \subseteq Event
    <3> HIDE DEF ev
    <3> QED BY <1>1, <1>2, Types
  <2> QED BY <1>1, <2>1, <2>2 DEF TypeOK
<1>5. KeyInv'
  BY <1>1, <1>3, Types DEF IInv, KeyInv, KeyLess, now, FirstUid
<1>6. CountInv'
  <2>1. IsFiniteSet(m_events) /\ m_unscheduledEvents = Cardinality(m_events)
    BY DEF IInv, CountInv
  <2>2. ev \notin m_events
    BY <1>3
  <2>3. IsFiniteSet(m_events \cup {ev}) /\ Cardinality(m_events \cup {ev}) = Cardinality(m_events) + 1
    <3> HIDE DEF ev
    <3> QED BY <2>1, <2>2, FS_AddElement
  <2> QED BY <2>1, <2>3, <1>2 DEF CountInv
<1>7. WaitInv'
  <2>1. m_realtimeOriginNano' <= wall' /\ (pc' = "take" => (target <= Realtime)')
    BY DEF IInv, WaitInv, Realtime
  <2>2. ASSUME pc' \in {"sync", "refused", "take"}
        PROVE  \E e \in m_events' : IsNext(e, m_events') /\ e.ts <= target'
    <3>1. PICK e \in m_events : IsNext(e, m_events) /\ e.ts <= target
      BY <2>2 DEF IInv, WaitInv
    <3>2. CASE KeyLess(ev, e)
      <4>1. ev.ts <= target
        BY <1>1, <3>1, <3>2, Types DEF KeyLess
      <4>2. \A f \in m_events : ~ KeyLess(f, ev)
        BY <1>1, <3>1, <3>2, Types DEF KeyLess, IsNext
      <4>3. ~ KeyLess(ev, ev)
        BY <1>1, Types DEF KeyLess
      <4>4. ev \in m_events' /\ \A f \in m_events' : ~ KeyLess(f, ev)
        BY <1>2, <4>2, <4>3
      <4> HIDE DEF ev
      <4> QED BY <4>1, <4>4 DEF IsNext
    <3>3. CASE ~ KeyLess(ev, e)
      BY <1>2, <3>1, <3>3 DEF IsNext
    <3> QED BY <3>2, <3>3
  <2> QED BY <2>1, <2>2 DEF WaitInv
<1>8. NoLostWakeup'
  BY DEF NoLostWakeup
<1> QED BY <1>4, <1>5, <1>6, <1>7, <1>8 DEF IInv

(* Taking an event out of the list keeps the uids and the count right. *)
LEMMA EraseKeepsCount ==
  ASSUME IInv, NEW ev \in m_events,
         m_events' = m_events \ {ev}, m_unscheduledEvents' = m_unscheduledEvents - 1
  PROVE  CountInv' /\ m_unscheduledEvents' \in Nat /\ m_events' \subseteq Event
<1>1. TypeOK /\ CountInv
  BY DEF IInv
<1>2. IsFiniteSet(m_events') /\ Cardinality(m_events') = Cardinality(m_events) - 1
  BY <1>1, FS_RemoveElement DEF CountInv
<1>3. Cardinality(m_events') \in Nat
  BY <1>2, FS_CardinalityType
<1> QED BY <1>1, <1>2, <1>3, Types DEF CountInv

(* Remove, from an event or outside Run *)
LEMMA RemoveKeepsInv ==
  ASSUME IInv, NEW ev \in m_events, Remove(ev)
  PROVE  IInv'
<1> USE DEF Remove, clockVars, runVars
<1>1. CountInv' /\ m_unscheduledEvents' \in Nat /\ m_events' \subseteq Event
  BY EraseKeepsCount
<1>2. TypeOK'
  BY <1>1 DEF IInv, TypeOK
<1>3. KeyInv'
  BY DEF IInv, KeyInv, now
<1>4. WaitInv' /\ NoLostWakeup'
  BY DEF IInv, WaitInv, NoLostWakeup, InUserCode, Realtime
<1> QED BY <1>1, <1>2, <1>3, <1>4 DEF IInv

(* The second critical section takes up the earliest event; the others are  *)
(* later than it, because no two have the same uid.                         *)
LEMMA TakeKeepsInv ==
  ASSUME IInv, NEW ev \in m_events, TakeEvent(ev)
  PROVE  IInv'
<1> USE DEF TakeEvent, runVars
<1>1. CountInv' /\ m_unscheduledEvents' \in Nat /\ m_events' \subseteq Event
  BY EraseKeepsCount
<1>2. TypeOK
  BY DEF IInv
<1>3. TypeOK'
  BY <1>1, <1>2, Types DEF TypeOK
<1>4. \A e \in m_events \ {ev} : KeyLess(ev, e)
  BY <1>2, Types DEF IInv, KeyInv, IsNext, KeyLess
<1>5. KeyInv'
  BY <1>2, <1>4, Types DEF IInv, KeyInv, KeyLess, now
<1>6. WaitInv' /\ NoLostWakeup'
  BY DEF IInv, WaitInv, NoLostWakeup, Realtime
<1> QED BY <1>1, <1>3, <1>5, <1>6 DEF IInv

(* The first critical section computes the target and resets the condition. *)
LEMMA PaceKeepsInv == ASSUME IInv, Pace PROVE IInv'
<1> USE DEF Pace, queueVars, clockVars, runVars
<1>1. TypeOK
  BY DEF IInv
<1>2. PICK ev \in m_events :
        /\ IsNext(ev, m_events)
        /\ target' = IF ev.ts <= Realtime THEN Realtime ELSE ev.ts
  OBVIOUS
<1>3. Realtime \in Nat /\ Realtime' = Realtime
  BY <1>1, Types DEF IInv, WaitInv, Realtime
<1>4. target' \in Nat /\ ev.ts <= target'
  BY <1>1, <1>2, <1>3, Types
<1>5. TypeOK'
  BY <1>1, <1>4, Types DEF TypeOK
<1>6. KeyInv' /\ CountInv'
  BY DEF IInv, KeyInv, CountInv, now
<1>7. WaitInv'
  BY <1>2, <1>4 DEF IInv, WaitInv
<1>8. NoLostWakeup'
  BY <1>1, <1>2, <1>3, Types DEF NoLostWakeup, IsNext, KeyLess
<1> QED BY <1>5, <1>6, <1>7, <1>8 DEF IInv

(* The steps that leave the list and the clock of the simulation alone. *)
LEMMA QuietStepKeepsInv ==
  ASSUME IInv,
         \/ Stop \/ StartReader \/ JoinReader \/ Run \/ SetOrigin \/ LoopTest
         \/ TimedWaitRefused \/ SynchronizeReached \/ SynchronizeInterrupted \/ EventReturns
         \/ RunReturns \/ Tick \/ UNCHANGED vars
  PROVE  IInv'
<1> USE DEF Stop, StartReader, JoinReader, Run, SetOrigin, LoopTest, TimedWaitRefused,
            SynchronizeReached, SynchronizeInterrupted, EventReturns, RunReturns, Tick, vars,
            queueVars, clockVars, runVars
<1>1. TypeOK
  BY DEF IInv
<1>2. UNCHANGED <<queueVars, clockVars>>
  OBVIOUS
<1>3. KeyInv' /\ CountInv'
  BY <1>2 DEF IInv, KeyInv, CountInv, now
<1>4. TypeOK'
  <2>1. /\ m_realtimeOriginNano' \in Nat /\ wall' \in Nat /\ target' \in Nat
        /\ runs' \in Nat
    BY <1>1, Types
  <2>2. m_stop' \in BOOLEAN /\ m_running' \in BOOLEAN /\ m_condition' \in BOOLEAN
        /\ reader' \in BOOLEAN
    BY <1>1, Types, Zenon
  <2>3. pc' \in {"outside", "origin", "loop", "pace", "sync", "refused", "take", "event", "done"}
    BY <1>1, Types
  <2> QED BY <1>1, <1>2, <2>1, <2>2, <2>3 DEF TypeOK
<1>5. WaitInv'
  BY <1>1, <1>2, Types DEF IInv, WaitInv, Realtime
<1>6. NoLostWakeup'
  BY <1>1, <1>2, Types DEF IInv, NoLostWakeup, Realtime
<1> QED BY <1>3, <1>4, <1>5, <1>6 DEF IInv

(* What the stamps of the scheduling calls are. *)
LEMMA SchedulingInserts ==
  ASSUME IInv,
         \/ \E d \in Delays : Schedule(d)
         \/ \E c \in Contexts, d \in Delays : ScheduleWithContext(c, d)
         \/ ReaderCall
  PROVE  \E ts \in Nat, context \in Contexts \cup {NoContext} :
            ts >= m_currentTs /\ Insert(ts, context)
<1> USE DelaysAssumption
<1>1. TypeOK
  BY DEF IInv
<1>2. Realtime \in Int
  BY <1>1, Types DEF Realtime
<1>3. CASE \E d \in Delays : Schedule(d)
  BY <1>1, <1>3, Types DEF Schedule
<1>4. CASE \E c \in Contexts, d \in Delays : ScheduleWithContext(c, d)
  BY <1>1, <1>4, Types DEF ScheduleWithContext
<1>5. CASE \E c \in Contexts : ScheduleRealtimeNowWithContext(c)
  BY <1>1, <1>2, <1>5, Types DEF ScheduleRealtimeNowWithContext
<1>6. CASE \E c \in Contexts, d \in Delays : ScheduleRealtimeWithContext(c, d)
  BY <1>1, <1>2, <1>6, Types DEF ScheduleRealtimeWithContext
<1> QED BY <1>3, <1>4, <1>5, <1>6 DEF ReaderCall

LEMMA NextKeepsInv == IInv /\ [Next]_vars => IInv'
<1> SUFFICES ASSUME IInv, [Next]_vars PROVE IInv'
  OBVIOUS
<1> QED BY SchedulingInserts, InsertKeepsInv, RemoveKeepsInv, TakeKeepsInv, PaceKeepsInv,
           QuietStepKeepsInv DEF Next, MainStep, UserCall

(* The invariant holds in every state of the two threads. *)
THEOREM Invariance == Spec => []IInv
BY InitInv, NextKeepsInv, PTL DEF Spec

(* Run's closing assertion: the count both threads change is that of the    *)
(* list, at every moment; and the types hold.                               *)
THEOREM CountCorrect == Spec => []NoneLost
<1>1. IInv => NoneLost
  BY DEF IInv, CountInv, NoneLost
<1> QED BY <1>1, Invariance, PTL

(* No insertion slips in between the computation of the delay and the wait  *)
(* (ProcessOneEvent, WallClockSynchronizer::Synchronize).                   *)
THEOREM WakeupNeverLost == Spec => []NoLostWakeup
<1>1. IInv => NoLostWakeup
  BY DEF IInv
<1> QED BY <1>1, Invariance, PTL

(* The event taken up after a wait is due, whatever was inserted meanwhile. *)
THEOREM EventsNeverEarly == Spec => []NeverEarly
<1>1. IInv => NeverEarly
  <2> SUFFICES ASSUME IInv, pc = "take"
               PROVE  \E ev \in m_events : IsNext(ev, m_events) /\ ev.ts <= Realtime
    BY DEF NeverEarly
  <2>1. PICK ev \in m_events : IsNext(ev, m_events) /\ ev.ts <= target
    BY DEF IInv, WaitInv
  <2>2. ev.ts \in Nat /\ target \in Nat /\ Realtime \in Int /\ target <= Realtime
    BY Types DEF IInv, WaitInv, Realtime
  <2> QED BY <2>1, <2>2
<1> QED BY <1>1, Invariance, PTL

-----------------------------------------------------------------------------
(* The refinement of EventLoop *)

Keys(events) == {[ts |-> e.ts, uid |-> e.uid] : e \in events}

(* An insertion adds one key, later than the last one taken up. *)
LEMMA InsertRefines ==
  ASSUME IInv, NEW ts \in Nat, ts >= m_currentTs,
         NEW context \in Contexts \cup {NoContext}, Insert(ts, context)
  PROVE  Loop!Add
<1> DEFINE ev == [ts |-> ts, uid |-> m_uid, context |-> context]
           k == [ts |-> ev.ts, uid |-> ev.uid]
<1>1. k \in Loop!Key /\ KeyLess(now, k)
  BY Types DEF IInv, KeyInv, KeyLess, now, Loop!Key
<1>2. m_events' = m_events \cup {ev} /\ now' = now
  BY DEF Insert, clockVars, now
<1>3. Keys(m_events)' = Keys(m_events) \cup {k}
  BY <1>2 DEF Keys
<1>4. \A p \in Keys(m_events) : p.uid # k.uid
  BY Types DEF IInv, KeyInv, Keys
<1> HIDE DEF ev, k
<1>5. k \in Keys(m_events)'
  BY <1>3
<1> QED BY <1>1, <1>2, <1>3, <1>4, <1>5 DEF Loop!Add, Loop!KeyLess, KeyLess, Keys

(* The event taken up is the one with the least key. *)
LEMMA TakeRefines ==
  ASSUME IInv, NEW ev \in m_events, TakeEvent(ev)
  PROVE  Loop!TakeUp
<1> DEFINE k == [ts |-> ev.ts, uid |-> ev.uid]
<1>1. now' = k /\ m_events' = m_events \ {ev} /\ \A f \in m_events : ~ KeyLess(f, ev)
  BY DEF TakeEvent, now, IsNext
<1>2. \A e \in m_events : e.uid = ev.uid => e = ev
  BY DEF IInv, KeyInv
<1>3. \A e \in m_events : [ts |-> e.ts, uid |-> e.uid] = k => e.uid = ev.uid
  OBVIOUS
<1>4. Keys(m_events)' = Keys(m_events) \ {k}
  BY <1>1, <1>2, <1>3 DEF Keys
<1>5. k \in Keys(m_events) /\ \A p \in Keys(m_events) : ~ KeyLess(p, k)
  BY <1>1 DEF Keys, KeyLess
<1> HIDE DEF k
<1> QED BY <1>1, <1>4, <1>5 DEF Loop!TakeUp, Loop!IsNext, Loop!KeyLess, KeyLess, Keys

(* The other steps leave the clock alone and at most remove events. *)
LEMMA OtherStepsRefine ==
  ASSUME m_events' \subseteq m_events, UNCHANGED <<m_currentTs, m_currentUid>>
  PROVE  Loop!Drop
<1> DEFINE gone == Keys(m_events) \ Keys(m_events')
<1>1. Keys(m_events)' = Keys(m_events') /\ Keys(m_events') \subseteq Keys(m_events)
  BY DEF Keys
<1>2. Keys(m_events)' = Keys(m_events) \ gone /\ gone \in SUBSET Keys(m_events)
  BY <1>1
<1> HIDE DEF gone
<1> QED BY <1>2 DEF Loop!Drop, now, Keys

(* The event list and the clock implement EventLoop whatever a read thread  *)
(* hands over, and when.                                                    *)
THEOREM Refinement == Spec => ImplementsEventLoop
<1>1. Init => Loop!Init
  BY DEF Init, Loop!Init, now
<1>2. IInv /\ [Next]_vars => [Loop!Next]_(Loop!vars)
  <2> SUFFICES ASSUME IInv, [Next]_vars PROVE [Loop!Next]_(Loop!vars)
    OBVIOUS
  <2> USE DEF Loop!Next
  <2>1. CASE \/ \E d \in Delays : Schedule(d)
             \/ \E c \in Contexts, d \in Delays : ScheduleWithContext(c, d)
             \/ ReaderCall
    BY <2>1, SchedulingInserts, InsertRefines
  <2>2. ASSUME NEW ev \in m_events, TakeEvent(ev) PROVE Loop!TakeUp
    BY <2>2, TakeRefines
  <2>3. ASSUME NEW ev \in m_events, Remove(ev) PROVE Loop!Drop
    BY <2>3, OtherStepsRefine DEF Remove, clockVars
  <2>4. CASE \/ Stop \/ StartReader \/ JoinReader \/ Run \/ SetOrigin \/ LoopTest \/ Pace
             \/ TimedWaitRefused \/ SynchronizeReached \/ SynchronizeInterrupted \/ EventReturns
             \/ RunReturns \/ Tick \/ UNCHANGED vars
    BY <2>4, OtherStepsRefine
       DEF Stop, StartReader, JoinReader, Run, SetOrigin, LoopTest, Pace, TimedWaitRefused,
           SynchronizeReached, SynchronizeInterrupted, EventReturns, RunReturns, Tick, vars, queueVars, clockVars
  <2> QED BY <2>1, <2>2, <2>3, <2>4 DEF Next, MainStep, UserCall
<1> QED BY <1>1, <1>2, Invariance, PTL DEF Spec, ImplementsEventLoop, Loop!Spec
=============================================================================
