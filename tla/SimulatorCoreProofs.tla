------------------------ MODULE SimulatorCoreProofs -------------------------
(***************************************************************************)
(* DefaultSimulatorImpl for every set of contexts, every set of delays and *)
(* any number of events.  The inductive invariant is QueueInv: it ties the *)
(* EventIds callers hold to the list and to the clock, which is what       *)
(* IsExpired relies on when it answers without looking in the list.        *)
(***************************************************************************)
EXTENDS SimulatorCore, FiniteSetTheorems, TLAPS

-----------------------------------------------------------------------------
(* The event any scheduling call makes is an Event: delays are not negative. *)
LEMMA NewEventType ==
  ASSUME TypeOK, NEW d \in Nat, NEW c \in Contexts \cup {NoContext}
  PROVE  NewEvent(d, c) \in Event
BY DEF TypeOK, NewEvent, Event

(* Erasing one entry of m_destroyEvents leaves a list of the same kind. *)
LEMMA WithoutType ==
  ASSUME NEW S, NEW s \in Seq(S), NEW i \in DOMAIN s
  PROVE  Without(s, i) \in Seq(S)
<1>1. Len(s) - 1 \in Nat /\ i \in 1 .. Len(s)
  OBVIOUS
<1>2. \A j \in 1 .. Len(s) - 1 : (IF j < i THEN s[j] ELSE s[j + 1]) \in S
  BY <1>1
<1> QED BY <1>1, <1>2 DEF Without

(* The constructor gives every variable a value of its type. *)
LEMMA TypeCorrectInit == Init => TypeOK
<1> SUFFICES ASSUME Init PROVE TypeOK
  OBVIOUS
<1>1. m_destroyEvents \in Seq(Event)
  BY DEF Init
<1>2. m_uid \in Nat /\ m_currentUid \in Nat /\ m_currentTs \in Nat
      /\ m_unscheduledEvents \in Int
  BY DEF Init, FirstUid
<1>3. m_currentContext \in Contexts \cup {NoContext} /\ m_stop \in BOOLEAN
  BY DEF Init
<1> QED BY <1>1, <1>2, <1>3 DEF Init, TypeOK

(* No call and no callback takes a variable out of its type. *)
LEMMA TypeCorrectStep == TypeOK /\ [Next]_vars => TypeOK'
<1> SUFFICES ASSUME TypeOK, [Next]_vars PROVE TypeOK'
  OBVIOUS
<1> USE DelaysAssumption, MaxUidAssumption
<1>1. ASSUME NEW d \in Delays, Schedule(d) PROVE TypeOK'
  <2>1. NewEvent(d, m_currentContext) \in Event
    BY NewEventType DEF TypeOK
  <2> QED BY <1>1, <2>1 DEF TypeOK, Schedule, Insert, clockVars, cancelVars
<1>2. ASSUME NEW d \in Delays, StopAt(d) PROVE TypeOK'
  <2>1. NewEvent(d, m_currentContext) \in Event
    BY NewEventType DEF TypeOK
  <2> QED BY <1>2, <2>1 DEF TypeOK, StopAt, Insert, NewEvent, Event, clockVars, cancelVars
<1>3. ASSUME NEW c \in Contexts, NEW d \in Delays, ScheduleWithContext(c, d)
      PROVE TypeOK'
  <2>1. NewEvent(d, c) \in Event
    BY NewEventType DEF TypeOK
  <2> QED BY <1>3, <2>1 DEF TypeOK, ScheduleWithContext, Insert, clockVars, cancelVars
<1>4. ASSUME ScheduleNow PROVE TypeOK'
  <2>1. NewEvent(0, m_currentContext) \in Event
    BY NewEventType DEF TypeOK
  <2> QED BY <1>4, <2>1 DEF TypeOK, ScheduleNow, Insert, clockVars, cancelVars
<1>5. ASSUME ScheduleDestroy PROVE TypeOK'
  <2>1. PICK id : id = [ts |-> m_currentTs, context |-> NoContext, uid |-> DestroyUid, impl |-> m_uid]
    OBVIOUS
  <2>2. id \in Event
    BY <2>1 DEF TypeOK, Event, DestroyUid
  <2>3. m_destroyEvents' = Append(m_destroyEvents, id) /\ handles' = handles \cup {id}
    BY <2>1, <1>5 DEF ScheduleDestroy
  <2> QED BY <1>5, <2>2, <2>3 DEF TypeOK, ScheduleDestroy, clockVars, cancelVars
<1>6. ASSUME Stop PROVE TypeOK'
  BY <1>6 DEF TypeOK, Stop, queueVars, clockVars, cancelVars
<1>7. ASSUME NEW id \in handles, Cancel(id) PROVE TypeOK'
  BY <1>7 DEF TypeOK, Cancel, CallOff, Event, queueVars, clockVars
<1>8. ASSUME NEW id \in handles, Remove(id) PROVE TypeOK'
  <2> id.impl \in Nat
    BY DEF TypeOK, Event
  <2>1. CASE RemoveDestroy(id)
    <3>1. CASE id \in Elements(m_destroyEvents)
      <4> DEFINE i == CHOOSE i \in DOMAIN m_destroyEvents : m_destroyEvents[i] = id
      <4>1. i \in DOMAIN m_destroyEvents
        BY <3>1 DEF Elements
      <4>2. Without(m_destroyEvents, i) \in Seq(Event)
        BY <4>1, WithoutType DEF TypeOK
      <4> QED BY <1>8, <2>1, <3>1, <4>2 DEF TypeOK, Remove, RemoveDestroy, CallOff, clockVars
    <3>2. CASE id \notin Elements(m_destroyEvents)
      BY <1>8, <2>1, <3>2 DEF TypeOK, Remove, RemoveDestroy, CallOff, clockVars
    <3> QED BY <3>1, <3>2
  <2>2. CASE RemovePending(id)
    <3>1. m_unscheduledEvents' \in Int /\ m_events' \subseteq Event
      BY <2>2 DEF TypeOK, RemovePending
    <3> QED BY <1>8, <2>2, <3>1 DEF TypeOK, Remove, RemovePending, CallOff, clockVars
  <2>3. CASE RemoveExpired(id)
    BY <1>8, <2>3 DEF TypeOK, Remove, RemoveExpired, CallOff, clockVars
  <2> QED BY <1>8, <2>1, <2>2, <2>3 DEF Remove
<1>9. ASSUME NEW ev \in m_events, NEW inside \in {"event", "oneEvent"},
             NEW after \in {"loop", "outside"}, TakeEvent(ev, inside, after)
      PROVE  TypeOK'
  <2>1. ev \in Event
    BY DEF TypeOK
  <2>2. ev.ts \in Nat /\ ev.uid \in Nat /\ ev.impl \in Nat
        /\ ev.context \in Contexts \cup {NoContext}
    BY <2>1 DEF Event
  <2>3. invoked' \subseteq Nat /\ m_stop' \in BOOLEAN
    BY <1>9, <2>2 DEF TypeOK, TakeEvent, Invoke
  <2>4. pc' \in {"event", "oneEvent", "loop", "outside"}
    BY <1>9 DEF TakeEvent, Invoke
  <2> QED BY <1>9, <2>2, <2>3, <2>4 DEF TypeOK, TakeEvent, cancelVars
<1>10. ASSUME DestroyNext PROVE TypeOK'
  <2>1. m_destroyEvents \in Seq(Event) /\ m_destroyEvents # <<>>
    BY <1>10 DEF TypeOK, DestroyNext
  <2>2. Head(m_destroyEvents) \in Event /\ Tail(m_destroyEvents) \in Seq(Event)
    BY <2>1
  <2>3. Head(m_destroyEvents).impl \in Nat
    BY <2>2 DEF Event
  <2> QED BY <1>10, <2>2, <2>3 DEF TypeOK, DestroyNext, cancelVars
<1>11. CASE Run \/ EventReturns \/ RunReturns \/ Destroy \/ DestroyEventReturns \/ Dispose
  BY <1>11 DEF TypeOK, Run, EventReturns, RunReturns, Destroy, DestroyEventReturns,
               Dispose, queueVars, clockVars, cancelVars
<1>12. CASE UNCHANGED vars
  BY <1>12 DEF TypeOK, vars, queueVars, clockVars, cancelVars
<1> QED
  BY <1>1, <1>2, <1>3, <1>4, <1>5, <1>6, <1>7, <1>8, <1>9, <1>10, <1>11, <1>12
     DEF Next, UserCall, ProcessOneEvent, RunOneEvent

(* Every variable keeps its type through every call and every callback. *)
THEOREM TypeCorrect == Spec => []TypeOK
BY TypeCorrectInit, TypeCorrectStep, PTL DEF Spec

-----------------------------------------------------------------------------
(* ScheduleDestroy's push_back adds the new event and nothing else. *)
LEMMA ElementsAppend ==
  ASSUME NEW S, NEW s \in Seq(S), NEW x \in S
  PROVE  Elements(Append(s, x)) = Elements(s) \cup {x}
<1> DEFINE t == Append(s, x)
<1>1. Len(t) = Len(s) + 1 /\ t[Len(s) + 1] = x /\ \A i \in 1 .. Len(s) : t[i] = s[i]
  OBVIOUS
<1>2. DOMAIN t = 1 .. Len(s) + 1 /\ DOMAIN s = 1 .. Len(s) /\ Len(s) \in Nat
  OBVIOUS
<1> QED BY <1>1, <1>2 DEF Elements

(* Destroy's pop_front drops the head of the list and shifts the rest. *)
LEMMA ElementsTail ==
  ASSUME NEW S, NEW s \in Seq(S), s # <<>>
  PROVE  /\ Elements(Tail(s)) \subseteq Elements(s)
         /\ Elements(s) = Elements(Tail(s)) \cup {Head(s)}
         /\ Head(s) = s[1] /\ 1 \in DOMAIN s
         /\ \A i \in DOMAIN Tail(s) : i + 1 \in DOMAIN s /\ Tail(s)[i] = s[i + 1]
<1>1. Len(s) \in Nat \ {0} /\ DOMAIN s = 1 .. Len(s)
  OBVIOUS
<1>2. DOMAIN Tail(s) = 1 .. Len(s) - 1 /\ \A i \in 1 .. Len(s) - 1 : Tail(s)[i] = s[i + 1]
  OBVIOUS
<1>3. Head(s) = s[1]
  OBVIOUS
<1>4. \A i \in 1 .. Len(s) : i = 1 \/ (i - 1 \in 1 .. Len(s) - 1 /\ s[i] = Tail(s)[i - 1])
  BY <1>1, <1>2
<1>5. Elements(Tail(s)) \subseteq Elements(s)
  BY <1>1, <1>2 DEF Elements
<1>6. Elements(s) \subseteq Elements(Tail(s)) \cup {Head(s)}
  <2> SUFFICES ASSUME NEW i \in 1 .. Len(s)
               PROVE  s[i] \in Elements(Tail(s)) \cup {Head(s)}
    BY <1>1 DEF Elements
  <2> QED BY <1>2, <1>3, <1>4 DEF Elements
<1>7. Head(s) \in Elements(s)
  BY <1>1, <1>3 DEF Elements
<1>8. \A i \in DOMAIN Tail(s) : i + 1 \in DOMAIN s /\ Tail(s)[i] = s[i + 1]
  BY <1>1, <1>2
<1> QED BY <1>1, <1>3, <1>5, <1>6, <1>7, <1>8

(* Remove's erase drops the one entry it found, and keeps the order. *)
LEMMA ElementsWithout ==
  ASSUME NEW S, NEW s \in Seq(S), NEW i \in DOMAIN s
  PROVE  /\ Elements(Without(s, i)) \subseteq Elements(s)
         /\ Elements(s) = Elements(Without(s, i)) \cup {s[i]}
         /\ \A j, k \in DOMAIN Without(s, i) :
              j < k => \E m, n \in DOMAIN s :
                         m < n /\ s[m] = Without(s, i)[j] /\ s[n] = Without(s, i)[k]
<1> DEFINE w == Without(s, i)
<1>1. Len(s) \in Nat /\ DOMAIN s = 1 .. Len(s) /\ i \in 1 .. Len(s)
  OBVIOUS
<1>2. DOMAIN w = 1 .. Len(s) - 1
  BY DEF Without
<1>3. \A j \in 1 .. Len(s) - 1 : w[j] = IF j < i THEN s[j] ELSE s[j + 1]
  BY DEF Without
<1> HIDE DEF w
<1>4. \A j \in 1 .. Len(s) : j = i \/ (j < i /\ s[j] = w[j] /\ j \in 1 .. Len(s) - 1)
                              \/ (j > i /\ s[j] = w[j - 1] /\ j - 1 \in 1 .. Len(s) - 1)
  BY <1>1, <1>3
<1>5. Elements(w) \subseteq Elements(s)
  BY <1>1, <1>2, <1>3 DEF Elements
<1>6. Elements(s) = Elements(w) \cup {s[i]}
  <2>1. ASSUME NEW j \in 1 .. Len(s) PROVE s[j] \in Elements(w) \cup {s[i]}
    <3>1. CASE j = i
      BY <3>1
    <3>2. CASE j < i /\ s[j] = w[j] /\ j \in 1 .. Len(s) - 1
      BY <3>2, <1>2 DEF Elements
    <3>3. CASE j > i /\ s[j] = w[j - 1] /\ j - 1 \in 1 .. Len(s) - 1
      BY <3>3, <1>2 DEF Elements
    <3> QED BY <1>4, <3>1, <3>2, <3>3
  <2>2. s[i] \in Elements(s)
    BY DEF Elements
  <2> QED BY <1>1, <1>5, <2>1, <2>2 DEF Elements
<1>7. ASSUME NEW j \in DOMAIN w, NEW k \in DOMAIN w, j < k
      PROVE  \E m, n \in DOMAIN s : m < n /\ s[m] = w[j] /\ s[n] = w[k]
  <2> DEFINE m == IF j < i THEN j ELSE j + 1
             n == IF k < i THEN k ELSE k + 1
  <2>1. m \in DOMAIN s /\ n \in DOMAIN s /\ m < n
    BY <1>1, <1>2, <1>7
  <2>2. s[m] = w[j] /\ s[n] = w[k]
    BY <1>2, <1>3, <1>7
  <2> QED BY <2>1, <2>2
<1>8. w = Without(s, i)
  BY DEF w
<1> QED BY <1>5, <1>6, <1>7, <1>8

-----------------------------------------------------------------------------
(* What IInv says of single events and handles, in the form the steps use. *)
LEMMA Types ==
  ASSUME TypeOK
  PROVE  /\ now \in [ts : Nat, uid : Nat]
         /\ \A e \in m_events \cup handles :
              e.ts \in Nat /\ e.uid \in Nat /\ e.impl \in Nat
BY DEF TypeOK, Event, now

(* An EventId that is not expired is in the list, or in the destroy list,   *)
(* and its function was not entered; an expired one names no event that is  *)
(* in a list and still to run.                                              *)
LEMMA ExpiredMeans ==
  ASSUME IInv, pc # "gone", NEW id \in handles
  PROVE  /\ ~ IsExpired(id) /\ id.uid # DestroyUid =>
              id \in m_events /\ id.impl \notin invoked
         /\ ~ IsExpired(id) /\ id.uid = DestroyUid =>
              id \in Elements(m_destroyEvents) /\ id.impl \notin invoked
         /\ IsExpired(id) /\ id.impl \notin cancelled =>
              \A e \in m_events \cup Elements(m_destroyEvents) : e.impl # id.impl
<1>1. Elements(m_destroyEvents) \subseteq AtDestroy /\ AtDestroy \subseteq handles
  BY DEF IInv, DestroyInv, AtDestroy
<1>2. \A e \in m_events \cup Elements(m_destroyEvents) : e.impl = id.impl => e = id
  BY <1>1 DEF IInv, UidInv
<1>3. CASE id.uid # DestroyUid
  <2>1. id \in Ordinary
    BY <1>3 DEF Ordinary
  <2>2. ~ IsExpired(id) => id \in m_events /\ id.impl \notin invoked
    BY <2>1, <1>3 DEF IInv, QueueInv, IsExpired
  <2>3. IsExpired(id) /\ id.impl \notin cancelled => ~ KeyLess(now, id)
    BY <1>3 DEF IsExpired
  <2>4. id \notin AtDestroy
    BY <1>3 DEF AtDestroy
  <2> QED BY <1>1, <1>2, <1>3, <2>2, <2>3, <2>4 DEF IInv, QueueInv
<1>4. CASE id.uid = DestroyUid
  <2>1. id \notin m_events
    BY <1>4 DEF IInv, UidInv, FirstUid, DestroyUid
  <2> QED BY <1>1, <1>2, <1>4, <2>1 DEF IInv, DestroyInv, IsExpired
<1> QED BY <1>3, <1>4

-----------------------------------------------------------------------------
(* Scheduling: the new event is later than the clock because its uid is new. *)
LEMMA InsertKeepsInv ==
  ASSUME IInv, TypeOK', pc # "gone",
         NEW delay \in Nat, NEW context \in Contexts \cup {NoContext},
         Insert(NewEvent(delay, context)),
         handles' = handles \/ handles' = handles \cup {NewEvent(delay, context)}
  PROVE  IInv'
<1> DEFINE ev == NewEvent(delay, context)
<1> USE DEF clockVars, cancelVars
<1>1. /\ ev.ts = m_currentTs + delay /\ ev.uid = m_uid /\ ev.impl = m_uid
      /\ m_currentTs \in Nat /\ m_uid \in Nat /\ m_currentUid < m_uid
      /\ m_currentUid \in Nat
  BY DEF NewEvent, IInv, UidInv, TypeOK
<1>2. KeyLess(now, ev) /\ now' = now /\ ev.uid # DestroyUid
  BY <1>1 DEF KeyLess, now, Insert, IInv, UidInv, FirstUid, DestroyUid
<1>3. ev.impl \notin invoked \cup calledOff /\ ev \notin m_events \cup handles
  BY <1>1 DEF IInv, UidInv
<1>4. /\ m_uid' = m_uid + 1 /\ m_events' = m_events \cup {ev}
      /\ handles' \subseteq handles \cup {ev}
  BY DEF Insert
<1>5. ev.impl \notin cancelled
  BY <1>3 DEF IInv, CallOffInv
<1>6. Ordinary' \subseteq Ordinary \cup {ev} /\ AtDestroy' = AtDestroy
  BY <1>2 DEF Ordinary, AtDestroy
<1> HIDE DEF ev
<1>7. UidInv'
  <2>1. \A e \in m_events' \cup handles' : e \in m_events \cup handles \/ e = ev
    BY <1>4
  <2>2. \A e \in m_events' \cup handles' : FirstUid <= e.impl /\ e.impl < m_uid'
    BY <1>1, <1>4, <2>1, Types DEF IInv, UidInv, FirstUid
  <2>3. \A e, f \in m_events' \cup handles' : e.impl = f.impl => e = f
    BY <1>1, <2>1 DEF IInv, UidInv
  <2>4. \A e \in m_events' : e.uid = e.impl
    BY <1>1, <1>4 DEF IInv, UidInv
  <2>5. \A h \in Ordinary' : h.uid = h.impl
    BY <1>1, <1>6 DEF IInv, UidInv
  <2>6. m_uid' >= FirstUid /\ m_currentUid' < m_uid'
    BY <1>1, <1>4 DEF IInv, UidInv, Insert, FirstUid
  <2>7. \A i \in (invoked \cup calledOff)' : i < m_uid'
    BY <1>1, <1>4 DEF IInv, UidInv, Insert, TypeOK
  <2> QED BY <2>2, <2>3, <2>4, <2>5, <2>6, <2>7 DEF UidInv
<1>8. QueueInv'
  <2>1. IsFiniteSet(m_events') /\ UnscheduledCount'
    BY <1>3, <1>4, FS_AddElement DEF IInv, QueueInv, UnscheduledCount, Insert
  <2>2. \A e \in m_events' : KeyLess(now, e)' /\ e.impl \notin invoked'
    BY <1>2, <1>3, <1>4 DEF IInv, QueueInv, Insert, now, KeyLess
  <2>3. \A h \in Ordinary' : KeyLess(now, h)' =>
           h \in m_events' \/ h.impl \in cancelled'
    BY <1>2, <1>4, <1>6 DEF IInv, QueueInv, Insert, KeyLess, now
  <2>4. \A h \in Ordinary' : IF KeyLess(now, h)' THEN h.impl \notin invoked'
                                          ELSE h.impl \in (invoked \cup calledOff)'
    BY <1>2, <1>3, <1>6 DEF IInv, QueueInv, Insert, KeyLess, now
  <2> QED BY <2>1, <2>2, <2>3, <2>4 DEF QueueInv
<1>9. CallOffInv'
  BY <1>3, <1>4 DEF IInv, CallOffInv, CalledOffNeverRuns, Insert, Elements
<1>10. DestroyInv'
  BY <1>6 DEF IInv, DestroyInv, Insert, Elements
<1> QED BY <1>7, <1>8, <1>9, <1>10 DEF IInv

(* m_uid++ in ScheduleDestroy keeps impls apart from those of the list. *)
LEMMA ScheduleDestroyKeepsInv ==
  ASSUME IInv, TypeOK', ScheduleDestroy
  PROVE  IInv'
<1> DEFINE id == [ts |-> m_currentTs, context |-> NoContext,
                  uid |-> DestroyUid, impl |-> m_uid]
<1> USE DEF clockVars, cancelVars
<1>1. id.uid = DestroyUid /\ id.impl = m_uid /\ id \in Event /\ m_uid \in Nat
  BY DEF IInv, TypeOK, Event, DestroyUid
<1>2. /\ m_uid' = m_uid + 1 /\ m_events' = m_events
      /\ handles' = handles \cup {id}
      /\ Elements(m_destroyEvents)' = Elements(m_destroyEvents) \cup {id}
      /\ m_destroyEvents' = Append(m_destroyEvents, id)
  BY <1>1, ElementsAppend DEF ScheduleDestroy, IInv, TypeOK, Elements
<1>3. id.impl \notin invoked \cup calledOff \cup cancelled /\ id \notin m_events \cup handles
  BY <1>1 DEF IInv, UidInv, CallOffInv
<1>4. Ordinary' = Ordinary /\ AtDestroy' = AtDestroy \cup {id} /\ now' = now
  BY <1>1, <1>2 DEF Ordinary, AtDestroy, now, ScheduleDestroy
<1> HIDE DEF id
<1>5. UidInv'
  <2>1. \A e \in m_events' \cup handles' : FirstUid <= e.impl /\ e.impl < m_uid'
    BY <1>1, <1>2, Types DEF IInv, UidInv, FirstUid
  <2>2. \A e, f \in m_events' \cup handles' : e.impl = f.impl => e = f
    BY <1>1, <1>2 DEF IInv, UidInv
  <2>3. m_uid' >= FirstUid /\ m_currentUid' < m_uid'
    BY <1>1, <1>2 DEF IInv, UidInv, ScheduleDestroy, FirstUid, TypeOK
  <2>4. \A i \in (invoked \cup calledOff)' : i < m_uid'
    BY <1>1, <1>2 DEF IInv, UidInv, ScheduleDestroy, TypeOK
  <2> QED BY <1>2, <1>4, <2>1, <2>2, <2>3, <2>4 DEF UidInv, IInv
<1>6. QueueInv'
  BY <1>2, <1>4 DEF IInv, QueueInv, ScheduleDestroy, UnscheduledCount, KeyLess, now
<1>7. CallOffInv'
  BY <1>2, <1>3 DEF IInv, CallOffInv, CalledOffNeverRuns, ScheduleDestroy
<1>8. DestroyInv'
  <2>1. \A d \in Elements(m_destroyEvents)' : d \in AtDestroy' /\ d.impl \notin invoked'
    BY <1>2, <1>3, <1>4 DEF IInv, DestroyInv, ScheduleDestroy
  <2>2. \A i, j \in DOMAIN m_destroyEvents' :
          i < j => m_destroyEvents'[i].impl < m_destroyEvents'[j].impl
    <3>1. /\ m_destroyEvents \in Seq(Event) /\ id \in Event
          /\ Len(m_destroyEvents) \in Nat
      BY <1>1 DEF IInv, TypeOK
    <3>2. /\ DOMAIN m_destroyEvents' = 1 .. Len(m_destroyEvents) + 1
          /\ DOMAIN m_destroyEvents = 1 .. Len(m_destroyEvents)
          /\ \A i \in DOMAIN m_destroyEvents : m_destroyEvents'[i] = m_destroyEvents[i]
          /\ m_destroyEvents'[Len(m_destroyEvents) + 1] = id
      BY <1>2, <3>1
    <3>3. \A i \in DOMAIN m_destroyEvents : m_destroyEvents[i].impl < m_uid
      BY DEF IInv, DestroyInv, UidInv, Elements, AtDestroy
    <3>4. \A i \in 1 .. Len(m_destroyEvents) + 1 :
            i \in 1 .. Len(m_destroyEvents) \/ i = Len(m_destroyEvents) + 1
      BY <3>1
    <3> QED BY <1>1, <3>1, <3>2, <3>3, <3>4 DEF IInv, DestroyInv
  <2>3. \A h \in AtDestroy' : h \in Elements(m_destroyEvents)'
                              \/ h.impl \in (invoked \cup calledOff)'
    BY <1>2, <1>4 DEF IInv, DestroyInv, ScheduleDestroy
  <2>4. \A h \in AtDestroy', d \in Elements(m_destroyEvents)' :
          h.impl \in invoked' => h.impl < d.impl
    BY <1>1, <1>2, <1>3, <1>4 DEF IInv, DestroyInv, ScheduleDestroy, UidInv
  <2> QED BY <2>1, <2>2, <2>3, <2>4 DEF DestroyInv
<1> QED BY <1>5, <1>6, <1>7, <1>8 DEF IInv

(* Cancel marks an event exactly when ExpiredMeans says it is still to run. *)
LEMMA CancelKeepsInv ==
  ASSUME IInv, TypeOK', pc # "gone", NEW id \in handles, Cancel(id)
  PROVE  IInv'
<1> USE DEF queueVars, clockVars
<1>1. /\ UNCHANGED <<m_events, m_destroyEvents, m_uid, handles, m_currentUid, pc,
                     invoked, m_unscheduledEvents>>
      /\ Ordinary' = Ordinary /\ AtDestroy' = AtDestroy /\ now' = now
      /\ Elements(m_destroyEvents)' = Elements(m_destroyEvents)
      /\ cancelled \subseteq cancelled' /\ calledOff \subseteq calledOff'
      /\ calledOff' = calledOff \cup ({id.impl} \ invoked)
  BY DEF Cancel, CallOff, Ordinary, AtDestroy, now, Elements
<1>2. UidInv'
  BY <1>1 DEF IInv, UidInv
<1>3. QueueInv'
  BY <1>1 DEF IInv, QueueInv, UnscheduledCount, KeyLess, now
<1>4. CallOffInv'
  <2>1. CASE IsExpired(id)
    BY <1>1, <2>1, ExpiredMeans DEF IInv, CallOffInv, CalledOffNeverRuns, Cancel
  <2>2. CASE ~ IsExpired(id)
    <3>1. id.impl \notin invoked /\ cancelled' = cancelled \cup {id.impl}
      BY <2>2, ExpiredMeans DEF Cancel
    <3> QED BY <1>1, <3>1 DEF IInv, CallOffInv, CalledOffNeverRuns
  <2> QED BY <2>1, <2>2
<1>5. DestroyInv'
  BY <1>1 DEF IInv, DestroyInv
<1> QED BY <1>2, <1>3, <1>4, <1>5 DEF IInv

(* A destroy event leaves its list unmarked; no other list holds its impl. *)
LEMMA RemoveDestroyKeepsInv ==
  ASSUME IInv, TypeOK', pc # "gone", NEW id \in handles, Remove(id), RemoveDestroy(id)
  PROVE  IInv'
<1> USE DEF clockVars
<1>1. /\ UNCHANGED <<m_events, m_uid, handles, m_currentUid, pc, invoked, cancelled,
                     m_unscheduledEvents>>
      /\ Ordinary' = Ordinary /\ AtDestroy' = AtDestroy /\ now' = now
      /\ calledOff' = calledOff \cup ({id.impl} \ invoked)
      /\ id \in AtDestroy
  BY DEF Remove, RemoveDestroy, CallOff, Ordinary, AtDestroy, now
<1>2. UidInv'
  BY <1>1 DEF IInv, UidInv
<1>3. QueueInv'
  BY <1>1 DEF IInv, QueueInv, UnscheduledCount, KeyLess, now
<1>4. Elements(m_destroyEvents) \subseteq AtDestroy /\ AtDestroy \subseteq handles
  BY DEF IInv, DestroyInv, AtDestroy
<1>5. id \notin m_events /\ \A e \in m_events : e.impl # id.impl
  BY <1>1 DEF IInv, UidInv, AtDestroy, DestroyUid, FirstUid
<1>6. CASE id \notin Elements(m_destroyEvents)
  <2>1. m_destroyEvents' = m_destroyEvents /\ Elements(m_destroyEvents)' = Elements(m_destroyEvents)
    BY <1>6 DEF RemoveDestroy, Elements
  <2>2. \A e \in Elements(m_destroyEvents) : e.impl # id.impl
    BY <1>4, <1>6 DEF IInv, UidInv
  <2>3. CallOffInv'
    BY <1>1, <1>5, <2>1, <2>2 DEF IInv, CallOffInv, CalledOffNeverRuns
  <2>4. DestroyInv'
    BY <1>1, <2>1 DEF IInv, DestroyInv
  <2> QED BY <1>2, <1>3, <2>3, <2>4 DEF IInv
<1>7. CASE id \in Elements(m_destroyEvents)
  <2> DEFINE i == CHOOSE i \in DOMAIN m_destroyEvents : m_destroyEvents[i] = id
             s == m_destroyEvents
             w == Without(s, i)
  <2>1. i \in DOMAIN s /\ s[i] = id /\ m_destroyEvents' = w
    BY <1>7 DEF RemoveDestroy, Elements
  <2> HIDE DEF i
  <2>2. s \in Seq(Event)
    BY DEF IInv, TypeOK
  <2>3. /\ Elements(w) \subseteq Elements(s)
        /\ Elements(s) = Elements(w) \cup {id}
        /\ \A j, k \in DOMAIN w :
              j < k => \E m, n \in DOMAIN s : m < n /\ s[m] = w[j] /\ s[n] = w[k]
    BY <2>1, <2>2, ElementsWithout
  <2>4. Elements(m_destroyEvents)' = Elements(w)
    BY <2>1 DEF Elements
  <2>5. \A j, k \in DOMAIN w : j < k => w[j].impl < w[k].impl
    BY <2>3 DEF IInv, DestroyInv
  <2>6. id \notin Elements(w)
    <3>1. SUFFICES ASSUME NEW j \in DOMAIN w, w[j] = id PROVE FALSE
      BY DEF Elements
    <3>2. Len(s) \in Nat /\ DOMAIN s = 1 .. Len(s) /\ DOMAIN w = 1 .. Len(s) - 1
      BY <2>2 DEF Without
    <3>3. w[j] = IF j < i THEN s[j] ELSE s[j + 1]
      BY <3>2 DEF Without
    <3>4. \A m, n \in DOMAIN s : m < n => s[m].impl < s[n].impl
      BY DEF IInv, DestroyInv
    <3>5. id.impl \in Nat
      BY Types DEF IInv
    <3> QED BY <2>1, <3>1, <3>2, <3>3, <3>4, <3>5
  <2>7. \A e \in Elements(w) : e.impl # id.impl
    BY <1>4, <2>3, <2>6 DEF IInv, UidInv
  <2>8. CallOffInv'
    BY <1>1, <1>5, <2>3, <2>4, <2>7 DEF IInv, CallOffInv, CalledOffNeverRuns
  <2>9. DestroyInv'
    BY <1>1, <2>1, <2>3, <2>4, <2>5 DEF IInv, DestroyInv
  <2> QED BY <1>2, <1>3, <2>8, <2>9 DEF IInv
<1> QED BY <1>6, <1>7

(* Remove takes an unexpired event out of the list: it is there to be taken. *)
LEMMA RemoveKeepsInv ==
  ASSUME IInv, TypeOK', pc # "gone", NEW id \in handles, Remove(id)
  PROVE  IInv'
<1> USE DEF clockVars
<1>1. /\ UNCHANGED <<m_uid, handles, m_currentUid, pc, invoked>>
      /\ Ordinary' = Ordinary /\ AtDestroy' = AtDestroy /\ now' = now
      /\ calledOff' = calledOff \cup ({id.impl} \ invoked)
  BY DEF Remove, CallOff, Ordinary, AtDestroy, now
<1>2. CASE RemoveDestroy(id)
  BY <1>2, RemoveDestroyKeepsInv
<1>3. CASE RemovePending(id)
  <2>1. id \in m_events /\ id.impl \notin invoked
    BY <1>3, ExpiredMeans DEF RemovePending
  <2>2. /\ m_events' = m_events \ {id} /\ cancelled' = cancelled \cup {id.impl}
        /\ m_destroyEvents' = m_destroyEvents
        /\ Elements(m_destroyEvents)' = Elements(m_destroyEvents)
        /\ m_unscheduledEvents' = m_unscheduledEvents - 1
    BY <1>3 DEF RemovePending, Elements
  <2>3. UidInv'
    BY <1>1, <2>2 DEF IInv, UidInv
  <2>4. QueueInv'
    <3>1. IsFiniteSet(m_events') /\ UnscheduledCount'
      BY <1>1, <2>1, <2>2, FS_RemoveElement DEF IInv, QueueInv, UnscheduledCount
    <3>2. \A h \in Ordinary : h \in m_events => h \in m_events' \/ h.impl \in cancelled'
      BY <2>2
    <3> QED BY <1>1, <2>2, <3>1, <3>2 DEF IInv, QueueInv, KeyLess, now
  <2>5. CallOffInv'
    BY <1>1, <2>1, <2>2 DEF IInv, CallOffInv, CalledOffNeverRuns
  <2>6. DestroyInv'
    BY <1>1, <2>2 DEF IInv, DestroyInv
  <2> QED BY <2>3, <2>4, <2>5, <2>6 DEF IInv
<1>4. CASE RemoveExpired(id)
  <2>1. /\ UNCHANGED <<m_events, m_unscheduledEvents, m_destroyEvents, cancelled>>
        /\ Elements(m_destroyEvents)' = Elements(m_destroyEvents) /\ IsExpired(id)
    BY <1>4 DEF RemoveExpired, Elements
  <2>2. UidInv' /\ DestroyInv'
    BY <1>1, <2>1 DEF IInv, UidInv, DestroyInv
  <2>3. QueueInv'
    BY <1>1, <2>1 DEF IInv, QueueInv, UnscheduledCount, KeyLess, now
  <2>4. CallOffInv'
    BY <1>1, <2>1, ExpiredMeans DEF IInv, CallOffInv, CalledOffNeverRuns
  <2> QED BY <2>2, <2>3, <2>4 DEF IInv
<1> QED BY <1>2, <1>3, <1>4 DEF Remove

-----------------------------------------------------------------------------
(* Taking up the earliest event moves the clock past exactly that event. *)
LEMMA TakeKeepsInv ==
  ASSUME IInv, TypeOK', pc # "gone",
         NEW ev \in m_events, NEW inside, NEW after,
         TakeEvent(ev, inside, after)
  PROVE  IInv'
<1> USE DEF cancelVars
<1>1. /\ IsNext(ev, m_events) /\ m_events' = m_events \ {ev}
      /\ UNCHANGED <<m_destroyEvents, m_uid, handles, cancelled, calledOff>>
      /\ Ordinary' = Ordinary /\ AtDestroy' = AtDestroy
      /\ Elements(m_destroyEvents)' = Elements(m_destroyEvents)
      /\ now' = [ts |-> ev.ts, uid |-> ev.uid]
      /\ invoked' = IF ev.impl \in cancelled THEN invoked ELSE invoked \cup {ev.impl}
  BY DEF TakeEvent, Invoke, Ordinary, AtDestroy, Elements, now
<1>2. /\ KeyLess(now, ev) /\ ev.impl \notin invoked /\ ev.uid = ev.impl
      /\ FirstUid <= ev.impl /\ ev.impl < m_uid
      /\ ev.impl \in calledOff => ev.impl \in cancelled
  BY DEF IInv, QueueInv, UidInv, CallOffInv
<1>3. /\ \A e \in m_events \cup handles : e.ts \in Nat /\ e.uid \in Nat /\ e.impl \in Nat
      /\ now.ts \in Nat /\ now.uid \in Nat
  BY Types DEF IInv, now
<1>4. \A e : KeyLess(now', e) <=> KeyLess(ev, e)
  BY <1>1 DEF KeyLess
<1>5. UidInv'
  <2>1. \A e \in m_events' \cup handles' : e \in m_events \cup handles
    BY <1>1
  <2>2. m_currentUid' < m_uid' /\ m_uid' >= FirstUid
    BY <1>1, <1>2 DEF IInv, UidInv, TakeEvent
  <2>3. \A i \in (invoked \cup calledOff)' : i < m_uid'
    BY <1>1, <1>2 DEF IInv, UidInv
  <2> QED BY <1>1, <2>1, <2>2, <2>3 DEF IInv, UidInv
<1>6. \A e \in m_events' : KeyLess(ev, e) /\ e.impl # ev.impl
  <2> TAKE e \in m_events'
  <2>1. e \in m_events /\ e # ev /\ e.impl # ev.impl /\ e.uid = e.impl /\ ~ KeyLess(e, ev)
    BY <1>1 DEF IInv, UidInv, IsNext
  <2> QED BY <1>2, <1>3, <2>1 DEF KeyLess
<1>7. QueueInv'
  <2>1. IsFiniteSet(m_events') /\ UnscheduledCount'
    BY <1>1, FS_RemoveElement DEF IInv, QueueInv, UnscheduledCount, TakeEvent
  <2>2. \A e \in m_events' : KeyLess(now', e) /\ e.impl \notin invoked'
    BY <1>1, <1>4, <1>6 DEF IInv, QueueInv
  <2>3. ASSUME NEW h \in Ordinary, KeyLess(now', h)
        PROVE  KeyLess(now, h) /\ h # ev
    BY <1>2, <1>3, <1>4, <2>3 DEF KeyLess, Ordinary
  <2>4. \A h \in Ordinary : KeyLess(now', h) => h \in m_events' \/ h.impl \in cancelled'
    BY <1>1, <2>3 DEF IInv, QueueInv
  <2>5. ASSUME NEW h \in Ordinary, KeyLess(now', h) PROVE h.impl \notin invoked'
    BY <1>1, <2>3, <2>5 DEF IInv, QueueInv, UidInv, Ordinary
  <2>6. ASSUME NEW h \in Ordinary, ~ KeyLess(now', h)
        PROVE  h.impl \in invoked' \cup calledOff'
    <3>1. CASE ~ KeyLess(now, h)
      BY <1>1, <3>1 DEF IInv, QueueInv
    <3>2. CASE KeyLess(now, h) /\ h.impl \in cancelled
      BY <1>1, <3>2 DEF IInv, CallOffInv
    <3>3. CASE KeyLess(now, h) /\ h \in m_events
      <4>1. ~ KeyLess(h, ev) /\ ~ KeyLess(ev, h) /\ h.uid = h.impl
        BY <1>1, <1>4, <2>6, <3>3 DEF IsNext, IInv, UidInv
      <4>2. h.impl = ev.impl
        BY <1>2, <1>3, <3>3, <4>1 DEF KeyLess
      <4> QED BY <1>1, <4>2 DEF IInv, CallOffInv
    <3> QED BY <3>1, <3>2, <3>3 DEF IInv, QueueInv
  <2> QED BY <1>1, <2>1, <2>2, <2>4, <2>5, <2>6, Zenon DEF QueueInv
<1>8. CallOffInv'
  BY <1>1, <1>2 DEF IInv, CallOffInv, CalledOffNeverRuns
<1>9. DestroyInv'
  <2>1. \A h \in AtDestroy : h.impl # ev.impl
    BY <1>2 DEF IInv, UidInv, AtDestroy, FirstUid, DestroyUid
  <2> QED BY <1>1, <2>1 DEF IInv, DestroyInv
<1> QED BY <1>5, <1>7, <1>8, <1>9 DEF IInv

(* Destroy runs the head of its list, which has the smallest impl in it. *)
LEMMA DestroyNextKeepsInv ==
  ASSUME IInv, TypeOK', DestroyNext
  PROVE  IInv'
<1> USE DEF cancelVars
<1> DEFINE s == m_destroyEvents
           d == Head(s)
<1>1. s \in Seq(Event) /\ s # <<>>
  BY DEF IInv, TypeOK, DestroyNext
<1>2. /\ Elements(Tail(s)) \subseteq Elements(s)
      /\ Elements(s) = Elements(Tail(s)) \cup {d}
      /\ d = s[1] /\ 1 \in DOMAIN s /\ d \in Elements(s)
      /\ \A i \in DOMAIN Tail(s) : i + 1 \in DOMAIN s /\ Tail(s)[i] = s[i + 1]
  BY <1>1, ElementsTail DEF Elements
<1>3. /\ UNCHANGED <<m_events, m_uid, handles, m_unscheduledEvents, m_currentUid,
                     cancelled, calledOff>>
      /\ Ordinary' = Ordinary /\ AtDestroy' = AtDestroy /\ now' = now
      /\ s' = Tail(s) /\ Elements(s)' = Elements(Tail(s))
      /\ invoked' = IF d.impl \in cancelled THEN invoked ELSE invoked \cup {d.impl}
      /\ pc # "gone" /\ pc' # "gone"
  BY DEF DestroyNext, Ordinary, AtDestroy, now, Elements
<1> HIDE DEF d
<1>4. /\ d \in AtDestroy /\ d \in handles /\ d.impl \notin invoked
      /\ d.impl < m_uid
  BY <1>2 DEF IInv, DestroyInv, AtDestroy, UidInv
<1>5. \A e \in m_events \cup Ordinary : e.impl # d.impl
  BY <1>4 DEF IInv, UidInv, AtDestroy, Ordinary, FirstUid, DestroyUid
<1>6. \A i \in DOMAIN Tail(s) : d.impl < Tail(s)[i].impl
  <2>1. \A i \in DOMAIN Tail(s) : i \in Nat /\ 1 < i + 1
    BY <1>1
  <2> QED BY <1>2, <2>1 DEF IInv, DestroyInv
<1>7. UidInv'
  BY <1>3, <1>4 DEF IInv, UidInv
<1>8. QueueInv'
  BY <1>3, <1>5 DEF IInv, QueueInv, UnscheduledCount, KeyLess, now
<1>9. CallOffInv'
  BY <1>2, <1>3 DEF IInv, CallOffInv, CalledOffNeverRuns
<1>10. DestroyInv'
  <2>1. \A e \in Elements(Tail(s)) : d.impl < e.impl /\ e.impl \in Nat
    BY <1>2, <1>6, Types DEF Elements, IInv, DestroyInv, AtDestroy
  <2>2. \A e \in Elements(s)' : e \in AtDestroy' /\ e.impl \notin invoked'
    BY <1>2, <1>3, <2>1 DEF IInv, DestroyInv
  <2>3. \A i, j \in DOMAIN Tail(s) : i < j => Tail(s)[i].impl < Tail(s)[j].impl
    <3>1. \A i, j \in DOMAIN Tail(s) : i < j => i + 1 < j + 1
      BY <1>1
    <3> QED BY <1>2, <3>1 DEF IInv, DestroyInv
  <2>4. \A h \in AtDestroy' : h \in Elements(s)' \/ h.impl \in (invoked \cup calledOff)'
    BY <1>2, <1>3 DEF IInv, DestroyInv, CallOffInv
  <2>5. \A h \in AtDestroy', e \in Elements(s)' : h.impl \in invoked' => h.impl < e.impl
    BY <1>2, <1>3, <2>1 DEF IInv, DestroyInv
  <2> QED BY <1>3, <2>2, <2>3, <2>4, <2>5 DEF DestroyInv
<1> QED BY <1>7, <1>8, <1>9, <1>10 DEF IInv

-----------------------------------------------------------------------------
(* The invariant holds of a simulator just constructed. *)
LEMMA InitInv == Init => IInv
<1> SUFFICES ASSUME Init PROVE IInv
  OBVIOUS
<1>1. TypeOK
  BY TypeCorrectInit
<1>2. m_events = {} /\ handles = {} /\ Elements(m_destroyEvents) = {}
      /\ Ordinary = {} /\ AtDestroy = {} /\ DOMAIN m_destroyEvents = {}
  BY DEF Init, Elements, Ordinary, AtDestroy
<1>3. UidInv
  BY <1>2 DEF Init, UidInv, FirstUid
<1>4. QueueInv
  BY <1>2, FS_EmptySet DEF Init, QueueInv, UnscheduledCount
<1>5. CallOffInv /\ DestroyInv
  BY <1>2 DEF Init, CallOffInv, CalledOffNeverRuns, DestroyInv
<1> QED BY <1>1, <1>3, <1>4, <1>5 DEF IInv

(* Calls and returns that leave lists, clock and flags alone. *)
LEMMA QuietStepKeepsInv ==
  ASSUME IInv, TypeOK', UNCHANGED <<queueVars, clockVars, cancelVars>>,
         pc # "gone" \/ pc' = pc
  PROVE  IInv'
<1>1. /\ UNCHANGED <<m_events, m_destroyEvents, m_uid, handles, m_unscheduledEvents,
                     m_currentUid, invoked, cancelled, calledOff>>
      /\ Ordinary' = Ordinary /\ AtDestroy' = AtDestroy /\ now' = now
      /\ Elements(m_destroyEvents)' = Elements(m_destroyEvents)
  BY DEF queueVars, clockVars, cancelVars, Ordinary, AtDestroy, now, Elements
<1> QED BY <1>1 DEF IInv, UidInv, QueueInv, UnscheduledCount, CallOffInv,
                    CalledOffNeverRuns, DestroyInv, KeyLess

(* Simulator::Destroy may drop the list: nothing runs after it. *)
LEMMA DisposeKeepsInv ==
  ASSUME IInv, TypeOK', Dispose
  PROVE  IInv'
<1>1. /\ m_events' = {} /\ pc' = "gone"
      /\ UNCHANGED <<m_destroyEvents, m_uid, handles, m_currentUid, invoked,
                     cancelled, calledOff>>
      /\ Ordinary' = Ordinary /\ AtDestroy' = AtDestroy /\ now' = now
      /\ Elements(m_destroyEvents)' = Elements(m_destroyEvents)
  BY DEF Dispose, clockVars, cancelVars, Ordinary, AtDestroy, now, Elements
<1> QED BY <1>1, FS_EmptySet DEF IInv, UidInv, QueueInv, UnscheduledCount, CallOffInv,
                    CalledOffNeverRuns, DestroyInv, KeyLess

(* Every public call and every step of Run and Destroy keeps the invariant. *)
LEMMA NextKeepsInv == IInv /\ [Next]_vars => IInv'
<1> SUFFICES ASSUME IInv, [Next]_vars PROVE IInv'
  OBVIOUS
<1> USE DelaysAssumption
<1>1. TypeOK'
  BY TypeCorrectStep DEF IInv
<1>2. m_currentContext \in Contexts \cup {NoContext}
  BY DEF IInv, TypeOK
<1>3. ASSUME NEW d \in Delays, Schedule(d) PROVE IInv'
  BY <1>1, <1>2, <1>3, InsertKeepsInv DEF Schedule, InUserCode
<1>4. ASSUME NEW d \in Delays, StopAt(d) PROVE IInv'
  BY <1>1, <1>2, <1>4, InsertKeepsInv DEF StopAt, InUserCode
<1>5. ASSUME NEW c \in Contexts, NEW d \in Delays, ScheduleWithContext(c, d) PROVE IInv'
  BY <1>1, <1>5, InsertKeepsInv DEF ScheduleWithContext, InUserCode
<1>6. CASE ScheduleNow
  BY <1>1, <1>2, <1>6, InsertKeepsInv DEF ScheduleNow, InUserCode
<1>7. CASE ScheduleDestroy
  BY <1>1, <1>7, ScheduleDestroyKeepsInv
<1>8. ASSUME NEW id \in handles, Cancel(id) PROVE IInv'
  BY <1>1, <1>8, CancelKeepsInv DEF Cancel, InUserCode
<1>9. ASSUME NEW id \in handles, Remove(id) PROVE IInv'
  BY <1>1, <1>9, RemoveKeepsInv DEF Remove, InUserCode
<1>10. CASE ProcessOneEvent \/ RunOneEvent
  <2>1. CASE ProcessOneEvent
    <3>1. PICK ev \in m_events : TakeEvent(ev, "event", "loop")
      BY <2>1 DEF ProcessOneEvent
    <3>2. pc # "gone"
      BY <2>1 DEF ProcessOneEvent
    <3> QED BY <1>1, <3>1, <3>2, TakeKeepsInv
  <2>2. CASE RunOneEvent
    <3>1. PICK ev \in m_events : TakeEvent(ev, "oneEvent", "outside")
      BY <2>2 DEF RunOneEvent
    <3>2. pc # "gone"
      BY <2>2 DEF RunOneEvent
    <3> QED BY <1>1, <3>1, <3>2, TakeKeepsInv
  <2> QED BY <1>10, <2>1, <2>2
<1>11. CASE DestroyNext
  BY <1>1, <1>11, DestroyNextKeepsInv
<1>12. CASE Dispose
  BY <1>1, <1>12, DisposeKeepsInv
<1>13. CASE Stop \/ Run \/ EventReturns \/ RunReturns \/ Destroy \/ DestroyEventReturns
  BY <1>1, <1>13, QuietStepKeepsInv
     DEF Stop, InUserCode, Run, EventReturns, RunReturns, Destroy, DestroyEventReturns,
         queueVars, clockVars, cancelVars
<1>14. CASE UNCHANGED vars
  BY <1>1, <1>14, QuietStepKeepsInv DEF vars
<1> QED
  BY <1>3, <1>4, <1>5, <1>6, <1>7, <1>8, <1>9, <1>10, <1>11, <1>12, <1>13, <1>14
     DEF Next, UserCall

(* The inductive invariant holds in every reachable state. *)
THEOREM Invariance == Spec => []IInv
BY InitInv, NextKeepsInv, PTL DEF Spec

(* No call order puts an event behind the clock, so ProcessOneEvent's       *)
(* assertion next.key.m_ts >= m_currentTs never fails.                      *)
THEOREM ClockNeverPasses == Spec => []NothingPendingInThePast
<1>1. IInv => NothingPendingInThePast
  BY DEF IInv, QueueInv, NothingPendingInThePast
<1> QED BY <1>1, Invariance, PTL

(* Run's closing assertion holds: m_unscheduledEvents counts the list. *)
THEOREM CountCorrect == Spec => []UnscheduledCount
<1>1. IInv => UnscheduledCount
  BY DEF IInv, QueueInv
<1> QED BY <1>1, Invariance, PTL

(* IsExpired, which looks only at the clock and the flag, is exact. *)
THEOREM ExpiryExact == Spec => []ExpiredIffNotPending
<1>1. IInv => ExpiredIffNotPending
  BY DEF IInv, QueueInv, ExpiredIffNotPending, IsExpired, Ordinary
<1> QED BY <1>1, Invariance, PTL

(* An event cancelled or removed before it ran never runs. *)
THEOREM CallOffEffective == Spec => []CalledOffNeverRuns
<1>1. IInv => CalledOffNeverRuns
  BY DEF IInv, CallOffInv
<1> QED BY <1>1, Invariance, PTL

(* Events run in key order, over the whole history. *)
THEOREM RunInOrder == Spec => []EventsRunInOrder
<1>1. IInv => EventsRunInOrder
  <2> SUFFICES ASSUME IInv, NEW h \in Ordinary, NEW g \in Ordinary,
                      KeyLess(h, g), g.impl \in invoked
               PROVE  h.impl \in invoked \cup calledOff
    BY DEF EventsRunInOrder
  <2>1. ~ KeyLess(now, g)
    BY DEF IInv, QueueInv
  <2>2. now \in [ts : Nat, uid : Nat] /\ h.ts \in Nat /\ h.uid \in Nat
        /\ g.ts \in Nat /\ g.uid \in Nat
    BY Types DEF IInv, Ordinary
  <2>3. ~ KeyLess(now, h)
    BY <2>1, <2>2 DEF KeyLess
  <2> QED BY <2>3 DEF IInv, QueueInv
<1> QED BY <1>1, Invariance, PTL

(* Destroy events run in the order they were scheduled. *)
THEOREM DestroyInOrder == Spec => []DestroyEventsRunInOrder
<1>1. IInv => DestroyEventsRunInOrder
  <2> SUFFICES ASSUME IInv, NEW h \in AtDestroy, NEW g \in AtDestroy,
                      h.impl < g.impl, g.impl \in invoked,
                      h.impl \notin invoked \cup calledOff
               PROVE  FALSE
    BY DEF DestroyEventsRunInOrder
  <2>1. h \in Elements(m_destroyEvents)
    BY DEF IInv, DestroyInv
  <2>2. g.impl < h.impl /\ g.impl \in Nat /\ h.impl \in Nat
    BY <2>1, Types DEF IInv, DestroyInv, AtDestroy
  <2> QED BY <2>2
<1> QED BY <1>1, Invariance, PTL

-----------------------------------------------------------------------------
(* Refinement: every step is a step of EventLoop or leaves it alone. *)
Keys(events) == {[ts |-> e.ts, uid |-> e.uid] : e \in events}

(* Two events of the list never share a key: m_uid++ keeps uids apart. *)
LEMMA KeysInjective ==
  ASSUME IInv, NEW ev \in m_events
  PROVE  Keys(m_events \ {ev}) = Keys(m_events) \ {[ts |-> ev.ts, uid |-> ev.uid]}
<1>1. \A e \in m_events : e.uid = ev.uid => e = ev
  BY DEF IInv, UidInv
<1>2. \A e \in m_events : [ts |-> e.ts, uid |-> e.uid] = [ts |-> ev.ts, uid |-> ev.uid]
                          => e.uid = ev.uid
  OBVIOUS
<1> QED BY <1>1, <1>2 DEF Keys

(* A scheduling call adds one key, later than the last one taken up. *)
LEMMA InsertRefines ==
  ASSUME IInv, NEW delay \in Nat, NEW context \in Contexts \cup {NoContext},
         Insert(NewEvent(delay, context))
  PROVE  Loop!Add
<1> DEFINE ev == NewEvent(delay, context)
           k == [ts |-> ev.ts, uid |-> ev.uid]
<1>1. /\ ev.ts = m_currentTs + delay /\ ev.uid = m_uid
      /\ m_currentTs \in Nat /\ m_uid \in Nat /\ m_currentUid \in Nat
      /\ m_currentUid < m_uid
  BY DEF NewEvent, IInv, UidInv, TypeOK
<1>2. k \in [ts : Nat, uid : Nat] /\ KeyLess(now, k)
  BY <1>1 DEF KeyLess, now
<1>3. \A e \in m_events : e.uid # m_uid
  BY <1>1, Types DEF IInv, UidInv
<1>4. m_events' = m_events \cup {ev} /\ now' = now
  BY DEF Insert, clockVars, now
<1>5. Keys(m_events)' = Keys(m_events) \cup {k}
  BY <1>4 DEF Keys
<1>6. \A p \in Keys(m_events) : p.uid # k.uid
  BY <1>1, <1>3 DEF Keys
<1> HIDE DEF ev, k
<1>7. k \in Keys(m_events)'
  BY <1>5
<1> QED BY <1>2, <1>4, <1>5, <1>6, <1>7 DEF Loop!Add, Loop!Key, Loop!KeyLess, KeyLess, Keys

(* ProcessOneEvent takes up the earliest key of the list. *)
LEMMA TakeRefines ==
  ASSUME IInv, NEW ev \in m_events, NEW inside, NEW after,
         TakeEvent(ev, inside, after)
  PROVE  Loop!TakeUp
<1> DEFINE k == [ts |-> ev.ts, uid |-> ev.uid]
<1>1. now' = k /\ m_events' = m_events \ {ev} /\ \A f \in m_events : ~ KeyLess(f, ev)
  BY DEF TakeEvent, now, IsNext
<1>2. Keys(m_events)' = Keys(m_events) \ {k}
  BY <1>1, KeysInjective DEF Keys
<1>3. k \in Keys(m_events) /\ \A p \in Keys(m_events) : ~ KeyLess(p, k)
  BY <1>1 DEF Keys, KeyLess
<1> HIDE DEF k
<1> QED BY <1>1, <1>2, <1>3 DEF Loop!TakeUp, Loop!IsNext, Loop!KeyLess, KeyLess, Keys

(* Calls that leave the clock alone can only drop keys (Remove, DoDispose). *)
LEMMA OtherStepsRefine ==
  ASSUME m_events' \subseteq m_events, UNCHANGED <<m_currentTs, m_currentUid>>
  PROVE  Loop!Drop
<1> DEFINE gone == Keys(m_events) \ Keys(m_events')
<1>1. Keys(m_events)' = Keys(m_events') /\ Keys(m_events') \subseteq Keys(m_events)
  BY DEF Keys
<1>2. Keys(m_events)' = Keys(m_events) \ gone /\ gone \in SUBSET Keys(m_events)
  BY <1>1
<1> HIDE DEF gone
<1> QED BY <1>2 DEF Loop!Drop, now, Keys

(* The event list and the clock implement EventLoop. *)
THEOREM Refinement == Spec => ImplementsEventLoop
<1>1. Init => Loop!Init
  BY DEF Init, Loop!Init, now
<1>2. IInv /\ [Next]_vars => [Loop!Next]_(Loop!vars)
  <2> SUFFICES ASSUME IInv, [Next]_vars PROVE [Loop!Next]_(Loop!vars)
    OBVIOUS
  <2> USE DelaysAssumption DEF Loop!Next
  <2>1. m_currentContext \in Contexts \cup {NoContext}
    BY DEF IInv, TypeOK
  <2>2. ASSUME NEW d \in Delays,
               \/ Schedule(d) \/ StopAt(d)
               \/ \E c \in Contexts : ScheduleWithContext(c, d)
        PROVE  Loop!Add
    BY <2>1, <2>2, InsertRefines DEF Schedule, StopAt, ScheduleWithContext
  <2>3. CASE ScheduleNow
    BY <2>1, <2>3, InsertRefines DEF ScheduleNow
  <2>4. CASE ProcessOneEvent \/ RunOneEvent
    <3>1. CASE ProcessOneEvent
      <4>1. PICK ev \in m_events : TakeEvent(ev, "event", "loop")
        BY <3>1 DEF ProcessOneEvent
      <4> QED BY <4>1, TakeRefines
    <3>2. CASE RunOneEvent
      <4>1. PICK ev \in m_events : TakeEvent(ev, "oneEvent", "outside")
        BY <3>2 DEF RunOneEvent
      <4> QED BY <4>1, TakeRefines
    <3> QED BY <2>4, <3>1, <3>2
  <2>5. ASSUME NEW id \in handles, Cancel(id) \/ Remove(id) PROVE Loop!Drop
    BY <2>5, OtherStepsRefine
       DEF Cancel, Remove, RemoveDestroy, RemovePending, RemoveExpired,
           queueVars, clockVars
  <2>6. CASE \/ ScheduleDestroy \/ Stop \/ Run \/ EventReturns \/ RunReturns
             \/ Destroy \/ DestroyNext \/ DestroyEventReturns \/ Dispose
    BY <2>6, OtherStepsRefine
       DEF ScheduleDestroy, Stop, Run, EventReturns, RunReturns, Destroy,
           DestroyNext, DestroyEventReturns, Dispose, queueVars, clockVars
  <2>7. CASE UNCHANGED vars
    BY <2>7 DEF vars, queueVars, clockVars, Loop!vars, now
  <2> QED BY <2>2, <2>3, <2>4, <2>5, <2>6, <2>7 DEF Next, UserCall
<1> QED BY <1>1, <1>2, Invariance, PTL DEF Spec, ImplementsEventLoop, Loop!Spec
=============================================================================
