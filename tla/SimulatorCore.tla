--------------------------- MODULE SimulatorCore ----------------------------
(***************************************************************************)
(* DefaultSimulatorImpl: the event list, the clock, and the calls user     *)
(* code makes on them from three places: outside Run, from a running       *)
(* event, and from an event run by Destroy.                                *)
(*                                                                         *)
(* An event is the record [ts, context, uid, impl] the simulator keys it   *)
(* by; an EventId is the same record.  impl stands for the EventImpl, one  *)
(* per scheduling call; the value of m_uid at that call names it (m_uid++  *)
(* also runs for destroy events, whose key uid is always 2).               *)
(***************************************************************************)
EXTENDS EventKey, Integers, Sequences, FiniteSets

CONSTANTS Contexts,    \* node contexts events run in
          NoContext,   \* 0xffffffff
          Delays,      \* relative times callers schedule with
          MaxUid       \* bound: no event is scheduled once m_uid is MaxUid

ASSUME DelaysAssumption == Delays \subseteq Nat
ASSUME MaxUidAssumption == MaxUid \in Nat

FirstUid == 4      \* uids 0 to 3 are reserved
DestroyUid == 2

VARIABLES m_events,             \* Scheduler contents
          m_destroyEvents,      \* DestroyEvents list
          m_uid,
          m_currentUid,
          m_currentTs,
          m_currentContext,
          m_stop,
          m_unscheduledEvents,
          cancelled,   \* impls whose m_cancel is set
          stops,       \* impls whose function is Simulator::Stop
          pc,          \* where the thread is
          handles,     \* history: EventIds returned to user code
          invoked,     \* history: impls whose function was entered
          calledOff    \* history: impls cancelled or removed before that

queueVars == <<m_events, m_destroyEvents, m_uid, m_unscheduledEvents,
               handles, stops>>
clockVars == <<m_currentUid, m_currentTs, m_currentContext, invoked>>
cancelVars == <<cancelled, calledOff>>
vars == <<queueVars, clockVars, cancelVars, m_stop, pc>>

Event == [ts : Nat, context : Contexts \cup {NoContext}, uid : Nat, impl : Nat]
now == [ts |-> m_currentTs, uid |-> m_currentUid]

Elements(s) == {s[i] : i \in DOMAIN s}

(* Bugs: the running event counts as pending; events of the same time as     *)
(* the running one count as expired.                                         *)
IsExpired_Running(id) ==
  \/ id.impl \in cancelled
  \/ IF id.uid = DestroyUid THEN id \notin Elements(m_destroyEvents)
                            ELSE KeyLess(id, now)
IsExpired_SameTime(id) ==
  \/ id.impl \in cancelled
  \/ IF id.uid = DestroyUid THEN id \notin Elements(m_destroyEvents)
                            ELSE id.ts <= m_currentTs

IsExpired(id) ==
  \/ id.impl \in cancelled
  \/ IF id.uid = DestroyUid THEN id \notin Elements(m_destroyEvents)
                            ELSE ~ KeyLess(now, id)

Init == /\ m_events = {}
        /\ m_destroyEvents = <<>>
        /\ m_uid = FirstUid
        /\ m_currentUid = 0
        /\ m_currentTs = 0
        /\ m_currentContext = NoContext
        /\ m_stop = FALSE
        /\ m_unscheduledEvents = 0
        /\ cancelled = {}
        /\ stops = {}
        /\ pc = "outside"
        /\ handles = {}
        /\ invoked = {}
        /\ calledOff = {}
-----------------------------------------------------------------------------
(* User code runs: before and between Runs, in an event, in a destroy event. *)
InUserCode == pc \in {"outside", "event", "oneEvent", "destroyEvent"}

(* Bug: the delay taken for a time. *)
NewEvent_Absolute(delay, context) ==
  [ts |-> delay, context |-> context, uid |-> m_uid, impl |-> m_uid]

NewEvent(delay, context) ==
  [ts |-> m_currentTs + delay, context |-> context, uid |-> m_uid, impl |-> m_uid]

Insert(ev) == /\ m_uid < MaxUid
              /\ m_events' = m_events \cup {ev}
              /\ m_uid' = m_uid + 1
              /\ m_unscheduledEvents' = m_unscheduledEvents + 1
              /\ UNCHANGED <<m_destroyEvents, clockVars, cancelVars, m_stop, pc>>

Schedule(delay) ==
  LET ev == NewEvent(delay, m_currentContext) IN
  /\ InUserCode
  /\ Insert(ev)
  /\ handles' = handles \cup {ev}
  /\ UNCHANGED stops

ScheduleWithContext(context, delay) ==
  /\ InUserCode
  /\ Insert(NewEvent(delay, context))
  /\ UNCHANGED <<handles, stops>>

ScheduleNow ==
  LET ev == NewEvent(0, m_currentContext) IN
  /\ InUserCode
  /\ Insert(ev)
  /\ handles' = handles \cup {ev}
  /\ UNCHANGED stops

(* Stop (time): Simulator::Stop is scheduled and its EventId dropped. *)
StopAt(delay) ==
  LET ev == NewEvent(delay, m_currentContext) IN
  /\ InUserCode
  /\ Insert(ev)
  /\ stops' = stops \cup {ev.impl}
  /\ UNCHANGED handles

Stop == /\ InUserCode
        /\ m_stop' = TRUE
        /\ UNCHANGED <<queueVars, clockVars, cancelVars, pc>>

(* Bug: push_front. *)
ScheduleDestroy_PushFront ==
  LET id == [ts |-> m_currentTs, context |-> NoContext,
             uid |-> DestroyUid, impl |-> m_uid] IN
  /\ InUserCode
  /\ m_uid < MaxUid
  /\ m_destroyEvents' = <<id>> \o m_destroyEvents
  /\ m_uid' = m_uid + 1
  /\ handles' = handles \cup {id}
  /\ UNCHANGED <<m_events, m_unscheduledEvents, stops, clockVars, cancelVars,
                 m_stop, pc>>

ScheduleDestroy ==
  LET id == [ts |-> m_currentTs, context |-> NoContext,
             uid |-> DestroyUid, impl |-> m_uid] IN
  /\ InUserCode
  /\ m_uid < MaxUid
  /\ m_destroyEvents' = Append(m_destroyEvents, id)
  /\ m_uid' = m_uid + 1
  /\ handles' = handles \cup {id}
  /\ UNCHANGED <<m_events, m_unscheduledEvents, stops, clockVars, cancelVars,
                 m_stop, pc>>

CallOff(id) == calledOff' = calledOff \cup ({id.impl} \ invoked)

Cancel(id) ==
  /\ InUserCode
  /\ cancelled' = IF IsExpired(id) THEN cancelled ELSE cancelled \cup {id.impl}
  /\ CallOff(id)
  /\ UNCHANGED <<queueVars, clockVars, m_stop, pc>>

Without(s, i) == [j \in 1 .. Len(s) - 1 |-> IF j < i THEN s[j] ELSE s[j + 1]]

(* A destroy event leaves the list and is not marked cancelled. *)
RemoveDestroy(id) ==
  /\ id.uid = DestroyUid
  /\ m_destroyEvents' =
       IF id \in Elements(m_destroyEvents)
         THEN Without(m_destroyEvents,
                      CHOOSE i \in DOMAIN m_destroyEvents : m_destroyEvents[i] = id)
         ELSE m_destroyEvents
  /\ UNCHANGED <<m_events, m_unscheduledEvents, cancelled>>

RemovePending(id) ==
  /\ id.uid # DestroyUid
  /\ ~ IsExpired(id)
  /\ m_events' = m_events \ {id}
  /\ cancelled' = cancelled \cup {id.impl}
  /\ m_unscheduledEvents' = m_unscheduledEvents - 1
  /\ UNCHANGED m_destroyEvents

RemoveExpired(id) ==
  /\ id.uid # DestroyUid
  /\ IsExpired(id)
  /\ UNCHANGED <<m_events, m_unscheduledEvents, m_destroyEvents, cancelled>>

Remove(id) ==
  /\ InUserCode
  /\ RemoveDestroy(id) \/ RemovePending(id) \/ RemoveExpired(id)
  /\ CallOff(id)
  /\ UNCHANGED <<m_uid, handles, stops, clockVars, m_stop, pc>>
-----------------------------------------------------------------------------
Run == /\ pc = "outside"
       /\ m_stop' = FALSE
       /\ pc' = "loop"
       /\ UNCHANGED <<queueVars, clockVars, cancelVars>>

(* EventImpl::Invoke: nothing when cancelled; Simulator::Stop returns at     *)
(* once; any other function runs user code until it returns.                 *)
Invoke(ev, inside, after) ==
  /\ invoked' = IF ev.impl \in cancelled THEN invoked ELSE invoked \cup {ev.impl}
  /\ m_stop' = (m_stop \/ (ev.impl \in stops /\ ev.impl \notin cancelled))
  /\ pc' = IF ev.impl \in cancelled \cup stops THEN after ELSE inside

TakeEvent(ev, inside, after) ==
  /\ IsNext(ev, m_events)
  /\ m_events' = m_events \ {ev}
  /\ m_unscheduledEvents' = m_unscheduledEvents - 1
  /\ m_currentTs' = ev.ts
  /\ m_currentContext' = ev.context
  /\ m_currentUid' = ev.uid
  /\ Invoke(ev, inside, after)
  /\ UNCHANGED <<m_destroyEvents, m_uid, handles, stops, cancelVars>>

ProcessOneEvent == /\ pc = "loop"
                   /\ ~ m_stop
                   /\ \E ev \in m_events : TakeEvent(ev, "event", "loop")

RunOneEvent == /\ pc = "outside"
               /\ \E ev \in m_events : TakeEvent(ev, "oneEvent", "outside")

EventReturns == /\ \/ pc = "event" /\ pc' = "loop"
                   \/ pc = "oneEvent" /\ pc' = "outside"
                /\ UNCHANGED <<queueVars, clockVars, cancelVars, m_stop>>

RunReturns == /\ pc = "loop"
              /\ m_stop \/ m_events = {}
              /\ pc' = "outside"
              /\ UNCHANGED <<queueVars, clockVars, cancelVars, m_stop>>

Destroy == /\ pc = "outside"
           /\ pc' = "destroying"
           /\ UNCHANGED <<queueVars, clockVars, cancelVars, m_stop>>

DestroyNext ==
  /\ pc = "destroying"
  /\ m_destroyEvents # <<>>
  /\ m_destroyEvents' = Tail(m_destroyEvents)
  /\ LET impl == Head(m_destroyEvents).impl IN
     IF impl \in cancelled
       THEN UNCHANGED <<invoked, pc>>
       ELSE /\ invoked' = invoked \cup {impl}
            /\ pc' = "destroyEvent"
  /\ UNCHANGED <<m_events, m_uid, m_unscheduledEvents, handles, stops,
                 m_currentUid, m_currentTs, m_currentContext, cancelVars, m_stop>>

DestroyEventReturns == /\ pc = "destroyEvent"
                       /\ pc' = "destroying"
                       /\ UNCHANGED <<queueVars, clockVars, cancelVars, m_stop>>

(* Simulator::Destroy drops the implementation; DoDispose empties m_events. *)
Dispose == /\ pc = "destroying"
           /\ m_destroyEvents = <<>>
           /\ m_events' = {}
           /\ pc' = "gone"
           /\ UNCHANGED <<m_destroyEvents, m_uid, m_unscheduledEvents, handles,
                          stops, clockVars, cancelVars, m_stop>>

UserCall == \/ \E d \in Delays : Schedule(d) \/ StopAt(d)
            \/ \E c \in Contexts, d \in Delays : ScheduleWithContext(c, d)
            \/ ScheduleNow
            \/ ScheduleDestroy
            \/ Stop
            \/ \E id \in handles : Cancel(id) \/ Remove(id)

Next == \/ UserCall
        \/ Run \/ ProcessOneEvent \/ RunOneEvent \/ EventReturns \/ RunReturns
        \/ Destroy \/ DestroyNext \/ DestroyEventReturns \/ Dispose

Spec == Init /\ [][Next]_vars
-----------------------------------------------------------------------------
(* The type invariant. *)
TypeOK ==
  /\ m_events \subseteq Event
  /\ m_destroyEvents \in Seq(Event)
  /\ m_uid \in Nat
  /\ m_currentUid \in Nat
  /\ m_currentTs \in Nat
  /\ m_currentContext \in Contexts \cup {NoContext}
  /\ m_stop \in BOOLEAN
  /\ m_unscheduledEvents \in Int
  /\ cancelled \subseteq Nat
  /\ stops \subseteq Nat
  /\ pc \in {"outside", "loop", "event", "oneEvent", "destroying",
             "destroyEvent", "gone"}
  /\ handles \subseteq Event
  /\ invoked \subseteq Nat
  /\ calledOff \subseteq Nat

Ordinary == {h \in handles : h.uid # DestroyUid}
AtDestroy == {h \in handles : h.uid = DestroyUid}

(* No event waits in the list behind the clock, whatever order callers      *)
(* schedule in: ProcessOneEvent's assertion next.key.m_ts >= m_currentTs.   *)
NothingPendingInThePast == \A e \in m_events : KeyLess(now, e)

(* IsExpired reads only the clock and the cancel flag.  It must still tell  *)
(* exactly the events that are in the list and will run, because Remove     *)
(* takes an unexpired event out of the list without looking for it.         *)
ExpiredIffNotPending ==
  pc # "gone" => \A h \in Ordinary : ~ IsExpired(h) <=> h \in m_events /\ h.impl \notin cancelled

(* Run's closing assertion, at every moment: m_unscheduledEvents counts the *)
(* events in the list, through removals, cancellations and RunOneEvent.     *)
UnscheduledCount == pc # "gone" => m_unscheduledEvents = Cardinality(m_events)

(* An event on which Cancel or Remove was called before it ran never runs.  *)
(* Destroy events are included, as in the code, which searches their list   *)
(* (Remove and IsExpired, uid 2): simulator.h:674-675 and 688-689 say that  *)
(* calling one off "will result in a program error (crash)", which it does  *)
(* not.                                                                     *)
CalledOffNeverRuns == calledOff \cap invoked = {}

(* Over the whole history, events run in the order of their keys: one that  *)
(* ran leaves behind no earlier one that is still to run, even when that    *)
(* one was scheduled later or the clock was stopped and restarted.          *)
EventsRunInOrder ==
  \A h, g \in Ordinary :
    KeyLess(h, g) /\ g.impl \in invoked => h.impl \in invoked \cup calledOff

(* Destroy runs its events in the order ScheduleDestroy was called, those   *)
(* scheduled by a destroy event included.                                   *)
DestroyEventsRunInOrder ==
  \A h, g \in AtDestroy :
    h.impl < g.impl /\ g.impl \in invoked => h.impl \in invoked \cup calledOff

(* The event list and clock implement EventLoop. *)
Loop == INSTANCE EventLoop
          WITH pending <- {[ts |-> e.ts, uid |-> e.uid] : e \in m_events},
               last <- now
ImplementsEventLoop == Loop!Spec
-----------------------------------------------------------------------------
(* The inductive invariant behind these, in four parts. *)
UidInv ==
  /\ m_uid >= FirstUid
  /\ m_currentUid < m_uid
  /\ \A e \in m_events \cup handles : FirstUid <= e.impl /\ e.impl < m_uid
  /\ \A e \in m_events : e.uid = e.impl
  /\ \A h \in Ordinary : h.uid = h.impl
  /\ \A e, f \in m_events \cup handles : e.impl = f.impl => e = f
  /\ \A i \in invoked \cup calledOff : i < m_uid

QueueInv ==
  /\ IsFiniteSet(m_events)
  /\ UnscheduledCount
  /\ \A e \in m_events : KeyLess(now, e) /\ e.impl \notin invoked
  /\ pc # "gone" =>
       \A h \in Ordinary : KeyLess(now, h) => h \in m_events \/ h.impl \in cancelled
  /\ \A h \in Ordinary : IF KeyLess(now, h) THEN h.impl \notin invoked
                                            ELSE h.impl \in invoked \cup calledOff

CallOffInv ==
  /\ cancelled \subseteq calledOff
  /\ CalledOffNeverRuns
  /\ \A e \in m_events \cup Elements(m_destroyEvents) :
       e.impl \in calledOff => e.impl \in cancelled

DestroyInv ==
  /\ \A d \in Elements(m_destroyEvents) : d \in AtDestroy /\ d.impl \notin invoked
  /\ \A i, j \in DOMAIN m_destroyEvents :
       i < j => m_destroyEvents[i].impl < m_destroyEvents[j].impl
  /\ \A h \in AtDestroy :
       \/ h \in Elements(m_destroyEvents)
       \/ h.impl \in invoked \cup calledOff
  /\ \A h \in AtDestroy, d \in Elements(m_destroyEvents) :
       h.impl \in invoked => h.impl < d.impl

IInv == TypeOK /\ UidInv /\ QueueInv /\ CallOffInv /\ DestroyInv
=============================================================================
