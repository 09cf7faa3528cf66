------------------------- MODULE RealtimeSimulator --------------------------
(***************************************************************************)
(* RealtimeSimulatorImpl with WallClockSynchronizer: the thread that calls *)
(* Run paces the event list against the wall clock, while read threads     *)
(* (EmuNetDevice, TapBridge) insert events under m_mutex and signal it.    *)
(* One action is one critical section, or the stretch between two of them. *)
(***************************************************************************)
EXTENDS EventKey, Integers, FiniteSets

CONSTANTS Contexts,   \* node contexts events run in
          NoContext,  \* 0xffffffff
          Delays,     \* relative times callers schedule with
          Epoch,      \* gettimeofday when the program starts
          MaxUid,     \* bound: events scheduled
          MaxTs,      \* bound: latest time stamp, and real time while running
          MaxStart,   \* bound: wall clock while the simulation is not running
          MaxRuns     \* bound: calls of Run

ASSUME DelaysAssumption == Delays \subseteq Nat
ASSUME EpochAssumption == Epoch \in Nat \ {0}
ASSUME BoundsAssumption == {MaxUid, MaxTs, MaxStart, MaxRuns} \subseteq Nat

FirstUid == 4

VARIABLES m_events, m_uid, m_unscheduledEvents,
          m_currentTs, m_currentUid, m_currentContext,
          m_stop, m_running,
          m_condition,           \* SystemCondition::m_condition
          m_realtimeOriginNano,
          wall,                  \* gettimeofday
          target,                \* nsCurrent + nsDelay of Synchronize
          pc,                    \* the thread that runs the simulation
          reader,                \* a read thread is alive
          runs                   \* history: calls of Run

queueVars == <<m_events, m_uid, m_unscheduledEvents>>
clockVars == <<m_currentTs, m_currentUid, m_currentContext>>
runVars == <<m_running, m_realtimeOriginNano, runs>>
vars == <<queueVars, clockVars, runVars, m_stop, m_condition, wall, target, pc, reader>>

now == [ts |-> m_currentTs, uid |-> m_currentUid]
Event == [ts : Nat, uid : Nat, context : Contexts \cup {NoContext}]

(* GetNormalizedRealtime *)
Realtime == wall - m_realtimeOriginNano

Init == /\ m_events = {}
        /\ m_uid = FirstUid
        /\ m_unscheduledEvents = 0
        /\ m_currentTs = 0
        /\ m_currentUid = 0
        /\ m_currentContext = NoContext
        /\ m_stop = FALSE
        /\ m_running = FALSE
        /\ m_condition = FALSE
        /\ m_realtimeOriginNano = 0
        /\ wall = Epoch
        /\ target = 0
        /\ pc = "outside"
        /\ reader = FALSE
        /\ runs = 0
-----------------------------------------------------------------------------
(* Scheduling.  Every variant inserts, counts and signals under m_mutex.     *)
(* Bug: no Signal. *)
Insert_NoSignal(ts, context) ==
  /\ m_uid < MaxUid
  /\ ts <= MaxTs
  /\ m_events' = m_events \cup {[ts |-> ts, uid |-> m_uid, context |-> context]}
  /\ m_uid' = m_uid + 1
  /\ m_unscheduledEvents' = m_unscheduledEvents + 1
  /\ UNCHANGED <<clockVars, runVars, m_stop, m_condition, wall, target, pc, reader>>

Insert(ts, context) ==
  /\ m_uid < MaxUid
  /\ ts <= MaxTs
  /\ m_events' = m_events \cup {[ts |-> ts, uid |-> m_uid, context |-> context]}
  /\ m_uid' = m_uid + 1
  /\ m_unscheduledEvents' = m_unscheduledEvents + 1
  /\ m_condition' = TRUE
  /\ UNCHANGED <<clockVars, runVars, m_stop, wall, target, pc, reader>>

InUserCode == pc \in {"outside", "event"}

(* Schedule, ScheduleNow (delay 0) and ScheduleWithContext *)
Schedule(delay) ==
  InUserCode /\ Insert(m_currentTs + delay, m_currentContext)
ScheduleWithContext(context, delay) ==
  InUserCode /\ Insert(m_currentTs + delay, context)

(* Bug: the assertion compiled out. *)
ScheduleRealtimeNowWithContext_NoAssert(context) ==
  reader /\ Insert(IF m_running THEN Realtime ELSE m_currentTs, context)

(* The calls a read thread makes, at any moment.  NS_ASSERT_MSG ends the     *)
(* program when the stamp is in the past.                                    *)
ScheduleRealtimeNowWithContext(context) ==
  LET ts == IF m_running THEN Realtime ELSE m_currentTs IN
  /\ reader
  /\ ts >= m_currentTs
  /\ Insert(ts, context)

(* ev.key.m_context is never assigned: the event runs in an arbitrary one.   *)
ScheduleRealtimeWithContext(context, delay) ==
  LET ts == Realtime + delay IN
  /\ reader
  /\ ts >= m_currentTs
  /\ \E garbage \in Contexts \cup {NoContext} : Insert(ts, garbage)

(* Bug: the count is left alone. *)
Remove_Uncounted(ev) == /\ InUserCode
                        /\ m_events' = m_events \ {ev}
                        /\ UNCHANGED <<m_uid, m_unscheduledEvents, clockVars,
                                       runVars, m_stop, m_condition, wall, target,
                                       pc, reader>>

(* Remove of an event still in the list; it does not signal. *)
Remove(ev) == /\ InUserCode
              /\ m_events' = m_events \ {ev}
              /\ m_unscheduledEvents' = m_unscheduledEvents - 1
              /\ UNCHANGED <<m_uid, clockVars, runVars, m_stop, m_condition,
                             wall, target, pc, reader>>

Stop == /\ InUserCode
        /\ m_stop' = TRUE
        /\ UNCHANGED <<queueVars, clockVars, runVars, m_condition, wall, target,
                       pc, reader>>

(* StartDevice and StopDevice, which joins the thread, run as events. *)
StartReader == /\ pc = "event"
               /\ ~ reader
               /\ reader' = TRUE
               /\ UNCHANGED <<queueVars, clockVars, runVars, m_stop, m_condition,
                              wall, target, pc>>
JoinReader == /\ pc = "event"
              /\ reader
              /\ reader' = FALSE
              /\ UNCHANGED <<queueVars, clockVars, runVars, m_stop, m_condition,
                             wall, target, pc>>
-----------------------------------------------------------------------------
(* Run, up to SetOrigin: m_running is set outside the mutex. *)
Run == /\ pc = "outside"
       /\ runs < MaxRuns
       /\ runs' = runs + 1
       /\ m_stop' = FALSE
       /\ m_running' = TRUE
       /\ pc' = "origin"
       /\ UNCHANGED <<queueVars, clockVars, m_realtimeOriginNano, m_condition, wall,
                      target, reader>>

(* DoSetOrigin takes the wall clock as origin and drops its argument. *)
SetOrigin == /\ pc = "origin"
             /\ m_realtimeOriginNano' = wall
             /\ pc' = "loop"
             /\ UNCHANGED <<queueVars, clockVars, m_running, runs, m_stop, m_condition,
                            wall, target, reader>>

(* The head of Run's loop. *)
LoopTest == /\ pc = "loop"
            /\ pc' = IF m_stop \/ m_events = {} THEN "done" ELSE "pace"
            /\ UNCHANGED <<queueVars, clockVars, runVars, m_stop, m_condition, wall,
                           target, reader>>

(* Bug: no SetCondition (false). *)
Pace_KeepsCondition ==
  /\ pc = "pace"
  /\ \E ev \in m_events :
       /\ IsNext(ev, m_events)
       /\ target' = IF ev.ts <= Realtime THEN Realtime ELSE ev.ts
  /\ pc' = "sync"
  /\ UNCHANGED <<queueVars, clockVars, runVars, m_stop, m_condition, wall, reader>>

(* First critical section of ProcessOneEvent: how long to wait. *)
Pace ==
  /\ pc = "pace"
  /\ \E ev \in m_events :
       /\ IsNext(ev, m_events)
       /\ target' = IF ev.ts <= Realtime THEN Realtime ELSE ev.ts
  /\ m_condition' = FALSE
  /\ pc' = "sync"
  /\ UNCHANGED <<queueVars, clockVars, runVars, m_stop, wall, reader>>

(* TimedWait carries into the seconds only above 10^9 nanoseconds.  When the *)
(* two parts add up to exactly that, pthread_cond_timedwait refuses the time *)
(* and the loop around it ends with the condition only.                      *)
TimedWaitRefused == /\ pc = "sync"
                    /\ ~ m_condition /\ Realtime < target
                    /\ pc' = "refused"
                    /\ UNCHANGED <<queueVars, clockVars, runVars, m_stop, m_condition,
                                   wall, target, reader>>

(* Synchronize: SleepWait and SpinWait end when the clock reaches the target *)
(* or when the condition is set; at the target either may be noticed first.  *)
(* Bug: an interrupted wait is taken for a completed one. *)
SynchronizeReached_Interrupted ==
  /\ pc = "sync"
  /\ m_condition \/ Realtime >= target
  /\ pc' = "take"
  /\ UNCHANGED <<queueVars, clockVars, runVars, m_stop, m_condition, wall, target,
                 reader>>

SynchronizeReached == /\ pc = "sync"
                      /\ Realtime >= target
                      /\ pc' = "take"
                      /\ UNCHANGED <<queueVars, clockVars, runVars, m_stop, m_condition,
                                     wall, target, reader>>
SynchronizeInterrupted == /\ pc \in {"sync", "refused"}
                          /\ m_condition
                          /\ pc' = "pace"
                          /\ UNCHANGED <<queueVars, clockVars, runVars, m_stop,
                                         m_condition, wall, target, reader>>

(* Second critical section: whatever event is the earliest by then. *)
TakeEvent(ev) ==
  /\ pc = "take"
  /\ IsNext(ev, m_events)
  /\ m_events' = m_events \ {ev}
  /\ m_unscheduledEvents' = m_unscheduledEvents - 1
  /\ m_currentTs' = ev.ts
  /\ m_currentContext' = ev.context
  /\ m_currentUid' = ev.uid
  /\ pc' = "event"
  /\ UNCHANGED <<m_uid, runVars, m_stop, m_condition, wall, target, reader>>

EventReturns == /\ pc = "event"
                /\ pc' = "loop"
                /\ UNCHANGED <<queueVars, clockVars, runVars, m_stop, m_condition, wall,
                               target, reader>>

RunReturns == /\ pc = "done"
              /\ m_running' = FALSE
              /\ pc' = "outside"
              /\ UNCHANGED <<queueVars, clockVars, m_realtimeOriginNano, runs, m_stop,
                             m_condition, wall, target, reader>>

Tick == /\ IF pc \in {"outside", "origin"} THEN wall < MaxStart ELSE Realtime < MaxTs
        /\ wall' = wall + 1
        /\ UNCHANGED <<queueVars, clockVars, runVars, m_stop, m_condition, target, pc,
                       reader>>

MainStep == \/ SetOrigin \/ LoopTest \/ Pace
            \/ TimedWaitRefused \/ SynchronizeReached \/ SynchronizeInterrupted
            \/ \E ev \in m_events : TakeEvent(ev)
            \/ EventReturns \/ RunReturns

UserCall == \/ \E d \in Delays : Schedule(d)
            \/ \E c \in Contexts, d \in Delays : ScheduleWithContext(c, d)
            \/ \E ev \in m_events : Remove(ev)
            \/ Stop \/ StartReader \/ JoinReader

ReaderCall == \/ \E c \in Contexts : ScheduleRealtimeNowWithContext(c)
              \/ \E c \in Contexts, d \in Delays : ScheduleRealtimeWithContext(c, d)

Next == Run \/ MainStep \/ UserCall \/ ReaderCall \/ Tick

Spec == Init /\ [][Next]_vars

(* The main thread runs on, event functions return, and time passes. *)
Fairness == WF_vars(MainStep) /\ WF_vars(Tick)
LiveSpec == Spec /\ Fairness
-----------------------------------------------------------------------------
(* The type invariant; no count goes below zero. *)
TypeOK ==
  /\ m_events \subseteq Event
  /\ m_uid \in Nat /\ m_unscheduledEvents \in Nat
  /\ m_currentTs \in Nat /\ m_currentUid \in Nat
  /\ m_realtimeOriginNano \in Nat /\ wall \in Nat /\ target \in Nat /\ runs \in Nat
  /\ m_currentContext \in Contexts \cup {NoContext}
  /\ m_stop \in BOOLEAN /\ m_running \in BOOLEAN
  /\ m_condition \in BOOLEAN /\ reader \in BOOLEAN
  /\ pc \in {"outside", "origin", "loop", "pace", "sync", "refused", "take", "event", "done"}

(* NS_ASSERT_MSG (ts >= m_currentTs) of ScheduleRealtimeNowWithContext: a    *)
(* read thread, at whatever point of the main thread it runs, never finds    *)
(* the real time behind the simulation's.                                    *)
RealtimeNotBehind ==
  reader => (IF m_running THEN Realtime ELSE m_currentTs) >= m_currentTs

(* A wait that has not been interrupted waits for the earliest event: no     *)
(* insertion slips in between computing the delay and waiting.               *)
NoLostWakeup ==
  pc \in {"sync", "refused"} /\ ~ m_condition /\ Realtime < target =>
    \A ev \in m_events : ev.ts >= target

(* The event taken up after the wait is due, although the list may have      *)
(* changed since the delay was computed.                                     *)
NeverEarly ==
  pc = "take" => \E ev \in m_events : IsNext(ev, m_events) /\ ev.ts <= Realtime

(* The assertion at the end of Run, at every moment: the count, which both   *)
(* threads change, is that of the list, and the types hold.                  *)
NoneLost == TypeOK /\ m_unscheduledEvents = Cardinality(m_events)

(* As long as Run goes on and nobody stops it, an event handed over to it is *)
(* taken up or removed, unless the main thread ends in a wait that was       *)
(* refused and that no further event interrupts (SystemCondition::TimedWait).*)
(* (One that comes between the last look at the list and the end of Run      *)
(* stays in the list.)                                                       *)
HandedOverRuns ==
  \/ <>[](pc = "refused")
  \/ \A u \in FirstUid .. MaxUid - 1 :
        (m_running /\ \E ev \in m_events : ev.uid = u)
          ~> (m_stop \/ ~ m_running \/ \A ev \in m_events : ev.uid # u)

Loop == INSTANCE EventLoop
          WITH pending <- {[ts |-> e.ts, uid |-> e.uid] : e \in m_events},
               last <- now
(* The event list and clock implement EventLoop, read threads or not. *)
ImplementsEventLoop == Loop!Spec
-----------------------------------------------------------------------------
(* The inductive invariant of RealtimeSimulatorProofs.  Uids name events and *)
(* grow; what is in the list is later than what was taken up last, although  *)
(* read threads stamp events with a clock of their own.                      *)
KeyInv ==
  /\ m_uid >= FirstUid /\ m_currentUid < m_uid
  /\ \A e \in m_events : e.uid < m_uid /\ KeyLess(now, e)
  /\ \A e, f \in m_events : e.uid = f.uid => e = f

(* The count is that of the list, which is finite. *)
CountInv == IsFiniteSet(m_events) /\ m_unscheduledEvents = Cardinality(m_events)

(* From the first critical section to the second the list is not empty and   *)
(* its earliest event is no later than the target; a wait that ended without *)
(* the condition ended at the target.                                        *)
WaitInv ==
  /\ m_realtimeOriginNano <= wall
  /\ pc \in {"sync", "refused", "take"} =>
       \E ev \in m_events : IsNext(ev, m_events) /\ ev.ts <= target
  /\ pc = "take" => target <= Realtime

IInv == TypeOK /\ KeyInv /\ CountInv /\ WaitInv /\ NoLostWakeup
=============================================================================
