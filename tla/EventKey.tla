------------------------------ MODULE EventKey ------------------------------
(***************************************************************************)
(* Scheduler::EventKey and the order every scheduler keeps its events in:  *)
(* by time stamp, then by the uid the simulator gave the event.            *)
(***************************************************************************)
EXTENDS Naturals

(* operator < of scheduler.h *)
KeyLess(a, b) == \/ a.ts < b.ts
                 \/ a.ts = b.ts /\ a.uid < b.uid

(* Bug: events of one time in any order. *)
IsNext_TimeOnly(e, events) == e \in events /\ \A f \in events : f.ts >= e.ts

(* What Scheduler::PeekNext and RemoveNext return. *)
IsNext(e, events) == /\ e \in events
                     /\ \A f \in events : ~ KeyLess(f, e)
=============================================================================
