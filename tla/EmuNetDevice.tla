---------------------------- MODULE EmuNetDevice ----------------------------
(***************************************************************************)
(* EmuNetDevice: a read thread takes frames off a raw socket and hands     *)
(* them to the simulator, whose thread (main) starts, stops and disposes   *)
(* of the device.  The two share m_pendingReadCount, under a mutex, and    *)
(* m_sock, without one.  Simulated time is left out: a scheduled start or  *)
(* stop may run at any later moment.                                       *)
(***************************************************************************)
EXTENDS Integers

CONSTANTS MaxPendingReads,  \* m_maxPendingReads, the attribute RxQueueSize
          MaxCalls,         \* bound: calls of Start and Stop, the constructor's included
          MaxFrames         \* bound: frames that arrive

ASSUME BoundsAssumption == MaxPendingReads \in Nat /\ MaxCalls \in Nat \ {0} /\ MaxFrames \in Nat

VARIABLES main,        \* what the simulator's thread is doing
          disposing,   \* DoDispose has been called
          open,        \* m_sock # -1
          readThread,  \* m_readThread # 0
          pending,     \* the start or stop event that each call scheduled
          calls, startEvent, stopEvent,
          reader,      \* where ReadThread is
          count,       \* m_pendingReadCount
          forwards,    \* ForwardUp events in the simulator
          frames

vars == <<main, disposing, open, readThread, pending, calls, startEvent, stopEvent,
          reader, count, forwards, frames>>
Device == <<main, disposing, open, readThread>>
Events == <<pending, calls, startEvent, stopEvent>>

None == "none"
NoEvent == 0                    \* an EventId that was never assigned
Ids == 1 .. MaxCalls

(* the constructor has called Start *)
Init == /\ main = "idle"
        /\ disposing = FALSE
        /\ open = FALSE
        /\ readThread = FALSE
        /\ pending = [id \in Ids |-> IF id = 1 THEN "start" ELSE None]
        /\ calls = 1
        /\ startEvent = 1
        /\ stopEvent = NoEvent
        /\ reader = "off"
        /\ count = 0
        /\ forwards = 0
        /\ frames = 0

-----------------------------------------------------------------------------
(* The simulator's thread *)

(* Simulator::Cancel (old), then Simulator::Schedule (kind) *)
Reschedule(old, kind) ==
    /\ main = "idle" /\ ~disposing
    /\ calls < MaxCalls
    /\ calls' = calls + 1
    /\ pending' = [id \in Ids |-> IF id = calls + 1 THEN kind
                                  ELSE IF id = old THEN None ELSE pending[id]]

Start == /\ Reschedule(startEvent, "start")
         /\ startEvent' = calls + 1
         /\ UNCHANGED <<Device, stopEvent, reader, count, forwards, frames>>

(* the new event is kept in m_startEvent *)
Stop == /\ Reschedule(stopEvent, "stop")
        /\ startEvent' = calls + 1
        /\ UNCHANGED <<Device, stopEvent, reader, count, forwards, frames>>

(* the simulator takes up an event the device has scheduled *)
Invoke(id, kind) == /\ main = "idle" /\ ~disposing
                    /\ pending[id] = kind
                    /\ pending' = [pending EXCEPT ![id] = None]
                    /\ UNCHANGED <<calls, startEvent, stopEvent, count, forwards, frames>>

StartDevice(id) ==
    /\ Invoke(id, "start")
    /\ \/ /\ open                               \* "Device is already started"
          /\ main' = "failed"
          /\ UNCHANGED <<open, readThread, reader>>
       \/ /\ ~open
          /\ open' = TRUE
          /\ readThread' = TRUE
          /\ reader' = "top"
          /\ UNCHANGED main
    /\ UNCHANGED disposing

(* mutant: the socket stays open *)
CloseAndJoin_LeftOpen == /\ main' = IF readThread THEN "joining" ELSE "failed"
                         /\ UNCHANGED <<open, readThread, reader>>

(* close, the assertion, and the call of Join *)
CloseAndJoin == /\ open' = FALSE
                /\ main' = IF readThread THEN "joining" ELSE "failed"
                /\ UNCHANGED <<readThread, reader>>

StopDevice(id) == Invoke(id, "stop") /\ CloseAndJoin /\ UNCHANGED disposing

Join == /\ main = "joining"
        /\ reader = "exited"
        /\ main' = IF disposing THEN "destroyed" ELSE "idle"
        /\ readThread' = FALSE
        /\ reader' = "off"
        /\ UNCHANGED <<disposing, open, Events, count, forwards, frames>>

DoDispose == /\ main = "idle" /\ ~disposing
             /\ disposing' = TRUE
             /\ \/ readThread /\ CloseAndJoin
                \/ ~readThread /\ main' = "destroyed" /\ UNCHANGED <<open, readThread, reader>>
             /\ UNCHANGED <<Events, count, forwards, frames>>

ForwardUp == /\ main = "idle" /\ ~disposing
             /\ forwards > 0
             /\ forwards' = forwards - 1
             /\ count' = count - 1
             /\ UNCHANGED <<Device, Events, reader, frames>>

-----------------------------------------------------------------------------
(* The read thread *)

(* mutant: the limit is passed by one *)
TakeSlot_OneMore == /\ reader = "top"
                    /\ IF count > MaxPendingReads THEN reader' = "sleep" /\ UNCHANGED count
                       ELSE reader' = "call" /\ count' = count + 1
                    /\ UNCHANGED <<Device, Events, forwards, frames>>

TakeSlot == /\ reader = "top"
            /\ IF count >= MaxPendingReads THEN reader' = "sleep" /\ UNCHANGED count
               ELSE reader' = "call" /\ count' = count + 1
            /\ UNCHANGED <<Device, Events, forwards, frames>>

Wake == /\ reader = "sleep"
        /\ reader' = "top"
        /\ UNCHANGED <<Device, Events, count, forwards, frames>>

(* m_sock is read here *)
Recvfrom == /\ reader = "call"
            /\ reader' = IF open THEN "recv" ELSE "exited"
            /\ UNCHANGED <<Device, Events, count, forwards, frames>>

(* a frame may still come through a socket that was closed meanwhile *)
RecvReturns == /\ reader = "recv"
               /\ frames < MaxFrames
               /\ frames' = frames + 1
               /\ reader' = "got"
               /\ UNCHANGED <<Device, Events, count, forwards>>

(* The interface went down, or close ended the call, which not every platform *)
(* does: on Linux a recvfrom under way on a packet socket goes on.  The slot  *)
(* is not given back.                                                         *)
RecvFails == /\ reader = "recv"
             /\ reader' = "exited"
             /\ UNCHANGED <<Device, Events, count, forwards, frames>>

HandOver == /\ reader = "got"
            /\ reader' = "top"
            /\ forwards' = forwards + 1
            /\ UNCHANGED <<Device, Events, count, frames>>

-----------------------------------------------------------------------------
ReadThread == TakeSlot \/ Wake \/ Recvfrom \/ RecvReturns \/ RecvFails \/ HandOver
Main == \/ \E id \in Ids : StartDevice(id) \/ StopDevice(id)
        \/ Join \/ DoDispose \/ ForwardUp
Next == ReadThread \/ Main \/ Start \/ Stop

Spec == Init /\ [][Next]_vars
(* each thread goes on while it can; whether a call of recvfrom ever ends is *)
(* up to the network and the platform                                        *)
ReaderGoesOn == TakeSlot \/ Wake \/ Recvfrom \/ HandOver
FairSpec == Spec /\ WF_vars(ReaderGoesOn) /\ WF_vars(Main)

-----------------------------------------------------------------------------
(* Properties *)

(* The type invariant. *)
TypeOK ==
    /\ main \in {"idle", "joining", "failed", "destroyed"}
    /\ disposing \in BOOLEAN /\ open \in BOOLEAN /\ readThread \in BOOLEAN
    /\ pending \in [Ids -> {"start", "stop", None}]
    /\ calls \in Ids
    /\ startEvent \in Ids /\ stopEvent \in Ids \cup {NoEvent}
    /\ reader \in {"off", "top", "sleep", "call", "recv", "got", "exited"}
    /\ count \in Nat /\ forwards \in Nat /\ frames \in Nat

(* Frames that were read from the network and not yet processed by the      *)
(* simulator never exceed RxQueueSize, and m_pendingReadCount, an unsigned  *)
(* counter, does not wrap (ForwardUp, ReadThread).                          *)
Held == IF reader = "got" THEN 1 ELSE 0
ReadsLimited == forwards + Held <= MaxPendingReads /\ forwards + Held <= count

(* When DoDispose is over no thread is left that could hand an event to a   *)
(* simulator that goes away.                                                *)
ReaderJoined == main = "destroyed" => reader = "off"

(* The invariant the proofs rest on: every frame on its way holds a slot of *)
(* m_pendingReadCount, and m_readThread tells whether the thread exists.    *)
Slots == IF reader \in {"call", "recv", "got"} THEN 1 ELSE 0
SlotInv == forwards + Slots <= count /\ count <= MaxPendingReads
ThreadInv == (readThread <=> reader # "off") /\ (main = "destroyed" => ~readThread)
IInv == TypeOK /\ SlotInv /\ ThreadInv

(* StopDevice comes back, whatever the read thread was doing and also after *)
(* restarts, but for two ways in which Join never ends.  The thread is      *)
(* paused for a full queue: it then looks at m_pendingReadCount only, which *)
(* nobody lowers while main is in Join.  Or it is in a recvfrom that was    *)
(* under way when StopDevice closed the socket, and that ends neither with  *)
(* a frame nor, as on Linux, through close.                                 *)
PausedForever == <>[](reader \in {"top", "sleep"} /\ count >= MaxPendingReads)
BlockedForever == <>[](reader = "recv" /\ ~open)
StopReturnsUnlessStuck == []<>(main # "joining") \/ PausedForever \/ BlockedForever
=============================================================================
