------------------------- MODULE EmuNetDeviceProofs -------------------------
(***************************************************************************)
(* EmuNetDevice, for every RxQueueSize and any number of calls and frames. *)
(* The invariant follows the slots of m_pendingReadCount: a slot is taken  *)
(* before recvfrom, travels with the frame into the ForwardUp event and is *)
(* given back there.  A slot that the thread exits with is never given     *)
(* back, so the counter bounds the frames on their way from above.         *)
(***************************************************************************)
EXTENDS EmuNetDevice, TLAPS

LEMMA InitIInv == Init => IInv
<1> SUFFICES ASSUME Init PROVE IInv
  OBVIOUS
<1>1. 1 \in Ids
  BY BoundsAssumption DEF Ids
<1>2. pending \in [Ids -> {"start", "stop", None}]
  BY DEF Init
<1>3. TypeOK
  BY <1>1, <1>2 DEF Init, TypeOK
<1>4. SlotInv
  BY BoundsAssumption DEF Init, SlotInv, Slots
<1>5. ThreadInv
  BY Zenon DEF Init, ThreadInv
<1> QED
  BY <1>3, <1>4, <1>5 DEF IInv

(* the steps of the read thread *)
LEMMA ReaderStep == IInv /\ ReadThread => IInv'
<1> SUFFICES ASSUME IInv, ReadThread PROVE IInv'
  OBVIOUS
<1> USE BoundsAssumption DEF IInv, TypeOK, SlotInv, Slots, ThreadInv, Device, Events
<1>1. CASE TakeSlot
  BY <1>1 DEF TakeSlot
<1>2. CASE Wake
  BY <1>2 DEF Wake
<1>3. CASE Recvfrom
  BY <1>3 DEF Recvfrom
<1>4. CASE RecvReturns
  BY <1>4 DEF RecvReturns
<1>5. CASE RecvFails
  BY <1>5 DEF RecvFails
<1>6. CASE HandOver
  BY <1>6 DEF HandOver
<1> QED
  BY <1>1, <1>2, <1>3, <1>4, <1>5, <1>6 DEF ReadThread

(* the calls of Start and Stop *)
LEMMA CallStep == IInv /\ (Start \/ Stop) => IInv'
<1> SUFFICES ASSUME IInv, Start \/ Stop PROVE IInv'
  OBVIOUS
<1>1. /\ calls' \in Ids /\ startEvent' \in Ids
      /\ UNCHANGED <<Device, stopEvent, reader, count, forwards, frames>>
  BY BoundsAssumption DEF IInv, TypeOK, Start, Stop, Reschedule, Ids
<1>2. pending' \in [Ids -> {"start", "stop", None}]
  BY DEF IInv, TypeOK, Start, Stop, Reschedule
<1> QED
  BY <1>1, <1>2 DEF IInv, TypeOK, SlotInv, Slots, ThreadInv, Device

(* the steps of the simulator's thread *)
LEMMA MainStep == IInv /\ Main => IInv'
<1> SUFFICES ASSUME IInv, Main PROVE IInv'
  OBVIOUS
<1>1. ASSUME NEW id \in Ids, StartDevice(id) PROVE IInv'
  <2>1. TypeOK'
    BY <1>1 DEF IInv, TypeOK, StartDevice, Invoke
  <2>2. SlotInv'
    BY <1>1 DEF IInv, TypeOK, SlotInv, Slots, ThreadInv, StartDevice, Invoke
  <2>3. ThreadInv'
    <3>1. main # "destroyed" /\ main' # "destroyed"
      BY <1>1 DEF StartDevice, Invoke
    <3>2. CASE UNCHANGED <<readThread, reader>>
      BY <3>1, <3>2 DEF IInv, ThreadInv
    <3>3. CASE readThread' = TRUE /\ reader' = "top"
      BY <3>1, <3>3 DEF ThreadInv
    <3> QED
      BY <1>1, <3>2, <3>3 DEF StartDevice
  <2> QED
    BY <2>1, <2>2, <2>3 DEF IInv
<1>2. ASSUME NEW id \in Ids, StopDevice(id) PROVE IInv'
  <2>1. TypeOK'
    BY <1>2 DEF IInv, TypeOK, StopDevice, Invoke, CloseAndJoin
  <2>2. SlotInv'
    BY <1>2 DEF IInv, SlotInv, Slots, StopDevice, Invoke, CloseAndJoin
  <2>3. ThreadInv'
    BY <1>2, Zenon DEF IInv, ThreadInv, StopDevice, Invoke, CloseAndJoin
  <2> QED
    BY <2>1, <2>2, <2>3 DEF IInv
<1>3. CASE Join
  <2>1. TypeOK'
    BY <1>3 DEF IInv, TypeOK, Join, Events
  <2>2. SlotInv'
    BY <1>3 DEF IInv, SlotInv, Slots, Join
  <2>3. ThreadInv'
    BY <1>3, Zenon DEF IInv, ThreadInv, Join
  <2> QED
    BY <2>1, <2>2, <2>3 DEF IInv
<1>4. CASE DoDispose
  <2>1. TypeOK'
    BY <1>4 DEF IInv, TypeOK, DoDispose, CloseAndJoin, Events
  <2>2. SlotInv'
    BY <1>4 DEF IInv, SlotInv, Slots, DoDispose, CloseAndJoin
  <2>3. ThreadInv'
    <3>1. UNCHANGED <<readThread, reader>>
      BY <1>4 DEF DoDispose, CloseAndJoin
    <3>2. main' = "destroyed" => ~readThread
      BY <1>4 DEF DoDispose, CloseAndJoin
    <3> QED
      BY <3>1, <3>2 DEF IInv, ThreadInv
  <2> QED
    BY <2>1, <2>2, <2>3 DEF IInv
<1>5. CASE ForwardUp
  BY <1>5, BoundsAssumption DEF IInv, TypeOK, SlotInv, Slots, ThreadInv, ForwardUp, Device, Events
<1> QED
  BY <1>1, <1>2, <1>3, <1>4, <1>5 DEF Main

(* The invariant holds in every state of the device, whatever the limit,    *)
(* the order of the calls and the moment each thread runs.                  *)
THEOREM Invariance == Spec => []IInv
<1>1. IInv /\ [Next]_vars => IInv'
  <2> SUFFICES ASSUME IInv, [Next]_vars PROVE IInv'
    OBVIOUS
  <2>1. CASE UNCHANGED vars
    BY <2>1 DEF IInv, TypeOK, SlotInv, Slots, ThreadInv, vars
  <2> QED
    BY <2>1, ReaderStep, CallStep, MainStep DEF Next
<1> QED
  BY <1>1, InitIInv, PTL DEF Spec

(* Frames read and not yet processed never exceed RxQueueSize, and the      *)
(* unsigned m_pendingReadCount never wraps (ReadThread, ForwardUp).         *)
THEOREM ReadsNeverExceed == Spec => []ReadsLimited
<1>1. IInv => ReadsLimited
  BY BoundsAssumption DEF IInv, TypeOK, SlotInv, Slots, ReadsLimited, Held
<1> QED
  BY <1>1, Invariance, PTL

(* Once DoDispose is over the read thread is gone (StopDevice joins it).    *)
THEOREM ReaderGone == Spec => []ReaderJoined
<1>1. IInv => ReaderJoined
  BY DEF IInv, ThreadInv, ReaderJoined
<1> QED
  BY <1>1, Invariance, PTL
=============================================================================
