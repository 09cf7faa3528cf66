----------------------------- MODULE WifiStation ----------------------------
(***************************************************************************)
(* The transmit side of one wifi station: EdcaTxopN clients contending     *)
(* through DcfManager for MacLow, which runs the frame exchanges over the  *)
(* PHY, in a medium where other stations send what and when they like.  One*)
(* action is one simulator event with all the calls it makes.  Events that *)
(* are due at the same instant run in any order.                           *)
(*                                                                         *)
(* The PHY of this repository synchronises only to frames that are         *)
(* addressed to its station or broadcast (yans-wifi-phy.cc:456); any other *)
(* frame is energy, CcaBusy.  No frame that MacLow is given can then set   *)
(* the NAV beyond now, so the NAV is left out.                             *)
(***************************************************************************)
EXTENDS DcfManager, TLC

CONSTANTS TxKinds,        \* kinds of frame the clients have to send
          RxKinds,        \* kinds of frame others send to this station
          FrameTime,      \* txDuration of a control frame
          DataTime,       \* txDuration of a data frame
          Timeout,        \* GetCtsTimeout, GetAckTimeout, Get*BlockAckTimeout
          SwitchTime,     \* m_channelSwitchDelay
          MaxTries,       \* MaxSsrc and MaxSlrc of the remote station manager
          Lifetimes,      \* packets may outlive WifiMacQueue's MaxDelay
          MaxPackets,     \* bound: packets queued at each client
          MaxHeard,       \* bound: frames and energy heard from others
          MaxSwitches     \* bound: channel switches

ASSUME KindsAssumption ==
    /\ TxKinds \subseteq {"group", "data", "rts", "bar"}
    /\ RxKinds \subseteq {"group", "data", "rts", "cts", "ack", "bar", "ba", "error"}
ASSUME FrameAssumption ==
    FrameTime > Sifs /\ Timeout > Sifs + FrameTime /\ DataTime > Sifs /\ SwitchTime > 0
(* the unit of time is a slot, which the histories count in *)
ASSUME UnitAssumption == SlotTime = 1
ASSUME BoundsAssumption ==
    /\ Lifetimes \in BOOLEAN
    /\ {MaxTries, MaxPackets, MaxHeard, MaxSwitches} \subseteq Nat

None == "none"
Nobody == 0                                  \* a null m_listener
Waits == {"cts", "ack", "ba"}                \* m_*TimeoutEvent
Duration(kind) == IF kind \in {"data", "group"} THEN DataTime ELSE FrameTime
Sends == {"sendCts", "sendAck", "sendData"}  \* m_send*Event
LowEvents == Waits \cup Sends

VARIABLES dcf,      \* DcfManager
          dcfs,     \* the DcfState of each client
          edca,     \* [queue, current] of each client, and m_ssrc, m_slrc of its peer
          low,      \* MacLow: m_listener, m_currentPacket, m_txParams, its events
          rxFrame,  \* the frame of YansWifiPhy::m_endRxEvent
          heard, arrivals, switches,
          failed,   \* history: assertions that did not hold
          did,      \* history: calls the last event made
          cut,      \* history: a reception or an EIFS was cut short since
                    \* the access timeout last ran
          left,     \* history: idle slots each client still has to see
          idle      \* history: how long the medium has been idle

vars == <<dcf, dcfs, edca, low, rxFrame, heard, arrivals, switches, failed, did, cut, left, idle>>

Station == [dcf |-> dcf, dcfs |-> dcfs, edca |-> edca, low |-> low, rxFrame |-> rxFrame,
            failed |-> failed, did |-> {}, cut |-> cut, left |-> left]

Become(s) == /\ dcf' = s.dcf
             /\ dcfs' = s.dcfs
             /\ edca' = s.edca
             /\ low' = s.low
             /\ rxFrame' = s.rxFrame
             /\ failed' = s.failed
             /\ did' = s.did
             /\ cut' = s.cut
             /\ left' = s.left

(* what an event may draw: a backoff for each client, a kind for a packet *)
Draws == [backoff : [Clients -> 0 .. CwMax], kind : TxKinds]
Log(s, call, c) == [s EXCEPT !.did = @ \cup {<<call, c>>}]

-----------------------------------------------------------------------------
(* YansWifiPhy *)

PhyIdle(s) == s.dcf.txEnd <= 0 /\ ~s.dcf.rxing /\ s.dcf.switchEnd <= 0

SendPacket(s, kind) ==
    LET s1 == Require(s, s.dcf.txEnd <= 0 /\ s.dcf.switchEnd <= 0, "SendPacket")
    IN  NotifyTxStartNow([s1 EXCEPT !.rxFrame = None], Duration(kind))

-----------------------------------------------------------------------------
(* MacLow, sending *)

CancelAllEvents(s) ==
    LET oneRunning == \E e \in LowEvents : s.low.ev[e] # NoEvent
        listener == s.low.listener
        s1 == Log([s EXCEPT !.low.ev = [e \in LowEvents |-> NoEvent],
                            !.low.listener = Nobody], "Cancel", listener)
    IN  IF oneRunning THEN s1 ELSE s

StartDataTxTimers(s, kind) ==
    LET delay == Duration(kind) + Timeout
        waits == s.low.waits
        s1 == [s EXCEPT !.low.ev[waits] = delay]
    IN  CASE waits = "ack" ->
                NotifyAckTimeoutStartNow(Require(s1, s.low.ev.ack = NoEvent, "AckTimer"), delay)
          [] waits = "ba" -> Require(s1, s.low.ev.ba = NoEvent, "BlockAckTimer")
          [] OTHER -> [s EXCEPT !.low.listener = Nobody]

SendDataPacket(s, kind) ==
    [SendPacket(StartDataTxTimers(s, kind), kind) EXCEPT !.low.currentPacket = FALSE]

SendRtsForPacket(s) ==
    LET delay == FrameTime + Timeout
        s1 == Require([s EXCEPT !.low.ev.cts = delay], s.low.ev.cts = NoEvent, "CtsTimer")
    IN  SendPacket(NotifyCtsTimeoutStartNow(s1, delay), "rts")

StartTransmission(s, c, kind) ==
    LET waits == CASE kind \in {"data", "rts"} -> "ack"
                   [] kind = "bar" -> "ba"
                   [] OTHER -> None
        s1 == [CancelAllEvents(s) EXCEPT !.low.listener = c, !.low.waits = waits,
                                         !.low.currentPacket = TRUE]
        s2 == Log(s1, "StartTransmission", c)
    IN  IF kind = "rts" THEN SendRtsForPacket(s2) ELSE SendDataPacket(s2, kind)

-----------------------------------------------------------------------------
(* EdcaTxopN and DcfManager, which call each other *)

(* DoNotifyCollision; c is still requesting, so access is not asked for again *)
NotifyCollision(s, c, draw) == Log(StartBackoffNow(s, c, draw.backoff), "NotifyCollision", c)

Request(s, c, draw) ==
    LET s1 == UpdateBackoff(s)
        s2 == [Require(s1, ~s.dcfs[c].requested, "RequestAccess")
                 EXCEPT !.dcfs[c].requested = TRUE]
    IN  IF GetBackoffEndFor(s2, c) <= 0 /\ IsBusy(s2) THEN NotifyCollision(s2, c, draw) ELSE s2

(* RequestAccess while the station transmits: DoGrantAccess finds nobody *)
RequestAccessInTx(s, c, draw) ==
    LET s1 == Request(s, c, draw)
    IN  DoRestartAccessTimeoutIfNeeded(Require(s1, Expired(s1) = {}, "GrantInTx"))

NotifyAccessGranted(s, c, draw) ==
    LET e == s.edca[c]
        kind == IF e.current = None THEN draw.kind ELSE e.current
        s1 == IF e.current = None THEN [s EXCEPT !.edca[c].queue = @ - 1, !.edca[c].current = kind]
              ELSE s
        s2 == StartTransmission(s1, c, kind)
        s3 == StartBackoffNow(ResetCw([s2 EXCEPT !.edca[c].current = None], c), c, draw.backoff)
    IN  CASE e.current = None /\ e.queue = 0 -> s
          [] kind = "group" -> IF e.queue > 1 THEN RequestAccessInTx(s3, c, draw) ELSE s3
          [] OTHER -> s2

(* the first expired contender is granted, the others collide internally *)
DoGrantAccess(s, draw) ==
    LET expired == Expired(s)
        first == Min(expired)
        s1 == Log([s EXCEPT !.dcfs[first].requested = FALSE],
                  IF s.left[first] = 0 THEN "NotifyAccessGranted" ELSE "GrantedEarly", first)
        Collide(c, t) == NotifyCollision(t, c, draw)
    IN  IF expired = {} THEN s
        ELSE FoldSet(Collide, NotifyAccessGranted(s1, first, draw), expired \ {first})

RequestAccess(s, c, draw) ==
    DoRestartAccessTimeoutIfNeeded(DoGrantAccess(Request(s, c, draw), draw))

(* mutant: looks at the queue only *)
RestartAccessIfNeeded_QueueOnly(s, c, draw) ==
    IF s.edca[c].queue > 0 /\ ~s.dcfs[c].requested THEN RequestAccess(s, c, draw) ELSE s

RestartAccessIfNeeded(s, c, draw) ==
    IF (s.edca[c].current # None \/ s.edca[c].queue > 0) /\ ~s.dcfs[c].requested
    THEN RequestAccess(s, c, draw) ELSE s

StartAccessIfNeeded(s, c, draw) ==
    IF s.edca[c].current = None /\ s.edca[c].queue > 0 /\ ~s.dcfs[c].requested
    THEN RequestAccess(s, c, draw) ELSE s

(* a client's exchange is over *)
Done(s, c, draw) ==
    LET s1 == ResetCw([s EXCEPT !.edca[c].current = None], c)
    IN  RestartAccessIfNeeded(StartBackoffNow(s1, c, draw.backoff), c, draw)

(* mutant: waits for the next packet to ask for access again *)
Retry_NoRestart(s, c, draw) == StartBackoffNow(UpdateFailedCw(s, c), c, draw.backoff)

Retry(s, c, draw) ==
    RestartAccessIfNeeded(StartBackoffNow(UpdateFailedCw(s, c), c, draw.backoff), c, draw)

(* each retry counter is its own: giving up on RTS leaves m_slrc as it was *)
MissedCts(s, c, draw) ==
    IF s.edca[c].ssrc < MaxTries THEN Retry(s, c, draw)
    ELSE Done([s EXCEPT !.edca[c].ssrc = 0], c, draw)

MissedAck(s, c, draw) ==
    IF s.edca[c].slrc < MaxTries THEN Retry(s, c, draw)
    ELSE Done([s EXCEPT !.edca[c].slrc = 0], c, draw)

-----------------------------------------------------------------------------
(* MacLow::ReceiveOk.  An event that has not run yet IsRunning. *)

ReceiveRts(s) ==
    Require([s EXCEPT !.low.ev.sendCts = Sifs], s.low.ev.sendCts = NoEvent, "SendCtsEvent")

ReceiveData(s, reply) ==
    Require([s EXCEPT !.low.ev.sendAck = Sifs, !.low.reply = reply],
            s.low.ev.sendAck = NoEvent, "SendAckEvent")

ReceiveCts(s) ==
    LET c == s.low.listener
        s1 == NotifyCtsTimeoutResetNow([s EXCEPT !.low.ev.cts = NoEvent])
        s2 == IF c = Nobody THEN Require(s1, FALSE, "GotCts") ELSE [s1 EXCEPT !.edca[c].ssrc = 0]
    IN  IF s.low.ev.cts = NoEvent \/ ~s.low.currentPacket THEN s
        ELSE Require([s2 EXCEPT !.low.ev.sendData = Sifs],
                     s.low.ev.sendData = NoEvent, "SendDataEvent")

ReceiveAck(s, draw) ==
    LET c == s.low.listener
        s1 == NotifyAckTimeoutResetNow([s EXCEPT !.low.ev.ack = NoEvent])
    IN  CASE s.low.ev.ack = NoEvent \/ s.low.waits # "ack" -> s
          [] c = Nobody -> Require(s1, FALSE, "GotAck")
          [] OTHER -> Done([s1 EXCEPT !.edca[c].slrc = 0], c, draw)

ReceiveBlockAck(s, draw) ==
    LET s1 == [s EXCEPT !.low.ev.ba = NoEvent]
    IN  CASE s.low.ev.ba = NoEvent \/ s.low.waits # "ba" -> s
          [] s.low.listener = Nobody -> Require(s1, FALSE, "GotBlockAck")
          [] OTHER -> Done(s1, s.low.listener, draw)

ReceiveOk(s, frame, draw) ==
    CASE frame = "rts" -> ReceiveRts(s)
      [] frame = "cts" -> ReceiveCts(s)
      [] frame = "ack" -> ReceiveAck(s, draw)
      [] frame = "ba" -> ReceiveBlockAck(s, draw)
      [] frame = "data" -> ReceiveData(s, "ack")
      [] frame = "bar" -> ReceiveData(s, "ba")
      [] OTHER -> s

(* SendBlockAckResponse takes over m_currentPacket, m_txParams and m_listener *)
SendBlockAckResponse(s) == SendDataPacket([s EXCEPT !.low.waits = None], "ba")

-----------------------------------------------------------------------------
EdcaInit == [queue |-> 0, current |-> None, ssrc |-> 0, slrc |-> 0]

Init == /\ dcf = DcfInit
        /\ \E draw \in [Clients -> 0 .. CwMin] :
             /\ dcfs = [c \in Clients |-> [slots |-> draw[c], start |-> 0, cw |-> CwMin,
                                           requested |-> FALSE]]
             /\ left = draw
        /\ edca = [c \in Clients |-> EdcaInit]
        /\ low = [listener |-> Nobody, currentPacket |-> FALSE, waits |-> None, reply |-> "ack",
                  ev |-> [e \in LowEvents |-> NoEvent]]
        /\ rxFrame = None
        /\ heard = 0
        /\ arrivals = [c \in Clients |-> 0]
        /\ switches = 0
        /\ failed = {}
        /\ did = {}
        /\ cut = FALSE
        /\ idle = 0

Bounds == <<heard, arrivals, switches>>

(* the station's own events *)

(* mutant: the timeout is not scheduled again *)
AccessTimeout_NoRestart ==
    /\ dcf.accessTimeout = 0
    /\ \E draw \in Draws :
         LET s == UpdateBackoff([Station EXCEPT !.dcf.accessTimeout = NoEvent, !.cut = FALSE])
         IN  Become(DoGrantAccess(s, draw))
    /\ UNCHANGED <<Bounds, idle>>

AccessTimeout ==
    /\ dcf.accessTimeout = 0
    /\ \E draw \in Draws :
         LET s == UpdateBackoff([Station EXCEPT !.dcf.accessTimeout = NoEvent, !.cut = FALSE])
         IN  Become(DoRestartAccessTimeoutIfNeeded(DoGrantAccess(s, draw)))
    /\ UNCHANGED <<Bounds, idle>>

WaitExpires(wait, draw) ==
    LET c == low.listener
        s == [Station EXCEPT !.low.ev[wait] = NoEvent, !.low.listener = Nobody,
                             !.low.currentPacket = IF wait = "cts" THEN FALSE ELSE @]
        long == [s EXCEPT !.edca[c].slrc = Min({@ + 1, MaxTries})]
    IN  CASE c = Nobody -> Require(s, FALSE, "ListenerIsNull")
          [] wait = "cts" -> MissedCts([s EXCEPT !.edca[c].ssrc = @ + 1], c, draw)
          [] wait = "ack" -> MissedAck(long, c, draw)
          [] wait = "ba" -> Retry(long, c, draw)

(* CtsTimeout, NormalAckTimeout, BlockAckTimeout *)
ExchangeTimeout ==
    /\ \E wait \in Waits, draw \in Draws :
         /\ low.ev[wait] = 0
         /\ Become(WaitExpires(wait, draw))
    /\ UNCHANGED <<Bounds, idle>>

SendCtsAfterRts ==
    /\ low.ev.sendCts = 0
    /\ Become(SendPacket([Station EXCEPT !.low.ev.sendCts = NoEvent], "cts"))
    /\ UNCHANGED <<Bounds, idle>>

SendReply ==
    /\ low.ev.sendAck = 0
    /\ LET s == [Station EXCEPT !.low.ev.sendAck = NoEvent]
       IN  Become(IF low.reply = "ack" THEN SendPacket(s, "ack") ELSE SendBlockAckResponse(s))
    /\ UNCHANGED <<Bounds, idle>>

SendDataAfterCts ==
    /\ low.ev.sendData = 0
    /\ LET s == [Station EXCEPT !.low.ev.sendData = NoEvent]
       IN  Become(SendDataPacket(Require(s, low.currentPacket, "SendDataAfterCts"), "data"))
    /\ UNCHANGED <<Bounds, idle>>

EndReceive ==
    /\ dcf.rxing /\ dcf.rxEnd = 0
    /\ LET s == [NotifyRxEndNow(Station, rxFrame # "error") EXCEPT !.rxFrame = None]
       IN  \E draw \in Draws : Become(ReceiveOk(s, rxFrame, draw))
    /\ UNCHANGED <<Bounds, idle>>

(* the station's users and the medium *)

Queue(c) ==
    /\ arrivals[c] < MaxPackets
    /\ arrivals' = [arrivals EXCEPT ![c] = @ + 1]
    /\ LET s == [Station EXCEPT !.edca[c].queue = @ + 1]
       IN  \E draw \in Draws : Become(StartAccessIfNeeded(s, c, draw))
    /\ UNCHANGED <<heard, switches, idle>>

(* WifiMacQueue::Cleanup drops the packet before the queue is next looked at *)
Outlive(c) ==
    /\ Lifetimes
    /\ edca[c].queue > 0
    /\ Become([Station EXCEPT !.edca[c].queue = @ - 1])
    /\ UNCHANGED <<Bounds, idle>>

StartReceive(frame) ==
    /\ heard < MaxHeard
    /\ PhyIdle(Station)
    /\ heard' = heard + 1
    /\ Become([NotifyRxStartNow(Station, Duration(frame)) EXCEPT !.rxFrame = frame])
    /\ UNCHANGED <<arrivals, switches, idle>>

CcaBusy ==
    /\ heard < MaxHeard
    /\ dcf.busyEnd <= FrameTime
    /\ heard' = heard + 1
    /\ Become(NotifyMaybeCcaBusyStartNow(Station, FrameTime))
    /\ UNCHANGED <<arrivals, switches, idle>>

(* DcfManager is told before MacLow; a transmission postpones the switch *)
SetChannelNumber ==
    /\ switches < MaxSwitches
    /\ dcf.txEnd <= 0 /\ dcf.switchEnd <= 0
    /\ switches' = switches + 1
    /\ LET s == [NotifySwitchingStartNow(Station, SwitchTime)
                   EXCEPT !.rxFrame = None,
                          !.edca = [c \in Clients |-> EdcaInit]]
       IN  Become([CancelAllEvents(s) EXCEPT !.low.listener = Nobody, !.low.currentPacket = FALSE])
    /\ UNCHANGED <<heard, arrivals, idle>>

(* time passes when no event is due *)

MediumBusy == \/ dcf.rxing
              \/ \E end \in {dcf.txEnd, dcf.busyEnd, dcf.ackEnd, dcf.ctsEnd, dcf.switchEnd} : end > 0

(* the interframe space before c's backoff slots, from the channel's history *)
SpaceOver(c) ==
    LET ifs == Sifs + Aifsn[c] * SlotTime
    IN  idle >= ifs /\ (~dcf.rxOk => -dcf.rxEnd >= ifs + EifsNoDifs)

Tick ==
    /\ dcf.accessTimeout # 0
    /\ \A e \in LowEvents : low.ev[e] # 0
    /\ ~(dcf.rxing /\ dcf.rxEnd = 0)
    /\ LET s == Pass(Station)
       IN  Become([s EXCEPT !.low.ev = [e \in LowEvents |-> Nearer(@[e])],
                            !.left = [c \in Clients |->
                                        IF ~MediumBusy /\ SpaceOver(c) THEN Max({@[c] - 1, 0})
                                        ELSE @[c]]])
    /\ idle' = IF MediumBusy THEN 0 ELSE Min({idle + 1, Horizon})
    /\ UNCHANGED Bounds

Simulate == AccessTimeout \/ ExchangeTimeout \/ SendCtsAfterRts \/ SendReply
            \/ SendDataAfterCts \/ EndReceive \/ Tick
Surroundings == \/ \E c \in Clients : Queue(c) \/ Outlive(c)
                \/ \E frame \in RxKinds : StartReceive(frame)
                \/ CcaBusy
                \/ SetChannelNumber
Next == Simulate \/ Surroundings

Spec == Init /\ [][Next]_vars

(* The simulator goes on while an event is scheduled; the surroundings, being *)
(* bounded, cannot be what goes on for ever.  WF_vars(Simulate) implies it;   *)
(* this form spares TLC the evaluation of ENABLED.                            *)
NothingScheduled == /\ dcf.accessTimeout = NoEvent /\ ~dcf.rxing
                    /\ \A e \in LowEvents : low.ev[e] = NoEvent
FairSpec == Spec /\ ([]<>NothingScheduled \/ []<><<TRUE>>_vars)
-----------------------------------------------------------------------------
(* Properties *)

(* The type invariant: the ranges of the station's clocks, counters and events. *)
TypeOK ==
    /\ dcf \in DcfTypes
    /\ dcfs \in [Clients -> DcfStateTypes]
    /\ edca \in [Clients -> [queue : 0 .. MaxPackets, current : TxKinds \cup {None},
                             ssrc : 0 .. MaxTries, slrc : 0 .. MaxTries]]
    /\ low \in [listener : Clients \cup {Nobody}, currentPacket : BOOLEAN,
                waits : {"ack", "ba", None}, reply : {"ack", "ba"},
                ev : [LowEvents -> NoEvent .. DataTime + FrameTime + Timeout]]
    /\ rxFrame \in RxKinds \cup {None}
    /\ (rxFrame # None) = dcf.rxing
    /\ \A end \in {dcf.rxEnd, dcf.txEnd, dcf.busyEnd, dcf.ackEnd, dcf.ctsEnd, dcf.switchEnd} :
         end >= -Horizon

(* No NS_ASSERT and no NS_FATAL_ERROR of DcfManager, EdcaTxopN, MacLow or   *)
(* the PHY is ever met, and the types hold.                                 *)
AssertionsHold == TypeOK /\ failed = {}

(* A client with something to send is either asking for access or in the    *)
(* middle of an exchange whose next event will come back to it              *)
(* (RestartAccessIfNeeded and StartAccessIfNeeded leave nobody behind).     *)
InExchange(c) == /\ low.listener = c
                 /\ \E e \in {"cts", "ack", "ba", "sendData"} : low.ev[e] # NoEvent
NoneStranded ==
    \A c \in Clients : (edca[c].current # None \/ edca[c].queue > 0) =>
                         dcfs[c].requested \/ InExchange(c)

(* Access is granted only when the medium has been idle for the interframe  *)
(* space of the client and the client has seen every idle slot of its       *)
(* backoff, counted on the channel itself rather than by UpdateBackoff.     *)
Granted(c) == \E call \in {"NotifyAccessGranted", "GrantedEarly"} : <<call, c>> \in did'
BackoffServed ==
    [][\A c \in Clients : Granted(c) => /\ ~MediumBusy /\ SpaceOver(c)
                                        /\ <<"GrantedEarly", c>> \notin did']_vars

(* A client that has seen its whole backoff does not let a slot go by.  The *)
(* exceptions: NotifyTxStartNow cuts a reception, or NotifyRxEndOkNow ends  *)
(* an EIFS, and leaves the access timeout where the old end had put it.     *)
PromptAccess ==
    [][Tick /\ ~cut => \A c \in Clients : dcfs[c].requested /\ left[c] = 0 =>
                                            MediumBusy \/ ~SpaceOver(c)]_vars

(* StartTransmission never breaks into a frame exchange: neither the        *)
(* station's own (its client would be told to Cancel) nor a reply it owes.  *)
NoIntrusion ==
    [][(\E c \in Clients : Granted(c)) =>
         rxFrame = None /\ \A c \in Clients \cup {Nobody} : <<"Cancel", c>> \notin did']_vars

(* A request made while the medium is busy, with no backoff left, draws one *)
(* (DcfManager::RequestAccess, "If there is a collision, generate a         *)
(* backoff").                                                               *)
CollisionNotified ==
    [][\A c \in Clients :
         /\ ~dcfs[c].requested /\ dcfs'[c].requested
         /\ IsBusy(Station)
         /\ UpdateBackoff(Station).dcfs[c].slots = 0
         => <<"NotifyCollision", c>> \in did']_vars

(* Every request is eventually granted, once the other stations fall silent *)
(* (DcfManager::RequestAccess promises the grant).                          *)
RequestServed == \A c \in Clients : dcfs[c].requested ~> ~dcfs[c].requested
=============================================================================
