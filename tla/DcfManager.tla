----------------------------- MODULE DcfManager -----------------------------
(***************************************************************************)
(* DcfManager and its DcfStates: when each local contender for the medium  *)
(* may transmit.  The module has no variables: it transforms a record s of *)
(* a station, whose fields dcf (DcfManager) and dcfs (one DcfState per     *)
(* contender) it reads and writes, so that the calls which one simulator   *)
(* event makes through DcfManager, EdcaTxopN, MacLow and the PHY compose.  *)
(*                                                                         *)
(* Every Time is kept as its distance from Simulator::Now(): 0 is now, the *)
(* past is negative.  Pass lets time go on.  Nothing distinguishes instants*)
(* earlier than -Horizon: an interframe space and a whole backoff are over.*)
(***************************************************************************)
EXTENDS Integers, Sequences, FiniteSets, FiniteSetsExt

CONSTANTS Aifsn,      \* m_aifsn of each DcfState, in the order of Add
          CwMin, CwMax,
          Sifs, SlotTime, EifsNoDifs

ASSUME AifsnAssumption == Aifsn \in Seq(Nat \ {0})
ASSUME CwAssumption == CwMin \in Nat /\ CwMax \in Nat /\ CwMin <= CwMax
ASSUME TimesAssumption == Sifs \in Nat \ {0} /\ SlotTime \in Nat \ {0} /\ EifsNoDifs \in Nat

Clients == DOMAIN Aifsn
NoEvent == -1               \* an EventId that is expired
Horizon == Sifs + EifsNoDifs + (Max({Aifsn[c] : c \in Clients}) + CwMax) * SlotTime

DcfTypes == [rxing : BOOLEAN, rxOk : BOOLEAN, rxStart : -Horizon .. 0,
             rxEnd : Int, txEnd : Int, busyEnd : Int, switchEnd : Int,
             ackEnd : Int, ctsEnd : Int, accessTimeout : Nat \cup {NoEvent}]
DcfStateTypes == [slots : 0 .. CwMax, start : -Horizon .. 0, cw : CwMin .. CwMax,
                  requested : BOOLEAN]

DcfInit == [rxing |-> FALSE, rxOk |-> TRUE, rxStart |-> 0, rxEnd |-> 0, txEnd |-> 0,
            busyEnd |-> 0, switchEnd |-> 0, ackEnd |-> 0, ctsEnd |-> 0,
            accessTimeout |-> NoEvent]

(* an NS_ASSERT or NS_FATAL_ERROR, recorded in s.failed when it does not hold *)
Require(s, condition, name) ==
    IF condition THEN s ELSE [s EXCEPT !.failed = @ \cup {name}]

-----------------------------------------------------------------------------
(* When access can be granted *)

(* mutant: a reception does not hold access back *)
GetAccessGrantStart_NoRx(s) ==
    LET d == s.dcf
    IN  Sifs + Max({d.txEnd, d.busyEnd, d.ackEnd, d.ctsEnd, d.switchEnd})

(* mutant: a channel switch does not hold access back *)
GetAccessGrantStart_NoSwitch(s) ==
    LET d == s.dcf
        eifs == IF ~d.rxing /\ ~d.rxOk THEN EifsNoDifs ELSE 0
    IN  Sifs + Max({d.rxEnd + eifs, d.txEnd, d.busyEnd, d.ackEnd, d.ctsEnd})

GetAccessGrantStart(s) ==
    LET d == s.dcf
        eifs == IF ~d.rxing /\ ~d.rxOk THEN EifsNoDifs ELSE 0
    IN  Sifs + Max({d.rxEnd + eifs, d.txEnd, d.busyEnd, d.ackEnd, d.ctsEnd, d.switchEnd})

GetBackoffStartFor(s, c) ==
    Max({s.dcfs[c].start, GetAccessGrantStart(s) + Aifsn[c] * SlotTime})

GetBackoffEndFor(s, c) == GetBackoffStartFor(s, c) + s.dcfs[c].slots * SlotTime

IsBusy(s) == s.dcf.rxing \/ s.dcf.txEnd > 0

Expired(s) == {c \in Clients : s.dcfs[c].requested /\ GetBackoffEndFor(s, c) <= 0}

(* mutant: the slots already counted are counted again *)
UpdateBackoff_Recounted(s) ==
    LET Counted(c) == LET start == GetBackoffStartFor(s, c)
                          n == Min({(-start) \div SlotTime, s.dcfs[c].slots})
                      IN  IF start > 0 THEN s.dcfs[c] ELSE [s.dcfs[c] EXCEPT !.slots = @ - n]
    IN  [s EXCEPT !.dcfs = [c \in Clients |-> Counted(c)]]

(* count the idle slots of every contender up to now *)
UpdateBackoff(s) ==
    LET Counted(c) == LET start == GetBackoffStartFor(s, c)
                          n == Min({(-start) \div SlotTime, s.dcfs[c].slots})
                      IN  IF start > 0 THEN s.dcfs[c]
                          ELSE [s.dcfs[c] EXCEPT !.slots = @ - n,
                                                 !.start = start + n * SlotTime]
    IN  [s EXCEPT !.dcfs = [c \in Clients |-> Counted(c)]]

(* mutant: a timeout that is already scheduled is never moved closer *)
DoRestartAccessTimeoutIfNeeded_Once(s) ==
    LET later == {t \in {GetBackoffEndFor(s, c) : c \in {d \in Clients : s.dcfs[d].requested}} :
                    t > 0}
    IN  IF later = {} \/ s.dcf.accessTimeout # NoEvent THEN s
        ELSE [s EXCEPT !.dcf.accessTimeout = Min(later)]

DoRestartAccessTimeoutIfNeeded(s) ==
    LET due == {GetBackoffEndFor(s, c) : c \in {d \in Clients : s.dcfs[d].requested}}
        later == {t \in due : t > 0}
        delay == Min(later)
        pending == s.dcf.accessTimeout
    IN  IF later = {} \/ (pending # NoEvent /\ pending <= delay) THEN s
        ELSE [s EXCEPT !.dcf.accessTimeout = delay]

-----------------------------------------------------------------------------
(* DcfState *)

ResetCw(s, c) == [s EXCEPT !.dcfs[c].cw = CwMin]
UpdateFailedCw(s, c) == [s EXCEPT !.dcfs[c].cw = Min({2 * (@ + 1) - 1, CwMax})]

(* s.left is a history field: the idle slots c still has to see *)
StartBackoffNow(s, c, draw) ==
    LET nSlots == draw[c] % (s.dcfs[c].cw + 1)
    IN  Require([s EXCEPT !.dcfs[c].slots = nSlots, !.dcfs[c].start = 0, !.left[c] = nSlots],
                s.dcfs[c].slots = 0, "StartBackoffNow")

-----------------------------------------------------------------------------
(* Notifications of the PHY and of MacLow *)

NotifyRxStartNow(s, duration) ==
    [UpdateBackoff(s) EXCEPT !.dcf.rxStart = 0, !.dcf.rxEnd = duration, !.dcf.rxing = TRUE]

(* a good reception ends an EIFS early; s.cut, a history field, remembers it *)
NotifyRxEndNow(s, ok) ==
    [s EXCEPT !.dcf.rxEnd = 0, !.dcf.rxOk = ok, !.dcf.rxing = FALSE,
              !.cut = @ \/ (ok /\ ~s.dcf.rxOk)]

(* a reception that began within the last SIFS is cut *)
NotifyTxStartNow(s, duration) ==
    LET cut == [Require(s, -s.dcf.rxStart <= Sifs, "TxInsideRx") EXCEPT !.cut = TRUE]
        s1 == IF s.dcf.rxing THEN NotifyRxEndNow(cut, TRUE) ELSE s
    IN  [UpdateBackoff(s1) EXCEPT !.dcf.txEnd = duration]

NotifyMaybeCcaBusyStartNow(s, duration) == [UpdateBackoff(s) EXCEPT !.dcf.busyEnd = duration]

(* mutant: the wait for an ACK does not hold access back *)
NotifyAckTimeoutStartNow_Ignored(s, duration) ==
    Require(s, s.dcf.ackEnd < 0, "AckTimeoutStart")

NotifyAckTimeoutStartNow(s, duration) ==
    Require([s EXCEPT !.dcf.ackEnd = duration], s.dcf.ackEnd < 0, "AckTimeoutStart")
NotifyAckTimeoutResetNow(s) == DoRestartAccessTimeoutIfNeeded([s EXCEPT !.dcf.ackEnd = 0])
NotifyCtsTimeoutStartNow(s, duration) == [s EXCEPT !.dcf.ctsEnd = duration]
NotifyCtsTimeoutResetNow(s) == DoRestartAccessTimeoutIfNeeded([s EXCEPT !.dcf.ctsEnd = 0])

(* the contenders' own NotifyChannelSwitching is in WifiStation *)
NotifySwitchingStartNow(s, duration) ==
    LET s1 == Require(s, s.dcf.txEnd <= 0 /\ s.dcf.switchEnd <= 0, "SwitchingStart")
        Truncated(end) == Min({end, 0})
        Cleared(d) == [d EXCEPT !.start = IF d.slots > 0 THEN 0 ELSE @, !.slots = 0,
                                !.cw = CwMin, !.requested = FALSE]
    IN  [s1 EXCEPT !.dcf.rxEnd = Truncated(@), !.dcf.rxOk = @ \/ s.dcf.rxing,
                   !.dcf.rxing = FALSE,
                   !.dcf.busyEnd = Truncated(@), !.dcf.ackEnd = Truncated(@),
                   !.dcf.ctsEnd = Truncated(@), !.dcf.accessTimeout = NoEvent,
                   !.dcf.switchEnd = duration,
                   !.dcfs = [c \in Clients |-> Cleared(@[c])],
                   !.left = [c \in Clients |-> 0]]

-----------------------------------------------------------------------------
(* Time *)

Aged(time) == IF time > -Horizon THEN time - 1 ELSE time
Nearer(delay) == IF delay = NoEvent THEN NoEvent ELSE delay - 1

(* one unit of time goes by *)
Pass(s) ==
    [s EXCEPT !.dcf = [@ EXCEPT !.rxStart = Aged(@), !.rxEnd = Aged(@), !.txEnd = Aged(@),
                                !.busyEnd = Aged(@), !.switchEnd = Aged(@),
                                !.ackEnd = Aged(@), !.ctsEnd = Aged(@),
                                !.accessTimeout = Nearer(@)],
              !.dcfs = [c \in Clients |-> [@[c] EXCEPT !.start = Aged(@)]]]
=============================================================================
