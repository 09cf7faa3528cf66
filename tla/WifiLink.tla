------------------------------ MODULE WifiLink ------------------------------
(***************************************************************************)
(* One wireless hop: a DcaTxop with MacLow and MacTxMiddle sends to the    *)
(* MacLow and MacRxMiddle of its peer over a channel that loses frames.    *)
(* Packets are split into fragments and retransmitted up to the station    *)
(* manager's limits; a second queue of the same station broadcasts beacons *)
(* between attempts, and the first one group packets between its unicast   *)
(* ones.  When the medium is granted is DcfManager's business.             *)
(***************************************************************************)
EXTENDS Integers, Sequences, FiniteSets

CONSTANTS Sizes,          \* the sizes a packet may have
          Overhead,       \* MAC header and trailer
          Threshold,      \* FragmentationThreshold
          RtsThreshold,   \* RtsCtsThreshold
          MaxSsrc, MaxSlrc,
          SeqSpace,       \* sequence numbers: 4096
          FragSpace,      \* fragment numbers in a header: 16
          MaxPackets, MaxBeacons, MaxBroadcasts, MaxSwitches   \* bounds of the run

ASSUME SizeAssumption == /\ Sizes \subseteq Nat
                         /\ Overhead \in Nat /\ Threshold \in Nat \ {0} /\ RtsThreshold \in Nat
ASSUME LimitAssumption == /\ MaxSsrc \in Nat \ {0} /\ MaxSlrc \in Nat \ {0}
                          /\ SeqSpace \in Nat \ {0} /\ FragSpace \in Nat \ {0}
                          /\ MaxPackets \in Nat /\ MaxSwitches \in Nat
                          /\ MaxBeacons \in Nat /\ MaxBroadcasts \in Nat

VARIABLES size,        \* sizes of the packets handed to Queue so far
          sent,        \* how many of them have left the queue
          current,     \* m_currentPacket, 0 when there is none
          seq, retry,  \* of m_currentHdr
          frag,        \* m_fragmentNumber
          waiting,     \* MacLow: the answer that is awaited, or the SIFS before a fragment
          ssrc, slrc,  \* the retry counters of the peer
          sequence,    \* MacTxMiddle's m_sequence
          air,         \* the frame on the channel
          last,        \* m_lastSequenceControl
          defragmenting, fragments,
          beacons,     \* the m_sequence of the beacon queue's own MacTxMiddle, not reduced
          broadcasts, switches,
          delivered,   \* history: the unicast packets MacRxMiddle handed up, as pieces
          acked, failed, dropped,  \* history: packets reported to TxOk and to TxFailed, and
                                   \* those that expired or were flushed without a report
          reused,          \* history: a packet was numbered like the last one recorded
          tries, rtsTries  \* history: transmissions of this fragment, RTS since the last CTS

Fates == <<acked, failed, dropped>>
Tries == <<tries, rtsTries>>
Header == <<seq, retry, frag>>
Bounds == <<beacons, broadcasts, switches>>
Sender == <<size, sent, current, Header, ssrc, slrc, sequence, Fates, reused, Tries>>
Receiver == <<last, defragmenting, fragments, delivered>>
vars == <<Sender, waiting, air, Receiver, Bounds>>

Silence == [kind |-> "none"]
Control(kind) == [kind |-> kind]
Group == 0       \* the packet number of a beacon or another group packet

Init == /\ size = << >> /\ sent = 0
        /\ current = 0 /\ seq = 0 /\ retry = FALSE /\ frag = 0
        /\ waiting = "none"
        /\ ssrc = 0 /\ slrc = 0 /\ sequence = 0
        /\ air = Silence
        /\ last = [seq |-> SeqSpace - 1, frag |-> FragSpace - 1]     \* 0xffff
        /\ defragmenting = FALSE /\ fragments = << >>
        /\ beacons = 0 /\ broadcasts = 0 /\ switches = 0
        /\ delivered = << >> /\ acked = {} /\ failed = {} /\ dropped = {}
        /\ reused = FALSE
        /\ tries = 0 /\ rtsTries = 0

-----------------------------------------------------------------------------
(* WifiRemoteStationManager: sizes and limits *)

NeedFragmentation(p) == size[p] + Overhead > Threshold

FragmentsRounded(p) == (size[p] + Threshold - 1) \div Threshold
GetNFragments(p) == size[p] \div Threshold + 1

GetFragmentSize(p, n) ==
    IF n >= GetNFragments(p) THEN 0
    ELSE IF n = GetNFragments(p) - 1 THEN size[p] % Threshold
    ELSE Threshold
GetFragmentOffset(p, n) == n * Threshold
IsLastFragment(p, n) == n = GetNFragments(p) - 1

(* the part of the packet that a frame carries: all of it, or a fragment *)
Whole(p) == [packet |-> p, from |-> 0, length |-> IF p = Group THEN 0 ELSE size[p]]
Piece(p, n) ==
    IF NeedFragmentation(p)
    THEN [packet |-> p, from |-> GetFragmentOffset(p, n), length |-> GetFragmentSize(p, n)]
    ELSE Whole(p)

NeedRts(p, n) == Piece(p, n).length + Overhead > RtsThreshold
NeedRtsRetransmission(n) == n < MaxSsrc
RetryOnceMore(n) == n <= MaxSlrc
NeedDataRetransmission(n) == n < MaxSlrc

(* WifiMacHeader::GetSequenceControl, written and read: the number and the   *)
(* fragment number in 16 bits.  The latter is a uint8_t at the sender and has *)
(* four bits here; the bits above these fall onto those of the number.        *)
Bit(n, w) == (n \div w) % 2
OrBit(a, b, w) == IF Bit(b, w) = 1 /\ Bit(a, w) = 0 THEN w ELSE 0
Or(a, b) == a + OrBit(a, b, 1) + OrBit(a, b, 2) + OrBit(a, b, 4) + OrBit(a, b, 8)
SeqControl(s, n) == [seq |-> Or(s, n \div FragSpace) % SeqSpace, frag |-> n % FragSpace]

DataFrame(p, s, n, again) ==
    [kind |-> "data", group |-> FALSE, piece |-> Piece(p, n),
     control |-> SeqControl(s, IF NeedFragmentation(p) THEN n ELSE 0), retry |-> again,
     more |-> NeedFragmentation(p) /\ ~IsLastFragment(p, n)]
GroupFrame(s) == [kind |-> "data", group |-> TRUE, piece |-> Whole(Group),
                  control |-> SeqControl(s, 0), retry |-> FALSE, more |-> FALSE]

(* MacTxMiddle::GetNextSequenceNumberfor *)
NextSequence == (sequence + 1) % SeqSpace

-----------------------------------------------------------------------------
(* DcaTxop and the sender's MacLow *)

Queue ==
    /\ Len(size) < MaxPackets
    /\ \E s \in Sizes : size' = Append(size, s)
    /\ UNCHANGED <<sent, current, Header, waiting, ssrc, slrc, sequence, air, Receiver, Bounds,
                   Fates, reused, Tries>>

(* the histories: a count stops one above its limit, and starts anew *)
Another(n, limit) == IF n > limit THEN n ELSE n + 1
NoTries == tries' = 0 /\ rtsTries' = 0

(* MacLow::StartTransmission, of an RTS or at once of the data *)
StartTransmission(p, s, n, again) ==
    IF NeedRts(p, n)
    THEN /\ air' = Control("rts") /\ waiting' = "cts"
         /\ rtsTries' = Another(rtsTries, MaxSsrc) /\ UNCHANGED tries
    ELSE /\ air' = DataFrame(p, s, n, again) /\ waiting' = "ack"
         /\ tries' = Another(tries, MaxSlrc) /\ rtsTries' = 0

(* WifiMacQueue::Cleanup in IsEmpty and Dequeue: the packets up to k, which   *)
(* are older than MaxDelay, vanish without a report.  (It is called at other  *)
(* times as well, and takes none then that would not be too old here.)        *)
Cleanup(k) == dropped' = dropped \cup (sent + 1 .. k)

(* the numbers that the frames of a packet have on the air *)
FragmentCount(p) == IF NeedFragmentation(p) THEN GetNFragments(p) ELSE 1
NumbersOnAir(p, s) == {SeqControl(s, n).seq : n \in 0 .. FragmentCount(p) - 1}

QueueEmpty ==
    /\ sent' = Len(size)
    /\ UNCHANGED <<current, Header, sequence, air, waiting, reused, Tries>>

FirstTry(p) ==
    /\ sent' = p /\ current' = p
    /\ seq' = sequence /\ sequence' = NextSequence
    /\ retry' = FALSE /\ frag' = 0
    /\ reused' = (reused \/ last.seq \in NumbersOnAir(p, sequence))
    /\ StartTransmission(p, sequence, 0, FALSE)

Retry ==
    /\ StartTransmission(current, seq, frag, retry)
    /\ UNCHANGED <<current, sent, Header, sequence, reused, dropped>>

NotifyAccessGranted ==
    /\ waiting = "none" /\ air = Silence
    /\ \/ /\ current = 0
          /\ \E k \in sent .. Len(size) :
                Cleanup(k) /\ IF k = Len(size) THEN QueueEmpty ELSE FirstTry(k + 1)
       \/ current # 0 /\ Retry
    /\ UNCHANGED <<size, ssrc, slrc, Receiver, Bounds, acked, failed>>

(* a group frame is sent once, and nothing is waited for *)
SendGroup(s) ==
    /\ waiting = "none" /\ air = Silence
    /\ air' = GroupFrame(s)
    /\ UNCHANGED <<size, sent, current, Header, waiting, ssrc, slrc, Receiver, switches, Fates,
                   reused, Tries>>

(* the beacon queue's turn: it has a MacTxMiddle and so a counter of its own *)
BeaconGranted ==
    /\ beacons < MaxBeacons
    /\ SendGroup(beacons % SeqSpace)
    /\ beacons' = beacons + 1 /\ UNCHANGED <<sequence, broadcasts>>

(* a group packet's turn in the queue of the others *)
BroadcastGranted ==
    /\ current = 0 /\ broadcasts < MaxBroadcasts
    /\ SendGroup(sequence)
    /\ broadcasts' = broadcasts + 1 /\ sequence' = NextSequence /\ UNCHANGED beacons

(* GotCts, and the data a SIFS later *)
GotCts ==
    /\ air.kind = "cts" /\ waiting = "cts"
    /\ ssrc' = 0 /\ rtsTries' = 0
    /\ air' = DataFrame(current, seq, frag, retry) /\ waiting' = "ack"
    /\ tries' = Another(tries, MaxSlrc)
    /\ UNCHANGED <<size, sent, current, Header, slrc, sequence, Receiver, Bounds, Fates, reused>>

(* CtsTimeout and MissedCts *)
MissedCts ==
    /\ air = Silence /\ waiting = "cts"
    /\ waiting' = "none"
    /\ IF NeedRtsRetransmission(ssrc + 1)
       THEN ssrc' = ssrc + 1 /\ UNCHANGED <<current, failed, Tries>>
       ELSE ssrc' = 0 /\ current' = 0 /\ failed' = failed \cup {current} /\ NoTries
    /\ UNCHANGED <<size, sent, Header, slrc, sequence, air, Receiver, Bounds, acked, dropped,
                   reused>>

(* GotAck: the packet is done, or its next fragment follows *)
GotAck ==
    /\ air.kind = "ack" /\ waiting = "ack"
    /\ slrc' = 0
    /\ air' = Silence
    /\ IF ~NeedFragmentation(current) \/ IsLastFragment(current, frag)
       THEN acked' = acked \cup {current} /\ current' = 0 /\ waiting' = "none"
       ELSE waiting' = "sifs" /\ UNCHANGED <<acked, current>>
    /\ NoTries
    /\ UNCHANGED <<size, sent, Header, ssrc, sequence, Receiver, Bounds, failed, dropped, reused>>

(* WaitSifsAfterEndTx; m_fragmentNumber is a uint8_t *)
NextFragment == (frag + 1) % (16 * FragSpace)

StartNext ==
    /\ waiting = "sifs" /\ air = Silence
    /\ frag' = NextFragment
    /\ air' = DataFrame(current, seq, NextFragment, retry) /\ waiting' = "ack"
    /\ tries' = Another(tries, MaxSlrc)
    /\ UNCHANGED <<size, sent, current, seq, retry, ssrc, slrc, sequence, Receiver, Bounds,
                   Fates, reused, rtsTries>>

(* NormalAckTimeout and MissedAck *)
PacketKept ==
    /\ air = Silence /\ waiting = "ack"
    /\ waiting' = "none"
    /\ slrc' = IF NeedDataRetransmission(slrc + 1) THEN slrc + 1 ELSE 0
    /\ retry' = TRUE
    /\ UNCHANGED <<size, sent, current, seq, frag, ssrc, sequence, air, Receiver, Bounds, Fates,
                   reused, Tries>>
MissedAck ==
    /\ air = Silence /\ waiting = "ack"
    /\ waiting' = "none"
    /\ IF NeedDataRetransmission(slrc + 1)
       THEN slrc' = slrc + 1 /\ retry' = TRUE /\ UNCHANGED <<current, failed, Tries>>
       ELSE /\ slrc' = 0 /\ current' = 0 /\ failed' = failed \cup {current}
            /\ NoTries /\ UNCHANGED retry
    /\ UNCHANGED <<size, sent, seq, frag, ssrc, sequence, air, Receiver, Bounds, acked, dropped,
                   reused>>

(* NotifySwitchingStartNow and NotifyChannelSwitching: everything is dropped *)
SwitchChannel ==
    /\ switches < MaxSwitches
    /\ switches' = switches + 1
    /\ waiting' = "none"
    /\ ssrc' = 0 /\ slrc' = 0
    /\ current' = 0 /\ sent' = Len(size)
    /\ dropped' = dropped \cup (sent + 1 .. Len(size)) \cup ({current} \ {0})
    /\ NoTries
    /\ UNCHANGED <<size, Header, sequence, air, Receiver, beacons, broadcasts, acked, failed,
                   reused>>

-----------------------------------------------------------------------------
(* The channel, and the receiver's MacLow *)

Lose ==
    /\ air # Silence
    /\ air' = Silence
    /\ UNCHANGED <<Sender, waiting, Receiver, Bounds>>

SendCtsAfterRts ==
    /\ air.kind = "rts"
    /\ air' = Control("cts")
    /\ UNCHANGED <<Sender, waiting, Receiver, Bounds>>

SameNumber(f) == last.seq = f.control.seq
IsDuplicate(f) == f.retry /\ last = f.control
IsNextFragment(f) == f.control.seq = last.seq /\ f.control.frag = last.frag + 1

(* group frames are numbered too, but are no part of the sequence kept *)
GroupRemembered(f) == f.control
Remembered(f) == IF f.group THEN last ELSE f.control

(* HandleFragments, and SetSequenceControl of what is forwarded up *)
HandleFragments(f) ==
    \/ /\ defragmenting /\ IsNextFragment(f)
       /\ last' = f.control
       /\ defragmenting' = f.more
       /\ fragments' = IF f.more THEN Append(fragments, f.piece) ELSE << >>
       /\ delivered' = IF f.more THEN delivered
                       ELSE Append(delivered, Append(fragments, f.piece))
    \/ /\ defragmenting /\ ~IsNextFragment(f)          \* a non-ordered fragment
       /\ UNCHANGED Receiver
    \/ /\ ~defragmenting /\ f.more
       /\ last' = f.control
       /\ defragmenting' = TRUE /\ fragments' = Append(fragments, f.piece)
       /\ UNCHANGED delivered
    \/ /\ ~defragmenting /\ ~f.more
       /\ delivered' = IF f.group THEN delivered ELSE Append(delivered, <<f.piece>>)
       /\ last' = Remembered(f)
       /\ UNCHANGED <<defragmenting, fragments>>

(* every data frame is answered, whatever MacRxMiddle makes of it *)
Receive ==
    /\ air.kind = "data"
    /\ IF IsDuplicate(air) THEN UNCHANGED Receiver ELSE HandleFragments(air)
    /\ air' = IF air.group THEN Silence ELSE Control("ack")
    /\ UNCHANGED <<Sender, waiting, Bounds>>

-----------------------------------------------------------------------------
Exchange == NotifyAccessGranted \/ GotCts \/ MissedCts \/ GotAck \/ StartNext \/ MissedAck
Channel == Lose \/ SendCtsAfterRts \/ Receive

Next == Queue \/ Exchange \/ BeaconGranted \/ BroadcastGranted \/ SwitchChannel \/ Channel

Spec == Init /\ [][Next]_vars

(* timers expire, a frame on the air arrives or is lost, and the medium is *)
(* granted; nothing is assumed of how often frames are lost                *)
FairSpec == Spec /\ WF_vars(Exchange) /\ WF_vars(Channel)

-----------------------------------------------------------------------------
Packets == 1 .. Len(size)
Pieces == [packet: 0 .. Len(size), from: Nat, length: Nat]

(* The types; the retry counters stay below their limits. *)
TypeOK ==
    /\ size \in Seq(Sizes)
    /\ sent \in 0 .. Len(size) /\ current \in 0 .. sent
    /\ seq \in 0 .. SeqSpace - 1 /\ sequence \in 0 .. SeqSpace - 1
    /\ retry \in BOOLEAN /\ frag \in 0 .. 16 * FragSpace - 1
    /\ waiting \in {"none", "cts", "ack", "sifs"}
    /\ ssrc \in 0 .. MaxSsrc - 1 /\ slrc \in 0 .. MaxSlrc - 1
    /\ air.kind \in {"none", "rts", "cts", "data", "ack"}
    /\ defragmenting \in BOOLEAN /\ reused \in BOOLEAN
    /\ last \in [seq: 0 .. SeqSpace - 1, frag: 0 .. FragSpace - 1]
    /\ fragments \in Seq(Pieces) /\ delivered \in Seq(Seq(Pieces))
    /\ beacons \in 0 .. MaxBeacons /\ broadcasts \in 0 .. MaxBroadcasts
    /\ switches \in 0 .. MaxSwitches
    /\ acked \subseteq Packets /\ failed \subseteq Packets /\ dropped \subseteq Packets
    /\ tries \in Nat /\ rtsTries \in Nat

Numbers == [i \in DOMAIN delivered |-> delivered[i][1].packet]

Service == INSTANCE LinkService WITH accepted <- Len(size), delivered <- Numbers

(* The receiver knows a packet by its number alone, and numbers come round  *)
(* again.  What it may rely on ends when a packet is numbered like the last  *)
(* one it recorded, with all 4096 numbers in between unheard (reused): then  *)
(* a packet may be taken for a repetition, or its fragments be put behind    *)
(* those kept of the other.  Until then:                                     *)
(*                                                                           *)
(* The link gives the service of LinkService: whatever is lost on the way,   *)
(* retransmitted, broadcast in between with equal numbers, expired or        *)
(* abandoned, the packets that MacRxMiddle hands up are each handed up once  *)
(* and in order.                                                             *)
OnceInOrder ==
    Service!Init /\ [][reused' \/ Service!Next]_<<Len(size), Numbers>>

(* What is handed up is a packet as it was queued: its bytes from the first *)
(* to the last, each once, and none of another packet's, however its        *)
(* fragments were lost and repeated; again until a number is reused.        *)
WholePacket(ps) ==
    /\ ps[1].packet \in Packets /\ \A j \in DOMAIN ps : ps[j].packet = ps[1].packet
    /\ ps[1].from = 0
    /\ \A j \in 1 .. Len(ps) - 1 : ps[j + 1].from = ps[j].from + ps[j].length
    /\ ps[Len(ps)].from + ps[Len(ps)].length = size[ps[1].packet]
Intact == ~reused => \A i \in DOMAIN delivered : WholePacket(delivered[i])

Delivered == {delivered[i][1].packet : i \in DOMAIN delivered}
HalfReceived(p) == defragmenting /\ fragments[1].packet = p
TooLong(p) == FragmentCount(p) > FragSpace

(* A packet for which the sender reported success has been handed up, again  *)
(* until a number is reused, unless the receiver still holds fragments of an *)
(* earlier packet that the sender gave up, or of a packet, this one perhaps, *)
(* that has more fragments than a header has numbers for: from then on it    *)
(* discards, and acknowledges, everything.                                   *)
AckedDelivered ==
    ~reused => \A p \in acked :
        \/ p \in Delivered
        \/ \E q \in 1 .. p : HalfReceived(q) /\ (q = p => TooLong(p))

(* No frame is sent more often than MaxSlrc allows, nor an RTS more often   *)
(* than MaxSsrc between two CTS, although both counters are kept per peer   *)
(* and survive the packet they counted for; and the types hold.             *)
TriesBounded == TypeOK /\ tries <= MaxSlrc /\ rtsTries <= MaxSsrc

(* Every packet queued is in the end reported as sent or failed, or it      *)
(* expired in the queue or was flushed by a channel switch; even over a     *)
(* channel that loses everything.  (With 256 fragments or more a packet     *)
(* does not end: m_fragmentNumber wraps before it comes to the last.)       *)
Resolved == \A p \in 1 .. MaxPackets :
    Len(size) >= p ~> p \in acked \cup failed \cup dropped

-----------------------------------------------------------------------------
(* The parts of the inductive invariant *)

InAir == air.kind = "data" /\ ~air.group
Now == IF current # 0 THEN current ELSE IF InAir THEN air.piece.packet ELSE 0
Recorded == last.seq = seq /\ last.frag = frag

(* no fragment can be the next one: the last number there is, was recorded *)
Exhausted == defragmenting /\ last.frag + 1 = FragSpace
Stuck == (defragmenting /\ last.seq # seq) \/ Exhausted

(* a frame on the air is the sender's latest, or a group frame *)
FrameInv ==
    /\ InAir => \E p \in 1 .. sent : air = DataFrame(p, seq, frag, retry) /\ current \in {0, p}
    /\ air.kind = "data" => InAir \/ \E s \in 0 .. SeqSpace - 1 : air = GroupFrame(s)
    /\ Now # 0 => frag < FragmentCount(Now)
    /\ waiting # "none" => current # 0
    /\ waiting = "cts" => air.kind \in {"none", "rts", "cts"}
    /\ waiting = "sifs" => air = Silence /\ frag + 1 < FragmentCount(current)
    /\ InAir => waiting = "ack" \/ current = 0

Fragments(ps, p, n) == Len(ps) = n /\ \A j \in 1 .. n : ps[j] = Piece(p, j - 1)

(* the fragments held are the first ones of the packet now being sent, or   *)
(* of an earlier one that the sender is done with                           *)
FragmentInv ==
    /\ ~defragmenting => fragments = << >>
    /\ defragmenting =>
          \E q \in 1 .. sent :
             /\ NeedFragmentation(q) /\ last.frag + 1 < GetNFragments(q)
             /\ Fragments(fragments, q, last.frag + 1)
             /\ Now # 0 => IF last.seq = seq THEN q = Now ELSE q < Now

(* how far the packet being sent has come at the receiver *)
ProgressInv ==
    Now # 0 =>
        /\ last.seq # seq => last.seq \notin NumbersOnAir(Now, seq)
        /\ last.seq = seq => \/ last.frag = frag
                             \/ (last.frag + 1 = frag /\ defragmenting)
                             \/ Exhausted
        /\ last.seq # seq /\ frag > 0 => defragmenting
        /\ Recorded /\ ~defragmenting => frag + 1 = FragmentCount(Now) /\ Now \in Delivered
        /\ Now \in Delivered => Recorded /\ ~defragmenting
        /\ Recorded => \/ retry \/ waiting = "sifs"
                       \/ (waiting = "ack" /\ air.kind # "data")
                       \/ Exhausted
        /\ waiting = "sifs" \/ (waiting = "ack" /\ air.kind = "ack") => Recorded \/ Stuck

DeliveredInv ==
    /\ \A i \in DOMAIN delivered :
          \E p \in 1 .. sent : Fragments(delivered[i], p, FragmentCount(p)) /\ (Now # 0 => p <= Now)
    /\ \A i, j \in DOMAIN delivered : i < j => Numbers[i] < Numbers[j]

AckedInv ==
    \A p \in acked : /\ p <= sent /\ (Now # 0 => p < Now)
                     /\ \/ p \in Delivered
                        \/ \E q \in 1 .. p : HalfReceived(q) /\ (q = p => TooLong(p))

(* the retry counters of the peer are never behind the tries of a fragment *)
TriesInv ==
    /\ tries <= MaxSlrc /\ rtsTries <= MaxSsrc
    /\ tries <= slrc + (IF waiting = "ack" THEN 1 ELSE 0)
    /\ waiting \in {"ack", "sifs"} => rtsTries = 0
    /\ rtsTries <= ssrc + (IF waiting = "cts" THEN 1 ELSE 0)

(* what the two ends know of each other, until a number is reused *)
KnownInv == FragmentInv /\ ProgressInv /\ DeliveredInv /\ AckedInv

IInv == TypeOK /\ FrameInv /\ TriesInv /\ (~reused => KnownInv)
====
