------------------------------- MODULE BlockAck -------------------------------
(***************************************************************************)
(* A block ack session on one wireless hop: the originator's EdcaTxopN     *)
(* with its BlockAckManager, the recipient's MacLow with its reordering    *)
(* buffer and its MacRxMiddle, one traffic identifier, over a channel that *)
(* loses frames.  Packets are 1, 2, ... in the order they were queued; the *)
(* first of them has sequence number First.  Compressed block acks, no     *)
(* fragments, no aggregation, no inactivity timeout: as FlywaysTopoHelper  *)
(* sets the dongles up.                                                    *)
(***************************************************************************)
EXTENDS Lists, FiniteSetsExt, SequencesExt

CONSTANTS Threshold,    \* m_blockAckThreshold
          BufferSize,   \* m_bufferSize of the agreement: 1024
          CounterSpace, \* values of the uint8_t m_sentMpdus: 256
          Word,         \* bits of an int: 32; the bitmap has twice as many
          MaxSlrc,
          First,        \* sequence number of the first packet
          MaxPackets, MaxLosses     \* bounds of the run

ASSUME BlockAckAssumption ==
    /\ Threshold \in Nat \ {0} /\ BufferSize \in Nat \ {0, 1} /\ CounterSpace \in Nat \ {0}
    /\ CounterSpace <= BufferSize \div 2 /\ Word \in Nat \ {0}
    /\ MaxSlrc \in Nat \ {0} /\ First \in 0 .. 4095
    /\ MaxPackets \in Nat /\ MaxLosses \in Nat

VARIABLES accepted, taken,  \* packets queued, and taken from the queue, so far
          requested,        \* m_dcf->IsAccessRequested
          current,          \* m_currentPacket and m_currentHdr
          waiting,          \* MacLow: the answer awaited
          slrc,             \* the peer's retry counter
          agreement, start, sentMpdus, buffer,   \* the agreement and its packets
          retries, bars,    \* m_retryPackets, m_bars
          air,              \* the frame on the channel
          response,         \* the recipient has an ADDBA response to send
          agreed, rStart, rBuffer,   \* MacLow's m_bAckAgreements at the recipient
          last,             \* MacRxMiddle's last sequence number
          losses,
          delivered,        \* history: what MacRxMiddle handed up
          acked, failed,    \* history: packets the originator is done with
          unanswered,       \* history: packets for which an ACK or a block ack was lost
          wide              \* history: a block ack spanned more than Word packets

Queued == <<accepted, taken>>
Manager == <<agreement, start, sentMpdus, buffer, retries, bars>>
Originator == <<Queued, requested, current, waiting, slrc, Manager, acked, failed, wide>>
Recipient == <<agreed, rStart, rBuffer, last, delivered>>
Channel == <<response, losses, unanswered>>
vars == <<Originator, air, Channel, Recipient>>

Silence == [kind |-> "none"]
None == [kind |-> "none"]
Ack == [kind |-> "ack"]
Data(p, again) == [kind |-> "data", packet |-> p, retry |-> again, block |-> FALSE]
BlockData(p, again) == [kind |-> "data", packet |-> p, retry |-> again, block |-> TRUE]
AddBaRequest(s) == [kind |-> "addba", start |-> s, retry |-> FALSE]
Bar(s) == [kind |-> "bar", start |-> s]

(* MacTxMiddle: the sequence number a packet gets *)
Seq4096(p) == (First + p - 1) % 4096

Init == /\ accepted = 0 /\ taken = 0
        /\ requested = FALSE /\ current = None /\ waiting = "none" /\ slrc = 0
        /\ agreement = "none" /\ start = 0 /\ sentMpdus = 0
        /\ buffer = << >> /\ retries = << >> /\ bars = << >>
        /\ air = Silence /\ response = FALSE /\ losses = 0
        /\ agreed = FALSE /\ rStart = 0 /\ rBuffer = << >>
        /\ last = (First + 4095) % 4096
        /\ delivered = << >> /\ acked = {} /\ failed = {}
        /\ unanswered = {} /\ wide = FALSE

-----------------------------------------------------------------------------
(* EdcaTxopN and BlockAckManager at the originator *)

InQueue == accepted - taken
NeedsAccess == InQueue' > 0 \/ current' # None \/ retries' # << >> \/ bars' # << >>
RestartAccessIfNeeded == requested' = (requested \/ NeedsAccess)

Queue ==
    /\ accepted < MaxPackets
    /\ accepted' = accepted + 1
    /\ requested' = (requested \/ current = None)
    /\ UNCHANGED <<taken, current, waiting, slrc, Manager, acked, failed, wide, air, Channel,
                   Recipient>>

(* SwitchToBlockAckIfNeeded: n packets in the queue and those of b *)
EnoughFor(n, b) == n + Len(b) >= Threshold

(* CompleteTx of an MPDU under block ack: StorePacket, NotifyMpduTransmission *)
(* and ScheduleBlockAckReqIfNeeded; no answer is awaited.  A BlockAckReq is   *)
(* due after half a buffer of packets, which m_sentMpdus cannot count as far  *)
(* as with the buffer of 1024 that a response grants, or when nothing is left *)
(* to send.                                                                   *)
SentMpdus == (sentMpdus + 1) % CounterSpace
BarNeededOnlyWhenFull == SentMpdus = BufferSize \div 2
BarNeeded == \/ SentMpdus = BufferSize \div 2
             \/ retries' = << >> /\ InQueue' = 0

CompleteTx(p, again) ==
    /\ buffer' = IF again THEN buffer ELSE Append(buffer, p)
    /\ sentMpdus' = IF BarNeeded THEN 0 ELSE SentMpdus
    /\ bars' = IF BarNeeded THEN Append(bars, start') ELSE bars
    /\ current' = None /\ waiting' = "none"
    /\ air' = BlockData(p, again)
    /\ requested' = NeedsAccess

(* a frame that waits for its answer; MacLow::StartTransmission *)
Transmit(c, answer) ==
    /\ current' = c /\ air' = c /\ waiting' = answer
    /\ requested' = FALSE

Granted == requested /\ waiting = "none" /\ air = Silence
Idle == current = None /\ bars = << >> /\ retries = << >>

SendBlockAckRequest ==
    /\ Granted /\ current = None /\ bars # << >>
    /\ Transmit(Bar(Head(bars)), "blockack")
    /\ bars' = Tail(bars)
    /\ UNCHANGED <<Queued, slrc, agreement, start, sentMpdus, buffer, retries>>

(* GetNextPacket; CleanupBuffers expires nothing here, but sets the start *)
KeptIn(b, p) == b
ErasedFrom(b, p) == RemoveAt(b, CHOOSE n \in DOMAIN b : b[n] = p)
Retransmit ==
    /\ Granted /\ current = None /\ bars = << >> /\ retries # << >>
    /\ retries' = Tail(retries) /\ UNCHANGED <<Queued, slrc>>
    /\ LET p == Head(retries) IN
       \/ /\ agreement = "ESTABLISHED"
          /\ start' = Seq4096(Head(buffer))
          /\ CompleteTx(p, TRUE)
          /\ UNCHANGED agreement
       \/ /\ agreement # "ESTABLISHED" /\ EnoughFor(InQueue, buffer)
          /\ agreement' = "ESTABLISHED" /\ start' = Seq4096(p)
          /\ CompleteTx(p, TRUE)
       \/ /\ agreement # "ESTABLISHED" /\ ~EnoughFor(InQueue, buffer)
          /\ start' = Seq4096(Head(buffer))
          /\ buffer' = ErasedFrom(buffer, p)
          /\ Transmit(Data(p, TRUE), "ack")
          /\ UNCHANGED <<agreement, sentMpdus, bars>>

(* SetupBlockAckIfNeeded and SendAddBaRequest: the destination is blocked *)
SetupNeeded == agreement = "none" /\ InQueue >= Threshold
SendAddBaRequest ==
    /\ Granted /\ Idle /\ SetupNeeded
    /\ agreement' = "PENDING" /\ start' = Seq4096(taken + 1)
    /\ Transmit(AddBaRequest(Seq4096(taken + 1)), "ack")
    /\ UNCHANGED <<Queued, slrc, sentMpdus, buffer, retries, bars>>

(* DequeueFirstAvailable and VerifyBlockAck *)
Dequeue ==
    /\ Granted /\ Idle /\ InQueue > 0 /\ ~SetupNeeded /\ agreement # "PENDING"
    /\ taken' = taken + 1 /\ UNCHANGED <<accepted, slrc, retries>>
    /\ LET p == taken + 1
           reopen == agreement = "INACTIVE" /\ EnoughFor(InQueue - 1, buffer)
       IN  /\ agreement' = IF reopen THEN "ESTABLISHED" ELSE agreement
           /\ start' = IF reopen THEN Seq4096(p) ELSE start
           /\ IF agreement' = "ESTABLISHED"
              THEN CompleteTx(p, FALSE)
              ELSE Transmit(Data(p, FALSE), "ack") /\ UNCHANGED <<sentMpdus, buffer, bars>>

(* the early returns: nothing to send, or nothing to a destination not blocked *)
NothingAvailable ==
    /\ Granted /\ Idle
    /\ InQueue = 0 \/ agreement = "PENDING"
    /\ requested' = FALSE
    /\ UNCHANGED <<Queued, current, waiting, slrc, Manager, air>>

(* the frame kept since its answer was missed *)
Repeat ==
    /\ Granted /\ current # None
    /\ Transmit(current, IF current.kind = "bar" THEN "blockack" ELSE "ack")
    /\ UNCHANGED <<Queued, slrc, Manager>>

NotifyAccessGranted ==
    /\ \/ SendBlockAckRequest \/ Retransmit \/ SendAddBaRequest \/ Dequeue
       \/ NothingAvailable \/ Repeat
    /\ UNCHANGED <<acked, failed, wide, Channel, Recipient>>

Packet(c) == IF c.kind = "data" THEN {c.packet} ELSE {}

GotAck ==
    /\ air = Ack /\ waiting = "ack"
    /\ air' = Silence /\ waiting' = "none"
    /\ slrc' = 0 /\ current' = None
    /\ acked' = acked \cup Packet(current)
    /\ UNCHANGED <<Queued, Manager, failed, wide, Channel, Recipient>>
    /\ RestartAccessIfNeeded

(* NormalAckTimeout and MissedAck; block acks missed have counted too *)
MissedAck ==
    /\ air = Silence /\ waiting = "ack"
    /\ waiting' = "none"
    /\ IF slrc + 1 < MaxSlrc
       THEN /\ slrc' = slrc + 1 /\ current' = [current EXCEPT !.retry = TRUE]
            /\ UNCHANGED failed
       ELSE slrc' = 0 /\ current' = None /\ failed' = failed \cup Packet(current)
    /\ UNCHANGED <<Queued, Manager, acked, wide, air, Channel, Recipient>>
    /\ RestartAccessIfNeeded

(* BlockAckTimeout and MissedBlockAck: the request is repeated without limit *)
MissedBlockAck ==
    /\ air = Silence /\ waiting = "blockack"
    /\ waiting' = "none"
    /\ slrc' = Min({slrc + 1, MaxSlrc})
    /\ UNCHANGED <<Queued, current, Manager, acked, failed, wide, air, Channel, Recipient>>
    /\ RestartAccessIfNeeded

(* CtrlBAckResponseHeader: 1 << index is an int, which the shift takes      *)
(* modulo its width and the assignment to the bitmap extends with its sign; *)
(* the bitmap itself is shifted modulo its own width when a bit is read     *)
IndexInBitmap(s, seq) == ((seq - s) % 4096) % 256
SetReceivedPacket(index) ==
    LET bit == index % Word IN IF bit = Word - 1 THEN bit .. 2 * Word - 1 ELSE {bit}
IsPacketReceived(ba, p) == IndexInBitmap(ba.start, Seq4096(p)) % (2 * Word) \in ba.bitmap

(* GotBlockAck and NotifyGotBlockAck *)
GotBlockAck ==
    /\ air.kind = "blockack" /\ waiting = "blockack"
    /\ air' = Silence /\ waiting' = "none" /\ current' = None
    /\ LET lost == Kept(buffer, {n \in DOMAIN buffer : ~IsPacketReceived(air, buffer[n])}) IN
       /\ buffer' = lost
       /\ retries' = retries \o lost
       /\ acked' = acked \cup (ToSet(buffer) \ ToSet(lost))
       /\ start' = IF lost # << >> THEN Seq4096(Head(lost))
                   ELSE IF EnoughFor(InQueue, lost) THEN Seq4096(taken + 1) ELSE start
       /\ agreement' = IF EnoughFor(InQueue, lost) THEN "ESTABLISHED" ELSE "INACTIVE"
       /\ sentMpdus' = IF EnoughFor(InQueue, lost) THEN sentMpdus ELSE 0
    /\ wide' = (wide \/ \E p \in ToSet(buffer) : IndexInBitmap(air.start, Seq4096(p)) >= Word)
    /\ UNCHANGED <<Queued, slrc, bars, failed, Channel, Recipient>>
    /\ RestartAccessIfNeeded

(* GotAddBaResponse and UpdateAgreement, of a response that always accepts *)
GotAddBaResponse ==
    /\ response /\ air = Silence /\ waiting = "none"
    /\ response' = FALSE
    /\ agreement' = IF agreement = "PENDING" THEN "ESTABLISHED" ELSE agreement
    /\ UNCHANGED <<Queued, current, waiting, slrc, start, sentMpdus, buffer, retries, bars,
                   acked, failed, wide, air, losses, unanswered, Recipient>>
    /\ RestartAccessIfNeeded

-----------------------------------------------------------------------------
(* The channel *)

Lose ==
    /\ air # Silence /\ losses < MaxLosses
    /\ losses' = losses + 1 /\ air' = Silence
    /\ unanswered' = unanswered \cup (IF air = Ack THEN Packet(current)
                                     ELSE IF air.kind = "blockack" THEN ToSet(buffer) ELSE {})
    /\ UNCHANGED <<Originator, response, Recipient>>

(* the response is given up after its retries *)
ResponseLost ==
    /\ response /\ losses < MaxLosses
    /\ losses' = losses + 1 /\ response' = FALSE
    /\ UNCHANGED <<Originator, air, unanswered, Recipient>>

-----------------------------------------------------------------------------
(* MacLow and MacRxMiddle at the recipient *)

(* MacRxMiddle::Receive of the frames es, one after the other: whether it  *)
(* is a duplicate or not, the number of each is the last one for the next   *)
HandUp(es) ==
    LET before(n) == IF n = 1 THEN last ELSE Seq4096(es[n - 1].packet)
        fresh == Kept(es, {n \in DOMAIN es :
                             ~(es[n].retry /\ before(n) = Seq4096(es[n].packet))})
    IN  /\ last' = IF es = << >> THEN last ELSE Seq4096(es[Len(es)].packet)
        /\ delivered' = delivered \o [n \in DOMAIN fresh |-> fresh[n].packet]

(* QosUtilsMapSeqControlToUniqueInteger *)
MapSeqControl(control, end) == ((4096 - (end + 1) + control \div 16) % 4096) * 16 + (control % 16)
EndSequence == (rStart + 2047) % 4096

LongestPrefix(es, good) == Max({n \in 0 .. Len(es) : 1 .. n \subseteq good})
Prefix(es, n) == SubSeq(es, 1, n)
Rest(es, n) == SubSeq(es, n + 1, Len(es))

(* StoreMpduIfNeeded: sorted, before one of the same number *)
StoreAtEnd(e) == Append(rBuffer, e)
Store(e) ==
    LET before == {i \in DOMAIN rBuffer :
                     MapSeqControl(16 * Seq4096(rBuffer[i].packet), EndSequence)
                       < MapSeqControl(16 * Seq4096(e.packet), EndSequence)}
        n == LongestPrefix(rBuffer, before)
    IN  Prefix(rBuffer, n) \o <<e>> \o Rest(rBuffer, n)

(* RxCompleteBufferedPacketsWithSmallerSequence: it maps sequence numbers    *)
(* as if they were sequence controls                                         *)
Smaller(es, s) ==
    LongestPrefix(es, {i \in DOMAIN es : MapSeqControl(Seq4096(es[i].packet), EndSequence)
                                           < MapSeqControl(s, EndSequence)})
OneEach(es) ==
    Kept(es, {i \in DOMAIN es : i = 1 \/ es[i - 1].packet # es[i].packet})

(* RxCompleteBufferedPackets: the run that begins at s *)
InSequence(es, s) ==
    LongestPrefix(es, {i \in DOMAIN es : Seq4096(es[i].packet) = (s + i - 1) % 4096})

(* both, from the buffer es and the start s; the start moves behind the run *)
Complete(es, s, from) ==
    \E k \in {Smaller(es, from)} : \E n \in {InSequence(Rest(es, k), s)} :
        /\ HandUp(OneEach(Prefix(es, k)) \o SubSeq(es, k + 1, k + n))
        /\ rStart' = (s + n) % 4096
        /\ rBuffer' = Rest(es, k + n)

Entry(f) == [packet |-> f.packet, retry |-> f.retry]

ReceiveData ==
    /\ air.kind = "data"
    /\ \/ /\ ~agreed
          /\ HandUp(<<Entry(air)>>)
          /\ UNCHANGED <<rStart, rBuffer>>
       \/ /\ agreed /\ ~air.block
          /\ \E es \in {Store(Entry(air))} : Complete(es, rStart, rStart)
       \/ /\ agreed /\ air.block
          /\ rBuffer' = Store(Entry(air))
          /\ UNCHANGED <<rStart, last, delivered>>
    /\ air' = IF air.block THEN Silence ELSE Ack
    /\ UNCHANGED <<Originator, Channel, agreed>>

(* FlywaysWifiMac::SendAddBaResponse and CreateBlockAckAgreement; a repeated *)
(* request is a duplicate for MacRxMiddle, and only acknowledged             *)
ReceiveAddBaRequest ==
    /\ air.kind = "addba"
    /\ agreed' = TRUE
    /\ rStart' = IF agreed THEN rStart ELSE air.start
    /\ response' = (response \/ ~agreed)
    /\ air' = Ack
    /\ UNCHANGED <<Originator, losses, unanswered, rBuffer, last, delivered>>

SendBlockAckAfterBlockAckRequest ==
    /\ air.kind = "bar"
    /\ Complete(rBuffer, air.start, air.start)
    /\ LET held == Rest(rBuffer, Smaller(rBuffer, air.start)) IN
       air' = [kind |-> "blockack", start |-> air.start,
               bitmap |-> UNION {SetReceivedPacket(IndexInBitmap(air.start, Seq4096(e.packet))) :
                                 e \in ToSet(held)}]
    /\ UNCHANGED <<Originator, Channel, agreed>>

-----------------------------------------------------------------------------
Answered == GotAck \/ MissedAck \/ GotBlockAck \/ MissedBlockAck
Receive == ReceiveData \/ ReceiveAddBaRequest \/ SendBlockAckAfterBlockAckRequest

Next == Queue \/ NotifyAccessGranted \/ Answered \/ GotAddBaResponse
        \/ Receive \/ Lose \/ ResponseLost

Spec == Init /\ [][Next]_vars

(* the medium is granted, timers expire, and frames arrive unless lost *)
FairSpec == /\ Spec
            /\ WF_vars(NotifyAccessGranted) /\ WF_vars(Answered)
            /\ WF_vars(Receive \/ Lose) /\ WF_vars(GotAddBaResponse \/ ResponseLost)

-----------------------------------------------------------------------------
Packets == 1 .. accepted
SequenceNumbers == 0 .. 4095
Increasing(s) == \A i \in 1 .. Len(s) - 1 : s[i] < s[i + 1]

(* The types, and the one BlockAckReq that is ever scheduled. *)
TypeOK ==
    /\ taken \in 0 .. accepted /\ requested \in BOOLEAN
    /\ current.kind \in {"none", "data", "addba", "bar"}
    /\ current.kind = "data" => current \in [kind: {"data"}, packet: Packets, retry: BOOLEAN,
                                             block: {FALSE}]
    /\ waiting \in {"none", "ack", "blockack"} /\ slrc \in 0 .. MaxSlrc
    /\ agreement \in {"none", "PENDING", "ESTABLISHED", "INACTIVE"}
    /\ start \in SequenceNumbers /\ rStart \in SequenceNumbers /\ last \in SequenceNumbers
    /\ Len(bars) <= 1
    /\ \A e \in ToSet(rBuffer) : e.packet \in Packets
    /\ acked \cup failed \subseteq Packets /\ ToSet(delivered) \subseteq Packets

(* The lists of the manager stay sound over any sequence of block acks,      *)
(* switches between the two ack policies and losses: every iterator on the   *)
(* retry list points into the agreement's packets, none twice; a packet is   *)
(* kept once and in order, and never after the originator is done with it or *)
(* sends it under normal acknowledgement; NotifyMpduTransmission's assertion *)
(* holds; and packets sent and not reported on either have a BlockAckReq     *)
(* scheduled, or there is something left to send, after which                *)
(* ScheduleBlockAckReqIfNeeded looks again.                                  *)
ListsSound ==
    /\ TypeOK
    /\ Increasing(buffer) /\ Increasing(retries)
    /\ ToSet(retries) \subseteq ToSet(buffer)
    /\ ToSet(buffer) \cap (acked \cup failed \cup Packet(current)) = {}
    /\ sentMpdus < BufferSize
    /\ ToSet(buffer) # ToSet(retries) =>
         bars # << >> \/ current.kind = "bar" \/ retries # << >> \/ InQueue > 0

(* what arrived, whether it was handed up or waits *)
PacketsOf(es) == {es[n].packet : n \in DOMAIN es}
Buffered == PacketsOf(rBuffer)
Arrived == Buffered \cup ToSet(delivered)

(* but for packets whose answer was lost, each is handed up once and in order *)
Ascending == \A i, j \in 1 .. Len(delivered) :
    i < j /\ {delivered[i], delivered[j]} \cap unanswered = {} => delivered[i] < delivered[j]

(* Unless a block ack spans more packets than an int has bits, the recipient *)
(* hands packets up once and in order, but for those whose ACK or block ack  *)
(* was lost; and the packets the originator counts as acknowledged have      *)
(* arrived: they were handed up or wait in the reordering buffer.  This is   *)
(* said of sequence numbers below 2048: where they wrap around, packets come *)
(* out of order (mac-low.cc:1592 maps numbers as if they were controls).     *)
HandedUpOnce == ~wide => Ascending /\ acked \subseteq Arrived

Settled(p) == taken >= p /\ p \notin ToSet(buffer) /\ p \notin Packet(current)

(* Once no more packets arrive, every packet queued leaves the originator,   *)
(* sent or given up, unless the agreement was asked for and never answered:  *)
(* then it and all after it stay blocked.  (While packets keep arriving so   *)
(* that the queue never runs dry, no BlockAckReq is scheduled and no packet  *)
(* sent under block ack is settled: EdcaTxopN asks only when it has nothing  *)
(* left to send.)                                                            *)
Resolved ==
    \/ <>[](agreement = "PENDING")
    \/ \A p \in 1 .. MaxPackets : accepted >= p ~> Settled(p)

-----------------------------------------------------------------------------
(* The inductive invariant *)

Entries == [packet : Packets, retry : BOOLEAN]
Ordered(s) == \A i, j \in 1 .. Len(s) : i < j => s[i] < s[j]
BarPending == bars # << >> \/ current.kind = "bar"

OriginatorInv ==
    /\ accepted \in Nat /\ taken \in 0 .. accepted /\ requested \in BOOLEAN
    /\ slrc \in 0 .. MaxSlrc /\ start \in SequenceNumbers /\ sentMpdus \in Nat
    /\ agreement \in {"none", "PENDING", "ESTABLISHED", "INACTIVE"}
    /\ buffer \in Seq(1 .. taken) /\ retries \in Seq(1 .. taken)
    /\ acked \cup failed \cup Packet(current) \subseteq 1 .. taken

(* an answer is awaited only for the frame kept, and no BlockAckReq is due meanwhile *)
CurrentInv ==
    /\ \/ current = None
       \/ current \in [kind : {"data"}, packet : Packets, retry : BOOLEAN, block : {FALSE}]
       \/ current \in [kind : {"addba"}, start : SequenceNumbers, retry : BOOLEAN]
       \/ current \in [kind : {"bar"}, start : SequenceNumbers]
    /\ waiting \in {"none", "ack", "blockack"}
    /\ waiting = "ack" => current.kind \in {"data", "addba"}
    /\ waiting = "blockack" => current.kind = "bar"
    /\ bars \in Seq(SequenceNumbers) /\ Len(bars) <= 1
    /\ bars # << >> => current = None /\ waiting = "none"

AirInv ==
    \/ air.kind \in {"none", "ack", "blockack"}
    \/ air \in [kind : {"data"}, packet : Packets, retry : BOOLEAN, block : BOOLEAN]
    \/ air \in [kind : {"addba"}, start : SequenceNumbers, retry : BOOLEAN]
    \/ air \in [kind : {"bar"}, start : SequenceNumbers]

RecipientInv ==
    /\ rStart \in SequenceNumbers /\ last \in SequenceNumbers
    /\ rBuffer \in Seq(Entries) /\ delivered \in Seq(Packets)

(* the packets still to be sent again are the last of the agreement's, after  *)
(* those sent since the last block ack; while a BlockAckReq is due or         *)
(* unanswered there are none                                                  *)
Sent == Len(buffer) - Len(retries)
ManagerInv ==
    /\ Ordered(buffer) /\ sentMpdus < BufferSize \div 2
    /\ ToSet(buffer) \cap (acked \cup failed \cup Packet(current)) = {}
    /\ Len(retries) <= Len(buffer)
    /\ \A n \in 1 .. Len(retries) : retries[n] = buffer[Sent + n]
    /\ IF BarPending THEN retries = << >>
       ELSE Sent # 0 => retries # << >> \/ InQueue > 0
    /\ agreement \in {"none", "PENDING"} => buffer = << >>
    /\ agreement # "ESTABLISHED" => ~BarPending /\ Sent = 0

IInv == OriginatorInv /\ CurrentInv /\ AirInv /\ RecipientInv /\ ManagerInv

-----------------------------------------------------------------------------
(* What the two sides know of each other: the invariant of HandedUpOnce,     *)
(* while the sequence numbers stay in the lower half of their space          *)

HalfSpace == First + MaxPackets <= 2048 /\ Word < 256

(* the first packet that is not settled, where the agreement's window starts *)
FirstDue == IF buffer = << >> THEN taken + 1 ELSE buffer[1]

(* what the recipient holds is of an agreement, and the originator's starts there *)
AgreementInv ==
    /\ accepted <= MaxPackets
    /\ agreement \in {"ESTABLISHED", "INACTIVE"} \/ response => agreed
    /\ ~agreed => rBuffer = << >>
    /\ agreement \in {"PENDING", "ESTABLISHED"} => start = Seq4096(FirstDue)
    /\ BarPending => buffer # << >>

(* the frame kept is one the agreement allows, with the agreement's start *)
RequestInv ==
    /\ bars # << >> => bars[1] = start
    /\ current.kind = "bar" => current.start = start
    /\ current.kind = "addba" => /\ agreement \in {"PENDING", "ESTABLISHED"} /\ buffer = << >>
                                 /\ current.start = start
    /\ current.kind = "data" => agreement \in {"none", "INACTIVE"}

(* the frame on the air is the one kept, an MPDU under block ack, or an answer *)
FrameInv ==
    /\ air.kind \in {"addba", "bar"} => air = current
    /\ air.kind = "data" =>
         IF air.block THEN /\ current = None /\ agreement = "ESTABLISHED"
                           /\ air.packet \in ToSet(buffer) \ ToSet(retries)
                      ELSE air = current
    /\ air.kind = "blockack" => current.kind = "bar" /\ air.start = start

SessionInv == AgreementInv /\ RequestInv /\ FrameInv

(* packets taken since are kept in the agreement's buffer, unless a block ack *)
(* settled them: then they are within Word of the first that it did not       *)
WindowInv ==
    \A q \in FirstDue .. taken : q \in ToSet(buffer) \/ q < FirstDue + Word

(* packets that the originator may count as acknowledged; those it may send, *)
(* once more or for the first time, however the exchange ends; and those of  *)
(* them that may arrive before it ends                                       *)
Future == {p \in 1 .. MaxPackets : p > taken}
Repeatable == IF air = Ack THEN {} ELSE Packet(current)
WideAnswer == \E p \in ToSet(buffer) : IndexInBitmap(air.start, Seq4096(p)) >= Word
Answering == air.kind = "blockack"
Unreported == {p \in ToSet(buffer) : Answering => ~WideAnswer /\ ~IsPacketReceived(air, p)}
Claimed == acked \cup (IF air = Ack THEN Packet(current) ELSE {})
                 \cup (IF Answering /\ ~WideAnswer THEN ToSet(buffer) \ Unreported ELSE {})
Owed == Future \cup Repeatable \cup Unreported
Coming == Future \cup Repeatable \cup Packet(air)
                \cup (IF Answering THEN Unreported ELSE ToSet(retries))

(* es comes in order, and only a packet whose answer was lost comes again *)
InOrder(es) == \A i, j \in 1 .. Len(es) :
    i < j => \/ es[i].packet < es[j].packet
             \/ es[i].packet = es[j].packet /\ es[i].packet \in unanswered

(* but for those, what was handed up comes before the packets ps *)
HandedUpBefore(ps) == \A i \in 1 .. Len(delivered), p \in ps :
    {delivered[i], p} \cap unanswered = {} => delivered[i] < p

(* a frame that MacRxMiddle takes for a duplicate was handed up *)
LastHanded == \A p \in 1 .. MaxPackets : last = Seq4096(p) => p \in ToSet(delivered)

(* in order, what was handed up, then what waits, then what is owed *)
DeliveryInv ==
    /\ Ascending /\ InOrder(rBuffer) /\ HandedUpBefore(Buffered) /\ HandedUpBefore(Owed)
    /\ agreed => \A p \in Owed \ unanswered : rStart <= Seq4096(p)
    /\ Coming \cap Buffered \subseteq unanswered
    /\ Claimed \subseteq Arrived
    /\ Buffered \subseteq 1 .. taken
    /\ LastHanded
    /\ rStart <= First + MaxPackets

OnceInv == SessionInv /\ (~wide => WindowInv /\ DeliveryInv)
===============================================================================
